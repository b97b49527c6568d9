----------------------------- MODULE Dictionary -----------------------------
(***************************************************************************)
(* The function dictionary of a trace (recorder/dictionary.rs, with the    *)
(* two key types of recorder/types.rs): an intern map probed by the hash   *)
(* of a borrowed key, and the entries to announce.                         *)
(***************************************************************************)
EXTENDS CallSite

CONSTANT FxHash(_)  \* FxBuildHasher on what a key writes to the hasher

DICT_ENTRY_FIXED_BYTES  == 24
CALL_RECORD_FIXED_BYTES == 64

\* Dictionary::new
NewDictionary == [intern |-> {}, new_entries |-> <<>>, next_fn_id |-> 1]

\* impl Hash for FunctionKeyRef
WritesOfRef(ref) ==
    CASE ref.variant = "Function" -> <<0, ref.file, ref.function, ref.line>>
      [] ref.variant = "Method"   -> <<1, ref.class, ref.method>>
      [] ref.variant = "Closure"  -> <<2, ref.file, ref.line>>
      [] ref.variant = "Internal" -> <<3, ref.name>>

\* impl Hash for FunctionKey
WritesOfKey(key) ==
    CASE key.variant = "Function" -> <<0, key.file, key.function, key.line>>
      [] key.variant = "Method"   -> <<1, key.class, key.method>>
      [] key.variant = "Closure"  -> <<2, key.file, key.line>>
      [] key.variant = "Internal" -> <<3, key.name>>

\* Mutant: functions of one place are not told apart.
MatchesWithoutName(key, ref) ==
    /\ key.variant = ref.variant
    /\ key.variant = "Function" => key.file = ref.file /\ key.line = ref.line
    /\ key.variant # "Function" => key = ref

matches_ref(key, ref) ==
    \/ /\ key.variant = "Function" /\ ref.variant = "Function"
       /\ key.file = ref.file /\ key.function = ref.function /\ key.line = ref.line
    \/ /\ key.variant = "Method" /\ ref.variant = "Method"
       /\ key.class = ref.class /\ key.method = ref.method
    \/ /\ key.variant = "Closure" /\ ref.variant = "Closure"
       /\ key.file = ref.file /\ key.line = ref.line
    \/ /\ key.variant = "Internal" /\ ref.variant = "Internal"
       /\ key.name = ref.name

\* raw_entry().from_hash: only a key of the same hash is compared.
Probe(dictionary, ref) ==
    {slot \in dictionary.intern : /\ FxHash(WritesOfKey(slot.key)) = FxHash(WritesOfRef(ref))
                                  /\ matches_ref(slot.key, ref)}

contains_key_ref(dictionary, ref) == Probe(dictionary, ref) # {}

FnIdOf(slots) == (CHOOSE slot \in slots : TRUE).fn_id

\* A miss: the next fn_id, and an entry to announce.
Insert(dictionary, key, entry) ==
    [dictionary |-> [intern |-> dictionary.intern \cup {[key |-> key, fn_id |-> entry.fn_id]},
                     new_entries |-> Append(dictionary.new_entries, entry),
                     next_fn_id |-> dictionary.next_fn_id + 1],
     fn_id |-> entry.fn_id]

\* built is the entry that the caller's closure makes of the next fn_id.
intern_ref(dictionary, ref, built) ==
    IF contains_key_ref(dictionary, ref)
    THEN [dictionary |-> dictionary, fn_id |-> FnIdOf(Probe(dictionary, ref))]
    ELSE Insert(dictionary, ref, built)

\* With an owning key: an ordinary lookup.  Tests and benches only.
intern(dictionary, key, built) ==
    LET known == {slot \in dictionary.intern : slot.key = key}
    IN  IF known # {} THEN [dictionary |-> dictionary, fn_id |-> FnIdOf(known)]
        ELSE Insert(dictionary, key, built)

\* What the cap gate expects an accepted begin to cost.
WouldAdd(dictionary, lazy) ==
    IF contains_key_ref(dictionary, lazy.key_ref) THEN CALL_RECORD_FIXED_BYTES
    ELSE CALL_RECORD_FIXED_BYTES + DICT_ENTRY_FIXED_BYTES
         + render_len(lazy.fqn_spec) + TextLen(lazy.file)

DictEntry(fn_id, lazy) ==
    [fn_id |-> fn_id, fqn |-> render(lazy.fqn_spec), file |-> lazy.file,
     line |-> lazy.line, kind |-> lazy.kind]

\* With the bytes billed for the entry of a miss.
push_dict_entry_via_intern_ref(dictionary, lazy) ==
    LET entry    == DictEntry(dictionary.next_fn_id, lazy)
        interned == intern_ref(dictionary, lazy.key_ref, entry)
    IN [fn_id |-> interned.fn_id, dictionary |-> interned.dictionary,
        billed |-> IF interned.dictionary = dictionary THEN 0
                   ELSE DICT_ENTRY_FIXED_BYTES + TextLen(entry.fqn) + TextLen(entry.file)]

=============================================================================
