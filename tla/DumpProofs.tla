------------------------------ MODULE DumpProofs -----------------------------
(***************************************************************************)
(* Theorems about TraceDump: what a reader of the dump finds in it.  The   *)
(* dump rides on the recorder's steps, so all that is proved of Recorder   *)
(* holds here, and the invariant only ties the lines to the history.       *)
(***************************************************************************)
EXTENDS TraceDump, LedgerProofs

-----------------------------------------------------------------------------
(* Reading: the lines of a kind, as the flattening of one piece per line.  *)

Triggers == {"rshutdown", "records", "bytes"}

DictLine == [line : {"D"}, entry : DictEntries]
CallLine == [line : {"C"}, call : Records]
FlushLine == [line : {"F"}, record_count : Nat, estimated_bytes : Nat, trigger : Triggers]
DropLine == [line : {"DROP"}, dropped_records : Nat]
MarkerLine == [line : {"RSHUTDOWN"}, trace_id : Requests]

Kinds == {"D", "C", "F", "DROP", "RSHUTDOWN"}

LinesOf(kind) ==
    CASE kind = "D" -> DictLine
      [] kind = "C" -> CallLine
      [] kind = "F" -> FlushLine
      [] kind = "DROP" -> DropLine
      [] kind = "RSHUTDOWN" -> MarkerLine

Lines == UNION {LinesOf(kind) : kind \in Kinds}

LEMMA LinesAre ==
    \A kind \in Kinds : /\ LinesOf(kind) \subseteq Lines
                        /\ \A l \in Lines : l.line = kind <=> l \in LinesOf(kind)
  <1>1. \A kind \in Kinds : LinesOf(kind) \subseteq Lines
    BY DEF Lines
  <1>2. \A kind \in Kinds : \A l \in LinesOf(kind) : l.line = kind
    BY DEF Kinds, LinesOf, DictLine, CallLine, FlushLine, DropLine, MarkerLine
  <1>3. \A l \in Lines : \E kind \in Kinds : l \in LinesOf(kind)
    BY DEF Lines
  <1>. QED  BY <1>1, <1>2, <1>3

Piece(kind) == [l \in Lines |-> IF l.line = kind THEN <<l>> ELSE <<>>]

LEMMA PieceMaps ==
    ASSUME NEW kind \in Kinds
    PROVE  Maps(Piece(kind), Lines, Seq(LinesOf(kind)))
  <1>1. ASSUME NEW l \in Lines
        PROVE  (IF l.line = kind THEN <<l>> ELSE <<>>) \in Seq(LinesOf(kind))
    <2>1. CASE l.line = kind
      <3>1. l \in LinesOf(kind)
        BY <2>1, LinesAre
      <3>. QED  BY <2>1, <3>1
    <2>2. CASE l.line # kind
      BY <2>2
    <2>. QED  BY <2>1, <2>2
  <1>. QED  BY <1>1 DEF Piece, Maps

LEMMA MatchingIs ==
    ASSUME NEW lines \in Seq(Lines), NEW kind \in Kinds
    PROVE  /\ Mapped(Piece(kind), lines) \in Seq(Seq(LinesOf(kind)))
           /\ Matching(lines, kind) = FlattenSeq(Mapped(Piece(kind), lines))
           /\ Matching(lines, kind) \in Seq(LinesOf(kind))
  <1>1. DOMAIN lines = 1..Len(lines) /\ \A i \in 1..Len(lines) : lines[i] \in Lines
    BY LenProperties, ElementOfSeq
  <1>2. Mapped(Piece(kind), lines) \in Seq(Seq(LinesOf(kind)))
    BY PieceMaps, MappedAre
  <1>3. Matching(lines, kind) = FlattenSeq(Mapped(Piece(kind), lines))
    <2>1. \A i \in DOMAIN lines :
            Piece(kind)[lines[i]] = IF lines[i].line = kind THEN <<lines[i]>> ELSE <<>>
      BY <1>1 DEF Piece
    <2>2. [i \in DOMAIN lines |-> IF lines[i].line = kind THEN <<lines[i]>> ELSE <<>>]
            = [i \in DOMAIN lines |-> Piece(kind)[lines[i]]]
      BY <2>1
    <2>. QED  BY <2>2, Zenon DEF Matching, Mapped
  <1>. QED  BY <1>2, <1>3, FlattenTyped

\* A reader finds the lines of a longer file after those of the shorter one.
LEMMA MatchingJoin ==
    ASSUME NEW a \in Seq(Lines), NEW b \in Seq(Lines), NEW kind \in Kinds
    PROVE  Matching(Concat(a, b), kind) = Concat(Matching(a, kind), Matching(b, kind))
  <1>1. Concat(a, b) \in Seq(Lines)
    BY JoinTyped
  <1>2. /\ Matching(Concat(a, b), kind) = FlattenSeq(Mapped(Piece(kind), Concat(a, b)))
        /\ Matching(a, kind) = FlattenSeq(Mapped(Piece(kind), a))
        /\ Matching(b, kind) = FlattenSeq(Mapped(Piece(kind), b))
        /\ Mapped(Piece(kind), a) \in Seq(Seq(LinesOf(kind)))
        /\ Mapped(Piece(kind), b) \in Seq(Seq(LinesOf(kind)))
    BY <1>1, MatchingIs
  <1>3. Mapped(Piece(kind), Concat(a, b)) = Concat(Mapped(Piece(kind), a), Mapped(Piece(kind), b))
    BY PieceMaps, MappedJoin
  <1>4. FlattenSeq(Concat(Mapped(Piece(kind), a), Mapped(Piece(kind), b)))
            = Concat(FlattenSeq(Mapped(Piece(kind), a)), FlattenSeq(Mapped(Piece(kind), b)))
    BY <1>2, FlattenJoin
  <1>. QED  BY <1>2, <1>3, <1>4, Zenon

LEMMA MatchingNothing ==
    ASSUME NEW kind
    PROVE  Matching(<<>>, kind) = <<>>
  BY FlattenNothing DEF Matching

LEMMA MatchingOne ==
    ASSUME NEW l \in Lines, NEW kind \in Kinds
    PROVE  Matching(<<l>>, kind) = IF l.line = kind THEN <<l>> ELSE <<>>
  <1>. DEFINE p == IF l.line = kind THEN <<l>> ELSE <<>>
  <1>1. p \in Seq(LinesOf(kind))
    BY PieceMaps DEF Piece, Maps
  <1>2. <<l>> \in Seq(Lines) /\ Matching(<<l>>, kind) = FlattenSeq(Mapped(Piece(kind), <<l>>))
    <2>1. <<l>> \in Seq(Lines)
      OBVIOUS
    <2>. QED  BY <2>1, MatchingIs
  <1>3. Mapped(Piece(kind), <<l>>) = <<p>>
    BY DEF Mapped, Piece
  <1>. HIDE DEF p
  <1>4. <<p>> = Append(<<>>, p) /\ <<>> \in Seq(Seq(LinesOf(kind)))
    OBVIOUS
  <1>5. FlattenSeq(Append(<<>>, p)) = FlattenSeq(<<>>) \o p
    BY <1>1, <1>4, FlattenAppend
  <1>6. <<>> \o p = p
    BY <1>1, ConcatEmptySeq
  <1>. QED  BY <1>2, <1>3, <1>4, <1>5, <1>6, FlattenNothing, Zenon DEF p

\* Lines of one kind are all found by a search for it, and none by another.
LEMMA MatchingUniform ==
    ASSUME NEW kind \in Kinds, NEW lines \in Seq(LinesOf(kind)), NEW sought \in Kinds
    PROVE  Matching(lines, sought) = IF sought = kind THEN lines ELSE <<>>
  <1>. DEFINE P == {n \in Nat : \A s \in Seq(LinesOf(kind)) : Len(s) = n =>
                                    Matching(s, sought) = IF sought = kind THEN s ELSE <<>>}
  <1>1. 0 \in P
    <2>1. ASSUME NEW s \in Seq(LinesOf(kind)), Len(s) = 0
          PROVE  s = <<>>
      BY <2>1, EmptySeq
    <2>. QED  BY <2>1, MatchingNothing
  <1>2. ASSUME NEW n \in Nat, n \in P
        PROVE  n + 1 \in P
    <2>1. ASSUME NEW s \in Seq(LinesOf(kind)), Len(s) = n + 1
          PROVE  Matching(s, sought) = IF sought = kind THEN s ELSE <<>>
      <3>1. s # <<>>
        BY <1>2, <2>1, EmptySeq
      <3>2. PICK v \in Seq(LinesOf(kind)), l \in LinesOf(kind) : s = Append(v, l)
        BY <3>1, SequenceEmptyOrAppend
      <3>3. Len(v) = n
        <4>1. Len(s) = Len(v) + 1 /\ Len(v) \in Nat
          BY <3>2, AppendProperties, LenProperties
        <4>. QED  BY <1>2, <2>1, <4>1
      <3>4. Matching(v, sought) = IF sought = kind THEN v ELSE <<>>
        BY <1>2, <3>3
      <3>5. l \in Lines /\ l.line = kind /\ v \in Seq(Lines) /\ <<l>> \in Seq(Lines)
        BY LinesAre, SeqMonotonic
      <3>6. Matching(<<l>>, sought) = IF sought = kind THEN <<l>> ELSE <<>>
        BY <3>5, MatchingOne
      <3>7. s = Concat(v, <<l>>)
        BY <3>2, JoinFacts
      <3>8. Matching(s, sought) = Concat(Matching(v, sought), Matching(<<l>>, sought))
        BY <3>5, <3>7, MatchingJoin
      <3>9. Concat(<<>>, <<>>) = <<>>
        BY JoinFacts, EmptySeq
      <3>. QED  BY <3>4, <3>6, <3>7, <3>8, <3>9, Zenon
    <2>. QED  BY <1>2, <2>1
  <1>. HIDE DEF P
  <1>3. Len(lines) \in P
    BY <1>1, <1>2, SetInduction, LenProperties
  <1>. QED  BY <1>3 DEF P

-----------------------------------------------------------------------------
(* What a piece of the file says, kind by kind.                            *)

EntryField == [l \in DictLine |-> l.entry]
CallField == [l \in CallLine |-> l.call]
DroppedField == [l \in DropLine |-> l.dropped_records]

LEMMA FieldMaps ==
    /\ Maps(EntryField, LinesOf("D"), DictEntries)
    /\ Maps(CallField, LinesOf("C"), Records)
    /\ Maps(DroppedField, LinesOf("DROP"), Nat)
  BY DEF Maps, EntryField, CallField, DroppedField, LinesOf, DictLine, CallLine, DropLine

\* A reader finds these entries, calls, flushes, counts and markers.
Reads(lines, entries, calls, flushes, drops, markers) ==
    /\ lines \in Seq(Lines)
    /\ Mapped(EntryField, Matching(lines, "D")) = entries
    /\ Mapped(CallField, Matching(lines, "C")) = calls
    /\ Matching(lines, "F") = flushes
    /\ Matching(lines, "DROP") = drops
    /\ Matching(lines, "RSHUTDOWN") = markers

LEMMA ReadsNothing == Reads(<<>>, <<>>, <<>>, <<>>, <<>>, <<>>)
  <1>1. Mapped(EntryField, <<>>) = <<>> /\ Mapped(CallField, <<>>) = <<>>
    BY DEF Mapped
  <1>2. <<>> \in Seq(Lines)
    OBVIOUS
  <1>. QED  BY <1>1, <1>2, MatchingNothing, Zenon DEF Reads

LEMMA ReadsJoin ==
    ASSUME NEW a, NEW d1, NEW c1, NEW f1, NEW r1, NEW m1, Reads(a, d1, c1, f1, r1, m1),
           NEW b, NEW d2, NEW c2, NEW f2, NEW r2, NEW m2, Reads(b, d2, c2, f2, r2, m2)
    PROVE  Reads(Concat(a, b), Concat(d1, d2), Concat(c1, c2), Concat(f1, f2), Concat(r1, r2), Concat(m1, m2))
  <1>1. a \in Seq(Lines) /\ b \in Seq(Lines) /\ Concat(a, b) \in Seq(Lines)
    BY JoinTyped DEF Reads
  <1>2. \A kind \in Kinds : /\ Matching(Concat(a, b), kind) = Concat(Matching(a, kind), Matching(b, kind))
                            /\ Matching(a, kind) \in Seq(LinesOf(kind))
                            /\ Matching(b, kind) \in Seq(LinesOf(kind))
    BY <1>1, MatchingIs, MatchingJoin
  <1>3. "D" \in Kinds /\ "C" \in Kinds /\ "F" \in Kinds /\ "DROP" \in Kinds /\ "RSHUTDOWN" \in Kinds
    BY DEF Kinds
  <1>4. Mapped(EntryField, Concat(Matching(a, "D"), Matching(b, "D")))
            = Concat(Mapped(EntryField, Matching(a, "D")), Mapped(EntryField, Matching(b, "D")))
    BY <1>2, <1>3, FieldMaps, MappedJoin
  <1>5. Mapped(CallField, Concat(Matching(a, "C"), Matching(b, "C")))
            = Concat(Mapped(CallField, Matching(a, "C")), Mapped(CallField, Matching(b, "C")))
    BY <1>2, <1>3, FieldMaps, MappedJoin
  <1>. QED  BY <1>1, <1>2, <1>3, <1>4, <1>5, Zenon DEF Reads

LEMMA JoinNothing ==
    ASSUME NEW S, NEW s \in Seq(S)
    PROVE  Concat(s, <<>>) = s /\ Concat(<<>>, s) = s
  BY JoinFacts

\* The lines of a batch.
FLine(batch) == [line |-> "F", record_count |-> Len(batch.calls),
                 estimated_bytes |-> batch.size_estimate, trigger |-> Trigger(batch)]

LEMMA DictLinesRead ==
    ASSUME NEW entries \in Seq(DictEntries)
    PROVE  Reads(DictLines(entries), entries, <<>>, <<>>, <<>>, <<>>)
  <1>. DEFINE lines == DictLines(entries)
  <1>1. /\ Len(entries) \in Nat /\ DOMAIN entries = 1..Len(entries)
        /\ \A i \in 1..Len(entries) : entries[i] \in DictEntries
    BY LenProperties, ElementOfSeq
  <1>2. lines \in [1..Len(entries) -> LinesOf("D")]
        /\ \A i \in 1..Len(entries) : EntryField[lines[i]] = entries[i]
    BY <1>1 DEF DictLines, LinesOf, DictLine, EntryField
  <1>3. lines \in Seq(LinesOf("D")) /\ Len(lines) = Len(entries)
    BY <1>1, <1>2, FunctionIsSeq
  <1>. HIDE DEF lines
  <1>4. "D" \in Kinds /\ "C" \in Kinds /\ "F" \in Kinds /\ "DROP" \in Kinds /\ "RSHUTDOWN" \in Kinds
    BY DEF Kinds
  <1>5. /\ Matching(lines, "D") = lines /\ Matching(lines, "C") = <<>> /\ Matching(lines, "F") = <<>>
        /\ Matching(lines, "DROP") = <<>> /\ Matching(lines, "RSHUTDOWN") = <<>>
    BY <1>3, <1>4, MatchingUniform
  <1>6. Mapped(EntryField, lines) = entries
    <2>1. /\ Mapped(EntryField, lines) \in Seq(DictEntries)
          /\ Len(Mapped(EntryField, lines)) = Len(lines)
          /\ \A i \in 1..Len(lines) : Mapped(EntryField, lines)[i] = EntryField[lines[i]]
      BY <1>3, FieldMaps, MappedAre
    <2>. QED  BY <1>2, <1>3, <2>1, SameSequence
  <1>7. Mapped(CallField, <<>>) = <<>>
    BY DEF Mapped
  <1>8. lines \in Seq(Lines)
    BY <1>3, <1>4, LinesAre, SeqMonotonic
  <1>. QED  BY <1>5, <1>6, <1>7, <1>8, Zenon DEF Reads, lines

LEMMA CallLinesRead ==
    ASSUME NEW calls \in Seq(Records)
    PROVE  Reads(CallLines(calls), <<>>, calls, <<>>, <<>>, <<>>)
  <1>. DEFINE lines == CallLines(calls)
  <1>1. /\ Len(calls) \in Nat /\ DOMAIN calls = 1..Len(calls)
        /\ \A i \in 1..Len(calls) : calls[i] \in Records
    BY LenProperties, ElementOfSeq
  <1>2. lines \in [1..Len(calls) -> LinesOf("C")]
        /\ \A i \in 1..Len(calls) : CallField[lines[i]] = calls[i]
    BY <1>1 DEF CallLines, LinesOf, CallLine, CallField
  <1>3. lines \in Seq(LinesOf("C")) /\ Len(lines) = Len(calls)
    BY <1>1, <1>2, FunctionIsSeq
  <1>. HIDE DEF lines
  <1>4. "D" \in Kinds /\ "C" \in Kinds /\ "F" \in Kinds /\ "DROP" \in Kinds /\ "RSHUTDOWN" \in Kinds
    BY DEF Kinds
  <1>5. /\ Matching(lines, "D") = <<>> /\ Matching(lines, "C") = lines /\ Matching(lines, "F") = <<>>
        /\ Matching(lines, "DROP") = <<>> /\ Matching(lines, "RSHUTDOWN") = <<>>
    BY <1>3, <1>4, MatchingUniform
  <1>6. Mapped(CallField, lines) = calls
    <2>1. /\ Mapped(CallField, lines) \in Seq(Records)
          /\ Len(Mapped(CallField, lines)) = Len(lines)
          /\ \A i \in 1..Len(lines) : Mapped(CallField, lines)[i] = CallField[lines[i]]
      BY <1>3, FieldMaps, MappedAre
    <2>. QED  BY <1>2, <1>3, <2>1, SameSequence
  <1>7. Mapped(EntryField, <<>>) = <<>>
    BY DEF Mapped
  <1>8. lines \in Seq(Lines)
    BY <1>3, <1>4, LinesAre, SeqMonotonic
  <1>. QED  BY <1>5, <1>6, <1>7, <1>8, Zenon DEF Reads, lines

\* A single line that holds no entry and no call.
LEMMA OneLineRead ==
    ASSUME NEW kind \in {"F", "DROP", "RSHUTDOWN"}, NEW l \in LinesOf(kind)
    PROVE  Reads(<<l>>, <<>>, <<>>,
                 IF kind = "F" THEN <<l>> ELSE <<>>,
                 IF kind = "DROP" THEN <<l>> ELSE <<>>,
                 IF kind = "RSHUTDOWN" THEN <<l>> ELSE <<>>)
  <1>1. /\ kind \in Kinds /\ kind # "D" /\ kind # "C"
        /\ "D" \in Kinds /\ "C" \in Kinds /\ "F" \in Kinds /\ "DROP" \in Kinds /\ "RSHUTDOWN" \in Kinds
    BY DEF Kinds
  <1>2. l \in Lines /\ l.line = kind
    BY <1>1, LinesAre
  <1>3. \A sought \in Kinds : Matching(<<l>>, sought) = IF sought = kind THEN <<l>> ELSE <<>>
    BY <1>2, MatchingOne
  <1>4. Mapped(EntryField, <<>>) = <<>> /\ Mapped(CallField, <<>>) = <<>>
    BY DEF Mapped
  <1>5. <<l>> \in Seq(Lines)
    BY <1>2
  <1>. QED  BY <1>1, <1>3, <1>4, <1>5, Zenon DEF Reads

LEMMA BlockRead ==
    ASSUME NEW batch \in Batches
    PROVE  Reads(FlushBlock(batch), batch.dict, batch.calls, <<FLine(batch)>>, <<>>, <<>>)
  <1>. DEFINE l == FLine(batch)
  <1>1. batch.dict \in Seq(DictEntries) /\ batch.calls \in Seq(Records) /\ batch.size_estimate \in Nat
    BY DEF Batches
  <1>2. l \in LinesOf("F")
    <2>1. Trigger(batch) \in Triggers
      BY DEF Trigger, Triggers
    <2>. QED  BY <1>1, <2>1, LenProperties DEF FLine, LinesOf, FlushLine
  <1>. HIDE DEF l
  <1>3. Reads(<<l>>, <<>>, <<>>, <<l>>, <<>>, <<>>)
    BY <1>2, OneLineRead
  <1>4. Reads(DictLines(batch.dict), batch.dict, <<>>, <<>>, <<>>, <<>>)
    BY <1>1, DictLinesRead
  <1>5. Reads(CallLines(batch.calls), <<>>, batch.calls, <<>>, <<>>, <<>>)
    BY <1>1, CallLinesRead
  <1>6. /\ Concat(batch.dict, <<>>) = batch.dict /\ Concat(<<>>, batch.dict) = batch.dict
        /\ Concat(<<>>, batch.calls) = batch.calls
    BY <1>1, JoinNothing
  <1>7. Concat(<<l>>, <<>>) = <<l>> /\ Concat(<<>>, <<>>) = <<>>
    <2>1. <<l>> \in Seq({l}) /\ <<>> \in Seq({l})
      OBVIOUS
    <2>. QED  BY <2>1, JoinNothing
  <1>8. Reads(Concat(<<l>>, DictLines(batch.dict)), batch.dict, <<>>, <<l>>, <<>>, <<>>)
    <2>1. Reads(Concat(<<l>>, DictLines(batch.dict)), Concat(<<>>, batch.dict), Concat(<<>>, <<>>),
                Concat(<<l>>, <<>>), Concat(<<>>, <<>>), Concat(<<>>, <<>>))
      BY <1>3, <1>4, ReadsJoin
    <2>. QED  BY <1>6, <1>7, <2>1, Zenon
  <1>9. Reads(Concat(Concat(<<l>>, DictLines(batch.dict)), CallLines(batch.calls)),
              batch.dict, batch.calls, <<l>>, <<>>, <<>>)
    <2>1. Reads(Concat(Concat(<<l>>, DictLines(batch.dict)), CallLines(batch.calls)),
                Concat(batch.dict, <<>>), Concat(<<>>, batch.calls),
                Concat(<<l>>, <<>>), Concat(<<>>, <<>>), Concat(<<>>, <<>>))
      BY <1>5, <1>8, ReadsJoin
    <2>. QED  BY <1>6, <1>7, <2>1, Zenon
  <1>10. FlushBlock(batch) = Concat(Concat(<<l>>, DictLines(batch.dict)), CallLines(batch.calls))
    BY DEF FlushBlock, Concat, l, FLine
  <1>. QED  BY <1>9, <1>10, Zenon DEF l

\* The lines at the end of a trace.
DLine == [line |-> "DROP", dropped_records |-> drop_counter'[request]]
MLine == [line |-> "RSHUTDOWN", trace_id |-> request]

LEMMA SummaryRead ==
    ASSUME request \in Requests, drop_counter'[request] \in Nat
    PROVE  Reads(Summary, <<>>, <<>>, <<>>, <<DLine>>, <<MLine>>)
  <1>1. DLine \in LinesOf("DROP") /\ MLine \in LinesOf("RSHUTDOWN")
    BY DEF DLine, MLine, LinesOf, DropLine, MarkerLine
  <1>. DEFINE k == DLine
              m == MLine
  <1>. HIDE DEF k, m
  <1>2. Reads(<<k>>, <<>>, <<>>, <<>>, <<k>>, <<>>)
    BY <1>1, OneLineRead DEF k
  <1>3. Reads(<<m>>, <<>>, <<>>, <<>>, <<>>, <<m>>)
    BY <1>1, OneLineRead DEF m
  <1>4. Concat(<<k>>, <<>>) = <<k>> /\ Concat(<<>>, <<m>>) = <<m>> /\ Concat(<<>>, <<>>) = <<>>
    <2>1. <<k>> \in Seq({k, m}) /\ <<m>> \in Seq({k, m}) /\ <<>> \in Seq({k, m})
      OBVIOUS
    <2>. QED  BY <2>1, JoinNothing
  <1>5. Reads(Concat(<<k>>, <<m>>), <<>>, <<>>, <<>>, <<k>>, <<m>>)
    BY <1>2, <1>3, <1>4, ReadsJoin, Zenon
  <1>6. Summary = Concat(<<k>>, <<m>>)
    BY DEF Summary, Concat, k, m, DLine, MLine
  <1>. QED  BY <1>5, <1>6, Zenon DEF k, m

\* parse_dump of a whole file.
LEMMA ParsedIs ==
    ASSUME NEW lines \in Seq(Lines)
    PROVE  LET parsed == parse_dump(lines)
               drops  == Matching(lines, "DROP")
           IN /\ parsed.dict = Mapped(EntryField, Matching(lines, "D"))
              /\ parsed.calls = Mapped(CallField, Matching(lines, "C"))
              /\ parsed.flushes = Matching(lines, "F")
              /\ parsed.dropped_records = Mapped(DroppedField, drops)
              /\ parsed.rshutdown_marker_seen <=> Matching(lines, "RSHUTDOWN") # <<>>
  <1>. DEFINE d == Matching(lines, "D")
              c == Matching(lines, "C")
              r == Matching(lines, "DROP")
  <1>1. d \in Seq(LinesOf("D")) /\ c \in Seq(LinesOf("C")) /\ r \in Seq(LinesOf("DROP"))
    BY MatchingIs DEF Kinds
  <1>. HIDE DEF d, c, r
  <1>2. /\ \A i \in DOMAIN d : d[i] \in DictLine
        /\ \A i \in DOMAIN c : c[i] \in CallLine
        /\ \A i \in DOMAIN r : r[i] \in DropLine
    BY <1>1, LenProperties, ElementOfSeq DEF LinesOf
  <1>3. [i \in DOMAIN d |-> d[i].entry] = Mapped(EntryField, d)
    BY <1>2 DEF Mapped, EntryField
  <1>4. [i \in DOMAIN c |-> c[i].call] = Mapped(CallField, c)
    BY <1>2 DEF Mapped, CallField
  <1>5. [i \in DOMAIN r |-> r[i].dropped_records] = Mapped(DroppedField, r)
    BY <1>2 DEF Mapped, DroppedField
  <1>6. parse_dump(lines) =
            [dict |-> [i \in DOMAIN d |-> d[i].entry], calls |-> [i \in DOMAIN c |-> c[i].call],
             flushes |-> Matching(lines, "F"),
             dropped_records |-> [i \in DOMAIN r |-> r[i].dropped_records],
             rshutdown_marker_seen |-> Matching(lines, "RSHUTDOWN") # <<>>]
    BY Zenon DEF parse_dump, d, c, r
  <1>7. parse_dump(lines) =
            [dict |-> Mapped(EntryField, d), calls |-> Mapped(CallField, c),
             flushes |-> Matching(lines, "F"), dropped_records |-> Mapped(DroppedField, r),
             rshutdown_marker_seen |-> Matching(lines, "RSHUTDOWN") # <<>>]
    BY <1>3, <1>4, <1>5, <1>6, Zenon
  <1>8. PICK seen : seen = (Matching(lines, "RSHUTDOWN") # <<>>)
    OBVIOUS
  <1>9. parse_dump(lines) =
            [dict |-> Mapped(EntryField, d), calls |-> Mapped(CallField, c),
             flushes |-> Matching(lines, "F"), dropped_records |-> Mapped(DroppedField, r),
             rshutdown_marker_seen |-> seen]
    BY <1>7, <1>8, Zenon
  <1>10. /\ parse_dump(lines).dict = Mapped(EntryField, d)
         /\ parse_dump(lines).calls = Mapped(CallField, c)
         /\ parse_dump(lines).flushes = Matching(lines, "F")
         /\ parse_dump(lines).dropped_records = Mapped(DroppedField, r)
         /\ parse_dump(lines).rshutdown_marker_seen = seen
    BY <1>9
  <1>. QED  BY <1>8, <1>10, Zenon DEF d, c, r

-----------------------------------------------------------------------------
(* What a step writes.                                                     *)

\* No buffer reaches the threshold: the end that fills it flushes it.
BufferInv == Len(buffer) < FlushRecords

LEMMA BufferInit == Init => BufferInv
  <1>1. FlushRecords \in Nat \ {0}
    BY ConfigAssumption DEF ConfigAssumption
  <1>. QED  BY <1>1, EmptySeq DEF Init, EmptyTrace, BufferInv

\* An accepted end flushes exactly when a threshold is reached.
LEMMA EndDue ==
    ASSUME TypeOK, LifoCount, NEW threw \in Throws, EndAccepted(threw)
    PROVE  LET calls == Append(buffer, EndRecord(threw))
               size  == buffer_estimated_bytes + CALL_RECORD_FIXED_BYTES
               bytes == bytes_in_memory + CALL_RECORD_FIXED_BYTES
           IN /\ Len(calls) = Len(buffer) + 1 /\ Len(buffer) \in Nat
              /\ \/ /\ FlushDue(calls, size) /\ buffer' = <<>>
                    /\ TrySendBatch(PendingBatch(calls, size), bytes)
                 \/ /\ ~FlushDue(calls, size) /\ buffer' = calls
                    /\ UNCHANGED <<refused, flushed>>
  <1>1. stack # <<>> /\ EndRecord(threw) \in Records
    BY EndCases
  <1>2. buffer \in Seq(Records)
    BY DEF TypeOK, TraceTypeOK
  <1>3. Len(Append(buffer, EndRecord(threw))) = Len(buffer) + 1 /\ Len(buffer) \in Nat
    BY <1>1, <1>2, AppendProperties, LenProperties
  <1>. QED  BY <1>1, <1>3 DEF EndAccepted, EndRecord

LEMMA BufferStep ==
    ASSUME TypeOK, LifoCount, BufferInv, [Next]_vars
    PROVE  BufferInv'
  <1>1. FlushRecords \in Nat \ {0}
    BY ConfigAssumption DEF ConfigAssumption
  <1>2. CASE RInit \/ RShutdown
    <2>1. buffer' = <<>>
      BY <1>2 DEF RInit, RShutdown, ResetTrace
    <2>. QED  BY <1>1, <2>1, EmptySeq DEF BufferInv
  <1>3. CASE Begin \/ EndOfDroppedBegin \/ DiscardRefused \/ Shipper \/ UNCHANGED vars
    <2>1. UNCHANGED buffer
      BY <1>3 DEF Begin, BeginDroppedByDepth, BeginDroppedByCap, BeginAccepted, EngineBegins,
                  EndOfDroppedBegin, DiscardRefused, Shipper, ShipperReceives,
                  ShipperCountsDrop, ShipperReleases, ShipperPanics, vars, trace_vars
    <2>. QED  BY <2>1 DEF BufferInv
  <1>4. ASSUME NEW threw \in Throws, EndAccepted(threw)
        PROVE  BufferInv'
    <2>. DEFINE calls == Append(buffer, EndRecord(threw))
                size  == buffer_estimated_bytes + CALL_RECORD_FIXED_BYTES
                bytes == bytes_in_memory + CALL_RECORD_FIXED_BYTES
    <2>1. \/ /\ FlushDue(calls, size) /\ buffer' = <<>>
             /\ TrySendBatch(PendingBatch(calls, size), bytes)
          \/ ~FlushDue(calls, size) /\ buffer' = calls
      BY <1>4, EndDue
    <2>2. CASE buffer' = <<>>
      BY <1>1, <2>2, EmptySeq DEF BufferInv
    <2>3. CASE ~FlushDue(calls, size) /\ buffer' = calls
      <3>1. ~(Len(calls) >= FlushRecords) /\ Len(calls) \in Nat
        BY <1>4, <2>3, EndDue DEF FlushDue
      <3>. QED  BY <1>1, <2>3, <3>1 DEF BufferInv
    <2>. QED  BY <2>1, <2>2, <2>3
  <1>. QED  BY <1>2, <1>3, <1>4 DEF Next, RequestThread, End

\* A batch cut while the request goes on.
Cut(batch) ==
    trace_live' => /\ Len(batch.calls) <= FlushRecords
                   /\ Len(batch.calls) < FlushRecords => batch.size_estimate >= FlushBytes

\* The batch that a step flushes, if it flushes one.
Flushing(batch) ==
    /\ batch \in Batches /\ flushed' = Append(flushed, batch)
    /\ trace_live /\ UNCHANGED request /\ Cut(batch)

\* The step ends the trace.
Closing == ~trace_live' /\ refused' = <<>> /\ UNCHANGED request /\ request \in Requests

LEMMA NewBlockIs ==
    ASSUME TypeOK
    PROVE  /\ UNCHANGED flushed => ~Flushes /\ NewBlock = <<>>
           /\ \A batch \in Batches : flushed' = Append(flushed, batch) =>
                    Flushes /\ NewBlock = FlushBlock(batch)
  <1>1. flushed \in Seq(Batches) /\ Len(flushed) \in Nat
    BY SharedFacts, LenProperties
  <1>2. ASSUME UNCHANGED flushed
        PROVE  ~Flushes /\ NewBlock = <<>>
    BY <1>1, <1>2 DEF Flushes, NewBlock
  <1>3. ASSUME NEW batch \in Batches, flushed' = Append(flushed, batch)
        PROVE  Flushes /\ NewBlock = FlushBlock(batch)
    <2>1. Len(flushed') = Len(flushed) + 1 /\ flushed'[Len(flushed) + 1] = batch
      BY <1>1, <1>3, AppendProperties
    <2>2. Flushes /\ Last(flushed') = batch
      BY <1>1, <2>1 DEF Flushes, Last
    <2>. QED  BY <2>2 DEF NewBlock
  <1>. QED  BY <1>2, <1>3

LEMMA SendAppends ==
    ASSUME NEW batch, NEW bytes, TrySendBatch(batch, bytes)
    PROVE  flushed' = Append(flushed, batch)
  BY DEF TrySendBatch, Flushed

\* What a step flushes, in the handlers that flush.
LEMMA EndFlushes ==
    ASSUME TypeOK, LifoCount, BufferInv, NEW threw \in Throws, EndAccepted(threw)
    PROVE  UNCHANGED flushed \/ \E batch : Flushing(batch)
  <1>. DEFINE calls == Append(buffer, EndRecord(threw))
              size  == buffer_estimated_bytes + CALL_RECORD_FIXED_BYTES
              bytes == bytes_in_memory + CALL_RECORD_FIXED_BYTES
              batch == PendingBatch(calls, size)
  <1>1. /\ EngineEnds /\ trace_live /\ batch \in Batches /\ size \in Nat
        /\ Len(calls) = Len(buffer) + 1 /\ Len(buffer) \in Nat
        /\ \/ FlushDue(calls, size) /\ TrySendBatch(batch, bytes)
           \/ UNCHANGED flushed
    BY EndCases, EndDue
  <1>2. CASE FlushDue(calls, size) /\ TrySendBatch(batch, bytes)
    <2>1. flushed' = Append(flushed, batch)
      BY <1>2, SendAppends
    <2>2. UNCHANGED request
      BY <1>1 DEF EngineEnds
    <2>3. Cut(batch)
      <3>1. batch.calls = calls /\ batch.size_estimate = size
        BY DEF PendingBatch
      <3>2. FlushRecords \in Nat /\ FlushBytes \in Nat
        BY ConfigAssumption DEF ConfigAssumption
      <3>. HIDE DEF batch, calls, size
      <3>3. Len(calls) >= FlushRecords \/ size >= FlushBytes
        BY <1>2 DEF FlushDue
      <3>4. Len(calls) <= FlushRecords
        BY <1>1, <3>2 DEF BufferInv
      <3>5. Len(calls) < FlushRecords => size >= FlushBytes
        BY <1>1, <3>2, <3>3
      <3>. QED  BY <3>1, <3>4, <3>5 DEF Cut
    <2>. HIDE DEF batch, calls, size, bytes
    <2>. QED  BY <1>1, <2>1, <2>2, <2>3 DEF Flushing
  <1>. HIDE DEF batch, calls, size, bytes
  <1>. QED  BY <1>1, <1>2

LEMMA ShutdownFlushes ==
    ASSUME TypeOK, StagedInv, RShutdown
    PROVE  /\ ~trace_live' /\ UNCHANGED request /\ request \in Requests
           /\ \/ UNCHANGED flushed /\ new_entries = <<>>
              \/ \E batch : Flushing(batch)
  <1>. DEFINE calls == buffer \o DrainedRecords
              size  == buffer_estimated_bytes + CALL_RECORD_FIXED_BYTES * Len(stack)
              bytes == bytes_in_memory + CALL_RECORD_FIXED_BYTES * Len(stack)
              batch == PendingBatch(calls, size)
  <1>1. /\ trace_live /\ ~trace_live' /\ UNCHANGED request /\ batch \in Batches
        /\ Len(calls) = Len(buffer) + Len(stack)
        /\ \/ TrySendBatch(batch, bytes)
           \/ Len(calls) = 0 /\ UNCHANGED flushed
    BY ShutdownCases
  <1>2. request \in Requests
    BY <1>1 DEF TypeOK, EnvTypeOK
  <1>3. CASE TrySendBatch(batch, bytes)
    <2>1. flushed' = Append(flushed, batch)
      BY <1>3, SendAppends
    <2>. HIDE DEF batch, calls, size, bytes
    <2>. QED  BY <1>1, <1>2, <2>1 DEF Flushing, Cut
  <1>4. CASE Len(calls) = 0 /\ UNCHANGED flushed
    <2>1. /\ buffer \in Seq(Records) /\ Len(buffer) \in Nat
          /\ stack \in Seq(Frames) /\ Len(stack) \in Nat
      BY StackFacts, LenProperties DEF TypeOK, TraceTypeOK
    <2>. HIDE DEF calls
    <2>2. Len(buffer) = 0 /\ Len(stack) = 0
      <3>1. Len(buffer) + Len(stack) = 0
        BY <1>1, <1>4, Zenon
      <3>. QED  BY <2>1, <3>1
    <2>3. buffer = <<>> /\ stack = <<>>
      BY <2>1, <2>2, EmptySeq
    <2>. QED  BY <1>1, <1>2, <1>4, <2>3 DEF StagedInv
  <1>. HIDE DEF batch, calls, size, bytes
  <1>. QED  BY <1>1, <1>3, <1>4

\* Every step of the dump is a step of the recorder, and the other way round
\* the recorder's state is all a step of the recorder changes.
LEMMA DumpStepsAreSteps == [DumpNext]_dump_spec_vars => [Next]_vars
  BY DEF DumpNext, HandlerFlushes, WriteTrace, AfterDiscard, Next, RequestThread, dump_spec_vars

\* A batch being refused belongs to a request.
LEMMA RefusingRequest ==
    ASSUME TypeOK, HoldersInv, TracesInv, refused # <<>>
    PROVE  request \in Requests
  <1>. DEFINE k == refused[1].no
  <1>1. k \in Numbers
    BY DEF HoldersInv, RefusedInv, InHistory
  <1>. HIDE DEF k
  <1>2. k \in 1..Len(flushed) /\ flushed[k] \in Batches /\ MaxRequests \in Nat
    BY <1>1, NumbersAre, ConfigAssumption DEF ConfigAssumption
  <1>3. flushed[k].trace \in 1..MaxRequests /\ flushed[k].trace <= request
    BY <1>2 DEF Batches, Requests, TracesInv
  <1>4. request \in 0..MaxRequests
    BY DEF TypeOK, EnvTypeOK
  <1>. QED  BY <1>2, <1>3, <1>4 DEF Requests

\* What a step of the dump writes: the block of the batch it flushes, if any,
\* and the summary when it closes the trace.
Writes(block, rest) ==
    /\ dump' = Concat(dump, Concat(block, rest))
    /\ \/ block = <<>> /\ UNCHANGED flushed
       \/ \E batch : Flushing(batch) /\ block = FlushBlock(batch)
    /\ \/ rest = <<>>
       \/ rest = Summary /\ Closing

LEMMA BlockTyped ==
    ASSUME TypeOK, UNCHANGED flushed \/ \E batch : Flushing(batch)
    PROVE  /\ NewBlock \in Seq(Lines)
           /\ \/ NewBlock = <<>> /\ UNCHANGED flushed
              \/ \E batch : Flushing(batch) /\ NewBlock = FlushBlock(batch)
  <1>1. CASE UNCHANGED flushed
    BY <1>1, NewBlockIs
  <1>2. ASSUME NEW batch, Flushing(batch)
        PROVE  NewBlock = FlushBlock(batch) /\ NewBlock \in Seq(Lines)
    <2>1. batch \in Batches /\ NewBlock = FlushBlock(batch)
      BY <1>2, NewBlockIs DEF Flushing
    <2>. QED  BY <2>1, BlockRead DEF Reads
  <1>. QED  BY <1>1, <1>2

LEMMA SummaryTyped ==
    ASSUME TypeOK', request \in Requests
    PROVE  drop_counter'[request] \in Nat /\ Summary \in Seq(Lines)
  <1>1. drop_counter'[request] \in Nat
    BY DEF TypeOK, SharedTypeOK
  <1>. QED  BY <1>1, SummaryRead DEF Reads

LEMMA StepWrites ==
    ASSUME DumpPathSet, TypeOK, TypeOK', LifoCount, HoldersInv, TracesInv, StagedInv, BufferInv,
           dump \in Seq(Lines), [DumpNext]_dump_spec_vars
    PROVE  \E block, rest : Writes(block, rest)
  <1>1. ASSUME NEW block \in Seq(Lines)
        PROVE  Concat(block, <<>>) = block /\ Concat(<<>>, block) = block
    BY JoinNothing
  <1>2. CASE HandlerFlushes
    <2>1. dump' = Concat(dump, NewBlock)
      BY <1>2 DEF HandlerFlushes, Appends, Concat
    <2>2. UNCHANGED flushed \/ \E batch : Flushing(batch)
      <3>1. CASE RInit \/ Begin \/ EndOfDroppedBegin
        BY <3>1 DEF RInit, shared_vars, Begin, BeginDroppedByDepth, BeginDroppedByCap,
                    BeginAccepted, EngineBegins, EndOfDroppedBegin
      <3>2. ASSUME NEW threw \in Throws, EndAccepted(threw)
            PROVE  UNCHANGED flushed \/ \E batch : Flushing(batch)
        BY <3>2, EndFlushes
      <3>. QED  BY <1>2, <3>1, <3>2 DEF HandlerFlushes, End
    <2>3. Writes(NewBlock, <<>>)
      BY <1>1, <2>1, <2>2, BlockTyped DEF Writes
    <2>. QED  BY <2>3
  <1>3. CASE WriteTrace
    <2>. DEFINE middle == IF Flushes THEN <<>> ELSE DictLines(new_entries)
    <2>0. PICK rest : rest = IF refused' = <<>> THEN Summary ELSE <<>>
      OBVIOUS
    <2>1. RShutdown /\ dump' = dump \o (NewBlock \o middle \o rest)
      BY <1>3, <2>0 DEF WriteTrace, Appends
    <2>2. /\ ~trace_live' /\ UNCHANGED request /\ request \in Requests
          /\ \/ UNCHANGED flushed /\ new_entries = <<>>
             \/ \E batch : Flushing(batch)
      BY <2>1, ShutdownFlushes
    <2>3. NewBlock \in Seq(Lines)
          /\ \/ NewBlock = <<>> /\ UNCHANGED flushed
             \/ \E batch : Flushing(batch) /\ NewBlock = FlushBlock(batch)
      BY <2>2, BlockTyped
    <2>4. middle = <<>>
      <3>1. CASE new_entries = <<>>
        <4>1. DictLines(new_entries) = <<>>
          BY <3>1 DEF DictLines
        <4>. QED  BY <4>1
      <3>2. ASSUME NEW batch, Flushing(batch)
            PROVE  Flushes
        BY <3>2, NewBlockIs DEF Flushing
      <3>. QED  BY <2>2, <3>1, <3>2
    <2>5. rest = <<>> \/ (rest = Summary /\ Closing)
      <3>1. refused' = <<>> => Closing
        BY <2>2, Zenon DEF Closing
      <3>2. refused' = <<>> => rest = Summary
        BY <2>0, Zenon
      <3>3. refused' # <<>> => rest = <<>>
        BY <2>0, Zenon
      <3>. QED  BY <3>1, <3>2, <3>3, Zenon
    <2>. HIDE DEF middle
    <2>6. dump' = Concat(dump, Concat(NewBlock, rest))
      <3>1. Concat(NewBlock, <<>>) = NewBlock
        BY <1>1, <2>3
      <3>2. dump' = Concat(dump, Concat(Concat(NewBlock, <<>>), rest))
        BY <2>1, <2>4, Zenon DEF Concat
      <3>. QED  BY <3>1, <3>2, Zenon
    <2>7. Writes(NewBlock, rest)
      BY <2>3, <2>5, <2>6, Zenon DEF Writes
    <2>. QED  BY <2>7
  <1>4. CASE AfterDiscard
    <2>0. PICK rest : rest = IF trace_live THEN <<>> ELSE Summary
      OBVIOUS
    <2>1. DiscardRefused /\ dump' = Concat(dump, rest)
      BY <1>4, <2>0 DEF AfterDiscard, Appends, Concat
    <2>2. refused # <<>> /\ refused' = <<>> /\ UNCHANGED flushed /\ UNCHANGED request
          /\ UNCHANGED trace_live
      BY <2>1 DEF DiscardRefused, trace_vars, env_vars
    <2>3. request \in Requests
      BY <2>2, RefusingRequest
    <2>4. rest = <<>> \/ (rest = Summary /\ Closing)
      <3>1. ~trace_live => Closing
        BY <2>2, <2>3, Zenon DEF Closing
      <3>2. ~trace_live => rest = Summary
        BY <2>0, Zenon
      <3>3. trace_live => rest = <<>>
        BY <2>0, Zenon
      <3>. QED  BY <3>1, <3>2, <3>3, Zenon
    <2>5. Concat(<<>>, rest) = rest
      <3>1. rest \in Seq(Lines)
        BY <2>0, <2>3, SummaryTyped, EmptySeq
      <3>. QED  BY <1>1, <3>1
    <2>6. Writes(<<>>, rest)
      BY <2>1, <2>2, <2>4, <2>5, Zenon DEF Writes
    <2>. QED  BY <2>6
  <1>5. CASE UNCHANGED dump /\ (Shipper \/ UNCHANGED dump_spec_vars)
    <2>1. UNCHANGED flushed
      BY <1>5 DEF Shipper, ShipperReceives, ShipperCountsDrop, ShipperReleases, ShipperPanics,
                  dump_spec_vars, vars, shared_vars
    <2>2. Concat(<<>>, <<>>) = <<>> /\ Concat(dump, <<>>) = dump
      BY <1>1, EmptySeq
    <2>3. Writes(<<>>, <<>>)
      BY <1>5, <2>1, <2>2, Zenon DEF Writes
    <2>. QED  BY <2>3
  <1>6. UNCHANGED dump_spec_vars => UNCHANGED dump
    BY DEF dump_spec_vars
  <1>. QED  BY <1>2, <1>3, <1>4, <1>5, <1>6 DEF DumpNext

-----------------------------------------------------------------------------
(* The invariant: the file holds what was flushed, its flush lines were     *)
(* written at a threshold or at the end, and a summary closes the file of   *)
(* the only trace, with a count that only the shipper may still outgrow.    *)

DictsIn(h) == [i \in DOMAIN h |-> h[i].dict]
CallsSentIn(h) == [i \in DOMAIN h |-> h[i].calls]

EntriesRead == Mapped(EntryField, Matching(dump, "D"))
CallsRead == Mapped(CallField, Matching(dump, "C"))
FlushesRead == Matching(dump, "F")
DropsRead == Matching(dump, "DROP")
MarkersRead == Matching(dump, "RSHUTDOWN")

ReadInv ==
    /\ dump \in Seq(Lines)
    /\ EntriesRead = FlattenSeq(DictsIn(flushed))
    /\ CallsRead = FlattenSeq(CallsSentIn(flushed))

\* What a flush line says of its batch.
Justified(l) ==
    /\ l.trigger = "records" => l.record_count = FlushRecords
    /\ l.trigger = "bytes" => l.record_count < FlushRecords /\ l.estimated_bytes >= FlushBytes

LastRequestOver == ~trace_live /\ request = MaxRequests

FlushesInv ==
    \A i \in 1..Len(FlushesRead) :
        /\ Justified(FlushesRead[i])
        /\ FlushesRead[i].trigger = "rshutdown" /\ MaxRequests <= 1 =>
                i = Len(FlushesRead) /\ LastRequestOver

\* The calls of the only request that are in no batch.
Missing == begun[1] - CallsIn(Numbers)

SummaryInv ==
    MarkersRead # <<>> /\ MaxRequests = 1 =>
        /\ LastRequestOver /\ refused = <<>> /\ DropsRead # <<>>
        /\ Missing + RecordsIn({"refused"}) <= Last(DropsRead).dropped_records
        /\ Last(DropsRead).dropped_records <= Missing + RecordsIn({"refused", "given_up"})

DumpInv == DumpPathSet => ReadInv /\ FlushesInv /\ SummaryInv

LEMMA HistoryReads ==
    ASSUME NEW h \in Seq(Batches)
    PROVE  /\ DictsIn(h) \in Seq(Seq(DictEntries)) /\ Len(DictsIn(h)) = Len(h)
           /\ CallsSentIn(h) \in Seq(Seq(Records)) /\ Len(CallsSentIn(h)) = Len(h)
           /\ Len(h) \in Nat
           /\ \A i \in 1..Len(h) : DictsIn(h)[i] = h[i].dict /\ CallsSentIn(h)[i] = h[i].calls
  <1>1. Len(h) \in Nat /\ DOMAIN h = 1..Len(h) /\ \A i \in 1..Len(h) : h[i] \in Batches
    BY LenProperties, ElementOfSeq
  <1>2. \A i \in 1..Len(h) : h[i].dict \in Seq(DictEntries) /\ h[i].calls \in Seq(Records)
    BY <1>1 DEF Batches
  <1>3. /\ DictsIn(h) \in [1..Len(h) -> Seq(DictEntries)]
        /\ CallsSentIn(h) \in [1..Len(h) -> Seq(Records)]
    BY <1>1, <1>2 DEF DictsIn, CallsSentIn
  <1>. QED  BY <1>1, <1>3, FunctionIsSeq DEF DictsIn, CallsSentIn

LEMMA HistoryGrows ==
    ASSUME NEW h \in Seq(Batches), NEW batch \in Batches
    PROVE  /\ DictsIn(Append(h, batch)) = Append(DictsIn(h), batch.dict)
           /\ CallsSentIn(Append(h, batch)) = Append(CallsSentIn(h), batch.calls)
  <1>. DEFINE g == Append(h, batch)
              n == Len(h)
  <1>1. /\ n \in Nat /\ g \in Seq(Batches) /\ Len(g) = n + 1 /\ g[n + 1] = batch
        /\ \A i \in 1..n : g[i] = h[i]
    BY AppendProperties, LenProperties
  <1>2. batch.dict \in Seq(DictEntries) /\ batch.calls \in Seq(Records)
    BY DEF Batches
  <1>. HIDE DEF g
  <1>3. ASSUME NEW S, NEW s \in Seq(S), NEW t \in Seq(S), NEW e \in S,
               Len(s) = n, Len(t) = n + 1, t[n + 1] = e, \A i \in 1..n : t[i] = s[i]
        PROVE  t = Append(s, e)
    <2>1. /\ Append(s, e) \in Seq(S) /\ Len(Append(s, e)) = n + 1 /\ Append(s, e)[n + 1] = e
          /\ \A i \in 1..n : Append(s, e)[i] = s[i]
      BY <1>3, AppendProperties
    <2>2. \A i \in 1..(n + 1) : t[i] = Append(s, e)[i]
      <3>. TAKE i \in 1..(n + 1)
      <3>1. i \in 1..n \/ i = n + 1
        BY <1>1
      <3>. QED  BY <1>3, <2>1, <3>1
    <2>. QED  BY <1>3, <2>1, <2>2, SameSequence
  <1>4. /\ DictsIn(h) \in Seq(Seq(DictEntries)) /\ Len(DictsIn(h)) = n
        /\ CallsSentIn(h) \in Seq(Seq(Records)) /\ Len(CallsSentIn(h)) = n
        /\ \A i \in 1..n : DictsIn(h)[i] = h[i].dict /\ CallsSentIn(h)[i] = h[i].calls
    BY HistoryReads
  <1>5. /\ DictsIn(g) \in Seq(Seq(DictEntries)) /\ Len(DictsIn(g)) = n + 1
        /\ CallsSentIn(g) \in Seq(Seq(Records)) /\ Len(CallsSentIn(g)) = n + 1
        /\ \A i \in 1..(n + 1) : DictsIn(g)[i] = g[i].dict /\ CallsSentIn(g)[i] = g[i].calls
    BY <1>1, HistoryReads
  <1>6. /\ DictsIn(g)[n + 1] = batch.dict /\ CallsSentIn(g)[n + 1] = batch.calls
        /\ \A i \in 1..n : DictsIn(g)[i] = DictsIn(h)[i] /\ CallsSentIn(g)[i] = CallsSentIn(h)[i]
    <2>1. n + 1 \in 1..(n + 1) /\ \A i \in 1..n : i \in 1..(n + 1)
      BY <1>1
    <2>. QED  BY <1>1, <1>4, <1>5, <2>1
  <1>7. DictsIn(g) = Append(DictsIn(h), batch.dict)
    BY <1>2, <1>3, <1>4, <1>5, <1>6
  <1>8. CallsSentIn(g) = Append(CallsSentIn(h), batch.calls)
    BY <1>2, <1>3, <1>4, <1>5, <1>6
  <1>. QED  BY <1>7, <1>8 DEF g

LEMMA DumpReadAs ==
    ASSUME dump \in Seq(Lines)
    PROVE  /\ Reads(dump, EntriesRead, CallsRead, FlushesRead, DropsRead, MarkersRead)
           /\ EntriesRead \in Seq(DictEntries) /\ CallsRead \in Seq(Records)
           /\ FlushesRead \in Seq(FlushLine) /\ DropsRead \in Seq(DropLine)
           /\ MarkersRead \in Seq(MarkerLine)
  <1>1. /\ Matching(dump, "D") \in Seq(LinesOf("D")) /\ Matching(dump, "C") \in Seq(LinesOf("C"))
        /\ FlushesRead \in Seq(LinesOf("F")) /\ DropsRead \in Seq(LinesOf("DROP"))
        /\ MarkersRead \in Seq(LinesOf("RSHUTDOWN"))
    BY MatchingIs DEF Kinds, FlushesRead, DropsRead, MarkersRead
  <1>2. EntriesRead \in Seq(DictEntries)
    BY <1>1, FieldMaps, MappedAre DEF EntriesRead
  <1>3. CallsRead \in Seq(Records)
    BY <1>1, FieldMaps, MappedAre DEF CallsRead
  <1>4. Reads(dump, EntriesRead, CallsRead, FlushesRead, DropsRead, MarkersRead)
    BY DEF Reads, EntriesRead, CallsRead, FlushesRead, DropsRead, MarkersRead
  <1>5. LinesOf("F") = FlushLine /\ LinesOf("DROP") = DropLine /\ LinesOf("RSHUTDOWN") = MarkerLine
    BY DEF LinesOf
  <1>. QED  BY <1>1, <1>2, <1>3, <1>4, <1>5

\* What a reader finds after a step, next to what was there before.
LEMMA ReadNext ==
    ASSUME TypeOK, TypeOK', dump \in Seq(Lines), NEW block, NEW rest, Writes(block, rest)
    PROVE  /\ dump' \in Seq(Lines)
           /\ \/ /\ UNCHANGED flushed
                 /\ EntriesRead' = EntriesRead /\ CallsRead' = CallsRead /\ FlushesRead' = FlushesRead
              \/ \E batch : /\ Flushing(batch)
                            /\ EntriesRead' = Concat(EntriesRead, batch.dict)
                            /\ CallsRead' = Concat(CallsRead, batch.calls)
                            /\ FlushesRead' = Append(FlushesRead, FLine(batch))
           /\ \/ DropsRead' = DropsRead /\ MarkersRead' = MarkersRead
              \/ /\ Closing
                 /\ DropsRead' = Append(DropsRead, DLine)
                 /\ MarkersRead' = Append(MarkersRead, MLine)
  <1>1. ASSUME NEW S, NEW s \in Seq(S)
        PROVE  Concat(s, <<>>) = s /\ Concat(<<>>, s) = s
    BY JoinNothing
  <1>2. Concat(<<>>, <<>>) = <<>>
    BY JoinNothing, EmptySeq
  <1>3. ASSUME NEW d, NEW c, NEW f, NEW r, NEW m,
               Reads(block, d, c, f, <<>>, <<>>), Reads(rest, <<>>, <<>>, <<>>, r, m),
               Concat(d, <<>>) = d, Concat(c, <<>>) = c, Concat(f, <<>>) = f,
               Concat(<<>>, r) = r, Concat(<<>>, m) = m
        PROVE  /\ dump' \in Seq(Lines)
               /\ EntriesRead' = Concat(EntriesRead, d) /\ CallsRead' = Concat(CallsRead, c)
               /\ FlushesRead' = Concat(FlushesRead, f)
               /\ DropsRead' = Concat(DropsRead, r) /\ MarkersRead' = Concat(MarkersRead, m)
    <2>1. Reads(Concat(block, rest), Concat(d, <<>>), Concat(c, <<>>), Concat(f, <<>>),
                Concat(<<>>, r), Concat(<<>>, m))
      BY <1>3, ReadsJoin
    <2>2. Reads(Concat(block, rest), d, c, f, r, m)
      BY <1>3, <2>1, Zenon
    <2>3. Reads(Concat(dump, Concat(block, rest)), Concat(EntriesRead, d), Concat(CallsRead, c),
                Concat(FlushesRead, f), Concat(DropsRead, r), Concat(MarkersRead, m))
      BY <2>2, DumpReadAs, ReadsJoin
    <2>4. Reads(dump', Concat(EntriesRead, d), Concat(CallsRead, c),
                Concat(FlushesRead, f), Concat(DropsRead, r), Concat(MarkersRead, m))
      BY <2>3, Zenon DEF Writes
    <2>. QED  BY <2>4, Zenon DEF Reads, EntriesRead, CallsRead, FlushesRead, DropsRead, MarkersRead
  <1>4. /\ EntriesRead \in Seq(DictEntries) /\ CallsRead \in Seq(Records)
        /\ FlushesRead \in Seq(FlushLine) /\ DropsRead \in Seq(DropLine)
        /\ MarkersRead \in Seq(MarkerLine)
    BY DumpReadAs
  <1>5. /\ Concat(EntriesRead, <<>>) = EntriesRead /\ Concat(CallsRead, <<>>) = CallsRead
        /\ Concat(FlushesRead, <<>>) = FlushesRead
        /\ Concat(DropsRead, <<>>) = DropsRead /\ Concat(MarkersRead, <<>>) = MarkersRead
    BY <1>1, <1>4
  <1>6. \/ rest = <<>> /\ Reads(rest, <<>>, <<>>, <<>>, <<>>, <<>>)
        \/ /\ rest = Summary /\ Closing
           /\ DLine \in DropLine /\ MLine \in MarkerLine
           /\ Reads(rest, <<>>, <<>>, <<>>, <<DLine>>, <<MLine>>)
    <2>1. CASE rest = <<>>
      BY <2>1, ReadsNothing
    <2>2. CASE rest = Summary /\ Closing
      <3>1. request \in Requests
        BY <2>2 DEF Closing
      <3>2. drop_counter'[request] \in Nat
        BY <3>1, SummaryTyped
      <3>3. DLine \in DropLine /\ MLine \in MarkerLine
        BY <3>1, <3>2 DEF DLine, MLine, DropLine, MarkerLine
      <3>4. Reads(Summary, <<>>, <<>>, <<>>, <<DLine>>, <<MLine>>)
        BY <3>1, <3>2, SummaryRead
      <3>. QED  BY <2>2, <3>3, <3>4, Zenon
    <2>. QED  BY <2>1, <2>2 DEF Writes
  <1>7. \/ block = <<>> /\ UNCHANGED flushed /\ Reads(block, <<>>, <<>>, <<>>, <<>>, <<>>)
        \/ \E batch : /\ Flushing(batch) /\ batch \in Batches /\ FLine(batch) \in FlushLine
                      /\ Reads(block, batch.dict, batch.calls, <<FLine(batch)>>, <<>>, <<>>)
    <2>1. CASE block = <<>> /\ UNCHANGED flushed
      BY <2>1, ReadsNothing
    <2>2. ASSUME NEW batch, Flushing(batch), block = FlushBlock(batch)
          PROVE  /\ Flushing(batch) /\ batch \in Batches /\ FLine(batch) \in FlushLine
                 /\ Reads(block, batch.dict, batch.calls, <<FLine(batch)>>, <<>>, <<>>)
      <3>1. batch \in Batches
        BY <2>2 DEF Flushing
      <3>2. FLine(batch) \in FlushLine
        <4>1. Trigger(batch) \in Triggers
          BY DEF Trigger, Triggers
        <4>2. batch.calls \in Seq(Records) /\ batch.size_estimate \in Nat
          BY <3>1 DEF Batches
        <4>. QED  BY <4>1, <4>2, LenProperties DEF FLine, FlushLine
      <3>. QED  BY <2>2, <3>1, <3>2, BlockRead
    <2>. QED  BY <2>1, <2>2 DEF Writes
  <1>8. ASSUME NEW r, NEW m, Reads(rest, <<>>, <<>>, <<>>, r, m),
               Concat(<<>>, r) = r, Concat(<<>>, m) = m
        PROVE  /\ dump' \in Seq(Lines)
               /\ DropsRead' = Concat(DropsRead, r) /\ MarkersRead' = Concat(MarkersRead, m)
               /\ \/ /\ UNCHANGED flushed
                     /\ EntriesRead' = EntriesRead /\ CallsRead' = CallsRead
                     /\ FlushesRead' = FlushesRead
                  \/ \E batch : /\ Flushing(batch)
                                /\ EntriesRead' = Concat(EntriesRead, batch.dict)
                                /\ CallsRead' = Concat(CallsRead, batch.calls)
                                /\ FlushesRead' = Append(FlushesRead, FLine(batch))
    <2>1. CASE block = <<>> /\ UNCHANGED flushed /\ Reads(block, <<>>, <<>>, <<>>, <<>>, <<>>)
      <3>1. /\ dump' \in Seq(Lines)
            /\ EntriesRead' = Concat(EntriesRead, <<>>) /\ CallsRead' = Concat(CallsRead, <<>>)
            /\ FlushesRead' = Concat(FlushesRead, <<>>)
            /\ DropsRead' = Concat(DropsRead, r) /\ MarkersRead' = Concat(MarkersRead, m)
        BY <1>2, <1>3, <1>8, <2>1
      <3>. QED  BY <1>5, <2>1, <3>1
    <2>2. ASSUME NEW batch, Flushing(batch), batch \in Batches, FLine(batch) \in FlushLine,
                 Reads(block, batch.dict, batch.calls, <<FLine(batch)>>, <<>>, <<>>)
          PROVE  /\ dump' \in Seq(Lines)
                 /\ DropsRead' = Concat(DropsRead, r) /\ MarkersRead' = Concat(MarkersRead, m)
                 /\ EntriesRead' = Concat(EntriesRead, batch.dict)
                 /\ CallsRead' = Concat(CallsRead, batch.calls)
                 /\ FlushesRead' = Append(FlushesRead, FLine(batch))
      <3>1. batch.dict \in Seq(DictEntries) /\ batch.calls \in Seq(Records)
        BY <2>2 DEF Batches
      <3>2. Concat(batch.dict, <<>>) = batch.dict /\ Concat(batch.calls, <<>>) = batch.calls
        BY <1>1, <3>1
      <3>3. Concat(<<FLine(batch)>>, <<>>) = <<FLine(batch)>>
        <4>1. <<FLine(batch)>> \in Seq(FlushLine)
          BY <2>2
        <4>. QED  BY <1>1, <4>1
      <3>4. /\ dump' \in Seq(Lines)
            /\ EntriesRead' = Concat(EntriesRead, batch.dict) /\ CallsRead' = Concat(CallsRead, batch.calls)
            /\ FlushesRead' = Concat(FlushesRead, <<FLine(batch)>>)
            /\ DropsRead' = Concat(DropsRead, r) /\ MarkersRead' = Concat(MarkersRead, m)
        BY <1>3, <1>8, <2>2, <3>2, <3>3
      <3>5. Append(FlushesRead, FLine(batch)) = Concat(FlushesRead, <<FLine(batch)>>)
        BY <1>4, <2>2, JoinFacts
      <3>. QED  BY <3>4, <3>5, Zenon
    <2>. QED  BY <1>7, <2>1, <2>2, Zenon
  <1>9. CASE rest = <<>> /\ Reads(rest, <<>>, <<>>, <<>>, <<>>, <<>>)
    BY <1>2, <1>5, <1>8, <1>9, Zenon
  <1>10. CASE /\ rest = Summary /\ Closing
              /\ DLine \in DropLine /\ MLine \in MarkerLine
              /\ Reads(rest, <<>>, <<>>, <<>>, <<DLine>>, <<MLine>>)
    <2>1. Concat(<<>>, <<DLine>>) = <<DLine>> /\ Concat(<<>>, <<MLine>>) = <<MLine>>
      <3>1. <<DLine>> \in Seq(DropLine) /\ <<MLine>> \in Seq(MarkerLine)
        BY <1>10
      <3>. QED  BY <1>1, <3>1
    <2>2. /\ Append(DropsRead, DLine) = Concat(DropsRead, <<DLine>>)
          /\ Append(MarkersRead, MLine) = Concat(MarkersRead, <<MLine>>)
      <3>1. ASSUME NEW S, NEW s \in Seq(S), NEW e \in S
            PROVE  Append(s, e) = Concat(s, <<e>>)
        BY JoinFacts
      <3>. QED  BY <1>4, <1>10, <3>1
    <2>. QED  BY <1>8, <1>10, <2>1, <2>2, Zenon
  <1>. QED  BY <1>6, <1>9, <1>10

LEMMA ReadStep ==
    ASSUME TypeOK, TypeOK', ReadInv, NEW block, NEW rest, Writes(block, rest)
    PROVE  ReadInv'
  <1>0. flushed \in Seq(Batches) /\ dump \in Seq(Lines)
    BY SharedFacts DEF ReadInv
  <1>1. /\ dump' \in Seq(Lines)
        /\ \/ UNCHANGED flushed /\ EntriesRead' = EntriesRead /\ CallsRead' = CallsRead
           \/ \E batch : /\ Flushing(batch)
                         /\ EntriesRead' = Concat(EntriesRead, batch.dict)
                         /\ CallsRead' = Concat(CallsRead, batch.calls)
    BY <1>0, ReadNext
  <1>2. CASE UNCHANGED flushed /\ EntriesRead' = EntriesRead /\ CallsRead' = CallsRead
    BY <1>1, <1>2 DEF ReadInv, DictsIn, CallsSentIn
  <1>3. ASSUME NEW batch, Flushing(batch), EntriesRead' = Concat(EntriesRead, batch.dict),
               CallsRead' = Concat(CallsRead, batch.calls)
        PROVE  ReadInv'
    <2>1. batch \in Batches /\ flushed' = Append(flushed, batch)
      BY <1>3 DEF Flushing
    <2>2. batch.dict \in Seq(DictEntries) /\ batch.calls \in Seq(Records)
      BY <2>1 DEF Batches
    <2>3. DictsIn(flushed) \in Seq(Seq(DictEntries)) /\ CallsSentIn(flushed) \in Seq(Seq(Records))
      BY <1>0, HistoryReads
    <2>4. /\ FlattenSeq(Append(DictsIn(flushed), batch.dict))
                = Concat(FlattenSeq(DictsIn(flushed)), batch.dict)
          /\ FlattenSeq(Append(CallsSentIn(flushed), batch.calls))
                = Concat(FlattenSeq(CallsSentIn(flushed)), batch.calls)
      BY <2>2, <2>3, FlattenAppend DEF Concat
    <2>5. /\ DictsIn(flushed') = Append(DictsIn(flushed), batch.dict)
          /\ CallsSentIn(flushed') = Append(CallsSentIn(flushed), batch.calls)
      BY <1>0, <2>1, HistoryGrows
    <2>6. EntriesRead' = FlattenSeq(DictsIn(flushed'))
      BY <1>3, <2>4, <2>5, Zenon DEF ReadInv
    <2>7. CallsRead' = FlattenSeq(CallsSentIn(flushed'))
      BY <1>3, <2>4, <2>5, Zenon DEF ReadInv
    <2>. QED  BY <1>1, <2>6, <2>7, Zenon DEF ReadInv, DictsIn, CallsSentIn
  <1>. QED  BY <1>1, <1>2, <1>3

-----------------------------------------------------------------------------
(* Once the last request is over only the shipper acts.                    *)

LEMMA OverStays ==
    ASSUME LastRequestOver, [Next]_vars
    PROVE  /\ LastRequestOver' /\ UNCHANGED flushed
           /\ refused = <<>> => refused' = <<>> /\ (Shipper \/ UNCHANGED vars)
  <1>0. ~trace_live /\ ~OnRequestThread /\ request = MaxRequests
    BY DEF LastRequestOver, OnRequestThread
  <1>1. ~Begin /\ ~End /\ ~RShutdown
    BY <1>0 DEF Begin, BeginDroppedByDepth, BeginDroppedByCap, BeginAccepted, EngineBegins,
                End, EndOfDroppedBegin, EndAccepted, EngineEnds, RShutdown
  <1>2. ~RInit
    <2>1. MaxRequests \in Nat
      BY ConfigAssumption DEF ConfigAssumption
    <2>2. RInit => request < MaxRequests
      BY DEF RInit
    <2>. QED  BY <1>0, <2>1, <2>2
  <1>3. DiscardRefused \/ Shipper \/ UNCHANGED vars
    BY <1>1, <1>2 DEF Next, RequestThread
  <1>4. UNCHANGED trace_vars /\ UNCHANGED env_vars /\ UNCHANGED flushed
    BY <1>3, Zenon DEF DiscardRefused, Shipper, ShipperReceives, ShipperCountsDrop,
                       ShipperReleases, ShipperPanics, vars, shared_vars
  <1>5. (trace_live' <=> trace_live) /\ UNCHANGED request
    BY <1>4, Zenon DEF trace_vars, env_vars
  <1>6. LastRequestOver'
    BY <1>0, <1>5, Zenon DEF LastRequestOver
  <1>7. ASSUME refused = <<>>
        PROVE  refused' = <<>> /\ (Shipper \/ UNCHANGED vars)
    <2>1. ~DiscardRefused
      BY <1>7, Zenon DEF DiscardRefused
    <2>2. Shipper \/ UNCHANGED vars => UNCHANGED refused
      BY DEF Shipper, ShipperReceives, ShipperCountsDrop, ShipperReleases, ShipperPanics,
             vars, shared_vars
    <2>. QED  BY <1>3, <1>7, <2>1, <2>2
  <1>. QED  BY <1>4, <1>6, <1>7

\* A trace that closes, or whose last batch goes out, is the last one when
\* there is no other.
LEMMA OnlyRequest ==
    ASSUME MaxRequests <= 1, request \in Requests, UNCHANGED request, ~trace_live'
    PROVE  LastRequestOver' /\ request = 1 /\ MaxRequests = 1
  <1>1. MaxRequests \in Nat
    BY ConfigAssumption DEF ConfigAssumption
  <1>2. request = 1 /\ MaxRequests = 1
    BY <1>1 DEF Requests
  <1>. QED  BY <1>2 DEF LastRequestOver

LEMMA NewFlushLine ==
    ASSUME TypeOK, NEW batch, Flushing(batch)
    PROVE  /\ FLine(batch) \in FlushLine /\ Justified(FLine(batch))
           /\ FLine(batch).trigger = "rshutdown" => ~trace_live'
  <1>1. batch \in Batches /\ Cut(batch)
    BY DEF Flushing
  <1>2. batch.calls \in Seq(Records) /\ Len(batch.calls) \in Nat /\ batch.size_estimate \in Nat
    BY <1>1, LenProperties DEF Batches
  <1>3. FlushRecords \in Nat /\ FlushBytes \in Nat
    BY ConfigAssumption DEF ConfigAssumption
  <1>4. Trigger(batch) \in Triggers
    BY DEF Trigger, Triggers
  <1>5. /\ FLine(batch).line = "F" /\ FLine(batch).trigger = Trigger(batch)
        /\ FLine(batch).record_count = Len(batch.calls)
        /\ FLine(batch).estimated_bytes = batch.size_estimate
    BY DEF FLine
  <1>6. FLine(batch) \in FlushLine
    BY <1>2, <1>4 DEF FLine, FlushLine
  <1>7. Trigger(batch) = "rshutdown" => ~trace_live'
    BY DEF Trigger
  <1>8. Trigger(batch) = "records" => Len(batch.calls) = FlushRecords
    <2>1. Trigger(batch) = "records" => trace_live' /\ Len(batch.calls) >= FlushRecords
      BY DEF Trigger
    <2>. QED  BY <1>1, <1>2, <1>3, <2>1 DEF Cut
  <1>9. Trigger(batch) = "bytes" => /\ Len(batch.calls) < FlushRecords
                                    /\ batch.size_estimate >= FlushBytes
    <2>1. Trigger(batch) = "bytes" => trace_live' /\ ~(Len(batch.calls) >= FlushRecords)
      BY DEF Trigger
    <2>. QED  BY <1>1, <1>2, <1>3, <2>1 DEF Cut
  <1>. QED  BY <1>5, <1>6, <1>7, <1>8, <1>9 DEF Justified

LEMMA FlushesStep ==
    ASSUME TypeOK, TypeOK', [Next]_vars, dump \in Seq(Lines), FlushesInv,
           NEW block, NEW rest, Writes(block, rest)
    PROVE  FlushesInv'
  <1>0. /\ FlushesRead \in Seq(FlushLine) /\ Len(FlushesRead) \in Nat /\ MaxRequests \in Nat
    BY DumpReadAs, LenProperties, ConfigAssumption DEF ConfigAssumption
  <1>1. \/ FlushesRead' = FlushesRead
        \/ \E batch : Flushing(batch) /\ FlushesRead' = Append(FlushesRead, FLine(batch))
    BY ReadNext
  <1>2. CASE FlushesRead' = FlushesRead
    BY <1>2, OverStays DEF FlushesInv, Justified
  <1>3. ASSUME NEW batch, Flushing(batch), FlushesRead' = Append(FlushesRead, FLine(batch))
        PROVE  FlushesInv'
    <2>. DEFINE l == FLine(batch)
                n == Len(FlushesRead)
                old == FlushesRead
                new == FlushesRead'
    <2>1. l \in FlushLine /\ Justified(l) /\ (l.trigger = "rshutdown" => ~trace_live')
      BY <1>3, NewFlushLine
    <2>2. trace_live /\ UNCHANGED request /\ request \in Requests
      BY <1>3 DEF Flushing, TypeOK, EnvTypeOK
    <2>3. ~LastRequestOver
      BY <2>2 DEF LastRequestOver
    <2>4. \A i \in 1..n : Justified(old[i])
                          /\ ~(old[i].trigger = "rshutdown" /\ MaxRequests <= 1)
      BY <2>3 DEF FlushesInv
    <2>5. l.trigger = "rshutdown" /\ MaxRequests <= 1 => LastRequestOver'
      BY <2>1, <2>2, OnlyRequest
    <2>. HIDE DEF l
    <2>6. Len(new) = n + 1 /\ new[n + 1] = l /\ \A i \in 1..n : new[i] = old[i]
      BY <1>0, <1>3, <2>1, AppendProperties DEF l
    <2>. HIDE DEF old, new
    <2>7. \A i \in 1..Len(new) :
            /\ Justified(new[i])
            /\ new[i].trigger = "rshutdown" /\ MaxRequests <= 1 =>
                    i = Len(new) /\ LastRequestOver'
      <3>. TAKE i \in 1..Len(new)
      <3>1. i \in 1..n \/ i = n + 1
        BY <1>0, <2>6
      <3>. QED  BY <2>1, <2>4, <2>5, <2>6, <3>1
    <2>. QED  BY <2>7 DEF FlushesInv, Justified, new
  <1>. QED  BY <1>1, <1>2, <1>3

-----------------------------------------------------------------------------
(* The count of a closed trace.                                            *)

Dropped == {"refused", "given_up"}

LEMMA CountsTyped ==
    ASSUME TypeOK
    PROVE  /\ \A A : CallsIn(A) \in Nat
           /\ \A fates : RecordsIn(fates) \in Nat
           /\ RecordsIn({"refused"}) <= RecordsIn(Dropped)
  <1>1. CallCountsOf(flushed) \in Seq(Nat)
    BY SharedFacts, WeightsAre
  <1>2. \A A : CallsIn(A) \in Nat
    BY <1>1, TotalInIsNat, LedgersAre
  <1>3. RecordsIn({"refused"}) <= RecordsIn(Dropped)
    <2>. DEFINE A == {i \in DOMAIN flushed : fate[i] \in {"refused"}}
                B == {i \in DOMAIN flushed : fate[i] \in Dropped}
    <2>1. A \subseteq B
      BY DEF Dropped
    <2>2. RecordsIn({"refused"}) = TotalIn(CallCountsOf(flushed), A)
          /\ RecordsIn(Dropped) = TotalIn(CallCountsOf(flushed), B)
      BY LedgersAre DEF RecordsIn
    <2>. HIDE DEF A, B
    <2>. QED  BY <1>1, <2>1, <2>2, TotalInMonotone
  <1>. QED  BY <1>2, <1>3 DEF RecordsIn

LEMMA CountsTypedThen ==
    TypeOK' => /\ RecordsIn({"refused"})' \in Nat /\ RecordsIn(Dropped)' \in Nat
               /\ RecordsIn({"refused"})' <= RecordsIn(Dropped)'
               /\ CallsIn(Numbers)' \in Nat
  <1>1. TypeOK => /\ RecordsIn({"refused"}) \in Nat /\ RecordsIn(Dropped) \in Nat
                  /\ RecordsIn({"refused"}) <= RecordsIn(Dropped)
                  /\ CallsIn(Numbers) \in Nat
    BY CountsTyped
  <1>2. (TypeOK => /\ RecordsIn({"refused"}) \in Nat /\ RecordsIn(Dropped) \in Nat
                   /\ RecordsIn({"refused"}) <= RecordsIn(Dropped)
                   /\ CallsIn(Numbers) \in Nat)'
    BY <1>1, PTL
  <1>. QED  BY <1>2

\* With one request, over: the counter is what no batch holds and what the
\* dropped batches held.
LEMMA ClosedCount ==
    ASSUME TypeOK, EveryCallAccountedFor, MaxRequests = 1, ~trace_live
    PROVE  drop_counter[1] = Missing + RecordsIn(Dropped)
  <1>. DEFINE w == CallCountsOf(flushed)
              A == Uncounted(1)
              B == {i \in DOMAIN flushed : fate[i] \in Dropped}
  <1>1. 1 \in Requests /\ Requests = {1}
    BY DEF Requests
  <1>2. begun[1] = drop_counter[1] + Unshipped(1) + CallsIn(A)
    BY <1>1, AccountIs
  <1>3. Unshipped(1) = 0 /\ begun[1] \in Nat /\ drop_counter[1] \in Nat
    <2>1. ~IsCurrent(1)
      BY Zenon DEF IsCurrent
    <2>. QED  BY <1>1, <2>1, AccountTyped
  <1>4. w \in Seq(Nat) /\ Len(w) = Len(flushed) /\ Numbers = 1..Len(w)
    BY SharedFacts, WeightsAre, NumbersAre
  <1>5. \A i \in 1..Len(w) : /\ i \in Numbers <=> i \in A \/ i \in B
                             /\ ~(i \in A /\ i \in B)
    <2>. TAKE i \in 1..Len(w)
    <2>1. i \in Numbers /\ i \in DOMAIN flushed
      BY <1>4 DEF Numbers
    <2>2. flushed[i].trace = 1
      <3>1. flushed[i] \in Batches
        BY <2>1, NumbersAre
      <3>. QED  BY <1>1, <3>1 DEF Batches
    <2>3. i \in A <=> fate[i] \notin Dropped
      BY <2>1, <2>2 DEF Uncounted, Dropped
    <2>4. i \in B <=> fate[i] \in Dropped
      BY <2>1
    <2>. QED  BY <2>1, <2>3, <2>4, Zenon
  <1>6. /\ CallsIn(A) = TotalIn(w, A) /\ CallsIn(Numbers) = TotalIn(w, Numbers)
        /\ RecordsIn(Dropped) = TotalIn(w, B)
    BY LedgersAre DEF RecordsIn
  <1>7. CallsIn(A) \in Nat /\ CallsIn(Numbers) \in Nat /\ RecordsIn(Dropped) \in Nat
    BY CountsTyped
  <1>. HIDE DEF w, A, B
  <1>8. TotalIn(w, Numbers) = TotalIn(w, A) + TotalIn(w, B)
    BY <1>4, <1>5, TotalInSplit
  <1>9. CallsIn(Numbers) = CallsIn(A) + RecordsIn(Dropped)
    BY <1>6, <1>8, Zenon
  <1>. QED  BY <1>2, <1>3, <1>7, <1>9 DEF Missing

LEMMA ClosedCountThen ==
    TypeOK' /\ EveryCallAccountedFor' /\ MaxRequests = 1 /\ ~trace_live'
        => drop_counter'[1] = Missing' + RecordsIn(Dropped)'
  <1>1. TypeOK /\ EveryCallAccountedFor /\ MaxRequests = 1 /\ ~trace_live
            => drop_counter[1] = Missing + RecordsIn(Dropped)
    BY ClosedCount
  <1>2. (TypeOK /\ EveryCallAccountedFor /\ MaxRequests = 1 /\ ~trace_live
            => drop_counter[1] = Missing + RecordsIn(Dropped))'
    BY <1>1, PTL
  <1>. QED  BY <1>2

\* Then what was refused stays, and what was given up may grow.
LEMMA ShipperFates ==
    ASSUME TypeOK, HoldersInv, Shipper \/ UNCHANGED vars
    PROVE  \A i \in Numbers : /\ fate'[i] = "refused" <=> fate[i] = "refused"
                              /\ fate[i] \in Dropped => fate'[i] \in Dropped
  <1>1. CASE ShipperCountsDrop
    <2>. DEFINE k == in_flight[1].no
    <2>1. in_flight # <<>> /\ fate' = [fate EXCEPT ![k] = "given_up"]
      BY <1>1, NumbersAre DEF ShipperCountsDrop
    <2>2. ~counted
      BY <1>1, Zenon DEF ShipperCountsDrop
    <2>3. k \in Numbers /\ fate[k] = "in_flight"
      BY <2>1, <2>2 DEF HoldersInv, InFlightInv, InHistory
    <2>. HIDE DEF k
    <2>4. fate'[k] = "given_up" /\ \A i \in Numbers : i # k => fate'[i] = fate[i]
      BY <2>1, <2>3, FateBecomes, Zenon
    <2>. QED  BY <2>3, <2>4 DEF Dropped
  <1>2. CASE ShipperReceives
    <2>. DEFINE k == queue[1].no
    <2>1. queue # <<>> /\ Head(queue) = queue[1] /\ 1 \in 1..Len(queue)
      <3>1. queue # <<>>
        BY <1>2 DEF ShipperReceives
      <3>. QED  BY <3>1, SharedFacts, EmptySeq, LenProperties, HeadTailProperties
    <2>2. fate' = [fate EXCEPT ![k] = "in_flight"]
      BY <1>2, <2>1 DEF ShipperReceives
    <2>3. k \in Numbers /\ fate[k] = "queued"
      BY <2>1 DEF HoldersInv, QueueInv, InHistory
    <2>. HIDE DEF k
    <2>4. fate'[k] = "in_flight" /\ \A i \in Numbers : i # k => fate'[i] = fate[i]
      BY <2>2, <2>3, FateBecomes, Zenon
    <2>. QED  BY <2>3, <2>4 DEF Dropped
  <1>3. CASE ShipperReleases
    <2>. DEFINE k == in_flight[1].no
    <2>1. in_flight # <<>>
          /\ fate' = IF counted THEN fate ELSE [fate EXCEPT ![k] = "delivered"]
      BY <1>3, NumbersAre DEF ShipperReleases
    <2>2. CASE ~counted
      <3>1. k \in Numbers /\ fate[k] = "in_flight"
        BY <2>1, <2>2 DEF HoldersInv, InFlightInv, InHistory
      <3>2. fate' = [fate EXCEPT ![k] = "delivered"]
        BY <2>1, <2>2
      <3>. HIDE DEF k
      <3>3. fate'[k] = "delivered" /\ \A i \in Numbers : i # k => fate'[i] = fate[i]
        BY <3>1, <3>2, FateBecomes, Zenon
      <3>. QED  BY <3>1, <3>3 DEF Dropped
    <2>. QED  BY <2>1, <2>2
  <1>4. CASE ShipperPanics
    BY <1>4, NumbersAre DEF ShipperPanics, Dropped
  <1>5. CASE UNCHANGED vars
    BY <1>5 DEF vars, shared_vars
  <1>. QED  BY <1>1, <1>2, <1>3, <1>4, <1>5 DEF Shipper

LEMMA CountsMove ==
    ASSUME TypeOK, HoldersInv, Shipper \/ UNCHANGED vars
    PROVE  /\ Missing' = Missing
           /\ RecordsIn({"refused"})' = RecordsIn({"refused"})
           /\ RecordsIn(Dropped) <= RecordsIn(Dropped)'
  <1>. DEFINE w == CallCountsOf(flushed)
              A == {i \in DOMAIN flushed : fate[i] \in {"refused"}}
              B == {i \in DOMAIN flushed : fate[i] \in Dropped}
              AA == {i \in DOMAIN flushed : fate'[i] \in {"refused"}}
              BB == {i \in DOMAIN flushed : fate'[i] \in Dropped}
  <1>1. UNCHANGED <<begun, flushed>>
    BY DEF Shipper, ShipperReceives, ShipperCountsDrop, ShipperReleases, ShipperPanics,
           vars, shared_vars, env_vars
  <1>2. Missing' = Missing
    BY <1>1, LedgersAre DEF Missing, Numbers
  <1>3. A = AA /\ B \subseteq BB
    BY ShipperFates DEF Numbers
  <1>4. /\ RecordsIn({"refused"}) = TotalIn(w, A) /\ RecordsIn(Dropped) = TotalIn(w, B)
        /\ RecordsIn({"refused"})' = TotalIn(w, AA) /\ RecordsIn(Dropped)' = TotalIn(w, BB)
    BY <1>1, LedgersAre DEF RecordsIn
  <1>5. w \in Seq(Nat)
    BY SharedFacts, WeightsAre
  <1>. HIDE DEF w, A, B, AA, BB
  <1>. QED  BY <1>2, <1>3, <1>4, <1>5, TotalInMonotone

LEMMA SummaryStep ==
    ASSUME TypeOK, TypeOK', HoldersInv, EveryCallAccountedFor', [Next]_vars,
           dump \in Seq(Lines), SummaryInv, NEW block, NEW rest, Writes(block, rest)
    PROVE  SummaryInv'
  <1>. SUFFICES ASSUME MarkersRead' # <<>>, MaxRequests = 1
                PROVE  /\ LastRequestOver' /\ refused' = <<>> /\ DropsRead' # <<>>
                       /\ Missing' + RecordsIn({"refused"})' <= Last(DropsRead').dropped_records
                       /\ Last(DropsRead').dropped_records <= Missing' + RecordsIn(Dropped)'
    BY DEF SummaryInv, Dropped
  <1>1. \/ DropsRead' = DropsRead /\ MarkersRead' = MarkersRead
        \/ Closing /\ DropsRead' = Append(DropsRead, DLine)
    BY ReadNext
  <1>2. CASE DropsRead' = DropsRead /\ MarkersRead' = MarkersRead
    <2>. DEFINE d == Last(DropsRead).dropped_records
    <2>1. /\ LastRequestOver /\ refused = <<>> /\ DropsRead # <<>>
          /\ Missing + RecordsIn({"refused"}) <= d /\ d <= Missing + RecordsIn(Dropped)
      BY <1>2 DEF SummaryInv, Dropped
    <2>2. LastRequestOver' /\ refused' = <<>> /\ (Shipper \/ UNCHANGED vars)
      BY <2>1, OverStays
    <2>3. /\ Missing' = Missing /\ RecordsIn({"refused"})' = RecordsIn({"refused"})
          /\ RecordsIn(Dropped) <= RecordsIn(Dropped)'
      BY <2>2, CountsMove
    <2>4. d \in Nat
      <3>1. DropsRead \in Seq(DropLine) /\ Len(DropsRead) \in Nat
        BY DumpReadAs, LenProperties
      <3>2. Len(DropsRead) \in 1..Len(DropsRead)
        BY <2>1, <3>1, EmptySeq
      <3>3. DropsRead[Len(DropsRead)] \in DropLine
        BY <3>1, <3>2, ElementOfSeq
      <3>. QED  BY <3>3 DEF Last, DropLine
    <2>5. Missing \in Int /\ RecordsIn(Dropped) \in Nat /\ RecordsIn(Dropped)' \in Nat
      <3>1. begun[1] \in Nat
        BY DEF TypeOK, EnvTypeOK, Requests
      <3>. QED  BY <3>1, CountsTyped, CountsTypedThen DEF Missing
    <2>6. Last(DropsRead').dropped_records = d
      BY <1>2
    <2>. HIDE DEF d
    <2>7. d <= Missing + RecordsIn(Dropped)'
      BY <2>1, <2>3, <2>4, <2>5
    <2>. QED  BY <1>2, <2>1, <2>2, <2>3, <2>6, <2>7
  <1>3. CASE Closing /\ DropsRead' = Append(DropsRead, DLine)
    <2>1. ~trace_live' /\ refused' = <<>> /\ UNCHANGED request /\ request \in Requests
      BY <1>3 DEF Closing
    <2>2. LastRequestOver' /\ request = 1
      BY <2>1, OnlyRequest
    <2>3. DropsRead \in Seq(DropLine) /\ DLine \in DropLine
      <3>1. drop_counter'[request] \in Nat
        BY <2>1, SummaryTyped
      <3>. QED  BY <3>1, DumpReadAs DEF DLine, DropLine
    <2>4. DropsRead' # <<>> /\ Last(DropsRead') = DLine
      <3>1. /\ DropsRead' \in Seq(DropLine) /\ Len(DropsRead') = Len(DropsRead) + 1
            /\ DropsRead'[Len(DropsRead) + 1] = DLine /\ Len(DropsRead) \in Nat
        BY <1>3, <2>3, AppendProperties, LenProperties
      <3>. QED  BY <3>1, EmptySeq DEF Last
    <2>5. Last(DropsRead').dropped_records = drop_counter'[1]
      BY <2>2, <2>4 DEF DLine
    <2>6. drop_counter'[1] = Missing' + RecordsIn(Dropped)'
      BY <2>1, ClosedCountThen
    <2>7. Missing' \in Int
      <3>1. begun'[1] \in Nat
        BY DEF TypeOK, EnvTypeOK, Requests
      <3>. QED  BY <3>1, CountsTypedThen DEF Missing
    <2>8. /\ Missing' + RecordsIn({"refused"})' <= drop_counter'[1]
          /\ drop_counter'[1] <= Missing' + RecordsIn(Dropped)'
      BY <2>6, <2>7, CountsTypedThen
    <2>. QED  BY <2>1, <2>2, <2>4, <2>5, <2>8
  <1>. QED  BY <1>1, <1>2, <1>3

-----------------------------------------------------------------------------
(* What the file says.                                                     *)

LEMMA DumpSays ==
    ASSUME TypeOK, DumpPathSet, DumpInv
    PROVE  DumpFaithful
  <1>1. ReadInv /\ FlushesInv /\ SummaryInv /\ dump \in Seq(Lines)
    BY DEF DumpInv, ReadInv
  <1>. DEFINE parsed == parse_dump(dump)
  <1>2. /\ parsed.dict = EntriesRead /\ parsed.calls = CallsRead /\ parsed.flushes = FlushesRead
        /\ parsed.dropped_records = Mapped(DroppedField, DropsRead)
        /\ parsed.rshutdown_marker_seen <=> MarkersRead # <<>>
    BY <1>1, ParsedIs, Zenon DEF EntriesRead, CallsRead, FlushesRead, DropsRead, MarkersRead
  <1>. HIDE DEF parsed
  <1>3. DumpHoldsBatches
    <2>1. /\ parsed.calls = FlattenSeq([i \in DOMAIN flushed |-> flushed[i].calls])
          /\ parsed.dict = FlattenSeq([i \in DOMAIN flushed |-> flushed[i].dict])
      BY <1>1, <1>2 DEF ReadInv, DictsIn, CallsSentIn
    <2>2. ASSUME NEW i \in DOMAIN parsed.flushes
          PROVE  LET flush == parsed.flushes[i] IN
                    CASE flush.trigger = "records" -> flush.record_count = FlushRecords
                      [] flush.trigger = "bytes"   -> /\ flush.record_count < FlushRecords
                                                      /\ flush.estimated_bytes >= FlushBytes
                      [] OTHER -> i = Len(parsed.flushes) \/ MaxRequests > 1
      <3>. DEFINE l == FlushesRead[i]
      <3>1. FlushesRead \in Seq(FlushLine) /\ DOMAIN FlushesRead = 1..Len(FlushesRead)
        BY <1>1, DumpReadAs, LenProperties
      <3>2. i \in 1..Len(FlushesRead) /\ l \in FlushLine
        <4>1. i \in 1..Len(FlushesRead)
          BY <1>2, <2>2, <3>1
        <4>. QED  BY <3>1, <4>1, ElementOfSeq
      <3>3. l.trigger \in Triggers
        BY <3>2 DEF FlushLine
      <3>4. /\ l.trigger = "records" => l.record_count = FlushRecords
            /\ l.trigger = "bytes" => l.record_count < FlushRecords /\ l.estimated_bytes >= FlushBytes
            /\ l.trigger = "rshutdown" => i = Len(FlushesRead) \/ MaxRequests > 1
        <4>1. Justified(l) /\ (l.trigger = "rshutdown" /\ MaxRequests <= 1 => i = Len(FlushesRead))
          BY <1>1, <3>2 DEF FlushesInv
        <4>2. MaxRequests \in Nat
          BY ConfigAssumption DEF ConfigAssumption
        <4>. QED  BY <4>1, <4>2 DEF Justified
      <3>5. parsed.flushes[i] = l /\ Len(parsed.flushes) = Len(FlushesRead)
        BY <1>2
      <3>. HIDE DEF l
      <3>6. l.trigger = "records" \/ l.trigger = "bytes" \/ l.trigger = "rshutdown"
        BY <3>3 DEF Triggers
      <3>. QED  BY <3>4, <3>5, <3>6
    <2>3. DumpHoldsBatches <=>
            (DumpPathSet =>
                /\ parsed.calls = FlattenSeq([i \in DOMAIN flushed |-> flushed[i].calls])
                /\ parsed.dict = FlattenSeq([i \in DOMAIN flushed |-> flushed[i].dict])
                /\ \A i \in DOMAIN parsed.flushes :
                    LET flush == parsed.flushes[i] IN
                        CASE flush.trigger = "records" -> flush.record_count = FlushRecords
                          [] flush.trigger = "bytes"   -> /\ flush.record_count < FlushRecords
                                                          /\ flush.estimated_bytes >= FlushBytes
                          [] OTHER -> i = Len(parsed.flushes) \/ MaxRequests > 1)
      BY Zenon DEF DumpHoldsBatches, parsed
    <2>. QED  BY <2>1, <2>2, <2>3, Zenon
  <1>4. DumpReconciles
    <2>. DEFINE missing == begun[1] - Len(parsed.calls)
                dropped == Last(parsed.dropped_records)
    <2>1. ASSUME MaxRequests = 1, parsed.rshutdown_marker_seen
          PROVE  /\ missing + RecordsIn({"refused"}) <= dropped
                 /\ dropped <= missing + RecordsIn({"refused", "given_up"})
      <3>1. /\ DropsRead # <<>>
            /\ Missing + RecordsIn({"refused"}) <= Last(DropsRead).dropped_records
            /\ Last(DropsRead).dropped_records <= Missing + RecordsIn({"refused", "given_up"})
        BY <1>1, <1>2, <2>1 DEF SummaryInv
      <3>2. dropped = Last(DropsRead).dropped_records
        <4>1. /\ DropsRead \in Seq(DropLine) /\ DropsRead \in Seq(LinesOf("DROP"))
          BY <1>1, DumpReadAs DEF LinesOf
        <4>2. /\ Len(DropsRead) \in Nat /\ Len(parsed.dropped_records) = Len(DropsRead)
              /\ \A i \in 1..Len(DropsRead) :
                    /\ DropsRead[i] \in DropLine
                    /\ parsed.dropped_records[i] = DroppedField[DropsRead[i]]
          BY <1>2, <4>1, FieldMaps, MappedAre DEF LinesOf
        <4>3. Len(DropsRead) \in 1..Len(DropsRead)
          BY <3>1, <4>1, <4>2, EmptySeq
        <4>. QED  BY <4>2, <4>3 DEF Last, DroppedField
      <3>3. missing = Missing
        <4>. DEFINE w == CallCountsOf(flushed)
                    s == CallsSentIn(flushed)
        <4>1. /\ flushed \in Seq(Batches) /\ w \in Seq(Nat) /\ Len(w) = Len(flushed)
              /\ \A i \in 1..Len(flushed) : w[i] = Len(flushed[i].calls)
          BY SharedFacts, WeightsAre
        <4>2. /\ s \in Seq(Seq(Records)) /\ Len(s) = Len(flushed)
              /\ \A i \in 1..Len(flushed) : s[i] = flushed[i].calls
          BY <4>1, HistoryReads
        <4>3. CallsIn(Numbers) = TotalIn(w, Numbers) /\ Numbers = 1..Len(flushed)
          BY LedgersAre, NumbersAre
        <4>4. parsed.calls = FlattenSeq(s)
          BY <1>1, <1>2 DEF ReadInv
        <4>. HIDE DEF w, s
        <4>5. w \in Seq(Int)
          BY <4>1, SeqMonotonic
        <4>6. Len(FlattenSeq(s)) = Total(w)
          <5>1. Len(w) = Len(s) /\ \A i \in 1..Len(s) : w[i] = Len(s[i])
            BY <4>1, <4>2
          <5>. QED  BY <4>2, <4>5, <5>1, FlattenLen
        <4>7. TotalIn(w, Numbers) = Total(w)
          BY <4>1, <4>3, TotalInAll
        <4>. QED  BY <4>3, <4>4, <4>6, <4>7 DEF Missing
      <3>. QED  BY <3>1, <3>2, <3>3
    <2>2. DumpReconciles <=>
            ((DumpPathSet /\ MaxRequests = 1 /\ parsed.rshutdown_marker_seen) =>
                /\ missing + RecordsIn({"refused"}) <= dropped
                /\ dropped <= missing + RecordsIn({"refused", "given_up"}))
      BY Zenon DEF DumpReconciles, parsed
    <2>. QED  BY <2>1, <2>2, Zenon
  <1>. QED  BY <1>3, <1>4 DEF DumpFaithful

\* Without a path nothing is claimed.
LEMMA NoDump == ~DumpPathSet => DumpFaithful
  BY DEF DumpFaithful, DumpHoldsBatches, DumpReconciles

LEMMA DumpInitially == DumpInit => Init /\ BufferInv /\ DumpInv
  <1>. SUFFICES ASSUME DumpInit
                PROVE  Init /\ BufferInv /\ DumpInv
    OBVIOUS
  <1>1. Init /\ dump = <<>> /\ flushed = <<>>
    BY DEF DumpInit, Init
  <1>2. Reads(dump, <<>>, <<>>, <<>>, <<>>, <<>>)
    BY <1>1, ReadsNothing
  <1>3. /\ EntriesRead = <<>> /\ CallsRead = <<>> /\ FlushesRead = <<>> /\ MarkersRead = <<>>
        /\ dump \in Seq(Lines)
    BY <1>2, Zenon DEF Reads, EntriesRead, CallsRead, FlushesRead, MarkersRead
  <1>4. DictsIn(flushed) = <<>> /\ CallsSentIn(flushed) = <<>>
    BY <1>1 DEF DictsIn, CallsSentIn
  <1>5. ReadInv
    BY <1>3, <1>4, FlattenNothing, Zenon DEF ReadInv
  <1>6. FlushesInv
    <2>1. Len(FlushesRead) = 0
      BY <1>3, EmptySeq
    <2>. QED  BY <2>1 DEF FlushesInv
  <1>7. SummaryInv
    BY <1>3, Zenon DEF SummaryInv
  <1>. QED  BY <1>1, <1>5, <1>6, <1>7, BufferInit DEF DumpInv

LEMMA DumpStep ==
    ASSUME TypeOK, TypeOK', StackInv, HoldersInv, TracesInv, StagedInv, BufferInv,
           EveryCallAccountedFor', DumpInv, [DumpNext]_dump_spec_vars
    PROVE  BufferInv' /\ DumpInv'
  <1>1. [Next]_vars /\ LifoCount
    BY DumpStepsAreSteps DEF StackInv
  <1>2. BufferInv'
    BY <1>1, BufferStep
  <1>3. ASSUME DumpPathSet
        PROVE  ReadInv' /\ FlushesInv' /\ SummaryInv'
    <2>1. ReadInv /\ FlushesInv /\ SummaryInv /\ dump \in Seq(Lines)
      BY <1>3 DEF DumpInv, ReadInv
    <2>2. PICK block, rest : Writes(block, rest)
      BY <1>1, <1>3, <2>1, StepWrites
    <2>. QED  BY <1>1, <2>1, <2>2, ReadStep, FlushesStep, SummaryStep
  <1>. QED  BY <1>2, <1>3 DEF DumpInv

\* Whatever the threads interleave, the dump that is built beside the recorder
\* tells its reader what was recorded: every batch that was cut, sent or not, in
\* the order of emission, cut only at a threshold or at the end; and, of the
\* only trace, a DROP count that makes up for the calls in no line.
THEOREM DumpCorrect == DumpSpec => []DumpFaithful
  <1>1. DumpSpec => Spec
    BY DumpInitially, DumpStepsAreSteps, PTL DEF DumpSpec, Spec
  <1>2. /\ TypeOK /\ StackInv /\ HoldersInv /\ TreeInv /\ StagedInv /\ TypeOK'
        /\ LedgersBalance' /\ BufferInv /\ DumpInv /\ [DumpNext]_dump_spec_vars
        => BufferInv' /\ DumpInv'
    BY DumpStep DEF TreeInv, LedgersBalance
  <1>3. TypeOK /\ DumpInv => DumpFaithful
    BY DumpSays, NoDump
  <1>. QED  BY <1>1, <1>2, <1>3, DumpInitially, TreeAlways, HoldersAlways, LedgersCorrect, PTL
            DEF DumpSpec

=============================================================================
