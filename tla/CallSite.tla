------------------------------ MODULE CallSite ------------------------------
(***************************************************************************)
(* What php-analyze makes of the execute_data Zend hands to its observer   *)
(* (recorder/observer.rs): what is known of the function, whether it is    *)
(* observed, and which function of the trace it is.                        *)
(*                                                                         *)
(* A text is the sequence of its parts: a word, a punctuation, a digit.  A *)
(* zend_string is a word or None (a null pointer); Lossy gives the text it *)
(* is decoded to.                                                          *)
(***************************************************************************)
EXTENDS Config, Totals

CONSTANTS
    U32,            \* 2^32: an address cast to a line number is cut to 32 bits
    Lossy,          \* String::from_utf8_lossy on the words of zend_strings
    ClosureNames,   \* the words that start with "{closure"
    Length          \* the bytes of a word or a punctuation

ASSUME U32Assumption == U32 \in Nat \ {0}

\* The bytes of the literals of the names php-analyze makes up.
ASSUME LengthAssumption ==
    /\ {"(", ")@0x", "closure:", ":", "::", "anonymous"} \subseteq DOMAIN Length
    /\ \A w \in DOMAIN Length : Length[w] \in Nat
    /\ Length["("] = 1 /\ Length[")@0x"] = 4
    /\ Length["closure:"] = 8 /\ Length[":"] = 1 /\ Length["::"] = 2

\* Lower case differs in ASCII letters only: words it makes equal are both
\* UTF-8 or both not, and doing it twice changes nothing.
ASSUME LowerAssumption ==
    /\ Lower["::"] = "::"
    /\ \A w \in DOMAIN Lower : Lower[w] \in DOMAIN Lower /\ Lower[Lower[w]] = Lower[w]
    /\ \A v, w \in DOMAIN Lower : Lower[v] = Lower[w] => (Lossy[v] = v <=> Lossy[w] = w)

-----------------------------------------------------------------------------
(* Texts.                                                                  *)

Digits == <<"0", "1", "2", "3", "4", "5", "6", "7", "8", "9", "a", "b", "c", "d", "e", "f">>

\* What is left of n after k divisions by b.
Quotients(n, b) == LET after[k \in 0..n] == IF k = 0 THEN n ELSE after[k - 1] \div b IN after

\* How often b divides n before nothing is left.
ilog(n, b) ==
    CHOOSE k \in 0..(n - 1) : Quotients(n, b)[k] # 0 /\ Quotients(n, b)[k + 1] = 0

\* What format! writes for n in base b.
Numeral(n, b) ==
    LET top == IF n = 0 THEN 0 ELSE ilog(n, b)
    IN [i \in 1..(top + 1) |-> Digits[1 + (Quotients(n, b)[top + 1 - i] % b)]]

PartLen(part) == IF \E i \in DOMAIN Digits : Digits[i] = part THEN 1 ELSE Length[part]

\* String::len
TextLen(text) == Total([i \in DOMAIN text |-> PartLen(text[i])])

TextOf(option, otherwise) == IF option = None THEN otherwise ELSE <<option>>

-----------------------------------------------------------------------------
(* Reading execute_data.  func says which arm of zend_function is active.  *)

zend_string_to_cow(zs) == IF zs = None THEN None ELSE Lossy[zs]

\* RawCallSite::empty, with the address extract_call_site puts in.
EmptyCallSite(addr) ==
    [function_name |-> None, class_name |-> None, filename |-> None,
     lineno |-> 0, is_internal |-> FALSE, execute_data_addr |-> addr]

extract_call_site(execute_data) ==
    IF execute_data.func = "null" THEN EmptyCallSite(execute_data.addr)
    ELSE LET is_internal == execute_data.func = "internal"
         IN [function_name |-> zend_string_to_cow(execute_data.function_name),
             class_name    |-> zend_string_to_cow(execute_data.scope),
             filename      |-> IF is_internal THEN None ELSE zend_string_to_cow(execute_data.filename),
             lineno        |-> IF is_internal THEN 0 ELSE execute_data.line_start,
             is_internal   |-> is_internal,
             execute_data_addr |-> execute_data.addr]

\* ext_php_rs' view of the same call, which should_observe gets: a name that
\* is not UTF-8 is no name there.
Utf8OrNone(zs) == IF zs # None /\ Lossy[zs] = zs THEN zs ELSE None
FcallInfo(execute_data) ==
    IF execute_data.func = "null"
    THEN [function_name |-> None, class_name |-> None, is_internal |-> FALSE]
    ELSE [function_name |-> Utf8OrNone(execute_data.function_name),
          class_name    |-> Utf8OrNone(execute_data.scope),
          is_internal   |-> execute_data.func = "internal"]

-----------------------------------------------------------------------------
(* Identities.                                                             *)

Method(class, method)       == [variant |-> "Method", class |-> class, method |-> method]
Closure(file, line)         == [variant |-> "Closure", file |-> file, line |-> line]
Function(file, name, line)  == [variant |-> "Function", file |-> file, function |-> name, line |-> line]
Internal(name)              == [variant |-> "Internal", name |-> name]

unknown_placeholder(kind, addr) == <<"(", kind, ")@0x">> \o Numeral(addr, 16)

IsClosure(info) == IF info.function_name = None
                   THEN info.filename # None ELSE info.function_name \in ClosureNames

ClosureFqn(file, line) == <<"closure:">> \o file \o <<":">> \o Numeral(line, 10)

Categorised(key, kind, fqn, file, line) ==
    [key |-> key, kind |-> kind, fqn |-> fqn, file |-> file, line |-> line]

\* The allocating categorisation, which the unit tests and the benches use.
categorise(info) ==
    LET file == TextOf(info.filename, <<>>)
        name(label) == TextOf(info.function_name,
                              unknown_placeholder(label, info.execute_data_addr))
    IN CASE info.is_internal ->
                Categorised(Internal(name("anonymous")), "Internal", name("anonymous"), <<>>, 0)
         [] ~info.is_internal /\ info.class_name # None ->
                Categorised(Method(<<info.class_name>>, name("unknown")), "Method",
                            <<info.class_name, "::">> \o name("unknown"), file, info.lineno)
         [] ~info.is_internal /\ info.class_name = None /\ IsClosure(info) ->
                Categorised(Closure(file, info.lineno), "Closure",
                            ClosureFqn(file, info.lineno), file, info.lineno)
         [] OTHER ->
                Categorised(Function(file, name("unknown"), info.lineno), "Function",
                            name("unknown"), file, info.lineno)

-----------------------------------------------------------------------------
(* The lazy categorisation of the begin handler: the name is a FqnSpec,    *)
(* rendered on a dictionary miss only.                                     *)

Borrowed(name)            == [spec |-> "Borrowed", name |-> name]
MethodSpec(class, method) == [spec |-> "Method", class |-> class, method |-> method]
ClosureSpec(file, line)   == [spec |-> "Closure", file |-> file, line |-> line]
Unknown(kind_label, addr) == [spec |-> "Unknown", kind_label |-> kind_label, addr |-> addr]

render(spec) ==
    CASE spec.spec = "Borrowed" -> spec.name
      [] spec.spec = "Method"   -> spec.class \o <<"::">> \o spec.method
      [] spec.spec = "Closure"  -> ClosureFqn(spec.file, spec.line)
      [] spec.spec = "Unknown"  -> unknown_placeholder(spec.kind_label, spec.addr)

\* Mutant: the bits of an address are divided by four and rounded down.
HexDigitsRoundedDown(addr) == (ilog(addr, 2) + 1) \div 4

LineDigits(line) == IF line = 0 THEN 1 ELSE ilog(line, 10) + 1
HexDigits(addr) == IF addr = 0 THEN 1 ELSE (ilog(addr, 2) + 1 + 3) \div 4

\* What render will take, without rendering.
render_len(spec) ==
    CASE spec.spec = "Borrowed" -> TextLen(spec.name)
      [] spec.spec = "Method"   -> TextLen(spec.class) + 2 + TextLen(spec.method)
      [] spec.spec = "Closure"  -> 8 + TextLen(spec.file) + 1 + LineDigits(spec.line)
      [] spec.spec = "Unknown"  -> 1 + Length[spec.kind_label] + 4 + HexDigits(spec.addr)

LazyCategorised(key_ref, kind, fqn_spec, file, line) ==
    [key_ref |-> key_ref, kind |-> kind, fqn_spec |-> fqn_spec, file |-> file, line |-> line]

\* Mutant: what is named like a closure is one, its class notwithstanding.
LazyClosureFirst(info) ==
    LET file == TextOf(info.filename, <<>>)
        name == TextOf(info.function_name, <<>>)
    IN CASE info.is_internal -> LazyCategorised(Internal(name), "Internal", Borrowed(name), <<>>, 0)
         [] ~info.is_internal /\ IsClosure(info) ->
                LazyCategorised(Closure(file, info.lineno), "Closure",
                                ClosureSpec(file, info.lineno), file, info.lineno)
         [] ~info.is_internal /\ ~IsClosure(info) /\ info.class_name # None ->
                LazyCategorised(Method(<<info.class_name>>, name), "Method",
                                MethodSpec(<<info.class_name>>, name), file, info.lineno)
         [] OTHER -> LazyCategorised(Function(file, name, info.lineno), "Function",
                                     Borrowed(name), file, info.lineno)

categorise_lazy(info) ==
    LET file == TextOf(info.filename, <<>>)
        name == TextOf(info.function_name, <<>>)
        addr == info.execute_data_addr
    IN CASE info.is_internal /\ info.function_name # None ->
                LazyCategorised(Internal(name), "Internal", Borrowed(name), <<>>, 0)
         [] info.is_internal /\ info.function_name = None ->
                LazyCategorised(Function(<<>>, <<>>, addr % U32), "Internal",
                                Unknown("anonymous", addr), <<>>, 0)
         [] ~info.is_internal /\ info.class_name # None ->
                LazyCategorised(Method(<<info.class_name>>, name), "Method",
                                MethodSpec(<<info.class_name>>, name), file, info.lineno)
         [] ~info.is_internal /\ info.class_name = None /\ IsClosure(info) ->
                LazyCategorised(Closure(file, info.lineno), "Closure",
                                ClosureSpec(file, info.lineno), file, info.lineno)
         [] OTHER ->
                LazyCategorised(Function(file, name, info.lineno), "Function",
                                Borrowed(name), file, info.lineno)

-----------------------------------------------------------------------------
(* The filter.                                                             *)

\* Mutant: the call's name is looked up as PHP code wrote it.
SkipKeyAsWritten(info) ==
    IF info.class_name = None
    THEN <<info.function_name>> ELSE <<info.class_name, "::", info.function_name>>

\* The key should_observe looks up in the skip list.
SkipKey(info) ==
    IF info.class_name = None
    THEN <<Lower[info.function_name]>>
    ELSE <<Lower[info.class_name], "::", Lower[info.function_name]>>

should_observe_filter(skip_internal, skip_functions, info) ==
    /\ ~(skip_internal /\ info.is_internal)
    /\ info.function_name # None => SkipKey(info) \notin skip_functions

=============================================================================
