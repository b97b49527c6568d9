----------------------------- MODULE MCProcess ------------------------------
(***************************************************************************)
(* Instances of Process for TLC: ini files that differ from a working one  *)
(* in the directives that interact, and call sites of every shape Zend     *)
(* reports.                                                                *)
(***************************************************************************)
EXTENDS Process, TLC

\* The words of the names below; "::" is a part of a text too.  Two of them
\* are not UTF-8 and look alike once decoded.
MCWords == {"strlen", "StrLen", "cache", "Cache", "get", "Get", "main", "{closure}",
            "::", "a", "caf\\351", "caf\\350", "caf?"}
MCLower == [w \in MCWords |-> CASE w = "StrLen" -> "strlen"
                                [] w = "Cache"  -> "cache"
                                [] w = "Get"    -> "get"
                                [] OTHER        -> w]
MCLossy == [w \in MCWords |-> IF w \in {"caf\\351", "caf\\350"} THEN "caf?" ELSE w]
MCClosureNames == {"{closure}"}
MCLength == [strlen |-> 6, StrLen |-> 6, cache |-> 5, Cache |-> 5, get |-> 3, Get |-> 3, main |-> 4,
             a |-> 1, anonymous |-> 9, unknown |-> 7]
            @@ ("{closure}" :> 9) @@ ("::" :> 2) @@ ("caf?" :> 6)
            @@ ("(" :> 1) @@ (")@0x" :> 4) @@ ("closure:" :> 8) @@ (":" :> 1)

\* A hash that often collides: the variant and the last thing written.
MCFxHash(writes) == <<writes[1], writes[Len(writes)]>>

MCDefaultSkip == {<<"strlen">>}

MCWorking ==
    [d \in Integral |-> Empty] @@
    [enabled |-> "on", server_url |-> "https", auth_token |-> "t", auth_token_file |-> Empty,
     cpu_snapshot_mode |-> Empty, skip_functions |-> Empty, skip_internal |-> Empty]

\* The same, with nearly every call filtered: the files below that are not
\* about calls.
MCQuiet ==
    [MCWorking EXCEPT
        !.skip_internal = "on",
        !.skip_functions = {<<"get">>, <<"main">>, <<"{closure}">>, <<"cache", "::", "get">>,
                            <<"cache", "::", "{closure}">>}]

\* Whether it is enabled at all, and why not.
MCEndpoints ==
    {[MCQuiet EXCEPT !.enabled = e, !.server_url = u, !.auth_token = t, !.auth_token_file = f] :
        e \in {Empty, "on", "off", Junk}, u \in {Empty, "https", "http", "ftp", Junk},
        t \in {Empty, "t"}, f \in {Empty, "path"}}

\* A limit outside its range, outside an i64 or unreadable; flush_bytes against the cap.
MCLimits ==
    {[MCQuiet EXCEPT ![d] = v] :
        d \in Integral, v \in {-1, 0, 1, 11, 2000, 70000, MAX_BUFFER_CAP_BYTES,
                             MAX_I64, MAX_I64 + 1, -MAX_I64 - 2, Junk}}
    \cup {[MCQuiet EXCEPT !.flush_bytes = b, !.buffer_cap_bytes = c] :
        b \in {Empty, 0, 2000, 100000000, 1000000001}, c \in {Empty, 0, 2000, 100000000}}

\* What is observed, and how.
MCFilters ==
    {[MCQuiet EXCEPT !.cpu_snapshot_mode = m] : m \in {Empty, "per-call", "off", Junk}}
    \cup {[MCWorking EXCEPT !.skip_functions = s, !.skip_internal = i] :
        s \in {Empty, {}, {<<"StrLen">>}, {<<"Cache", "::", "get">>}, {<<"get">>, <<"main">>}},
        i \in {Empty, "on"}}

MCIniFiles == MCEndpoints \cup MCLimits \cup MCFilters
MCWorkingFile == {MCWorking}
MCReloadedFiles ==
    {MCWorking, [MCWorking EXCEPT !.enabled = "off"],
     [MCWorking EXCEPT !.cpu_snapshot_mode = "off", !.skip_functions = {<<"get">>, <<"main">>}]}

MCSapiStates ==
    {[name |-> "fpm-fcgi", request_uri |-> "/index", argv0 |-> None, path_translated |-> "main.php",
      hostname |-> "web1"],
     [name |-> "cli", request_uri |-> None, argv0 |-> None, path_translated |-> None,
      hostname |-> None]}

ExecuteData(func, scope, name, file, line, addr) ==
    [func |-> func, scope |-> scope, function_name |-> name, filename |-> file,
     line_start |-> line, addr |-> addr]

\* Addresses that differ by U32, and one whose low bits are a line number; line
\* numbers and addresses with one digit and with two.
MCCallSites ==
    {ExecuteData("null", None, None, None, 0, 1),
     ExecuteData("internal", None, "StrLen", None, 0, 1),
     ExecuteData("internal", "Cache", "Get", None, 0, 1),
     ExecuteData("internal", None, None, None, 0, 17),
     ExecuteData("internal", None, None, None, 0, 17 + U32),
     ExecuteData("internal", None, None, None, 0, U32),
     ExecuteData("user", "Cache", "get", "a", 3, 2),
     ExecuteData("user", "caf\\351", "get", "a", 3, 2),
     ExecuteData("user", "Cache", "{closure}", "a", 4, 2),
     ExecuteData("user", "Cache", "{closure}", "a", 9, 2),
     ExecuteData("user", None, "{closure}", "a", 4, 3),
     ExecuteData("user", None, "{closure}", "a", 10, 3),
     ExecuteData("user", None, None, "a", 4, 4),
     ExecuteData("user", None, "get", "a", 4, 4),
     ExecuteData("user", None, "main", "a", 4, 4),
     ExecuteData("user", None, "get", "caf\\351", 4, 4),
     ExecuteData("user", None, "get", "caf\\350", 4, 4)}

=============================================================================
