--------------------------- MODULE ProcessProofs ----------------------------
(***************************************************************************)
(* Proofs about Process.tla: what MINIT stores, for every ini file and     *)
(* every sequence of MINITs, panics and requests; and which calls share an *)
(* fn_id of a trace's dictionary, for every set of call sites and hash.    *)
(***************************************************************************)
EXTENDS Process, SequenceFacts, FiniteSetTheorems

RealDirectives == {"flush_records", "flush_bytes", "buffer_cap_bytes", "max_depth",
                   "retry_count", "retry_backoff_ms", "http_timeout_ms",
                   "shutdown_grace_ms", "shipper_queue_depth"}

\* clamp_directive returns a value of the range, and of the integers.
LEMMA ClampInRange ==
    ASSUME NEW v \in Int, NEW lo \in Int, NEW hi \in Int, lo <= hi
    PROVE  Clamp(v, <<lo, hi>>) \in lo..hi
BY DEF Clamp

\* An ini file's numeric directive is an integer or taken for unset, whatever
\* text it holds.
LEMMA AskedIsInt ==
    ASSUME NEW ini0, Directives \subseteq DOMAIN ini0, NEW d \in Integral,
           NEW default \in Int
    PROVE  DirectiveValue(raw_ini_from_ini_map(ini0), d, default) \in Int
<1> DEFINE raw == raw_ini_from_ini_map(ini0)
<1>1. d \in DOMAIN ini0
  BY DEF Directives
<1>2. d \notin Booleans
  BY SMT DEF Integral, DEFAULT, Booleans
<1>3. raw[d] = lookup_int(ini0[d])
  BY <1>1, <1>2 DEF raw_ini_from_ini_map
<1>4. lookup_int(ini0[d]) \in Int \/ lookup_int(ini0[d]) = None
  BY DEF lookup_int, IsI64
<1> QED BY <1>3, <1>4 DEF DirectiveValue, UnwrapOr

\* The larger of two integers is one of them, and above both.
LEMMA LargerOfTwo ==
    ASSUME NEW a \in Int, NEW b \in Int
    PROVE  /\ Larger(a, b) \in {a, b}
           /\ a <= Larger(a, b) /\ b <= Larger(a, b)
BY DEF Larger

\* The tables of defaults and ranges, directive by directive.
LEMMA Tables ==
    /\ Integral = RealDirectives
    /\ \A d \in Integral : /\ RANGE[d] = <<RANGE[d][1], RANGE[d][2]>>
                           /\ RANGE[d][1] \in Int /\ RANGE[d][2] \in Int /\ DEFAULT[d] \in Int
                           /\ RANGE[d][1] <= RANGE[d][2]
    /\ RANGE["buffer_cap_bytes"][1] <= RANGE["flush_bytes"][1]
    /\ RANGE["flush_bytes"][2] <= RANGE["buffer_cap_bytes"][2]
<1>1. Integral = RealDirectives
  BY SMT DEF Integral, DEFAULT, RealDirectives
<1>2. \A d \in Integral : /\ RANGE[d] = <<RANGE[d][1], RANGE[d][2]>>
                          /\ RANGE[d][1] \in Int /\ RANGE[d][2] \in Int /\ DEFAULT[d] \in Int
                          /\ RANGE[d][1] <= RANGE[d][2]
  BY <1>1, RangeAssumption, SMT DEF RangeAssumption, RANGE, DEFAULT, RealDirectives
<1>3. /\ RANGE["buffer_cap_bytes"][1] <= RANGE["flush_bytes"][1]
      /\ RANGE["flush_bytes"][2] <= RANGE["buffer_cap_bytes"][2]
  BY RangeAssumption, SMT DEF RangeAssumption, RANGE
<1> QED BY <1>1, <1>2, <1>3

\* flush_bytes as clamped is within its own range.
LEMMA FlushInRange ==
    ASSUME NEW ini0, Directives \subseteq DOMAIN ini0
    PROVE  FlushBytes(raw_ini_from_ini_map(ini0))
               \in RANGE["flush_bytes"][1]..RANGE["flush_bytes"][2]
<1> DEFINE asked == DirectiveValue(raw_ini_from_ini_map(ini0), "flush_bytes", DEFAULT["flush_bytes"])
<1>1. "flush_bytes" \in Integral
  BY Tables DEF RealDirectives
<1>2. asked \in Int
  BY <1>1, Tables, AskedIsInt
<1>3. FlushBytes(raw_ini_from_ini_map(ini0)) = Clamp(asked, RANGE["flush_bytes"])
  BY DEF FlushBytes
<1> HIDE DEF asked
<1>4. PICK lo \in Int, hi \in Int : RANGE["flush_bytes"] = <<lo, hi>> /\ lo <= hi
  BY <1>1, Tables
<1>5. Clamp(asked, <<lo, hi>>) \in lo..hi
  BY <1>2, <1>4, ClampInRange
<1> QED BY <1>3, <1>4, <1>5

\* The two rows of RANGE the cap depends on are of integers.
LEMMA FlushBoundsAreInt ==
    /\ RANGE["flush_bytes"][1] \in Int /\ RANGE["flush_bytes"][2] \in Int
    /\ RANGE["buffer_cap_bytes"][1] \in Int /\ RANGE["buffer_cap_bytes"][2] \in Int
BY Tables DEF RealDirectives

\* The range a directive is clamped to is within its documented range, and
\* never empty.
LEMMA RangeOfDirective ==
    ASSUME NEW ini0, Directives \subseteq DOMAIN ini0, NEW d \in Integral
    PROVE  LET raw == raw_ini_from_ini_map(ini0) IN
           \E lo \in Int : /\ RangeOf(raw, d) = <<lo, RANGE[d][2]>>
                           /\ RANGE[d][1] <= lo /\ lo <= RANGE[d][2]
                           /\ d = "buffer_cap_bytes" => FlushBytes(raw) <= lo
                           /\ DefaultOf(raw, d) \in Int
<1> DEFINE raw == raw_ini_from_ini_map(ini0)
<1>1. CASE d = "buffer_cap_bytes"
  <2>1. PICK flush \in Int : FlushBytes(raw) = flush
    BY FlushInRange, FlushBoundsAreInt
  <2>2. PICK lo \in Int, hi \in Int : RANGE[d] = <<lo, hi>> /\ lo <= flush /\ flush <= hi
    BY <1>1, <2>1, Tables, FlushInRange, FlushBoundsAreInt
  <2>3. /\ Larger(lo, flush) \in Int /\ lo <= Larger(lo, flush)
        /\ flush <= Larger(lo, flush) /\ Larger(lo, flush) <= hi
    BY <2>2, LargerOfTwo
  <2>4. RangeOf(raw, d) = <<Larger(lo, flush), hi>>
    BY <1>1, <2>1, <2>2 DEF RangeOf
  <2>5. DefaultOf(raw, d) = Larger(DEFAULT[d], flush)
    BY <1>1, <2>1 DEF DefaultOf
  <2>6. DefaultOf(raw, d) \in Int
    BY <2>5, Tables, LargerOfTwo
  <2> QED BY <2>1, <2>2, <2>3, <2>4, <2>6
<1>2. CASE d # "buffer_cap_bytes"
  <2>1. RangeOf(raw, d) = <<RANGE[d][1], RANGE[d][2]>> /\ DefaultOf(raw, d) = DEFAULT[d]
    BY <1>2, Tables DEF RangeOf, DefaultOf
  <2> QED BY <1>2, <2>1, Tables
<1> QED BY <1>1, <1>2

\* The nine numeric limits are in their ranges, and the cap is not below the
\* flush threshold.
LEMMA LimitsInRange ==
    ASSUME NEW ini0, Directives \subseteq DOMAIN ini0
    PROVE  LET limits == Limits(raw_ini_from_ini_map(ini0)) IN
           /\ \A d \in Integral : limits[d] \in RANGE[d][1]..RANGE[d][2]
           /\ limits["flush_bytes"] <= limits["buffer_cap_bytes"]
<1> DEFINE raw == raw_ini_from_ini_map(ini0)
<1>1. ASSUME NEW d \in Integral
      PROVE  /\ Limits(raw)[d] \in RANGE[d][1]..RANGE[d][2]
             /\ d = "buffer_cap_bytes" => FlushBytes(raw) <= Limits(raw)[d]
  <2>1. PICK lo \in Int : /\ RangeOf(raw, d) = <<lo, RANGE[d][2]>>
                          /\ RANGE[d][1] <= lo /\ lo <= RANGE[d][2]
                          /\ d = "buffer_cap_bytes" => FlushBytes(raw) <= lo
                          /\ DefaultOf(raw, d) \in Int
    BY RangeOfDirective
  <2>2. Asked(raw, d) \in Int
    BY <2>1, AskedIsInt DEF Asked
  <2>3. Limits(raw)[d] = Clamp(Asked(raw, d), <<lo, RANGE[d][2]>>)
    BY <2>1 DEF Limits
  <2>4. PICK hi \in Int : RANGE[d][2] = hi
    BY Tables
  <2>5. Limits(raw)[d] \in lo..hi
    BY <2>1, <2>2, <2>3, <2>4, ClampInRange
  <2>6. PICK min \in Int : RANGE[d][1] = min
    BY Tables
  <2>7. FlushBytes(raw) \in Int
    BY FlushInRange, SMT
  <2> HIDE DEF raw
  <2> QED BY <2>1, <2>4, <2>5, <2>6, <2>7, SMT
<1>2. "flush_bytes" \in Integral /\ "buffer_cap_bytes" \in Integral
  BY Tables DEF RealDirectives
<1>3. Limits(raw)["flush_bytes"] = FlushBytes(raw)
  BY <1>2 DEF Limits, Asked, DefaultOf, RangeOf, FlushBytes
<1> QED BY <1>1, <1>2, <1>3

\* So are the defaults, which a switched-off extension reports.
LEMMA DefaultsInRange ==
    /\ \A d \in Integral : DEFAULT[d] \in RANGE[d][1]..RANGE[d][2]
    /\ DEFAULT["flush_bytes"] <= DEFAULT["buffer_cap_bytes"]
<1>1. \A d \in Integral : RANGE[d][1] <= DEFAULT[d] /\ DEFAULT[d] <= RANGE[d][2]
  BY Tables, RangeAssumption, SMT DEF RangeAssumption, RANGE, DEFAULT, RealDirectives
<1>2. DEFAULT["flush_bytes"] <= DEFAULT["buffer_cap_bytes"]
  BY SMT DEF DEFAULT
<1> QED BY <1>1, <1>2, Tables, SMT

\* A URL without a reason to disable is one of the two accepted schemes.
LEMMA UrlOutcome ==
    ASSUME NEW raw, resolve_server_url(raw).reason = None
    PROVE  resolve_server_url(raw).url # None
<1> DEFINE url == raw.server_url
<1>0. /\ None \notin DisableReasons \cup UrlSchemes
      /\ Junk \notin UrlSchemes \cup {None}
  BY OptionAssumption DEF OptionAssumption
<1>1. CASE url = None
  <2>1. resolve_server_url(raw).reason = "ServerUrlNotConfigured"
    BY <1>0, <1>1, Zenon DEF resolve_server_url, UrlSchemes
  <2> QED BY <1>0, <2>1 DEF DisableReasons
<1>2. CASE url = Junk
  <2>1. resolve_server_url(raw).reason = "ServerUrlInvalid"
    BY <1>0, <1>2, Zenon DEF resolve_server_url, UrlSchemes
  <2> QED BY <1>0, <2>1 DEF DisableReasons
<1>3. CASE url = "https"
  <2>1. resolve_server_url(raw).url = "https"
    BY <1>0, <1>3 DEF resolve_server_url, UrlSchemes
  <2> QED BY <1>0, <2>1 DEF UrlSchemes
<1>4. CASE url = "http"
  <2>1. resolve_server_url(raw).url = "http"
    BY <1>0, <1>4 DEF resolve_server_url, UrlSchemes
  <2> QED BY <1>0, <2>1 DEF UrlSchemes
<1>5. CASE url \notin {None, Junk, "https", "http"}
  <2>1. resolve_server_url(raw).reason = "ServerUrlSchemeUnsupported"
    BY <1>0, <1>5 DEF resolve_server_url
  <2> QED BY <1>0, <2>1 DEF DisableReasons
<1> QED BY <1>1, <1>2, <1>3, <1>4, <1>5

\* A token without a reason to disable comes from the file if one is named,
\* and then the file held a token.
LEMMA TokenOutcome ==
    ASSUME NEW raw, NEW file \in TokenFiles
    PROVE  LET token == resolve_token(raw, file) IN
           /\ token.reason = None => token.source # None
           /\ raw.auth_token_file # None =>
                 /\ token.source # "Inline"
                 /\ token.reason = None => file = "token"
<1> DEFINE token == resolve_token(raw, file)
<1>0. None \notin DisableReasons \cup TokenSources
  BY OptionAssumption DEF OptionAssumption
<1>1. CASE raw.auth_token_file # None /\ file = "token"
  <2>1. token.source = "File"
    BY <1>0, <1>1 DEF resolve_token
  <2> QED BY <1>0, <1>1, <2>1 DEF TokenSources
<1>2. CASE raw.auth_token_file # None /\ file = "blank"
  <2>1. token.source = None /\ token.reason = "TokenFileEmpty"
    BY <1>0, <1>2 DEF resolve_token
  <2> QED BY <1>0, <1>2, <2>1 DEF TokenSources, DisableReasons
<1>3. CASE raw.auth_token_file # None /\ file = "unreadable"
  <2>1. token.source = None /\ token.reason = "TokenFileUnreadable"
    BY <1>0, <1>3 DEF resolve_token
  <2> QED BY <1>0, <1>3, <2>1 DEF TokenSources, DisableReasons
<1>4. CASE raw.auth_token_file = None /\ raw.auth_token # None
  <2>1. token.source = "Inline"
    BY <1>0, <1>4 DEF resolve_token
  <2> QED BY <1>0, <1>4, <2>1 DEF TokenSources
<1>5. CASE raw.auth_token_file = None /\ raw.auth_token = None
  <2>1. token.reason = "TokenNotConfigured"
    BY <1>0, <1>5 DEF resolve_token
  <2> QED BY <1>0, <1>5, <2>1 DEF DisableReasons
<1> QED BY <1>1, <1>2, <1>3, <1>4, <1>5 DEF TokenFiles

\* What from_ini_values returns is fit for use, from any ini file.
LEMMA ResolvedWellFormed ==
    ASSUME NEW ini0, Directives \subseteq DOMAIN ini0, NEW file \in TokenFiles
    PROVE  LET config == from_ini_values(raw_ini_from_ini_map(ini0), file).config IN
           /\ \A d \in Integral : config.limits[d] \in RANGE[d][1]..RANGE[d][2]
           /\ config.limits.flush_bytes <= config.limits.buffer_cap_bytes
           /\ config.enabled => config.server_url # None /\ config.auth_token_source # None
<1> DEFINE raw == raw_ini_from_ini_map(ini0)
           endpoint == Endpoint(raw, file)
           config == from_ini_values(raw, file).config
<1>1. CASE ~MasterEnabled(raw)
  <2>1. config.limits = DEFAULT /\ config.enabled = FALSE
    BY <1>1, Zenon DEF from_ini_values, disabled
  <2> QED BY <2>1, DefaultsInRange, Zenon
<1>2. CASE MasterEnabled(raw)
  <2>1. config.limits = Limits(raw)
    BY <1>2, Zenon DEF from_ini_values
  <2>2. /\ config.enabled = (endpoint.reason = None)
        /\ config.server_url = endpoint.url /\ config.auth_token_source = endpoint.source
    BY <1>2, Zenon DEF from_ini_values
  <2>3. ASSUME endpoint.reason = None
        PROVE  endpoint.url # None /\ endpoint.source # None
    <3> DEFINE url == resolve_server_url(raw)
               token == resolve_token(raw, file)
    <3>1. endpoint.url = url.url
      BY Zenon DEF Endpoint
    <3>2. CASE url.reason # None
      <4>1. endpoint.reason = url.reason
        BY <3>2, Zenon DEF Endpoint
      <4> QED BY <2>3, <3>2, <4>1
    <3>3. CASE url.reason = None
      <4>1. endpoint.reason = token.reason /\ endpoint.source = token.source
        BY <3>3, Zenon DEF Endpoint
      <4>2. token.source # None
        BY <2>3, <4>1, TokenOutcome, Zenon
      <4> QED BY <3>1, <3>3, <4>1, <4>2, UrlOutcome, Zenon
    <3> QED BY <3>2, <3>3
  <2> QED BY <2>1, <2>2, <2>3, LimitsInRange, Zenon
<1> QED BY <1>1, <1>2

\* A token file that is named decides what from_ini_values returns.
LEMMA ResolvedToken ==
    ASSUME NEW ini0, Directives \subseteq DOMAIN ini0, NEW file \in TokenFiles,
           ini0.auth_token_file # Empty, ini0.auth_token_file # None
    PROVE  LET config == from_ini_values(raw_ini_from_ini_map(ini0), file).config IN
           /\ config.auth_token_source # "Inline"
           /\ config.enabled => file = "token"
<1> DEFINE raw == raw_ini_from_ini_map(ini0)
           endpoint == Endpoint(raw, file)
           config == from_ini_values(raw, file).config
           url == resolve_server_url(raw)
           token == resolve_token(raw, file)
<1>0. None # "Inline"
  BY OptionAssumption DEF OptionAssumption, TokenSources
<1>1. "auth_token_file" \in DOMAIN ini0 /\ "auth_token_file" \notin Booleans
  BY DEF Directives, Strings, Booleans
<1>2. "auth_token_file" \notin Integral
  BY Tables DEF RealDirectives
<1>3. raw.auth_token_file = lookup_str(ini0.auth_token_file)
  BY <1>1, <1>2, Zenon DEF raw_ini_from_ini_map
<1>4. raw.auth_token_file # None
  BY <1>3 DEF lookup_str
<1>5. token.source # "Inline" /\ (token.reason = None => file = "token")
  BY <1>4, TokenOutcome, Zenon
<1>6. CASE ~MasterEnabled(raw)
  <2>1. config.auth_token_source = None /\ config.enabled = FALSE
    BY <1>6, Zenon DEF from_ini_values, disabled
  <2> QED BY <1>0, <2>1
<1>7. CASE MasterEnabled(raw)
  <2>1. config.enabled = (endpoint.reason = None) /\ config.auth_token_source = endpoint.source
    BY <1>7, Zenon DEF from_ini_values
  <2>2. CASE url.reason # None
    <3>1. endpoint.source = None /\ endpoint.reason = url.reason
      BY <2>2, Zenon DEF Endpoint
    <3> QED BY <1>0, <2>1, <2>2, <3>1, Zenon
  <2>3. CASE url.reason = None
    <3>1. endpoint.source = token.source /\ endpoint.reason = token.reason
      BY <2>3, Zenon DEF Endpoint
    <3> QED BY <1>5, <2>1, <3>1, Zenon
  <2> QED BY <2>2, <2>3
<1> QED BY <1>6, <1>7

-----------------------------------------------------------------------------
(* The inductive invariant.  CONFIG never changes once it is set, so what  *)
(* has to be remembered is which files it was resolved from: they are on   *)
(* disk when it is set, and may be gone afterwards.                        *)

StoredFromFiles ==
    /\ source.ini \in IniFiles \cup ReloadedFiles /\ source.token_file \in TokenFiles
    /\ CONFIG = from_ini_values(raw_ini_from_ini_map(source.ini), source.token_file).config

\* Whatever hangs on the first MINIT agrees with the configuration it stored.
AllPublished ==
    /\ CACHED_CPU_SNAPSHOT_MODE = CONFIG.cpu_snapshot_mode
    /\ observer = build_boot_observer(CONFIG)

IInv ==
    /\ ini \in IniFiles \cup ReloadedFiles /\ token_file \in TokenFiles
    /\ CONFIG # None => StoredFromFiles /\ AllPublished

\* What SetConfig leaves, with the observer built from it.
LEMMA SetConfigKeepsIInv ==
    ASSUME IInv, SetConfig, observer' = build_boot_observer(CONFIG')
    PROVE  CONFIG' # None => (StoredFromFiles /\ AllPublished)'
<1>1. CASE CONFIG = None
  <2>1. /\ CONFIG' = Resolved.config
        /\ CACHED_CPU_SNAPSHOT_MODE' = CONFIG'.cpu_snapshot_mode
        /\ source' = [ini |-> ini, token_file |-> token_file]
    BY <1>1 DEF SetConfig
  <2>2. source'.ini = ini /\ source'.token_file = token_file
    BY <2>1
  <2>3. StoredFromFiles'
    BY <2>1, <2>2, Zenon DEF StoredFromFiles, IInv, Resolved
  <2> QED BY <2>1, <2>3 DEF AllPublished
<1>2. CASE CONFIG # None
  BY <1>2 DEF SetConfig, config_vars, IInv, StoredFromFiles, AllPublished
<1> QED BY <1>1, <1>2

\* Whatever reading the token file gives is one of three outcomes.
LEMMA TokenFilesOfFile == ASSUME NEW file PROVE TokenFilesOf(file) \subseteq TokenFiles
BY DEF TokenFilesOf, TokenFiles

\* Before the first MINIT nothing is stored.
LEMMA InitIInv == Init => IInv
BY TokenFilesOfFile DEF Init, IInv

\* Every action keeps IInv.
LEMMA NextIInv == IInv /\ [Next]_vars => IInv'
<1> SUFFICES ASSUME IInv, [Next]_vars PROVE IInv'
  OBVIOUS
<1> USE DEF disk_vars, config_vars, minit_vars, request_vars
<1>1. CASE Startup
  <2>1. SetConfig /\ observer' = build_boot_observer(CONFIG')
    BY <1>1 DEF Startup
  <2> QED BY <1>1, <2>1, SetConfigKeepsIInv DEF IInv, Startup
<1>2. CASE StartupPanics
  <2>1. ini' = ini /\ token_file' = token_file /\ observer' = build_boot_observer(CONFIG')
    BY <1>2 DEF StartupPanics
  <2>2. CASE UNCHANGED config_vars
    BY <2>1, <2>2 DEF IInv, StoredFromFiles, AllPublished
  <2>3. CASE SetConfig
    BY <2>1, <2>3, SetConfigKeepsIInv DEF IInv
  <2> QED BY <1>2, <2>2, <2>3 DEF StartupPanics
<1>3. CASE Reload
  BY <1>3, TokenFilesOfFile DEF Reload, IInv, StoredFromFiles, AllPublished
<1>4. CASE MShutdown
  BY <1>4 DEF MShutdown, IInv, StoredFromFiles, AllPublished
<1>5. CASE RInit
  BY <1>5 DEF RInit, IInv, StoredFromFiles, AllPublished
<1>6. CASE RShutdown
  BY <1>6 DEF RShutdown, IInv, StoredFromFiles, AllPublished
<1>7. ASSUME NEW execute_data \in CallSites, Call(execute_data) PROVE IInv'
  BY <1>7 DEF Call, IInv, StoredFromFiles, AllPublished
<1>8. CASE UNCHANGED vars
  BY <1>8 DEF vars, IInv, StoredFromFiles, AllPublished
<1> QED BY <1>1, <1>2, <1>3, <1>4, <1>5, <1>6, <1>7, <1>8 DEF Next

\* So it always holds.
LEMMA AlwaysIInv == Spec => []IInv
BY InitIInv, NextIInv, PTL DEF Spec

-----------------------------------------------------------------------------
\* Every stored configuration is fit for use: every limit in its range, the
\* cap no less than the flush threshold, an enabled extension with a URL and
\* a token (ConfigWellFormed), for every ini file.
THEOREM ConfigFit == Spec => []ConfigWellFormed
<1>1. IInv => ConfigWellFormed
  <2> SUFFICES ASSUME IInv, CONFIG # None PROVE ConfigWellFormed!2
    BY DEF ConfigWellFormed
  <2>1. Directives \subseteq DOMAIN source.ini /\ source.token_file \in TokenFiles
    BY IniAssumption DEF IInv, StoredFromFiles, IniAssumption
  <2> QED BY <2>1, ResolvedWellFormed, Zenon DEF IInv, StoredFromFiles
<1> QED BY <1>1, AlwaysIInv, PTL

\* A token file that is set decides where the token comes from.
THEOREM TokenCorrect == Spec => []TokenFileDecides
<1>1. IInv => TokenFileDecides
  <2> SUFFICES ASSUME IInv, CONFIG # None, source.ini.auth_token_file # Empty
               PROVE  TokenFileDecides!2
    BY DEF TokenFileDecides
  <2>1. Directives \subseteq DOMAIN source.ini /\ source.token_file \in TokenFiles
    BY IniAssumption DEF IInv, StoredFromFiles, IniAssumption
  <2>2. source.ini.auth_token_file # None
    BY IniAssumption DEF IInv, StoredFromFiles, IniAssumption, Directives, Strings
  <2> QED BY <2>1, <2>2, ResolvedToken, Zenon DEF IInv, StoredFromFiles
<1> QED BY <1>1, AlwaysIInv, PTL

\* The cached CPU mode never disagrees with the configuration.
THEOREM CpuModeCorrect == Spec => []CpuModeAgrees
<1>1. IInv => CpuModeAgrees
  BY DEF IInv, AllPublished, CpuModeAgrees, current_cpu_snapshot_mode
<1> QED BY <1>1, AlwaysIInv, PTL

\* What MINIT stores is fit for use and read alike from both of its places.
THEOREM ConfigCorrect == Spec => []ConfigConsistent
<1>1. ConfigWellFormed /\ CpuModeAgrees => ConfigConsistent
  BY DEF ConfigConsistent
<1> QED BY <1>1, ConfigFit, CpuModeCorrect, PTL

\* What should_observe answers never changes once a configuration is stored.
THEOREM FilterCorrect == Spec => FilterIsStatic
<1>1. IInv /\ IInv' /\ [Next]_vars =>
        [CONFIG # None =>
           \A execute_data \in CallSites :
               should_observe(execute_data)' = should_observe(execute_data)]_vars
  <2> SUFFICES ASSUME IInv, IInv', [Next]_vars, CONFIG # None, NEW execute_data \in CallSites
               PROVE  should_observe(execute_data)' = should_observe(execute_data)
    OBVIOUS
  <2>1. CONFIG' = CONFIG
    BY DEF Next, vars, disk_vars, config_vars, request_vars, SetConfig, Startup, StartupPanics,
           Reload, MShutdown, RInit, RShutdown, Call
  <2>2. observer' = observer
    BY <2>1 DEF IInv, AllPublished
  <2> QED BY <2>1, <2>2, Zenon DEF should_observe
<1> QED BY <1>1, AlwaysIInv, PTL DEF Spec, FilterIsStatic

-----------------------------------------------------------------------------
(* The channel.  A MINIT that finds no sender makes one with its receiver;  *)
(* the receiver goes to the thread with the sender in place, and neither    *)
(* moves again before MSHUTDOWN.                                           *)

ChannelInv ==
    /\ starts \in Nat
    /\ trace # None => php_pc = "request" /\ Enabled(CONFIG)
    /\ php_pc # "exited" =>
          /\ SHIPPER_SPAWNED => SHIPPER_HANDLE # None /\ SENDER_SLOT = SHIPPER_HANDLE
          /\ RECEIVER_SLOT # None => SENDER_SLOT = RECEIVER_SLOT
          /\ ~SHIPPER_SPAWNED /\ ~SHIPPER_SPAWN_FAILED => SENDER_SLOT = RECEIVER_SLOT
    /\ php_pc \in {"up", "request"} /\ Enabled(CONFIG) /\ SENDER_SLOT = None =>
          SHIPPER_SPAWN_FAILED \/ last_minit = "panicked"

ChannelSafe == ChannelInv /\ BatchesReachTheShipper

LEMMA InitChannelSafe == Init => ChannelSafe
BY DEF Init, ChannelSafe, ChannelInv, BatchesReachTheShipper

\* A MINIT that makes a channel fills both slots.
LEMMA StartupChannel == ASSUME ChannelSafe, Startup PROVE ChannelSafe'
<1> USE DEF ChannelSafe, ChannelInv, Startup, request_vars
<1>1. trace' = None
  BY Zenon
<1>2. starts' \in Nat /\ starts' # None
  BY NoneAssumption, SMT DEF NoneAssumption
<1>3. /\ SHIPPER_SPAWNED' = SHIPPER_SPAWNED /\ SHIPPER_HANDLE' = SHIPPER_HANDLE
      /\ SHIPPER_SPAWN_FAILED' = SHIPPER_SPAWN_FAILED
      /\ php_pc = "stopped" /\ php_pc' = "up"
  OBVIOUS
<1>4. CASE Enabled(CONFIG') /\ SENDER_SLOT = None
  <2>1. SENDER_SLOT' = starts' /\ RECEIVER_SLOT' = starts'
    BY <1>4, Zenon DEF InstallShipper
  <2>2. ~SHIPPER_SPAWNED
    BY <1>3, <1>4
  <2> QED BY <1>1, <1>2, <1>3, <2>1, <2>2 DEF BatchesReachTheShipper
<1>5. CASE ~(Enabled(CONFIG') /\ SENDER_SLOT = None)
  <2>1. SENDER_SLOT' = SENDER_SLOT /\ RECEIVER_SLOT' = RECEIVER_SLOT
    BY <1>5, Zenon DEF InstallShipper
  <2> QED BY <1>1, <1>2, <1>3, <1>5, <2>1 DEF BatchesReachTheShipper
<1> QED BY <1>4, <1>5

\* RINIT hands the receiver over, or gives up on both ends.
LEMMA RInitChannel == ASSUME ChannelSafe, RInit PROVE ChannelSafe'
<1> USE DEF ChannelSafe, ChannelInv, minit_vars
<1>1. /\ php_pc = "up" /\ php_pc' = "request" /\ SpawnShipper(CONFIG)
      /\ CONFIG' = CONFIG /\ starts' = starts /\ last_minit' = last_minit
  BY DEF RInit, config_vars
<1>2. trace' # None => Enabled(CONFIG)
  BY Zenon DEF RInit, Allocates
<1>3. Enabled(CONFIG') = Enabled(CONFIG)
  BY <1>1
<1>4. CASE Enabled(CONFIG) /\ ~SHIPPER_SPAWN_FAILED /\ ~SHIPPER_SPAWNED /\ RECEIVER_SLOT # None
  <2>1. /\ RECEIVER_SLOT' = None
        /\ \/ /\ SHIPPER_SPAWNED' = TRUE /\ SHIPPER_HANDLE' = RECEIVER_SLOT
              /\ SENDER_SLOT' = SENDER_SLOT /\ SHIPPER_SPAWN_FAILED' = SHIPPER_SPAWN_FAILED
           \/ /\ SHIPPER_SPAWN_FAILED' = TRUE /\ SENDER_SLOT' = None
              /\ SHIPPER_SPAWNED' = SHIPPER_SPAWNED /\ SHIPPER_HANDLE' = SHIPPER_HANDLE
    BY <1>1, <1>4, Zenon DEF SpawnShipper
  <2> QED BY <1>1, <1>2, <1>3, <1>4, <2>1 DEF BatchesReachTheShipper
<1>5. CASE ~(Enabled(CONFIG) /\ ~SHIPPER_SPAWN_FAILED /\ ~SHIPPER_SPAWNED /\ RECEIVER_SLOT # None)
  <2>1. UNCHANGED shipper_vars
    BY <1>1, <1>5, Zenon DEF SpawnShipper
  <2> QED BY <1>1, <1>2, <1>3, <1>5, <2>1 DEF BatchesReachTheShipper, shipper_vars
<1> QED BY <1>4, <1>5

LEMMA NextChannelSafe == ChannelSafe /\ [Next]_vars => ChannelSafe'
<1> SUFFICES ASSUME ChannelSafe, [Next]_vars PROVE ChannelSafe'
  OBVIOUS
<1> USE DEF config_vars, minit_vars, shipper_vars, request_vars, ChannelSafe, ChannelInv,
            BatchesReachTheShipper, Enabled
<1>1. CASE Startup
  BY <1>1, StartupChannel
<1>2. CASE StartupPanics
  <2>1. /\ trace' = None /\ starts' \in Nat /\ php_pc = "stopped" /\ php_pc' = "up"
        /\ last_minit' = "panicked" /\ UNCHANGED shipper_vars
    BY <1>2 DEF StartupPanics
  <2> QED BY <2>1
<1>3. CASE Reload
  BY <1>3 DEF Reload
<1>4. CASE MShutdown
  <2>1. /\ php_pc = "up" /\ php_pc' = "exited"
        /\ trace' = trace /\ starts' = starts
    BY <1>4 DEF MShutdown
  <2> QED BY <2>1
<1>5. CASE RInit
  BY <1>5, RInitChannel
<1>6. CASE RShutdown
  BY <1>6 DEF RShutdown
<1>7. ASSUME NEW execute_data \in CallSites, Call(execute_data) PROVE ChannelSafe'
  <2>1. /\ trace # None /\ php_pc = "request"
        /\ UNCHANGED <<php_pc, config_vars, minit_vars, shipper_vars>>
    BY <1>7 DEF Call
  <2> QED BY <2>1
<1>8. CASE UNCHANGED vars
  BY <1>8 DEF vars
<1> QED BY <1>1, <1>2, <1>3, <1>4, <1>5, <1>6, <1>7, <1>8 DEF Next

\* No MINIT orphans a receiver: what a request records goes to the thread that
\* reads, whatever the ini files say, unless the thread could not be spawned
\* or MINIT panicked before there was a channel.
THEOREM ChannelCorrect == Spec => []BatchesReachTheShipper
<1>1. ChannelSafe => BatchesReachTheShipper
  BY DEF ChannelSafe
<1> QED BY <1>1, InitChannelSafe, NextChannelSafe, PTL DEF Spec

-----------------------------------------------------------------------------
(* The log of the MINIT that set the configuration.                        *)

Kinds == DisablingKinds \cup {"HttpScheme", "UnknownCpuSnapshotMode"}
RangeLines == {OutOfRange(d) : d \in Integral}
PlainLines == {[kind |-> kind] : kind \in Kinds}
Lines == RangeLines \cup PlainLines

Elements(s) == {s[i] : i \in DOMAIN s}

\* One vector of warnings after another.
LEMMA Concatenated ==
    ASSUME NEW S, NEW s \in Seq(S), NEW t \in Seq(S)
    PROVE  /\ s \o t \in Seq(S) /\ Len(s \o t) = Len(s) + Len(t)
           /\ Elements(s \o t) = Elements(s) \cup Elements(t)
<1>1. s \o t \in Seq(S) /\ Len(s \o t) = Len(s) + Len(t)
  OBVIOUS
<1>2. /\ \A i \in 1..Len(s) : (s \o t)[i] = s[i]
      /\ \A i \in 1..Len(t) : (s \o t)[Len(s) + i] = t[i]
  OBVIOUS
<1>3. /\ DOMAIN s = 1..Len(s) /\ DOMAIN t = 1..Len(t) /\ Len(s) \in Nat /\ Len(t) \in Nat
      /\ DOMAIN (s \o t) = 1..(Len(s) + Len(t))
  BY <1>1
<1>4. ASSUME NEW i \in DOMAIN (s \o t)
      PROVE  (s \o t)[i] \in Elements(s) \cup Elements(t)
  <2>1. CASE i <= Len(s)
    BY <1>2, <1>3, <2>1 DEF Elements
  <2>2. CASE i > Len(s)
    <3>1. i - Len(s) \in 1..Len(t) /\ i = Len(s) + (i - Len(s))
      BY <1>3, <2>2
    <3>2. (s \o t)[i] = t[i - Len(s)]
      BY <1>2, <3>1
    <3> QED BY <1>3, <3>1, <3>2 DEF Elements
  <2> QED BY <1>3, <2>1, <2>2
<1>5. ASSUME NEW i \in DOMAIN s PROVE s[i] \in Elements(s \o t)
  <2>1. i \in DOMAIN (s \o t) /\ (s \o t)[i] = s[i]
    BY <1>2, <1>3
  <2> QED BY <2>1, Zenon DEF Elements
<1>6. ASSUME NEW i \in DOMAIN t PROVE t[i] \in Elements(s \o t)
  <2>1. Len(s) + i \in DOMAIN (s \o t) /\ (s \o t)[Len(s) + i] = t[i]
    BY <1>2, <1>3
  <2> QED BY <2>1, Zenon DEF Elements
<1>7. Elements(s \o t) = Elements(s) \cup Elements(t)
  BY <1>4, <1>5, <1>6, Zenon DEF Elements
<1> QED BY <1>1, <1>7

\* A warning for each directive whose clamp changed its value, and no other.
LEMMA RangeWarningsAre ==
    ASSUME NEW raw
    PROVE  /\ RangeWarnings(raw) \in Seq(RangeLines)
           /\ \A d \in Integral : Limits(raw)[d] # Asked(raw, d) =>
                  OutOfRange(d) \in Elements(RangeWarnings(raw))
           /\ (\A d \in Integral : Limits(raw)[d] = Asked(raw, d)) =>
                  Elements(RangeWarnings(raw)) = {}
<1> DEFINE w(d) == IF Limits(raw)[d] # Asked(raw, d) THEN <<OutOfRange(d)>> ELSE <<>>
           s1 == w("flush_records")
           s2 == s1 \o w("flush_bytes")
           s3 == s2 \o w("buffer_cap_bytes")
           s4 == s3 \o w("max_depth")
           s5 == s4 \o w("retry_count")
           s6 == s5 \o w("retry_backoff_ms")
           s7 == s6 \o w("http_timeout_ms")
           s8 == s7 \o w("shutdown_grace_ms")
           s9 == s8 \o w("shipper_queue_depth")
<1>1. RangeWarnings(raw) = s9
  <2> DEFINE f == [d \in Integral |-> w(d)]
  <2>1. RangeWarnings(raw) = InOrder(f)
    BY Zenon DEF RangeWarnings
  <2>2. \A d \in RealDirectives : f[d] = w(d)
    BY Tables, Zenon
  <2> HIDE DEF f, w
  <2>3. InOrder(f) = s9
    BY <2>2, Zenon DEF InOrder, RealDirectives
  <2> QED BY <2>1, <2>3, Zenon
<1>2. ASSUME NEW d \in Integral
      PROVE  /\ w(d) \in Seq(RangeLines)
             /\ Limits(raw)[d] # Asked(raw, d) => Elements(w(d)) = {OutOfRange(d)}
             /\ Limits(raw)[d] = Asked(raw, d) => Elements(w(d)) = {}
  <2>1. OutOfRange(d) \in RangeLines
    BY DEF RangeLines
  <2>2. CASE Limits(raw)[d] # Asked(raw, d)
    <3>1. w(d) = <<OutOfRange(d)>>
      BY <2>2, Zenon
    <3>2. <<OutOfRange(d)>> \in Seq(RangeLines)
      BY <2>1
    <3>3. Elements(<<OutOfRange(d)>>) = {OutOfRange(d)}
      BY DEF Elements
    <3> QED BY <2>2, <3>1, <3>2, <3>3, Zenon
  <2>3. CASE Limits(raw)[d] = Asked(raw, d)
    <3>1. w(d) = <<>>
      BY <2>3, Zenon
    <3>2. <<>> \in Seq(RangeLines) /\ Elements(<<>>) = {}
      BY DEF Elements
    <3> QED BY <2>3, <3>1, <3>2, Zenon
  <2> QED BY <2>2, <2>3
<1>3. \A d \in RealDirectives : w(d) \in Seq(RangeLines)
  BY <1>2, Tables
<1> HIDE DEF w
<1>4. /\ s1 \in Seq(RangeLines)
      /\ Elements(s1) = Elements(w("flush_records"))
  BY <1>3 DEF RealDirectives
<1>5. /\ s2 \in Seq(RangeLines)
      /\ Elements(s2) = Elements(s1) \cup Elements(w("flush_bytes"))
  <2>1. w("flush_bytes") \in Seq(RangeLines)
    BY <1>3 DEF RealDirectives
  <2> HIDE DEF s1
  <2> QED BY <1>4, <2>1, Concatenated
<1>6. /\ s3 \in Seq(RangeLines)
      /\ Elements(s3) = Elements(s2) \cup Elements(w("buffer_cap_bytes"))
  <2>1. w("buffer_cap_bytes") \in Seq(RangeLines)
    BY <1>3 DEF RealDirectives
  <2> HIDE DEF s2
  <2> QED BY <1>5, <2>1, Concatenated
<1>7. /\ s4 \in Seq(RangeLines)
      /\ Elements(s4) = Elements(s3) \cup Elements(w("max_depth"))
  <2>1. w("max_depth") \in Seq(RangeLines)
    BY <1>3 DEF RealDirectives
  <2> HIDE DEF s3
  <2> QED BY <1>6, <2>1, Concatenated
<1>8. /\ s5 \in Seq(RangeLines)
      /\ Elements(s5) = Elements(s4) \cup Elements(w("retry_count"))
  <2>1. w("retry_count") \in Seq(RangeLines)
    BY <1>3 DEF RealDirectives
  <2> HIDE DEF s4
  <2> QED BY <1>7, <2>1, Concatenated
<1>9. /\ s6 \in Seq(RangeLines)
      /\ Elements(s6) = Elements(s5) \cup Elements(w("retry_backoff_ms"))
  <2>1. w("retry_backoff_ms") \in Seq(RangeLines)
    BY <1>3 DEF RealDirectives
  <2> HIDE DEF s5
  <2> QED BY <1>8, <2>1, Concatenated
<1>10. /\ s7 \in Seq(RangeLines)
       /\ Elements(s7) = Elements(s6) \cup Elements(w("http_timeout_ms"))
  <2>1. w("http_timeout_ms") \in Seq(RangeLines)
    BY <1>3 DEF RealDirectives
  <2> HIDE DEF s6
  <2> QED BY <1>9, <2>1, Concatenated
<1>11. /\ s8 \in Seq(RangeLines)
       /\ Elements(s8) = Elements(s7) \cup Elements(w("shutdown_grace_ms"))
  <2>1. w("shutdown_grace_ms") \in Seq(RangeLines)
    BY <1>3 DEF RealDirectives
  <2> HIDE DEF s7
  <2> QED BY <1>10, <2>1, Concatenated
<1>12. /\ s9 \in Seq(RangeLines)
       /\ Elements(s9) = Elements(s8) \cup Elements(w("shipper_queue_depth"))
  <2>1. w("shipper_queue_depth") \in Seq(RangeLines)
    BY <1>3 DEF RealDirectives
  <2> HIDE DEF s8
  <2> QED BY <1>11, <2>1, Concatenated
<1> HIDE DEF s1, s2, s3, s4, s5, s6, s7, s8, s9
<1>13. Elements(s9) = UNION {Elements(w(d)) : d \in RealDirectives}
  BY <1>4, <1>5, <1>6, <1>7, <1>8, <1>9, <1>10, <1>11, <1>12 DEF RealDirectives
<1>14. ASSUME NEW d \in Integral, Limits(raw)[d] # Asked(raw, d)
       PROVE  OutOfRange(d) \in Elements(s9)
  <2>1. Elements(w(d)) = {OutOfRange(d)} /\ d \in RealDirectives
    BY <1>2, <1>14, Tables
  <2> QED BY <1>13, <2>1
<1>15. ASSUME \A d \in Integral : Limits(raw)[d] = Asked(raw, d)
       PROVE  Elements(s9) = {}
  <2>1. \A d \in RealDirectives : Elements(w(d)) = {}
    BY <1>2, <1>15, Tables
  <2> QED BY <1>13, <2>1
<1> QED BY <1>1, <1>12, <1>14, <1>15

\* What the log says is what resolving the files gave, with the notice of a
\* process that was switched off.
LogInv ==
    last_minit = "set" =>
        /\ source.ini \in IniFiles \cup ReloadedFiles /\ source.token_file \in TokenFiles
        /\ CONFIG = from_ini_values(raw_ini_from_ini_map(source.ini), source.token_file).config
        /\ log = from_ini_values(raw_ini_from_ini_map(source.ini), source.token_file).warnings
                    \o MasterSwitchNotice(CONFIG)

LEMMA AlwaysLogInv == Spec => [](IInv /\ LogInv)
<1>1. Init => LogInv
  BY DEF Init, LogInv
<1>2. ASSUME IInv, LogInv, [Next]_vars PROVE LogInv'
  <2> USE DEF disk_vars, config_vars, minit_vars, request_vars
  <2>1. CASE Startup
    <3>1. CASE CONFIG = None
      <4>1. /\ CONFIG' = Resolved.config
            /\ source' = [ini |-> ini, token_file |-> token_file]
            /\ log' = Resolved.warnings \o MasterSwitchNotice(CONFIG')
        BY <2>1, <3>1 DEF Startup, SetConfig
      <4>2. source'.ini = ini /\ source'.token_file = token_file
        BY <4>1
      <4> QED BY <1>2, <4>1, <4>2, Zenon DEF LogInv, IInv, Resolved
    <3>2. CASE CONFIG # None
      <4>1. last_minit' = "kept"
        BY <2>1, <3>2, Zenon DEF Startup
      <4> QED BY <4>1 DEF LogInv
    <3> QED BY <3>1, <3>2
  <2>2. CASE StartupPanics
    <3>1. last_minit' = "panicked"
      BY <2>2 DEF StartupPanics
    <3> QED BY <3>1 DEF LogInv
  <2>3. CASE UNCHANGED <<config_vars, minit_vars>>
    BY <1>2, <2>3 DEF LogInv
  <2>4. CASE Reload
    BY <2>3, <2>4 DEF Reload
  <2>5. CASE MShutdown
    BY <2>3, <2>5 DEF MShutdown
  <2>6. CASE RInit
    BY <2>3, <2>6 DEF RInit
  <2>7. CASE RShutdown
    BY <2>3, <2>7 DEF RShutdown
  <2>8. ASSUME NEW execute_data \in CallSites, Call(execute_data) PROVE LogInv'
    <3>1. UNCHANGED <<config_vars, minit_vars>>
      BY <2>8 DEF Call
    <3> QED BY <2>3, <3>1
  <2>9. CASE UNCHANGED vars
    BY <2>3, <2>9 DEF vars
  <2> QED BY <1>2, <2>1, <2>2, <2>4, <2>5, <2>6, <2>7, <2>8, <2>9 DEF Next
<1> QED BY <1>1, <1>2, AlwaysIInv, PTL DEF Spec

\* What Endpoint complains of.
LEMMA EndpointWarnings ==
    ASSUME NEW raw, NEW file \in TokenFiles
    PROVE  /\ Endpoint(raw, file).warnings \in Seq(PlainLines)
           /\ CpuWarnings(raw) \in Seq(PlainLines)
<1> DEFINE url == resolve_server_url(raw)
           token == resolve_token(raw, file)
<1>1. \A kind \in Kinds : Warn(kind) \in Seq(PlainLines)
  <2>1. \A kind \in Kinds : [kind |-> kind] \in PlainLines
    BY Zenon DEF PlainLines
  <2>2. \A x \in PlainLines : <<x>> \in Seq(PlainLines)
    OBVIOUS
  <2> QED BY <2>1, <2>2, Zenon DEF Warn
<1>2. <<>> \in Seq(PlainLines)
  OBVIOUS
<1>3. \A kind \in {"MissingServerUrl", "InvalidUrl", "UnsupportedScheme", "HttpScheme",
                   "MissingToken", "TokenFileUnreadable", "EmptyTokenFile",
                   "UnknownCpuSnapshotMode"} : kind \in Kinds
  BY DEF Kinds, DisablingKinds
<1>4. url.warnings \in Seq(PlainLines)
  BY <1>1, <1>2, <1>3 DEF resolve_server_url
<1>5. token.warnings \in Seq(PlainLines)
  BY <1>1, <1>2, <1>3 DEF resolve_token
<1>6. CpuWarnings(raw) \in Seq(PlainLines)
  BY <1>1, <1>2, <1>3 DEF CpuWarnings
<1>7. CASE url.reason # None
  <2>1. Endpoint(raw, file).warnings = url.warnings \o <<>>
    BY <1>7, Zenon DEF Endpoint
  <2> HIDE DEF url
  <2> QED BY <1>2, <1>4, <1>6, <2>1, Concatenated
<1>8. CASE url.reason = None
  <2>1. Endpoint(raw, file).warnings = url.warnings \o token.warnings
    BY <1>8, Zenon DEF Endpoint
  <2> HIDE DEF url, token
  <2> QED BY <1>4, <1>5, <1>6, <2>1, Concatenated
<1> QED BY <1>7, <1>8

\* The log of a MINIT that was not switched off has its three parts, in order.
LEMMA LogIs ==
    ASSUME LogInv, last_minit = "set"
    PROVE  LET raw == raw_ini_from_ini_map(source.ini)
               file == source.token_file
           IN /\ MasterEnabled(raw) =>
                    log = (RangeWarnings(raw) \o Endpoint(raw, file).warnings \o CpuWarnings(raw))
                             \o MasterSwitchNotice(CONFIG)
              /\ ~MasterEnabled(raw) =>
                    CONFIG = disabled("MasterSwitchOff") /\ log = <<>> \o MasterSwitchNotice(CONFIG)
<1> DEFINE raw == raw_ini_from_ini_map(source.ini)
           file == source.token_file
<1>1. /\ CONFIG = from_ini_values(raw, file).config
      /\ log = from_ini_values(raw, file).warnings \o MasterSwitchNotice(CONFIG)
  BY DEF LogInv
<1>2. CASE MasterEnabled(raw)
  <2>1. from_ini_values(raw, file).warnings
           = RangeWarnings(raw) \o Endpoint(raw, file).warnings \o CpuWarnings(raw)
    BY <1>2, Zenon DEF from_ini_values
  <2> QED BY <1>1, <1>2, <2>1, Zenon
<1>3. CASE ~MasterEnabled(raw)
  <2>1. /\ from_ini_values(raw, file).warnings = <<>>
        /\ from_ini_values(raw, file).config = disabled("MasterSwitchOff")
    BY <1>3, Zenon DEF from_ini_values
  <2> QED BY <1>1, <1>3, <2>1, Zenon
<1> QED BY <1>2, <1>3, Zenon

\* A file's Boolean directive, and with it the master switch, is of the files'.
LEMMA RawIs ==
    ASSUME NEW ini0, Directives \subseteq DOMAIN ini0, NEW d \in Directives
    PROVE  LET raw == raw_ini_from_ini_map(ini0) IN
           /\ d \in Integral => raw[d] = lookup_int(ini0[d])
           /\ d \in Booleans => raw[d] = lookup_bool(ini0[d])
           /\ d \in Strings  => raw[d] = lookup_str(ini0[d])
<1>1. d \in DOMAIN ini0
  OBVIOUS
<1>2. d \in Integral => d \notin Booleans
  BY Tables DEF RealDirectives, Booleans
<1>3. d \in Strings => d \notin Booleans /\ d \notin Integral
  BY Tables DEF RealDirectives, Booleans, Strings
<1> QED BY <1>1, <1>2, <1>3, Zenon DEF raw_ini_from_ini_map

\* Whatever is in a directive's range, its default for one, an i64 holds.
LEMMA RangesFit ==
    /\ \A d \in Integral : \A v \in RANGE[d][1]..RANGE[d][2] : IsI64(v)
    /\ \A d \in Integral : IsI64(DEFAULT[d])
<1>1. \A d \in Integral : /\ RANGE[d][1] \in Int /\ RANGE[d][2] \in Int
                          /\ 0 <= RANGE[d][1] /\ RANGE[d][2] <= MAX_I64
  BY Tables, RangeAssumption, SMT DEF RangeAssumption, RANGE, RealDirectives
<1>2. \A d \in Integral : \A v \in RANGE[d][1]..RANGE[d][2] : IsI64(v)
  BY <1>1, RangeAssumption DEF RangeAssumption, IsI64
<1>3. \A d \in Integral : DEFAULT[d] \in RANGE[d][1]..RANGE[d][2]
  BY Tables, DefaultsInRange
<1> QED BY <1>2, <1>3

\* The default of a directive is in the range it is clamped to, also where both
\* depend on another directive.
LEMMA DefaultFits ==
    ASSUME NEW ini0, Directives \subseteq DOMAIN ini0, NEW d \in Integral
    PROVE  LET raw == raw_ini_from_ini_map(ini0) IN
           Clamp(DefaultOf(raw, d), RangeOf(raw, d)) = DefaultOf(raw, d)
<1> DEFINE raw == raw_ini_from_ini_map(ini0)
<1>1. /\ RANGE[d] = <<RANGE[d][1], RANGE[d][2]>>
      /\ RANGE[d][1] \in Int /\ RANGE[d][2] \in Int /\ DEFAULT[d] \in Int
      /\ RANGE[d][1] <= DEFAULT[d] /\ DEFAULT[d] <= RANGE[d][2]
  BY Tables, DefaultsInRange
<1>2. CASE d = "buffer_cap_bytes"
  <2>1. PICK flush \in Int : FlushBytes(raw) = flush /\ flush <= RANGE[d][2]
    BY <1>2, FlushInRange, FlushBoundsAreInt, Tables
  <2>2. PICK lo \in Int, hi \in Int, default \in Int :
           /\ RANGE[d] = <<lo, hi>> /\ DEFAULT[d] = default
           /\ lo <= default /\ default <= hi /\ flush <= hi
    BY <1>1, <2>1
  <2>3. RangeOf(raw, d) = <<Larger(lo, flush), hi>> /\ DefaultOf(raw, d) = Larger(default, flush)
    BY <1>2, <2>1, <2>2 DEF RangeOf, DefaultOf
  <2>4. Clamp(Larger(default, flush), <<Larger(lo, flush), hi>>) = Larger(default, flush)
    BY <2>2 DEF Clamp, Larger
  <2> QED BY <2>3, <2>4
<1>3. CASE d # "buffer_cap_bytes"
  <2>1. RangeOf(raw, d) = RANGE[d] /\ DefaultOf(raw, d) = DEFAULT[d]
    BY <1>3 DEF RangeOf, DefaultOf
  <2>2. PICK lo \in Int, hi \in Int, default \in Int :
           /\ RANGE[d] = <<lo, hi>> /\ DEFAULT[d] = default
           /\ lo <= default /\ default <= hi
    BY <1>1
  <2>3. Clamp(default, <<lo, hi>>) = default
    BY <2>2 DEF Clamp
  <2> QED BY <2>1, <2>2, <2>3
<1> QED BY <1>2, <1>3

\* A limit written as a number that an i64 holds is the one in force, or is
\* warned of; anything else gives the default.
THEOREM LimitsAreTold == Spec => []NoSilentLimit
<1>1. IInv /\ LogInv => NoSilentLimit
  <2> SUFFICES ASSUME LogInv, last_minit = "set", CONFIG.disable_reason # "MasterSwitchOff",
                      NEW d \in Integral
               PROVE  IF IsI64(source.ini[d])
                      THEN \/ CONFIG.limits[d] = source.ini[d]
                           \/ \E i \in DOMAIN log : log[i] = OutOfRange(d)
                      ELSE CONFIG.limits[d] = DefaultOf(raw_ini_from_ini_map(source.ini), d)
    BY Zenon DEF NoSilentLimit
  <2> DEFINE raw == raw_ini_from_ini_map(source.ini)
             file == source.token_file
             tail == Endpoint(raw, file).warnings
  <2>1. /\ Directives \subseteq DOMAIN source.ini /\ file \in TokenFiles
        /\ source.ini[d] # None /\ d \in Directives
    BY IniAssumption DEF LogInv, IniAssumption, Directives
  <2>2. MasterEnabled(raw)
    <3>1. disabled("MasterSwitchOff").disable_reason = "MasterSwitchOff"
      BY DEF disabled
    <3> QED BY <3>1, LogIs, Zenon
  <2>3. CONFIG.limits[d] = Limits(raw)[d]
    <3>1. CONFIG = from_ini_values(raw, file).config
      BY DEF LogInv
    <3>2. from_ini_values(raw, file).config.limits = Limits(raw)
      BY <2>2, Zenon DEF from_ini_values
    <3> QED BY <3>1, <3>2, Zenon
  <2>4. raw[d] = lookup_int(source.ini[d])
    BY <2>1, RawIs, Zenon
  <2>5. Limits(raw)[d] = Clamp(Asked(raw, d), RangeOf(raw, d))
    BY DEF Limits
  <2>6. CASE IsI64(source.ini[d])
    <3>1. Asked(raw, d) = source.ini[d]
      BY <2>1, <2>4, <2>6 DEF Asked, DirectiveValue, UnwrapOr, lookup_int
    <3>2. CASE Limits(raw)[d] # Asked(raw, d)
      <4>1. OutOfRange(d) \in Elements(RangeWarnings(raw)) /\ RangeWarnings(raw) \in Seq(Lines)
        <5>1. OutOfRange(d) \in Elements(RangeWarnings(raw)) /\ RangeWarnings(raw) \in Seq(RangeLines)
          BY <3>2, RangeWarningsAre, Zenon
        <5>2. Seq(RangeLines) \subseteq Seq(Lines)
          BY DEF Lines
        <5> QED BY <5>1, <5>2
      <4>2. Endpoint(raw, file).warnings \in Seq(Lines) /\ CpuWarnings(raw) \in Seq(Lines)
        <5>1. /\ Endpoint(raw, file).warnings \in Seq(PlainLines)
              /\ CpuWarnings(raw) \in Seq(PlainLines)
          BY <2>1, EndpointWarnings, Zenon
        <5>2. Seq(PlainLines) \subseteq Seq(Lines)
          BY DEF Lines
        <5> QED BY <5>1, <5>2
      <4>3. MasterSwitchNotice(CONFIG) \in Seq(Lines)
        BY DEF MasterSwitchNotice, Warn, Lines, PlainLines, Kinds, DisablingKinds
      <4>4. log = (RangeWarnings(raw) \o Endpoint(raw, file).warnings \o CpuWarnings(raw))
                     \o MasterSwitchNotice(CONFIG)
        BY <2>2, LogIs, Zenon
      <4>5. PICK a \in Seq(Lines), b \in Seq(Lines), c \in Seq(Lines), e \in Seq(Lines) :
               /\ log = ((a \o b) \o c) \o e
               /\ OutOfRange(d) \in Elements(a)
        BY <4>1, <4>2, <4>3, <4>4, Zenon
      <4>6. PICK ab \in Seq(Lines) : ab = a \o b /\ Elements(a) \subseteq Elements(ab)
        <5>1. a \o b \in Seq(Lines) /\ Elements(a \o b) = Elements(a) \cup Elements(b)
          BY Concatenated
        <5> QED BY <5>1
      <4>7. PICK abc \in Seq(Lines) : abc = ab \o c /\ Elements(ab) \subseteq Elements(abc)
        <5>1. ab \o c \in Seq(Lines) /\ Elements(ab \o c) = Elements(ab) \cup Elements(c)
          BY Concatenated
        <5> QED BY <5>1
      <4>8. Elements(abc \o e) = Elements(abc) \cup Elements(e)
        BY Concatenated
      <4>9. OutOfRange(d) \in Elements(log)
        BY <4>5, <4>6, <4>7, <4>8
      <4> QED BY <2>6, <4>9, Zenon DEF Elements
    <3> QED BY <2>3, <2>6, <3>1, <3>2
  <2>7. CASE ~IsI64(source.ini[d])
    <3>1. Asked(raw, d) = DefaultOf(raw, d)
      BY <2>4, <2>7, Zenon DEF Asked, DirectiveValue, UnwrapOr, lookup_int
    <3>2. Limits(raw)[d] = DefaultOf(raw, d)
      BY <2>1, <2>5, <3>1, DefaultFits
    <3> QED BY <2>3, <2>7, <3>2
  <2> QED BY <2>6, <2>7
<1> QED BY <1>1, AlwaysLogInv, PTL

-----------------------------------------------------------------------------
(* The reason in the log.                                                  *)

\* Where a log gives a reason for being disabled.
Reasons(s) == {i \in DOMAIN s : s[i].kind \in DisablingKinds}
NoReason(s)  == Reasons(s) = {}
OneReason(s) == \E k : Reasons(s) = {k}

\* What one vector of warnings gives, put before or after one that gives none.
LEMMA ReasonsConcatenated ==
    ASSUME NEW s \in Seq(Lines), NEW t \in Seq(Lines)
    PROVE  /\ s \o t \in Seq(Lines)
           /\ NoReason(s) /\ NoReason(t) => NoReason(s \o t)
           /\ NoReason(s) /\ OneReason(t) => OneReason(s \o t)
           /\ OneReason(s) /\ NoReason(t) => OneReason(s \o t)
<1>1. s \o t \in Seq(Lines) /\ Len(s \o t) = Len(s) + Len(t)
  BY Concatenated
<1>2. /\ DOMAIN s = 1..Len(s) /\ DOMAIN t = 1..Len(t) /\ Len(s) \in Nat /\ Len(t) \in Nat
      /\ DOMAIN (s \o t) = 1..(Len(s) + Len(t))
  BY <1>1
<1>3. /\ \A i \in 1..Len(s) : (s \o t)[i] = s[i]
      /\ \A i \in 1..Len(t) : (s \o t)[Len(s) + i] = t[i]
  OBVIOUS
<1>4. ASSUME NEW i \in 1..Len(s) PROVE i \in Reasons(s \o t) <=> i \in Reasons(s)
  BY <1>2, <1>3 DEF Reasons
<1>5. ASSUME NEW i \in 1..Len(t) PROVE Len(s) + i \in Reasons(s \o t) <=> i \in Reasons(t)
  <2>1. Len(s) + i \in DOMAIN (s \o t) /\ i \in DOMAIN t /\ (s \o t)[Len(s) + i] = t[i]
    BY <1>2, <1>3
  <2> QED BY <2>1 DEF Reasons
<1>6. ASSUME NEW k \in DOMAIN (s \o t)
      PROVE  k \in 1..Len(s) \/ \E i \in 1..Len(t) : k = Len(s) + i
  <2>1. CASE k <= Len(s)
    BY <1>2, <2>1
  <2>2. CASE k > Len(s)
    <3>1. k - Len(s) \in 1..Len(t) /\ k = Len(s) + (k - Len(s))
      BY <1>2, <2>2
    <3> QED BY <3>1
  <2> QED BY <1>2, <2>1, <2>2
<1>7. /\ Reasons(s) \subseteq 1..Len(s) /\ Reasons(t) \subseteq 1..Len(t)
      /\ Reasons(s \o t) \subseteq DOMAIN (s \o t)
  BY <1>2 DEF Reasons
<1>8. Reasons(s \o t) = Reasons(s) \cup {Len(s) + i : i \in Reasons(t)}
  <2> DEFINE both == Reasons(s \o t)
             first == Reasons(s)
             second == Reasons(t)
             n == Len(s)
             m == Len(t)
  <2>1. \A k \in both : k \in 1..n \/ \E i \in 1..m : k = n + i
    BY <1>6, <1>7
  <2>2. \A i \in 1..n : i \in both <=> i \in first
    BY <1>4
  <2>3. \A i \in 1..m : n + i \in both <=> i \in second
    BY <1>5
  <2>4. first \subseteq 1..n /\ second \subseteq 1..m
    BY <1>7
  <2> HIDE DEF both, first, second, n, m
  <2>5. both = first \cup {n + i : i \in second}
    BY <2>1, <2>2, <2>3, <2>4
  <2> QED BY <2>5 DEF both, first, second, n, m
<1>9. ASSUME NoReason(s), OneReason(t) PROVE OneReason(s \o t)
  <2>1. PICK k : Reasons(t) = {k}
    BY <1>9 DEF OneReason
  <2>2. Reasons(s \o t) = {Len(s) + k}
    BY <1>8, <1>9, <2>1 DEF NoReason
  <2> QED BY <2>2 DEF OneReason
<1>10. ASSUME NoReason(t) PROVE Reasons(s \o t) = Reasons(s)
  BY <1>8, <1>10 DEF NoReason
<1> QED BY <1>1, <1>9, <1>10, Zenon DEF NoReason, OneReason

\* A single warning, and none.
LEMMA ReasonsOfOne ==
    /\ <<>> \in Seq(Lines) /\ NoReason(<<>>)
    /\ \A kind \in DisablingKinds : Warn(kind) \in Seq(Lines) /\ OneReason(Warn(kind)) /\ Len(Warn(kind)) = 1
    /\ \A kind \in Kinds \ DisablingKinds : Warn(kind) \in Seq(Lines) /\ NoReason(Warn(kind))
<1>1. <<>> \in Seq(Lines) /\ NoReason(<<>>)
  BY DEF NoReason, Reasons
<1>2. ASSUME NEW kind \in Kinds
      PROVE  /\ Warn(kind) \in Seq(Lines) /\ Len(Warn(kind)) = 1
             /\ kind \in DisablingKinds => Reasons(Warn(kind)) = {1}
             /\ kind \notin DisablingKinds => Reasons(Warn(kind)) = {}
  <2> DEFINE line == [kind |-> kind]
  <2>1. line \in Lines /\ line.kind = kind
    BY DEF Lines, PlainLines
  <2>2. Warn(kind) = <<line>>
    BY DEF Warn
  <2> HIDE DEF line
  <2>3. <<line>> \in Seq(Lines) /\ Len(<<line>>) = 1 /\ DOMAIN <<line>> = {1} /\ <<line>>[1] = line
    BY <2>1
  <2> QED BY <2>1, <2>2, <2>3 DEF Reasons
<1>3. DisablingKinds \subseteq Kinds
  BY DEF Kinds
<1> QED BY <1>1, <1>2, <1>3 DEF NoReason, OneReason

\* A clamp is no reason.
LEMMA ReasonsOfRanges ==
    ASSUME NEW raw
    PROVE  RangeWarnings(raw) \in Seq(Lines) /\ NoReason(RangeWarnings(raw))
<1>1. RangeWarnings(raw) \in Seq(RangeLines)
  BY RangeWarningsAre
<1>2. Seq(RangeLines) \subseteq Seq(Lines)
  BY DEF Lines
<1>3. \A line \in RangeLines : line.kind = "OutOfRange"
  BY DEF RangeLines, OutOfRange
<1>4. \A i \in DOMAIN RangeWarnings(raw) : RangeWarnings(raw)[i] \in RangeLines
  BY <1>1
<1>5. "OutOfRange" \notin DisablingKinds
  BY DEF DisablingKinds
<1> QED BY <1>1, <1>2, <1>3, <1>4, <1>5, Zenon DEF NoReason, Reasons

\* Endpoint gives a reason exactly when it disables the extension.
LEMMA ReasonsOfEndpoint ==
    ASSUME NEW raw, NEW file \in TokenFiles
    PROVE  /\ Endpoint(raw, file).warnings \in Seq(Lines)
           /\ IF Endpoint(raw, file).reason = None THEN NoReason(Endpoint(raw, file).warnings)
              ELSE OneReason(Endpoint(raw, file).warnings)
           /\ CpuWarnings(raw) \in Seq(Lines) /\ NoReason(CpuWarnings(raw))
           /\ Endpoint(raw, file).reason # "MasterSwitchOff"
<1> DEFINE url == resolve_server_url(raw)
           token == resolve_token(raw, file)
<1>1. None \notin DisableReasons
  BY OptionAssumption DEF OptionAssumption
<1>2. /\ {"MissingServerUrl", "InvalidUrl", "UnsupportedScheme", "MissingToken",
          "TokenFileUnreadable", "EmptyTokenFile"} \subseteq DisablingKinds
      /\ {"HttpScheme", "UnknownCpuSnapshotMode"} \subseteq Kinds \ DisablingKinds
  BY DEF DisablingKinds, Kinds
<1>3. /\ url.warnings \in Seq(Lines)
      /\ url.reason = None => NoReason(url.warnings)
      /\ url.reason # None => OneReason(url.warnings)
      /\ url.reason # "MasterSwitchOff"
  <2>1. CASE raw.server_url = None
    BY <1>1, <1>2, <2>1, ReasonsOfOne DEF resolve_server_url, DisableReasons
  <2>2. CASE raw.server_url # None /\ raw.server_url = Junk
    BY <1>1, <1>2, <2>2, ReasonsOfOne DEF resolve_server_url, DisableReasons
  <2>3. CASE raw.server_url # None /\ raw.server_url # Junk /\ raw.server_url = "https"
    BY <1>1, <1>2, <2>3, ReasonsOfOne DEF resolve_server_url, DisableReasons
  <2>4. CASE raw.server_url # None /\ raw.server_url # Junk /\ raw.server_url = "http"
    BY <1>1, <1>2, <2>4, ReasonsOfOne DEF resolve_server_url, DisableReasons
  <2>5. CASE raw.server_url \notin {None, Junk, "http", "https"}
    BY <1>1, <1>2, <2>5, ReasonsOfOne DEF resolve_server_url, DisableReasons
  <2> QED BY <2>1, <2>2, <2>3, <2>4, <2>5
<1>4. /\ token.warnings \in Seq(Lines)
      /\ token.reason = None => NoReason(token.warnings)
      /\ token.reason # None => OneReason(token.warnings)
      /\ token.reason # "MasterSwitchOff"
  <2>1. CASE raw.auth_token_file # None /\ file = "token"
    BY <1>1, <1>2, <2>1, ReasonsOfOne DEF resolve_token, DisableReasons
  <2>2. CASE raw.auth_token_file # None /\ file = "blank"
    BY <1>1, <1>2, <2>2, ReasonsOfOne DEF resolve_token, DisableReasons
  <2>3. CASE raw.auth_token_file # None /\ file = "unreadable"
    BY <1>1, <1>2, <2>3, ReasonsOfOne DEF resolve_token, DisableReasons
  <2>4. CASE raw.auth_token_file = None /\ raw.auth_token # None
    BY <1>1, <1>2, <2>4, ReasonsOfOne DEF resolve_token, DisableReasons
  <2>5. CASE raw.auth_token_file = None /\ raw.auth_token = None
    BY <1>1, <1>2, <2>5, ReasonsOfOne DEF resolve_token, DisableReasons
  <2> QED BY <2>1, <2>2, <2>3, <2>4, <2>5 DEF TokenFiles
<1>5. CpuWarnings(raw) \in Seq(Lines) /\ NoReason(CpuWarnings(raw))
  BY <1>2, ReasonsOfOne DEF CpuWarnings
<1>6. CASE url.reason # None
  <2>1. Endpoint(raw, file).warnings = url.warnings \o <<>> /\ Endpoint(raw, file).reason = url.reason
    BY <1>6, Zenon DEF Endpoint
  <2>2. PICK u \in Seq(Lines) : u = url.warnings /\ OneReason(u)
    BY <1>3, <1>6
  <2>3. u \o <<>> \in Seq(Lines) /\ OneReason(u \o <<>>)
    BY <2>2, ReasonsConcatenated, ReasonsOfOne
  <2> QED BY <1>3, <1>5, <1>6, <2>1, <2>2, <2>3, Zenon
<1>7. CASE url.reason = None
  <2>1. Endpoint(raw, file).warnings = url.warnings \o token.warnings /\ Endpoint(raw, file).reason = token.reason
    BY <1>7, Zenon DEF Endpoint
  <2>2. PICK u \in Seq(Lines), t \in Seq(Lines) :
           /\ u = url.warnings /\ t = token.warnings /\ NoReason(u)
           /\ token.reason = None => NoReason(t)
           /\ token.reason # None => OneReason(t)
    BY <1>3, <1>4, <1>7
  <2>3. /\ u \o t \in Seq(Lines)
        /\ token.reason = None => NoReason(u \o t)
        /\ token.reason # None => OneReason(u \o t)
    BY <2>2, ReasonsConcatenated
  <2> QED BY <1>4, <1>5, <2>1, <2>2, <2>3, Zenon
<1> QED BY <1>6, <1>7

\* The log says why, once, or says nothing of the kind.
THEOREM ReasonCorrect == Spec => []OneReasonLogged
<1>1. IInv /\ LogInv => OneReasonLogged
  <2> SUFFICES ASSUME LogInv, last_minit = "set"
               PROVE  /\ Cardinality(Reasons(log)) = IF CONFIG.enabled THEN 0 ELSE 1
                      /\ CONFIG.disable_reason = "MasterSwitchOff" => Len(log) = 1
    BY Zenon DEF OneReasonLogged, Reasons
  <2> DEFINE raw == raw_ini_from_ini_map(source.ini)
             file == source.token_file
             r == RangeWarnings(raw)
             e == Endpoint(raw, file).warnings
             c == CpuWarnings(raw)
  <2>0. file \in TokenFiles /\ CONFIG = from_ini_values(raw, file).config
    BY DEF LogInv
  <2>1. \A s : /\ NoReason(s) => Cardinality(Reasons(s)) = 0
               /\ OneReason(s) => Cardinality(Reasons(s)) = 1
    BY FS_EmptySet, FS_Singleton DEF NoReason, OneReason
  <2>2. CASE MasterEnabled(raw)
    <3>1. /\ CONFIG.enabled = (Endpoint(raw, file).reason = None)
          /\ CONFIG.disable_reason = Endpoint(raw, file).reason
      BY <2>0, <2>2, Zenon DEF from_ini_values
    <3>2. CONFIG.disable_reason # "MasterSwitchOff"
      BY <2>0, <3>1, ReasonsOfEndpoint, Zenon
    <3>3. MasterSwitchNotice(CONFIG) = <<>>
      BY <3>2, Zenon DEF MasterSwitchNotice
    <3>4. log = ((r \o e) \o c) \o <<>>
      BY <2>2, <3>3, LogIs, Zenon
    <3>5. PICK a \in Seq(Lines), b \in Seq(Lines), d \in Seq(Lines) :
             /\ log = ((a \o b) \o d) \o <<>>
             /\ NoReason(a) /\ NoReason(d)
             /\ CONFIG.enabled => NoReason(b)
             /\ ~CONFIG.enabled => OneReason(b)
      <4>1. r \in Seq(Lines) /\ NoReason(r)
        BY ReasonsOfRanges
      <4>2. /\ e \in Seq(Lines) /\ c \in Seq(Lines) /\ NoReason(c)
            /\ CONFIG.enabled => NoReason(e)
            /\ ~CONFIG.enabled => OneReason(e)
        BY <2>0, <3>1, ReasonsOfEndpoint, Zenon
      <4> QED BY <3>4, <4>1, <4>2, Zenon
    <3>6. PICK ab \in Seq(Lines) : /\ ab = a \o b
                                   /\ CONFIG.enabled => NoReason(ab)
                                   /\ ~CONFIG.enabled => OneReason(ab)
      BY <3>5, ReasonsConcatenated
    <3>7. PICK abd \in Seq(Lines) : /\ abd = ab \o d
                                    /\ CONFIG.enabled => NoReason(abd)
                                    /\ ~CONFIG.enabled => OneReason(abd)
      BY <3>5, <3>6, ReasonsConcatenated
    <3>8. log = abd
      BY <3>5, <3>6, <3>7
    <3> QED BY <2>1, <3>2, <3>7, <3>8, Zenon
  <2>3. CASE ~MasterEnabled(raw)
    <3>1. CONFIG = disabled("MasterSwitchOff") /\ log = <<>> \o MasterSwitchNotice(CONFIG)
      BY <2>3, LogIs, Zenon
    <3>2. /\ CONFIG.enabled = FALSE /\ CONFIG.disable_reason = "MasterSwitchOff"
      BY <3>1 DEF disabled
    <3>3. CONFIG # None
      BY <3>1, NoneAssumption, Zenon DEF NoneAssumption
    <3>4. log = <<>> \o Warn("MasterSwitchNotice")
      BY <3>1, <3>2, <3>3, Zenon DEF MasterSwitchNotice
    <3>5. "MasterSwitchNotice" \in DisablingKinds
      BY DEF DisablingKinds
    <3>6. log = Warn("MasterSwitchNotice")
      BY <3>4, <3>5, ReasonsOfOne
    <3> QED BY <2>1, <3>2, <3>5, <3>6, ReasonsOfOne, Zenon
  <2> QED BY <2>2, <2>3
<1> QED BY <1>1, AlwaysLogInv, PTL

-----------------------------------------------------------------------------
(* The page.  A php.ini written from it is read like the configuration it  *)
(* shows.                                                                  *)

\* Clamping what is clamped changes nothing, and flush_bytes is no exception
\* although another range depends on it.
LEMMA ClampedStays ==
    ASSUME NEW ini0, Directives \subseteq DOMAIN ini0, NEW raw2,
           \A d \in Integral : raw2[d] = Limits(raw_ini_from_ini_map(ini0))[d]
    PROVE  LET raw == raw_ini_from_ini_map(ini0) IN
           /\ Limits(raw2) = Limits(raw)
           /\ \A d \in Integral : Limits(raw2)[d] = Asked(raw2, d)
<1> DEFINE raw == raw_ini_from_ini_map(ini0)
<1>1. ASSUME NEW d \in Integral
      PROVE  \E lo \in Int, hi \in Int : /\ RangeOf(raw, d) = <<lo, hi>>
                                         /\ Limits(raw)[d] \in lo..hi
  <2>1. PICK lo \in Int : /\ RangeOf(raw, d) = <<lo, RANGE[d][2]>>
                          /\ lo <= RANGE[d][2] /\ DefaultOf(raw, d) \in Int
    BY RangeOfDirective
  <2>2. RANGE[d][2] \in Int
    BY Tables
  <2>3. Asked(raw, d) \in Int
    BY <2>1, AskedIsInt DEF Asked
  <2>4. Limits(raw)[d] = Clamp(Asked(raw, d), <<lo, RANGE[d][2]>>)
    BY <2>1, Zenon DEF Limits
  <2>5. Clamp(Asked(raw, d), <<lo, RANGE[d][2]>>) \in lo..RANGE[d][2]
    BY <2>1, <2>2, <2>3, ClampInRange
  <2> QED BY <2>1, <2>2, <2>4, <2>5
<1>2. \A d \in Integral : Limits(raw)[d] \in Int
  BY <1>1
<1>3. ASSUME NEW d \in Integral, NEW default PROVE DirectiveValue(raw2, d, default) = Limits(raw)[d]
  <2>1. Limits(raw)[d] # None
    BY <1>2, PageAssumption DEF PageAssumption
  <2> QED BY <2>1, Zenon DEF DirectiveValue, UnwrapOr
<1>4. "flush_bytes" \in Integral /\ "flush_bytes" # "buffer_cap_bytes"
  BY Tables DEF RealDirectives
<1>5. Limits(raw)["flush_bytes"] = FlushBytes(raw) /\ RangeOf(raw, "flush_bytes") = RANGE["flush_bytes"]
  BY <1>4, Zenon DEF Limits, Asked, DefaultOf, RangeOf, FlushBytes
<1>6. FlushBytes(raw2) = FlushBytes(raw)
  <2>1. PICK lo \in Int, hi \in Int : /\ RANGE["flush_bytes"] = <<lo, hi>>
                                      /\ Limits(raw)["flush_bytes"] \in lo..hi
    BY <1>1, <1>4, <1>5
  <2>2. FlushBytes(raw2) = Clamp(Limits(raw)["flush_bytes"], <<lo, hi>>)
    BY <1>3, <1>4, <2>1, Zenon DEF FlushBytes
  <2>3. Clamp(Limits(raw)["flush_bytes"], <<lo, hi>>) = Limits(raw)["flush_bytes"]
    BY <2>1 DEF Clamp
  <2> QED BY <1>5, <2>2, <2>3
<1>7. ASSUME NEW d \in Integral
      PROVE  Limits(raw2)[d] = Limits(raw)[d] /\ Asked(raw2, d) = Limits(raw)[d]
  <2>1. RangeOf(raw2, d) = RangeOf(raw, d)
    BY <1>6, Zenon DEF RangeOf
  <2>2. Asked(raw2, d) = Limits(raw)[d]
    BY <1>3, Zenon DEF Asked
  <2>3. PICK lo \in Int, hi \in Int : RangeOf(raw, d) = <<lo, hi>> /\ Limits(raw)[d] \in lo..hi
    BY <1>1
  <2>4. Limits(raw2)[d] = Clamp(Limits(raw)[d], <<lo, hi>>)
    BY <2>1, <2>2, <2>3, Zenon DEF Limits
  <2>5. Clamp(Limits(raw)[d], <<lo, hi>>) = Limits(raw)[d]
    BY <2>3 DEF Clamp
  <2> QED BY <2>2, <2>4, <2>5
<1>8. Limits(raw2) = Limits(raw)
  BY <1>7, Zenon DEF Limits
<1> QED BY <1>7, <1>8

\* A list in lower case is its own lower case.
LEMMA LowerTwice ==
    ASSUME NEW name, \A i \in DOMAIN name : name[i] \in DOMAIN Lower
    PROVE  LowerText(LowerText(name)) = LowerText(name)
<1>1. DOMAIN LowerText(name) = DOMAIN name /\ \A i \in DOMAIN name : LowerText(name)[i] = Lower[name[i]]
  BY DEF LowerText
<1>2. \A i \in DOMAIN name : Lower[LowerText(name)[i]] = LowerText(name)[i]
  BY <1>1, LowerAssumption DEF LowerAssumption
<1>3. LowerText(LowerText(name)) = [i \in DOMAIN name |-> Lower[LowerText(name)[i]]]
  BY <1>1, Zenon DEF LowerText
<1>4. LowerText(name) = [i \in DOMAIN name |-> LowerText(name)[i]]
  BY <1>1, Zenon DEF LowerText
<1> QED BY <1>2, <1>3, <1>4

\* So a stored skip list is read back as itself, the curated one included.
LEMMA ListReadsBack ==
    ASSUME NEW ini0 \in IniFiles \cup ReloadedFiles, NEW raw2,
           LET list == parse_skip_functions(raw_ini_from_ini_map(ini0))
           IN  raw2.skip_functions = IF list = {} THEN None ELSE list
    PROVE  parse_skip_functions(raw2) = parse_skip_functions(raw_ini_from_ini_map(ini0))
<1> DEFINE raw == raw_ini_from_ini_map(ini0)
           list == parse_skip_functions(raw)
           parsed == {LowerText(name) : name \in UnwrapOr(raw.skip_functions, {})}
<1>1. list = IF parsed = {} THEN DEFAULT_SKIP_FUNCTIONS ELSE parsed
  BY Zenon DEF parse_skip_functions
<1>2. list # None
  BY PageAssumption DEF PageAssumption
<1>3. CASE list = {}
  <2>1. {LowerText(name) : name \in UnwrapOr(raw2.skip_functions, {})} = {}
    BY <1>3, Zenon DEF UnwrapOr
  <2>2. parse_skip_functions(raw2) = DEFAULT_SKIP_FUNCTIONS
    BY <2>1, Zenon DEF parse_skip_functions
  <2> QED BY <1>1, <1>3, <2>2
<1>4. CASE list # {}
  <2>1. UnwrapOr(raw2.skip_functions, {}) = list
    BY <1>2, <1>4, Zenon DEF UnwrapOr
  <2>2. ASSUME NEW name \in list PROVE LowerText(name) = name
    <3>1. CASE parsed = {}
      BY <1>1, <3>1, CuratedAssumption DEF CuratedAssumption
    <3>2. CASE parsed # {}
      <4>1. PICK n \in UnwrapOr(raw.skip_functions, {}) : name = LowerText(n)
        BY <1>1, <3>2
      <4>2. Directives \subseteq DOMAIN ini0 /\ "skip_functions" \in Directives /\ "skip_functions" \in Strings
        BY IniAssumption DEF IniAssumption, Directives, Strings
      <4>3. raw["skip_functions"] = lookup_str(ini0["skip_functions"])
        BY <4>2, RawIs, Zenon
      <4>4. ini0.skip_functions # Empty /\ n \in ini0.skip_functions
        BY <4>1, <4>3, Zenon DEF lookup_str, UnwrapOr
      <4>5. \A i \in DOMAIN n : n[i] \in DOMAIN Lower
        BY <4>4, NameAssumption, Zenon DEF NameAssumption
      <4> QED BY <4>1, <4>5, LowerTwice, Zenon
    <3> QED BY <3>1, <3>2
  <2>3. {LowerText(name) : name \in list} = list
    BY <2>2
  <2> HIDE DEF list
  <2>4. parse_skip_functions(raw2) = list
    BY <1>4, <2>1, <2>3, Zenon DEF parse_skip_functions
  <2> QED BY <2>4 DEF list
<1> QED BY <1>3, <1>4

\* What a row shows of a configuration, and what it is when read back.
LEMMA RowsReadBack ==
    ASSUME NEW config, config # None, config.enabled \in BOOLEAN, config.skip_internal \in BOOLEAN,
           config.server_url \in UrlSchemes \cup {None},
           config.cpu_snapshot_mode \in CpuSnapshotModes,
           \A d \in Integral : IsI64(config.limits[d]),
           config.skip_functions # {} => config.skip_functions \notin {None, Empty, Unset, Redacted}
    PROVE  LET raw2 == raw_ini_from_ini_map(ReadBack(rows(config).directives)) IN
           /\ raw2.enabled = (config.disable_reason # "MasterSwitchOff")
           /\ raw2.server_url = config.server_url
           /\ raw2.auth_token # None
           /\ (raw2.auth_token_file # None) <=> (config.auth_token_source = "File")
           /\ raw2.cpu_snapshot_mode = config.cpu_snapshot_mode
           /\ raw2.skip_internal = config.skip_internal
           /\ raw2.skip_functions = IF config.skip_functions = {} THEN None ELSE config.skip_functions
           /\ \A d \in Integral : raw2[d] = config.limits[d]
<1> DEFINE page == push_directive_rows(config)
           back == ReadBack(page)
           raw2 == raw_ini_from_ini_map(back)
<1>0. rows(config).directives = page
  BY DEF rows
<1>1. /\ \A absent \in {None, Empty, Unset, Redacted} :
            absent \notin Int \cup UrlSchemes \cup CpuSnapshotModes \cup {"on", "off", "path", "t"}
      /\ Redacted \notin {Unset, Empty} /\ None \notin BOOLEAN
  BY PageAssumption DEF PageAssumption
<1>2. DOMAIN back = Directives
  BY DEF ReadBack
<1>3. /\ Strings = {"server_url", "auth_token", "auth_token_file", "cpu_snapshot_mode", "skip_functions"}
      /\ Booleans = {"enabled", "skip_internal"} /\ Integral = RealDirectives
      /\ Directives = Integral \cup Booleans \cup Strings
  BY Tables DEF Strings, Booleans, Directives
<1>4. /\ page["enabled"] = OnOff(MasterOn(config))
      /\ page["server_url"] = UnwrapOr(config.server_url, Unset)
      /\ page["auth_token"] = Redacted
      /\ page["auth_token_file"] = IF config.auth_token_source = "File" THEN "path" ELSE Unset
      /\ page["cpu_snapshot_mode"] = config.cpu_snapshot_mode
      /\ page["skip_functions"] = SkipRow(config)
      /\ page["skip_internal"] = OnOff(config.skip_internal)
  BY <1>3 DEF push_directive_rows, RealDirectives
<1>5. \A d \in Integral : page[d] = config.limits[d]
  BY <1>3 DEF push_directive_rows, RealDirectives
<1>6. \A d \in Directives : back[d] = IF page[d] = Unset THEN Empty
                                      ELSE IF page[d] = Redacted THEN "t" ELSE page[d]
  BY <1>1, Zenon DEF ReadBack
<1> HIDE DEF page, back
<1>7. /\ back["enabled"] = OnOff(MasterOn(config))
      /\ back["skip_internal"] = OnOff(config.skip_internal)
      /\ back["auth_token"] = "t"
      /\ back["auth_token_file"] = IF config.auth_token_source = "File" THEN "path" ELSE Empty
      /\ back["cpu_snapshot_mode"] = config.cpu_snapshot_mode
      /\ back["server_url"] = UnwrapOr(config.server_url, Empty)
      /\ back["skip_functions"] = SkipRow(config)
  <2>1. back["enabled"] = OnOff(MasterOn(config)) /\ back["skip_internal"] = OnOff(config.skip_internal)
    BY <1>1, <1>3, <1>4, <1>6 DEF OnOff
  <2>2. back["auth_token"] = "t"
    BY <1>1, <1>3, <1>4, <1>6
  <2>3. back["auth_token_file"] = IF config.auth_token_source = "File" THEN "path" ELSE Empty
    BY <1>1, <1>3, <1>4, <1>6
  <2>4. back["cpu_snapshot_mode"] = config.cpu_snapshot_mode
    BY <1>1, <1>3, <1>4, <1>6
  <2>5. back["server_url"] = UnwrapOr(config.server_url, Empty)
    BY <1>1, <1>3, <1>4, <1>6 DEF UnwrapOr
  <2>6. back["skip_functions"] = SkipRow(config)
    <3>1. CASE config.skip_functions = {}
      BY <1>1, <1>3, <1>4, <1>6, <3>1 DEF SkipRow
    <3>2. CASE config.skip_functions # {}
      BY <1>1, <1>3, <1>4, <1>6, <3>2 DEF SkipRow
    <3> QED BY <3>1, <3>2
  <2> QED BY <2>1, <2>2, <2>3, <2>4, <2>5, <2>6
<1>8. \A d \in Integral : back[d] = config.limits[d]
  BY <1>1, <1>3, <1>5, <1>6 DEF IsI64
<1>9. \A d \in Directives : /\ d \in Integral => raw2[d] = lookup_int(back[d])
                            /\ d \in Booleans => raw2[d] = lookup_bool(back[d])
                            /\ d \in Strings  => raw2[d] = lookup_str(back[d])
  BY <1>2, RawIs, Zenon
<1>10. \A d \in Integral : raw2[d] = config.limits[d]
  BY <1>3, <1>8, <1>9 DEF lookup_int
<1>11. \A flag \in BOOLEAN : lookup_bool(OnOff(flag)) = flag
  BY <1>1 DEF lookup_bool, lookup_str, OnOff, parse_bool
<1>12. /\ raw2["enabled"] = MasterOn(config) /\ raw2["skip_internal"] = config.skip_internal
  <2>1. MasterOn(config) \in BOOLEAN
    BY DEF MasterOn
  <2>2. /\ raw2["enabled"] = lookup_bool(back["enabled"])
        /\ raw2["skip_internal"] = lookup_bool(back["skip_internal"])
    BY <1>3, <1>9
  <2> QED BY <1>7, <1>11, <2>1, <2>2, Zenon
<1>13. /\ raw2["auth_token"] = lookup_str("t")
       /\ raw2["auth_token_file"] = lookup_str(back["auth_token_file"])
       /\ raw2["cpu_snapshot_mode"] = lookup_str(config.cpu_snapshot_mode)
       /\ raw2["server_url"] = lookup_str(back["server_url"])
       /\ raw2["skip_functions"] = lookup_str(SkipRow(config))
  BY <1>3, <1>7, <1>9
<1>14. raw2["auth_token"] # None
  BY <1>1, <1>13 DEF lookup_str
<1>15. (raw2["auth_token_file"] # None) <=> (config.auth_token_source = "File")
  BY <1>1, <1>7, <1>13 DEF lookup_str
<1>16. raw2["cpu_snapshot_mode"] = config.cpu_snapshot_mode
  BY <1>1, <1>13 DEF lookup_str
<1>17. raw2["server_url"] = config.server_url
  BY <1>1, <1>7, <1>13 DEF lookup_str, UnwrapOr
<1>18. raw2["skip_functions"] = IF config.skip_functions = {} THEN None ELSE config.skip_functions
  BY <1>13 DEF lookup_str, SkipRow
<1> HIDE DEF raw2
<1>19. /\ raw2.enabled = (config.disable_reason # "MasterSwitchOff")
       /\ raw2.server_url = config.server_url
       /\ raw2.auth_token # None
       /\ (raw2.auth_token_file # None) <=> (config.auth_token_source = "File")
       /\ raw2.cpu_snapshot_mode = config.cpu_snapshot_mode
       /\ raw2.skip_internal = config.skip_internal
       /\ raw2.skip_functions = IF config.skip_functions = {} THEN None ELSE config.skip_functions
  BY <1>12, <1>14, <1>15, <1>16, <1>17, <1>18, Zenon DEF MasterOn
<1> QED BY <1>0, <1>10, <1>19, Zenon DEF raw2, back

\* What is stored, field by field, if the extension was not switched off.
StoredOf(config, raw, file) ==
    /\ config = [enabled |-> config.enabled, disable_reason |-> config.disable_reason,
                 server_url |-> config.server_url,
                 auth_token_source |-> config.auth_token_source,
                 limits |-> config.limits, cpu_snapshot_mode |-> config.cpu_snapshot_mode,
                 skip_functions |-> config.skip_functions,
                 skip_internal |-> config.skip_internal]
    /\ config.enabled = (Endpoint(raw, file).reason = None)
    /\ config.disable_reason = Endpoint(raw, file).reason
    /\ config.server_url = Endpoint(raw, file).url
    /\ config.auth_token_source = Endpoint(raw, file).source
    /\ config.limits = Limits(raw)
    /\ config.cpu_snapshot_mode = cpu_snapshot_mode(raw)
    /\ config.skip_functions = parse_skip_functions(raw)
    /\ config.skip_internal = UnwrapOr(raw.skip_internal, FALSE)

LEMMA StoredIs ==
    ASSUME NEW raw, NEW file \in TokenFiles, MasterEnabled(raw)
    PROVE  StoredOf(from_ini_values(raw, file).config, raw, file)
<1> DEFINE config == from_ini_values(raw, file).config
<1>1. config = [enabled |-> Endpoint(raw, file).reason = None,
                disable_reason |-> Endpoint(raw, file).reason,
                server_url |-> Endpoint(raw, file).url,
                auth_token_source |-> Endpoint(raw, file).source,
                limits |-> Limits(raw), cpu_snapshot_mode |-> cpu_snapshot_mode(raw),
                skip_functions |-> parse_skip_functions(raw),
                skip_internal |-> UnwrapOr(raw.skip_internal, FALSE)]
  BY Zenon DEF from_ini_values
<1> HIDE DEF config
<1>2. PICK e, r, u, t, l, c, k, i :
          /\ e = (Endpoint(raw, file).reason = None)
          /\ r = Endpoint(raw, file).reason
          /\ u = Endpoint(raw, file).url
          /\ t = Endpoint(raw, file).source
          /\ l = Limits(raw)
          /\ c = cpu_snapshot_mode(raw)
          /\ k = parse_skip_functions(raw)
          /\ i = UnwrapOr(raw.skip_internal, FALSE)
  BY Zenon
<1>3. config = [enabled |-> e, disable_reason |-> r, server_url |-> u, auth_token_source |-> t,
                limits |-> l, cpu_snapshot_mode |-> c, skip_functions |-> k,
                skip_internal |-> i]
  BY <1>1, <1>2, Zenon
<1>4. /\ config = [enabled |-> config.enabled, disable_reason |-> config.disable_reason,
                   server_url |-> config.server_url,
                   auth_token_source |-> config.auth_token_source,
                   limits |-> config.limits, cpu_snapshot_mode |-> config.cpu_snapshot_mode,
                   skip_functions |-> config.skip_functions,
                   skip_internal |-> config.skip_internal]
      /\ config.enabled = e /\ config.disable_reason = r
      /\ config.server_url = u /\ config.auth_token_source = t
      /\ config.limits = l /\ config.cpu_snapshot_mode = c
      /\ config.skip_functions = k /\ config.skip_internal = i
  BY <1>3
<1>5. StoredOf(config, raw, file)
  BY <1>2, <1>4, Zenon DEF StoredOf
<1> QED BY <1>5 DEF config

\* The endpoint of an enabled extension is resolved alike from its page.
LEMMA EndpointReadsBack ==
    ASSUME NEW raw, NEW file \in TokenFiles, Endpoint(raw, file).reason = None,
           NEW raw2, raw2.server_url = Endpoint(raw, file).url, raw2.auth_token # None,
           (raw2.auth_token_file # None) <=> (Endpoint(raw, file).source = "File")
    PROVE  /\ Endpoint(raw2, "token").reason = None
           /\ Endpoint(raw2, "token").url = Endpoint(raw, file).url
           /\ Endpoint(raw2, "token").source = Endpoint(raw, file).source
<1> DEFINE url == resolve_server_url(raw)
           token == resolve_token(raw, file)
           url2 == resolve_server_url(raw2)
           token2 == resolve_token(raw2, "token")
<1>0. /\ None \notin DisableReasons /\ None \notin UrlSchemes /\ Junk \notin UrlSchemes
      /\ None \notin TokenSources
  BY OptionAssumption DEF OptionAssumption
<1>1. url.reason = None
  <2>1. url.reason # None => Endpoint(raw, file).reason = url.reason
    BY Zenon DEF Endpoint
  <2> QED BY <2>1
<1>2. /\ Endpoint(raw, file).url = url.url /\ Endpoint(raw, file).source = token.source
      /\ token.reason = None
  BY <1>1, Zenon DEF Endpoint
<1>3. url.url \in UrlSchemes
  BY <1>0, <1>1 DEF resolve_server_url, DisableReasons, UrlSchemes
<1>4. url2.url = url.url /\ url2.reason = None
  BY <1>0, <1>2, <1>3 DEF resolve_server_url, DisableReasons, UrlSchemes
<1>5. token.source \in TokenSources
  BY <1>0, <1>2 DEF resolve_token, DisableReasons, TokenSources, TokenFiles
<1>6. token2.source = token.source /\ token2.reason = None
  <2>1. CASE token.source = "File"
    BY <1>2, <2>1 DEF resolve_token
  <2>2. CASE token.source = "Inline"
    BY <1>2, <2>2 DEF resolve_token
  <2> QED BY <1>5, <2>1, <2>2 DEF TokenSources
<1>7. /\ Endpoint(raw2, "token").reason = token2.reason
      /\ Endpoint(raw2, "token").url = url2.url
      /\ Endpoint(raw2, "token").source = token2.source
  BY <1>4, Zenon DEF Endpoint
<1> QED BY <1>2, <1>4, <1>6, <1>7, Zenon

\* A php.ini written from the phpinfo page gives the process it was read from.
THEOREM PageReadsBack == Spec => []InfoReadsBack
<1>1. IInv => InfoReadsBack
  <2> SUFFICES ASSUME IInv, CONFIG # None PROVE InfoReadsBack!2
    BY DEF InfoReadsBack
  <2> DEFINE raw == raw_ini_from_ini_map(source.ini)
             file == source.token_file
             raw2 == raw_ini_from_ini_map(ReadBack(rows(CONFIG).directives))
             again == from_ini_values(raw2, "token")
  <2>1. /\ source.ini \in IniFiles \cup ReloadedFiles /\ file \in TokenFiles
        /\ CONFIG = from_ini_values(raw, file).config
        /\ Directives \subseteq DOMAIN source.ini
    BY IniAssumption DEF IInv, StoredFromFiles, IniAssumption
  <2>2. /\ None \notin BOOLEAN /\ None \notin CpuSnapshotModes
        /\ parse_skip_functions(raw) \notin {None, Empty, Unset, Redacted}
    BY <2>1, PageAssumption, Zenon DEF PageAssumption
  <2>3. CASE ~MasterEnabled(raw)
    <3>1. CONFIG = disabled("MasterSwitchOff")
      BY <2>1, <2>3, Zenon DEF from_ini_values
    <3>2. /\ CONFIG.enabled = FALSE /\ CONFIG.disable_reason = "MasterSwitchOff"
          /\ CONFIG.server_url = None /\ CONFIG.limits = DEFAULT
          /\ CONFIG.cpu_snapshot_mode = "per-call" /\ CONFIG.skip_functions = {}
          /\ CONFIG.skip_internal = FALSE
      BY <3>1, Zenon DEF disabled
    <3>3. \A d \in Integral : IsI64(DEFAULT[d])
      BY RangesFit
    <3>4. raw2.enabled = FALSE
      <4>1. raw2.enabled = (CONFIG.disable_reason # "MasterSwitchOff")
        BY <3>2, <3>3, RowsReadBack DEF CpuSnapshotModes
      <4> QED BY <3>2, <4>1
    <3>5. ~MasterEnabled(raw2)
      BY <2>2, <3>4, Zenon DEF MasterEnabled, UnwrapOr
    <3>6. again = [config |-> disabled("MasterSwitchOff"), warnings |-> <<>>]
      BY <3>5, Zenon DEF from_ini_values
    <3> HIDE DEF again
    <3>7. again.config = CONFIG /\ again.warnings = <<>>
      BY <3>1, <3>6
    <3> QED BY <3>7 DEF again
  <2>4. CASE MasterEnabled(raw)
    <3>1. /\ CONFIG = [enabled |-> CONFIG.enabled, disable_reason |-> CONFIG.disable_reason,
                       server_url |-> CONFIG.server_url,
                       auth_token_source |-> CONFIG.auth_token_source,
                       limits |-> CONFIG.limits, cpu_snapshot_mode |-> CONFIG.cpu_snapshot_mode,
                       skip_functions |-> CONFIG.skip_functions,
                       skip_internal |-> CONFIG.skip_internal]
          /\ CONFIG.enabled = (Endpoint(raw, file).reason = None)
          /\ CONFIG.disable_reason = Endpoint(raw, file).reason
          /\ CONFIG.server_url = Endpoint(raw, file).url
          /\ CONFIG.auth_token_source = Endpoint(raw, file).source
          /\ CONFIG.limits = Limits(raw)
          /\ CONFIG.cpu_snapshot_mode = cpu_snapshot_mode(raw)
          /\ CONFIG.skip_functions = parse_skip_functions(raw)
          /\ CONFIG.skip_internal = UnwrapOr(raw.skip_internal, FALSE)
      <4> HIDE DEF raw, file
      <4>1. StoredOf(CONFIG, raw, file)
        BY <2>1, <2>4, StoredIs, Zenon
      <4> QED BY <4>1, Zenon DEF StoredOf
    <3>2. CONFIG.disable_reason # "MasterSwitchOff"
      BY <2>1, <3>1, ReasonsOfEndpoint, Zenon
    <3>3. CONFIG.enabled \in BOOLEAN /\ CONFIG.skip_internal \in BOOLEAN
      <4>1. "skip_internal" \in Directives /\ "skip_internal" \in Booleans
        BY DEF Directives, Booleans
      <4>2. raw["skip_internal"] = lookup_bool(source.ini["skip_internal"])
        BY <2>1, <4>1, RawIs, Zenon
      <4>3. raw["skip_internal"] \in BOOLEAN \cup {None}
        BY <4>2 DEF lookup_bool, parse_bool
      <4>4. CONFIG.enabled \in BOOLEAN
        BY <3>1
      <4>5. CONFIG.skip_internal \in BOOLEAN
        BY <3>1, <4>3 DEF UnwrapOr
      <4> QED BY <4>4, <4>5
    <3>4. CONFIG.cpu_snapshot_mode \in CpuSnapshotModes
      BY <3>1 DEF cpu_snapshot_mode, CpuSnapshotModes
    <3>5. CONFIG.server_url \in UrlSchemes \cup {None}
      <4>1. Endpoint(raw, file).url = resolve_server_url(raw).url
        BY Zenon DEF Endpoint
      <4>2. resolve_server_url(raw).url \in UrlSchemes \cup {None}
        BY DEF resolve_server_url, UrlSchemes
      <4> QED BY <3>1, <4>1, <4>2, Zenon
    <3>6. \A d \in Integral : IsI64(CONFIG.limits[d])
      <4>1. \A d \in Integral : Limits(raw)[d] \in RANGE[d][1]..RANGE[d][2]
        BY <2>1, LimitsInRange
      <4> QED BY <3>1, <4>1, RangesFit, Zenon
    <3>7. /\ raw2.enabled = TRUE
          /\ raw2.server_url = CONFIG.server_url
          /\ raw2.auth_token # None
          /\ (raw2.auth_token_file # None) <=> (CONFIG.auth_token_source = "File")
          /\ raw2.cpu_snapshot_mode = CONFIG.cpu_snapshot_mode
          /\ raw2.skip_internal = CONFIG.skip_internal
          /\ raw2.skip_functions = IF CONFIG.skip_functions = {} THEN None ELSE CONFIG.skip_functions
          /\ \A d \in Integral : raw2[d] = CONFIG.limits[d]
      <4>1. CONFIG.skip_functions # {} => CONFIG.skip_functions \notin {None, Empty, Unset, Redacted}
        BY <2>2, <3>1, Zenon
      <4> HIDE DEF raw2
      <4>2. /\ raw2.enabled = (CONFIG.disable_reason # "MasterSwitchOff")
            /\ raw2.server_url = CONFIG.server_url
            /\ raw2.auth_token # None
            /\ (raw2.auth_token_file # None) <=> (CONFIG.auth_token_source = "File")
            /\ raw2.cpu_snapshot_mode = CONFIG.cpu_snapshot_mode
            /\ raw2.skip_internal = CONFIG.skip_internal
            /\ raw2.skip_functions = IF CONFIG.skip_functions = {} THEN None ELSE CONFIG.skip_functions
            /\ \A d \in Integral : raw2[d] = CONFIG.limits[d]
        BY <3>3, <3>4, <3>5, <3>6, <4>1, RowsReadBack, Zenon DEF raw2
      <4> QED BY <3>2, <4>2, Zenon
    <3> HIDE DEF raw2
    <3>8. MasterEnabled(raw2)
      BY <2>2, <3>7, Zenon DEF MasterEnabled, UnwrapOr
    <3>9. /\ Limits(raw2) = Limits(raw)
          /\ \A d \in Integral : Limits(raw2)[d] = Asked(raw2, d)
      <4>1. \A d \in Integral : raw2[d] = Limits(raw)[d]
        BY <3>1, <3>7, Zenon
      <4> QED BY <2>1, <4>1, ClampedStays
    <3>10. parse_skip_functions(raw2) = parse_skip_functions(raw)
      <4>1. raw2.skip_functions
                = IF parse_skip_functions(raw) = {} THEN None ELSE parse_skip_functions(raw)
        BY <3>1, <3>7, Zenon
      <4>2. PICK ini0 \in IniFiles \cup ReloadedFiles : ini0 = source.ini
        BY <2>1
      <4> QED BY <4>1, <4>2, ListReadsBack, ZenonT(60)
    <3>11. cpu_snapshot_mode(raw2) = CONFIG.cpu_snapshot_mode
      BY <3>4, <3>7, Zenon DEF cpu_snapshot_mode
    <3>12. UnwrapOr(raw2.skip_internal, FALSE) = CONFIG.skip_internal
      BY <2>2, <3>3, <3>7, Zenon DEF UnwrapOr
    <3>13. again = [config |->
                      [enabled |-> Endpoint(raw2, "token").reason = None,
                       disable_reason |-> Endpoint(raw2, "token").reason,
                       server_url |-> Endpoint(raw2, "token").url,
                       auth_token_source |-> Endpoint(raw2, "token").source,
                       limits |-> Limits(raw2), cpu_snapshot_mode |-> cpu_snapshot_mode(raw2),
                       skip_functions |-> parse_skip_functions(raw2),
                       skip_internal |-> UnwrapOr(raw2.skip_internal, FALSE)],
                    warnings |-> RangeWarnings(raw2) \o Endpoint(raw2, "token").warnings
                                     \o CpuWarnings(raw2)]
      BY <3>8, Zenon DEF from_ini_values
    <3> HIDE DEF again
    <3>14. /\ again.config.limits = CONFIG.limits
           /\ again.config.cpu_snapshot_mode = CONFIG.cpu_snapshot_mode
           /\ again.config.skip_functions = CONFIG.skip_functions
           /\ again.config.skip_internal = CONFIG.skip_internal
      BY <3>1, <3>9, <3>10, <3>11, <3>12, <3>13, Zenon
    <3>15. ASSUME CONFIG.enabled PROVE again.config = CONFIG
      <4>1. Endpoint(raw, file).reason = None
        BY <3>1, <3>15, Zenon
      <4>2. /\ Endpoint(raw2, "token").reason = None
            /\ Endpoint(raw2, "token").url = Endpoint(raw, file).url
            /\ Endpoint(raw2, "token").source = Endpoint(raw, file).source
        <5>1. /\ raw2.server_url = Endpoint(raw, file).url /\ raw2.auth_token # None
              /\ (raw2.auth_token_file # None) <=> (Endpoint(raw, file).source = "File")
              /\ file \in TokenFiles
          BY <2>1, <3>1, <3>7, Zenon
        <5> HIDE DEF raw, file
        <5> QED BY <4>1, <5>1, EndpointReadsBack, Zenon
      <4>3. /\ again.config = [enabled |-> TRUE, disable_reason |-> None,
                       server_url |-> CONFIG.server_url,
                       auth_token_source |-> CONFIG.auth_token_source,
                       limits |-> CONFIG.limits, cpu_snapshot_mode |-> CONFIG.cpu_snapshot_mode,
                       skip_functions |-> CONFIG.skip_functions,
                       skip_internal |-> CONFIG.skip_internal]
        BY <3>1, <3>9, <3>10, <3>11, <3>12, <3>13, <4>2
      <4>4. CONFIG.enabled = TRUE /\ CONFIG.disable_reason = None
        BY <3>1, <3>15, <4>1, Zenon
      <4> QED BY <3>1, <4>3, <4>4, Zenon
    <3>16. \A i \in DOMAIN again.warnings : again.warnings[i].kind # "OutOfRange"
      <4>1. PICK r \in Seq(Lines), e \in Seq(Lines), c \in Seq(Lines) :
              /\ again.warnings = (r \o e) \o c
              /\ Elements(r) = {} /\ Elements(e) \subseteq PlainLines /\ Elements(c) \subseteq PlainLines
        <5>1. Elements(RangeWarnings(raw2)) = {} /\ RangeWarnings(raw2) \in Seq(Lines)
          BY <3>9, RangeWarningsAre, ReasonsOfRanges
        <5>2. /\ Endpoint(raw2, "token").warnings \in Seq(PlainLines)
              /\ CpuWarnings(raw2) \in Seq(PlainLines)
          BY EndpointWarnings DEF TokenFiles
        <5>3. \A s \in Seq(PlainLines) : s \in Seq(Lines) /\ Elements(s) \subseteq PlainLines
          BY DEF Elements, Lines
        <5>4. again.warnings = (RangeWarnings(raw2) \o Endpoint(raw2, "token").warnings) \o CpuWarnings(raw2)
          BY <3>13, Zenon
        <5> QED BY <5>1, <5>2, <5>3, <5>4, Zenon
      <4>2. PICK re \in Seq(Lines) : re = r \o e /\ Elements(re) = Elements(r) \cup Elements(e)
        <5>1. /\ r \o e \in Seq(Lines)
              /\ Elements(r \o e) = Elements(r) \cup Elements(e)
          BY Concatenated
        <5> QED BY <5>1, Zenon
      <4>3. Elements(re \o c) = Elements(re) \cup Elements(c)
        BY Concatenated
      <4>4. Elements(again.warnings) \subseteq PlainLines
        BY <4>1, <4>2, <4>3
      <4>5. \A line \in PlainLines : line.kind # "OutOfRange"
        BY DEF PlainLines, Kinds, DisablingKinds
      <4> QED BY <4>4, <4>5, Zenon DEF Elements
    <3>17. CONFIG.disable_reason = "MasterSwitchOff" => FALSE
      BY <3>2
    <3> QED BY <3>14, <3>15, <3>16, <3>17 DEF again, raw2
  <2> QED BY <2>3, <2>4
<1> QED BY <1>1, AlwaysIInv, PTL

-----------------------------------------------------------------------------
(* The function dictionary of a trace.                                     *)

Lazy(site) == categorise_lazy(extract_call_site(site))

-----------------------------------------------------------------------------
(* Keys.                                                                   *)

\* An optional name and its text determine each other.
LEMMA TextOfInjective ==
    ASSUME NEW a, NEW b
    PROVE  /\ (TextOf(a, <<>>) = TextOf(b, <<>>)) <=> (a = b)
           /\ (TextOf(a, <<>>) = <<>>) <=> (a = None)
<1>1. ASSUME NEW x PROVE <<x>> # <<>>
  OBVIOUS
<1>2. ASSUME NEW x, NEW y, <<x>> = <<y>> PROVE x = y
  BY <1>2
<1> QED BY <1>1, <1>2 DEF TextOf

\* Keys of two variants differ.
LEMMA VariantsApart ==
    /\ \A a, b, c, x, y : Function(a, b, c) # Method(x, y)
    /\ \A a, b, c, x, y : Function(a, b, c) # Closure(x, y)
    /\ \A a, b, c, x : Function(a, b, c) # Internal(x)
    /\ \A a, b, x, y : Method(a, b) # Closure(x, y)
    /\ \A a, b, x : Method(a, b) # Internal(x)
    /\ \A a, b, x : Closure(a, b) # Internal(x)
<1>1. /\ \A a, b, c : Function(a, b, c).variant = "Function"
      /\ \A a, b : Method(a, b).variant = "Method"
      /\ \A a, b : Closure(a, b).variant = "Closure"
      /\ \A a : Internal(a).variant = "Internal"
  BY DEF Function, Method, Closure, Internal
<1> QED BY <1>1

\* Keys of one variant agree if their fields do.
LEMMA KeysApart ==
    /\ \A a, b, c, x, y, z :
          (Function(a, b, c) = Function(x, y, z)) <=> (a = x /\ b = y /\ c = z)
    /\ \A a, b, x, y : (Method(a, b) = Method(x, y)) <=> (a = x /\ b = y)
    /\ \A a, b, x, y : (Closure(a, b) = Closure(x, y)) <=> (a = x /\ b = y)
    /\ \A a, x : (Internal(a) = Internal(x)) <=> (a = x)
<1>1. /\ \A a, b, c : /\ Function(a, b, c).file = a /\ Function(a, b, c).function = b
                      /\ Function(a, b, c).line = c
      /\ \A a, b : Method(a, b).class = a /\ Method(a, b).method = b
      /\ \A a, b : Closure(a, b).file = a /\ Closure(a, b).line = b
      /\ \A a : Internal(a).name = a
  BY DEF Function, Method, Closure, Internal
<1> QED BY <1>1

\* The five shapes of a call and the key each is given.
NamedInternal(a)   == a.is_internal /\ a.function_name # None
UnnamedInternal(a) == a.is_internal /\ a.function_name = None
MethodCall(a)      == ~a.is_internal /\ a.class_name # None
ClosureCall(a)     == ~a.is_internal /\ a.class_name = None /\ IsClosure(a)
PlainCall(a)       == ~a.is_internal /\ a.class_name = None /\ ~IsClosure(a)

LEMMA KeyOfShape ==
    ASSUME NEW a, a.is_internal \in BOOLEAN
    PROVE  /\ NamedInternal(a) \/ UnnamedInternal(a) \/ MethodCall(a) \/ ClosureCall(a) \/ PlainCall(a)
           /\ NamedInternal(a) =>
                categorise_lazy(a).key_ref = Internal(TextOf(a.function_name, <<>>))
           /\ UnnamedInternal(a) =>
                categorise_lazy(a).key_ref = Function(<<>>, <<>>, a.execute_data_addr % U32)
           /\ MethodCall(a) =>
                categorise_lazy(a).key_ref
                    = Method(TextOf(a.class_name, <<>>), TextOf(a.function_name, <<>>))
           /\ ClosureCall(a) =>
                categorise_lazy(a).key_ref = Closure(TextOf(a.filename, <<>>), a.lineno)
           /\ PlainCall(a) =>
                categorise_lazy(a).key_ref
                    = Function(TextOf(a.filename, <<>>), TextOf(a.function_name, <<>>), a.lineno)
<1> USE DEF NamedInternal, UnnamedInternal, MethodCall, ClosureCall, PlainCall
<1>1. CASE NamedInternal(a)
  <2>1. categorise_lazy(a).key_ref = Internal(TextOf(a.function_name, <<>>))
    BY <1>1, Zenon DEF categorise_lazy, LazyCategorised
  <2> QED BY <1>1, <2>1
<1>2. CASE UnnamedInternal(a)
  <2>1. categorise_lazy(a).key_ref = Function(<<>>, <<>>, a.execute_data_addr % U32)
    BY <1>2, Zenon DEF categorise_lazy, LazyCategorised
  <2> QED BY <1>2, <2>1
<1>3. CASE MethodCall(a)
  <2>1. categorise_lazy(a).key_ref = Method(<<a.class_name>>, TextOf(a.function_name, <<>>))
    BY <1>3, Zenon DEF categorise_lazy, LazyCategorised
  <2>2. TextOf(a.class_name, <<>>) = <<a.class_name>>
    BY <1>3 DEF TextOf
  <2> QED BY <1>3, <2>1, <2>2
<1>4. CASE ClosureCall(a)
  <2>1. categorise_lazy(a).key_ref = Closure(TextOf(a.filename, <<>>), a.lineno)
    BY <1>4, Zenon DEF categorise_lazy, LazyCategorised
  <2> QED BY <1>4, <2>1
<1>5. CASE PlainCall(a)
  <2>1. categorise_lazy(a).key_ref
          = Function(TextOf(a.filename, <<>>), TextOf(a.function_name, <<>>), a.lineno)
    BY <1>5, Zenon DEF categorise_lazy, LazyCategorised
  <2> QED BY <1>5, <2>1
<1> QED BY <1>1, <1>2, <1>3, <1>4, <1>5, Zenon

\* Which calls get one key: internals of one name whatever their class, unnamed
\* ones whose addresses agree in the low 32 bits; methods of one class and name;
\* closures of one place; functions of one file, name and line; and an unnamed
\* internal with a nameless call without a file whose line those low bits are.
SameFunction(a, b) ==
    LET nameless(x) == x.function_name = None /\ x.class_name = None /\ x.filename = None
        low(x) == IF x.is_internal THEN x.execute_data_addr % U32 ELSE x.lineno
    IN \/ /\ a.is_internal /\ b.is_internal /\ a.function_name # None
          /\ a.function_name = b.function_name
       \/ /\ \A x \in {a, b} : IF x.is_internal THEN x.function_name = None ELSE nameless(x)
          /\ low(a) = low(b)
       \/ /\ ~a.is_internal /\ ~b.is_internal
          /\ a.class_name = b.class_name
          /\ IF a.class_name # None THEN a.function_name = b.function_name
             ELSE /\ a.filename = b.filename /\ a.lineno = b.lineno
                  /\ \/ IsClosure(a) /\ IsClosure(b)
                     \/ ~IsClosure(a) /\ ~IsClosure(b) /\ a.function_name = b.function_name

\* SameFunction, shape by shape.
LEMMA SameByShape ==
    ASSUME NEW a, NEW b, a.is_internal \in BOOLEAN, b.is_internal \in BOOLEAN
    PROVE  /\ NamedInternal(a) =>
                (SameFunction(a, b) <=> NamedInternal(b) /\ a.function_name = b.function_name)
           /\ UnnamedInternal(a) =>
                (SameFunction(a, b) <=>
                    \/ UnnamedInternal(b) /\ a.execute_data_addr % U32 = b.execute_data_addr % U32
                    \/ PlainCall(b) /\ b.function_name = None /\ b.filename = None
                       /\ a.execute_data_addr % U32 = b.lineno)
           /\ MethodCall(a) =>
                (SameFunction(a, b) <=>
                    MethodCall(b) /\ a.class_name = b.class_name
                    /\ a.function_name = b.function_name)
           /\ ClosureCall(a) =>
                (SameFunction(a, b) <=>
                    ClosureCall(b) /\ a.filename = b.filename /\ a.lineno = b.lineno)
           /\ PlainCall(a) =>
                (SameFunction(a, b) <=>
                    \/ PlainCall(b) /\ a.filename = b.filename /\ a.lineno = b.lineno
                       /\ a.function_name = b.function_name
                    \/ UnnamedInternal(b) /\ a.function_name = None /\ a.filename = None
                       /\ b.execute_data_addr % U32 = a.lineno)
<1> DEFINE nameless(x) == x.function_name = None /\ x.class_name = None /\ x.filename = None
           low(x) == IF x.is_internal THEN x.execute_data_addr % U32 ELSE x.lineno
           unnamed(x) == IF x.is_internal THEN x.function_name = None ELSE nameless(x)
           internals == a.is_internal /\ b.is_internal /\ a.function_name # None
                        /\ a.function_name = b.function_name
           users == /\ ~a.is_internal /\ ~b.is_internal
                    /\ a.class_name = b.class_name
                    /\ IF a.class_name # None THEN a.function_name = b.function_name
                       ELSE /\ a.filename = b.filename /\ a.lineno = b.lineno
                            /\ \/ IsClosure(a) /\ IsClosure(b)
                               \/ /\ ~IsClosure(a) /\ ~IsClosure(b)
                                  /\ a.function_name = b.function_name
<1>1. SameFunction(a, b) <=>
        internals \/ (unnamed(a) /\ unnamed(b) /\ low(a) = low(b)) \/ users
  BY Zenon DEF SameFunction
<1>2. \A x : nameless(x) => ~IsClosure(x)
  BY DEF IsClosure
<1>3. \A x : x.function_name = None /\ ~IsClosure(x) => x.filename = None
  BY DEF IsClosure
<1>4. low(a) = (IF a.is_internal THEN a.execute_data_addr % U32 ELSE a.lineno)
      /\ low(b) = (IF b.is_internal THEN b.execute_data_addr % U32 ELSE b.lineno)
  OBVIOUS
<1> HIDE DEF low
<1> USE DEF NamedInternal, UnnamedInternal, MethodCall, ClosureCall, PlainCall
<1>5. CASE NamedInternal(a)
  BY <1>1, <1>5
<1>6. CASE UnnamedInternal(a)
  BY <1>1, <1>2, <1>3, <1>4, <1>6
<1>7. CASE MethodCall(a)
  BY <1>1, <1>7
<1>8. CASE ClosureCall(a)
  BY <1>1, <1>2, <1>8
<1>9. CASE PlainCall(a)
  BY <1>1, <1>2, <1>3, <1>4, <1>9
<1> QED BY <1>5, <1>6, <1>7, <1>8, <1>9

\* Two calls are given one key exactly if they are of the same function.
LEMMA KeysExact ==
    ASSUME NEW a, NEW b, a.is_internal \in BOOLEAN, b.is_internal \in BOOLEAN
    PROVE  (categorise_lazy(a).key_ref = categorise_lazy(b).key_ref) <=> SameFunction(a, b)
<1> DEFINE text(x) == TextOf(x, <<>>)
<1>1. /\ \A x, y : (text(x) = text(y)) <=> (x = y)
      /\ \A x : (<<>> = text(x)) <=> (x = None)
      /\ \A x : (text(x) = <<>>) <=> (x = None)
  BY TextOfInjective
<1> HIDE DEF text
<1> DEFINE key(x) == categorise_lazy(x).key_ref
           low(x) == x.execute_data_addr % U32
<1>2. ASSUME NEW x \in {a, b}
      PROVE  /\ NamedInternal(x) => key(x) = Internal(text(x.function_name))
             /\ UnnamedInternal(x) => key(x) = Function(<<>>, <<>>, low(x))
             /\ MethodCall(x) => key(x) = Method(text(x.class_name), text(x.function_name))
             /\ ClosureCall(x) => key(x) = Closure(text(x.filename), x.lineno)
             /\ PlainCall(x) => key(x) = Function(text(x.filename), text(x.function_name), x.lineno)
  BY KeyOfShape DEF text
<1>3. ASSUME NEW x \in {a, b}
      PROVE  NamedInternal(x) \/ UnnamedInternal(x) \/ MethodCall(x) \/ ClosureCall(x) \/ PlainCall(x)
  BY KeyOfShape
<1>4. ASSUME NEW x \in {a, b}
      PROVE  /\ UnnamedInternal(x) => ~NamedInternal(x) /\ ~MethodCall(x) /\ ~ClosureCall(x) /\ ~PlainCall(x)
             /\ NamedInternal(x) => ~MethodCall(x) /\ ~ClosureCall(x) /\ ~PlainCall(x)
             /\ MethodCall(x) => ~ClosureCall(x) /\ ~PlainCall(x)
             /\ ClosureCall(x) => ~PlainCall(x)
  BY DEF NamedInternal, UnnamedInternal, MethodCall, ClosureCall, PlainCall
<1> SUFFICES (key(a) = key(b)) <=> SameFunction(a, b)
  OBVIOUS
<1> HIDE DEF key, low
<1>5. CASE NamedInternal(a)
  <2>1. SameFunction(a, b) <=>
          NamedInternal(b) /\ a.function_name = b.function_name
    BY <1>5, SameByShape DEF low
  <2>2. key(a) = Internal(text(a.function_name))
    BY <1>2, <1>5
  <2>3. CASE NamedInternal(b)
    BY <1>1, <1>2, <1>4, <2>1, <2>2, <2>3, VariantsApart, KeysApart
  <2>4. CASE UnnamedInternal(b)
    BY <1>1, <1>2, <1>4, <2>1, <2>2, <2>4, VariantsApart, KeysApart
  <2>5. CASE MethodCall(b)
    BY <1>1, <1>2, <1>4, <2>1, <2>2, <2>5, VariantsApart, KeysApart
  <2>6. CASE ClosureCall(b)
    BY <1>1, <1>2, <1>4, <2>1, <2>2, <2>6, VariantsApart, KeysApart
  <2>7. CASE PlainCall(b)
    BY <1>1, <1>2, <1>4, <2>1, <2>2, <2>7, VariantsApart, KeysApart
  <2> QED BY <1>3, <2>3, <2>4, <2>5, <2>6, <2>7
<1>6. CASE UnnamedInternal(a)
  <2>1. SameFunction(a, b) <=>
          \/ UnnamedInternal(b) /\ low(a) = low(b)
          \/ PlainCall(b) /\ b.function_name = None /\ b.filename = None /\ low(a) = b.lineno
    BY <1>6, SameByShape DEF low
  <2>2. key(a) = Function(<<>>, <<>>, low(a))
    BY <1>2, <1>6
  <2>3. CASE NamedInternal(b)
    BY <1>1, <1>2, <1>4, <2>1, <2>2, <2>3, VariantsApart, KeysApart
  <2>4. CASE UnnamedInternal(b)
    BY <1>1, <1>2, <1>4, <2>1, <2>2, <2>4, VariantsApart, KeysApart
  <2>5. CASE MethodCall(b)
    BY <1>1, <1>2, <1>4, <2>1, <2>2, <2>5, VariantsApart, KeysApart
  <2>6. CASE ClosureCall(b)
    BY <1>1, <1>2, <1>4, <2>1, <2>2, <2>6, VariantsApart, KeysApart
  <2>7. CASE PlainCall(b)
    BY <1>1, <1>2, <1>4, <2>1, <2>2, <2>7, VariantsApart, KeysApart
  <2> QED BY <1>3, <2>3, <2>4, <2>5, <2>6, <2>7
<1>7. CASE MethodCall(a)
  <2>1. SameFunction(a, b) <=>
          MethodCall(b) /\ a.class_name = b.class_name /\ a.function_name = b.function_name
    BY <1>7, SameByShape DEF low
  <2>2. key(a) = Method(text(a.class_name), text(a.function_name))
    BY <1>2, <1>7
  <2>3. CASE NamedInternal(b)
    BY <1>1, <1>2, <1>4, <2>1, <2>2, <2>3, VariantsApart, KeysApart
  <2>4. CASE UnnamedInternal(b)
    BY <1>1, <1>2, <1>4, <2>1, <2>2, <2>4, VariantsApart, KeysApart
  <2>5. CASE MethodCall(b)
    BY <1>1, <1>2, <1>4, <2>1, <2>2, <2>5, VariantsApart, KeysApart
  <2>6. CASE ClosureCall(b)
    BY <1>1, <1>2, <1>4, <2>1, <2>2, <2>6, VariantsApart, KeysApart
  <2>7. CASE PlainCall(b)
    BY <1>1, <1>2, <1>4, <2>1, <2>2, <2>7, VariantsApart, KeysApart
  <2> QED BY <1>3, <2>3, <2>4, <2>5, <2>6, <2>7
<1>8. CASE ClosureCall(a)
  <2>1. SameFunction(a, b) <=>
          ClosureCall(b) /\ a.filename = b.filename /\ a.lineno = b.lineno
    BY <1>8, SameByShape DEF low
  <2>2. key(a) = Closure(text(a.filename), a.lineno)
    BY <1>2, <1>8
  <2>3. CASE NamedInternal(b)
    BY <1>1, <1>2, <1>4, <2>1, <2>2, <2>3, VariantsApart, KeysApart
  <2>4. CASE UnnamedInternal(b)
    BY <1>1, <1>2, <1>4, <2>1, <2>2, <2>4, VariantsApart, KeysApart
  <2>5. CASE MethodCall(b)
    BY <1>1, <1>2, <1>4, <2>1, <2>2, <2>5, VariantsApart, KeysApart
  <2>6. CASE ClosureCall(b)
    BY <1>1, <1>2, <1>4, <2>1, <2>2, <2>6, VariantsApart, KeysApart
  <2>7. CASE PlainCall(b)
    BY <1>1, <1>2, <1>4, <2>1, <2>2, <2>7, VariantsApart, KeysApart
  <2> QED BY <1>3, <2>3, <2>4, <2>5, <2>6, <2>7
<1>9. CASE PlainCall(a)
  <2>1. SameFunction(a, b) <=>
          \/ PlainCall(b) /\ a.filename = b.filename /\ a.lineno = b.lineno
             /\ a.function_name = b.function_name
          \/ UnnamedInternal(b) /\ a.function_name = None /\ a.filename = None
             /\ low(b) = a.lineno
    BY <1>9, SameByShape DEF low
  <2>2. key(a) = Function(text(a.filename), text(a.function_name), a.lineno)
    BY <1>2, <1>9
  <2>3. CASE NamedInternal(b)
    BY <1>1, <1>2, <1>4, <2>1, <2>2, <2>3, VariantsApart, KeysApart
  <2>4. CASE UnnamedInternal(b)
    BY <1>1, <1>2, <1>4, <2>1, <2>2, <2>4, VariantsApart, KeysApart
  <2>5. CASE MethodCall(b)
    BY <1>1, <1>2, <1>4, <2>1, <2>2, <2>5, VariantsApart, KeysApart
  <2>6. CASE ClosureCall(b)
    BY <1>1, <1>2, <1>4, <2>1, <2>2, <2>6, VariantsApart, KeysApart
  <2>7. CASE PlainCall(b)
    BY <1>1, <1>2, <1>4, <2>1, <2>2, <2>7, VariantsApart, KeysApart
  <2> QED BY <1>3, <2>3, <2>4, <2>5, <2>6, <2>7
<1> QED BY <1>3, <1>5, <1>6, <1>7, <1>8, <1>9

-----------------------------------------------------------------------------
(* The dictionary.                                                         *)

\* What reading execute_data gives is typed, whatever Zend hands over.
LEMMA SiteTyped == ASSUME NEW site PROVE extract_call_site(site).is_internal \in BOOLEAN
<1>1. CASE site.func = "null"
  BY <1>1 DEF extract_call_site, EmptyCallSite
<1>2. CASE site.func # "null"
  BY <1>2 DEF extract_call_site
<1> QED BY <1>1, <1>2

\* A key is of one of the four variants.
LEMMA KeyVariants ==
    ASSUME NEW site
    PROVE  \/ \E a, b, c : Lazy(site).key_ref = Function(a, b, c)
           \/ \E a, b : Lazy(site).key_ref = Method(a, b)
           \/ \E a, b : Lazy(site).key_ref = Closure(a, b)
           \/ \E a : Lazy(site).key_ref = Internal(a)
<1> DEFINE a == extract_call_site(site)
<1>1. a.is_internal \in BOOLEAN
  BY SiteTyped
<1>2. Lazy(site) = categorise_lazy(a)
  BY DEF Lazy
<1> DEFINE key == categorise_lazy(a).key_ref
<1>3. \/ \E x : key = Internal(x)
      \/ \E x, y, z : key = Function(x, y, z)
      \/ \E x, y : key = Method(x, y)
      \/ \E x, y : key = Closure(x, y)
  <2> HIDE DEF a
  <2>1. CASE NamedInternal(a)
    BY <1>1, <2>1, KeyOfShape
  <2>2. CASE UnnamedInternal(a)
    BY <1>1, <2>2, KeyOfShape
  <2>3. CASE MethodCall(a)
    BY <1>1, <2>3, KeyOfShape
  <2>4. CASE ClosureCall(a)
    BY <1>1, <2>4, KeyOfShape
  <2>5. CASE PlainCall(a)
    BY <1>1, <2>5, KeyOfShape
  <2> QED BY <1>1, <2>1, <2>2, <2>3, <2>4, <2>5, KeyOfShape
<1> QED BY <1>2, <1>3

\* A stored key is found by an equal borrowed key and by no other, whatever
\* the hash: matches_ref is equality, and equal keys write the same bytes.
LEMMA FoundIfEqual ==
    ASSUME NEW s, NEW t
    PROVE  /\ matches_ref(Lazy(s).key_ref, Lazy(t).key_ref)
                 <=> Lazy(s).key_ref = Lazy(t).key_ref
           /\ Lazy(s).key_ref = Lazy(t).key_ref =>
                 FxHash(WritesOfKey(Lazy(s).key_ref)) = FxHash(WritesOfRef(Lazy(t).key_ref))
<1> DEFINE key == Lazy(s).key_ref
           ref == Lazy(t).key_ref
<1>1. /\ \/ \E a, b, c : key = Function(a, b, c)
         \/ \E a, b : key = Method(a, b)
         \/ \E a, b : key = Closure(a, b)
         \/ \E a : key = Internal(a)
      /\ \/ \E a, b, c : ref = Function(a, b, c)
         \/ \E a, b : ref = Method(a, b)
         \/ \E a, b : ref = Closure(a, b)
         \/ \E a : ref = Internal(a)
  BY KeyVariants
<1> HIDE DEF key, ref
<1>2. /\ \A a, b, c : /\ Function(a, b, c).variant = "Function"
                      /\ Function(a, b, c).file = a /\ Function(a, b, c).function = b
                      /\ Function(a, b, c).line = c
      /\ \A a, b : /\ Method(a, b).variant = "Method"
                   /\ Method(a, b).class = a /\ Method(a, b).method = b
      /\ \A a, b : /\ Closure(a, b).variant = "Closure"
                   /\ Closure(a, b).file = a /\ Closure(a, b).line = b
      /\ \A a : Internal(a).variant = "Internal" /\ Internal(a).name = a
  BY DEF Function, Method, Closure, Internal
<1>3. matches_ref(key, ref) <=> key = ref
  <2>1. CASE \E a, b, c : key = Function(a, b, c)
    BY <1>1, <1>2, <2>1 DEF matches_ref
  <2>2. CASE \E a, b : key = Method(a, b)
    BY <1>1, <1>2, <2>2 DEF matches_ref
  <2>3. CASE \E a, b : key = Closure(a, b)
    BY <1>1, <1>2, <2>3 DEF matches_ref
  <2>4. CASE \E a : key = Internal(a)
    BY <1>1, <1>2, <2>4 DEF matches_ref
  <2> QED BY <1>1, <2>1, <2>2, <2>3, <2>4
<1>4. WritesOfKey(ref) = WritesOfRef(ref)
  BY Zenon DEF WritesOfKey, WritesOfRef
<1> QED BY <1>3, <1>4 DEF key, ref

\* A sequence, whatever its elements are.
IsSequence(s) == \E S : s \in Seq(S)

LEMMA AppendToSequence ==
    ASSUME NEW s, NEW e, IsSequence(s)
    PROVE  /\ IsSequence(Append(s, e))
           /\ Len(s) \in Nat /\ Len(Append(s, e)) = Len(s) + 1
           /\ DOMAIN s = 1..Len(s) /\ DOMAIN Append(s, e) = 1..(Len(s) + 1)
           /\ \A i \in 1..Len(s) : Append(s, e)[i] = s[i]
           /\ Append(s, e)[Len(s) + 1] = e
<1>1. PICK S : s \in Seq(S)
  BY DEF IsSequence
<1> DEFINE T == S \cup {e}
<1>2. s \in Seq(T)
  BY <1>1, SeqMonotonic
<1>3. e \in T
  OBVIOUS
<1> HIDE DEF T
<1>4. /\ Append(s, e) \in Seq(T) /\ Len(Append(s, e)) = Len(s) + 1
      /\ \A i \in 1..Len(s) : Append(s, e)[i] = s[i]
      /\ Append(s, e)[Len(s) + 1] = e
  BY <1>2, <1>3, AppendProperties
<1>5. Len(s) \in Nat /\ DOMAIN s = 1..Len(s)
  BY <1>2, LenProperties
<1>6. DOMAIN Append(s, e) = 1..(Len(s) + 1)
  BY <1>4, LenProperties
<1> QED BY <1>4, <1>5, <1>6 DEF IsSequence

\* What interning keeps of a dictionary: an fn_id per key and a key per fn_id,
\* each announced as its first call was.
SlotAnnounced(dictionary, slot) ==
    /\ slot.fn_id \in 1..Len(dictionary.new_entries)
    /\ \E site \in CallSites :
          /\ slot.key = Lazy(site).key_ref
          /\ dictionary.new_entries[slot.fn_id] = DictEntry(slot.fn_id, Lazy(site))

DictionaryInv(dictionary) ==
    /\ IsSequence(dictionary.new_entries)
    /\ dictionary.next_fn_id = Len(dictionary.new_entries) + 1
    /\ \A slot \in dictionary.intern : SlotAnnounced(dictionary, slot)
    /\ \A slot, other \in dictionary.intern :
          slot.fn_id = other.fn_id \/ slot.key = other.key => slot = other

KnownAs(dictionary, site, fn_id) ==
    \E slot \in dictionary.intern : slot.key = Lazy(site).key_ref /\ slot.fn_id = fn_id

\* The probe of a good dictionary is a look-up.
LEMMA ProbeIsLookup ==
    ASSUME NEW dictionary, DictionaryInv(dictionary), NEW site
    PROVE  Probe(dictionary, Lazy(site).key_ref)
             = {slot \in dictionary.intern : slot.key = Lazy(site).key_ref}
<1>1. ASSUME NEW slot \in dictionary.intern
      PROVE  slot.key = Lazy(site).key_ref
               <=> /\ FxHash(WritesOfKey(slot.key)) = FxHash(WritesOfRef(Lazy(site).key_ref))
                   /\ matches_ref(slot.key, Lazy(site).key_ref)
  <2>1. PICK first \in CallSites : slot.key = Lazy(first).key_ref
    BY DEF DictionaryInv, SlotAnnounced
  <2> QED BY <2>1, FoundIfEqual, Zenon
<1> QED BY <1>1, Zenon DEF Probe

\* A begin finds its function or adds it, and disturbs nothing else.
LEMMA PushKeepsDictionary ==
    ASSUME NEW dictionary, DictionaryInv(dictionary), NEW site \in CallSites,
           NEW pushed, pushed = push_dict_entry_via_intern_ref(dictionary, Lazy(site))
    PROVE  /\ DictionaryInv(pushed.dictionary)
           /\ dictionary.intern \subseteq pushed.dictionary.intern
           /\ KnownAs(pushed.dictionary, site, pushed.fn_id)
<1> DEFINE lazy == Lazy(site)
           found == Probe(dictionary, lazy.key_ref)
<1>1. found = {slot \in dictionary.intern : slot.key = lazy.key_ref}
  BY ProbeIsLookup
<1>2. CASE found # {}
  <2>1. pushed.dictionary = dictionary /\ pushed.fn_id = FnIdOf(found)
    BY <1>2 DEF push_dict_entry_via_intern_ref, intern_ref, contains_key_ref
  <2>2. (CHOOSE slot \in found : TRUE) \in found
    BY <1>2
  <2> QED BY <1>1, <2>1, <2>2 DEF KnownAs, FnIdOf
<1>3. CASE found = {}
  <2> DEFINE entry == DictEntry(dictionary.next_fn_id, lazy)
             slot0 == [key |-> lazy.key_ref, fn_id |-> entry.fn_id]
  <2>1. entry.fn_id = dictionary.next_fn_id
    BY DEF DictEntry
  <2>2. /\ pushed.dictionary = [intern |-> dictionary.intern \cup {slot0},
                                new_entries |-> Append(dictionary.new_entries, entry),
                                next_fn_id |-> dictionary.next_fn_id + 1]
        /\ pushed.fn_id = entry.fn_id
    BY <1>3 DEF push_dict_entry_via_intern_ref, intern_ref, contains_key_ref, Insert
  <2> HIDE DEF lazy, entry
  <2> DEFINE old == dictionary.new_entries
             new == pushed.dictionary
             n   == Len(old)
  <2>3. /\ IsSequence(Append(old, entry)) /\ n \in Nat
        /\ Len(Append(old, entry)) = n + 1
        /\ \A i \in 1..n : Append(old, entry)[i] = old[i]
        /\ Append(old, entry)[n + 1] = entry
    BY AppendToSequence DEF DictionaryInv
  <2>4. /\ new.intern = dictionary.intern \cup {slot0}
        /\ new.new_entries = Append(old, entry)
        /\ new.next_fn_id = n + 2
    BY <2>2, <2>3 DEF DictionaryInv
  <2>5. slot0.key = lazy.key_ref /\ slot0.fn_id = n + 1
    BY <2>1 DEF DictionaryInv
  <2>6. entry = DictEntry(n + 1, Lazy(site))
    BY DEF DictionaryInv, entry, lazy
  <2> HIDE DEF old, new, n, slot0
  <2>7. \A slot \in dictionary.intern : SlotAnnounced(dictionary, slot)
    BY DEF DictionaryInv
  <2>8. ASSUME NEW slot \in new.intern PROVE SlotAnnounced(new, slot)
    <3>1. CASE slot = slot0
      BY <2>3, <2>4, <2>5, <2>6, <3>1 DEF SlotAnnounced, lazy
    <3>2. CASE slot \in dictionary.intern
      <4>1. slot.fn_id \in 1..n
        BY <2>7, <3>2 DEF SlotAnnounced, n, old
      <4>2. new.new_entries[slot.fn_id] = old[slot.fn_id] /\ slot.fn_id \in 1..Len(new.new_entries)
        BY <2>3, <2>4, <4>1
      <4> QED BY <2>7, <3>2, <4>2 DEF SlotAnnounced, old
    <3> QED BY <2>4, <3>1, <3>2
  <2>9. \A slot, other \in dictionary.intern :
           slot.fn_id = other.fn_id \/ slot.key = other.key => slot = other
    BY DEF DictionaryInv
  <2>10. ASSUME NEW slot \in dictionary.intern
         PROVE  slot.fn_id # slot0.fn_id /\ slot.key # slot0.key
    <3>1. slot.fn_id \in 1..n
      BY <2>7 DEF SlotAnnounced, n, old
    <3>2. slot.key # lazy.key_ref
      BY <1>1, <1>3
    <3> QED BY <2>3, <2>5, <3>1, <3>2
  <2>11. \A slot, other \in new.intern :
           slot.fn_id = other.fn_id \/ slot.key = other.key => slot = other
    BY <2>4, <2>9, <2>10
  <2>12. DictionaryInv(new)
    BY <2>3, <2>4, <2>8, <2>11 DEF DictionaryInv
  <2>13. slot0 \in new.intern /\ slot0.fn_id = pushed.fn_id
    BY <2>1, <2>2, <2>4 DEF slot0
  <2>14. KnownAs(new, site, pushed.fn_id)
    BY <2>5, <2>13 DEF KnownAs, lazy
  <2>15. dictionary.intern \subseteq new.intern
    BY <2>4
  <2> QED BY <2>12, <2>14, <2>15 DEF new
<1> QED BY <1>2, <1>3

-----------------------------------------------------------------------------
(* The trace.  What a begin needs of the ones before it is that each is    *)
(* known to the dictionary under the fn_id it was given.                   *)

GoodTrace ==
    /\ trace = [identity |-> trace.identity, limits |-> trace.limits,
                dictionary |-> trace.dictionary]
    /\ trace.identity.host # None /\ trace.identity.uri_or_script # None
    /\ DictionaryInv(trace.dictionary)

TraceInv ==
    /\ trace # None => php_pc = "request" /\ Enabled(CONFIG)
    /\ trace # None \/ calls # <<>> => GoodTrace
    /\ IsSequence(calls)
    /\ \A i \in DOMAIN calls :
          /\ calls[i].site \in CallSites
          /\ KnownAs(trace.dictionary, calls[i].site, calls[i].fn_id)

LEMMA EmptyIsSequence == IsSequence(<<>>) /\ Len(<<>>) = 0 /\ DOMAIN <<>> = {}
BY EmptySeq DEF IsSequence

LEMMA InitTraceInv == Init => TraceInv
BY EmptyIsSequence DEF Init, TraceInv

\* A request starts with an empty dictionary and an identity.
LEMMA RInitTrace == ASSUME TraceInv, RInit PROVE TraceInv'
<1>1. calls' = <<>> /\ php_pc' = "request" /\ CONFIG' = CONFIG
  BY DEF RInit, config_vars
<1>2. IsSequence(calls') /\ DOMAIN calls' = {}
  BY <1>1, EmptyIsSequence
<1>3. PICK sapi \in SapiStates :
        trace' = IF Allocates(CONFIG)
                 THEN [identity |-> build_request_identity(sapi), limits |-> TraceLimits(CONFIG),
                       dictionary |-> NewDictionary]
                 ELSE None
  BY DEF RInit
<1>4. ASSUME trace' # None PROVE Enabled(CONFIG') /\ GoodTrace'
  <2>1. /\ trace' = [identity |-> build_request_identity(sapi), limits |-> TraceLimits(CONFIG),
                     dictionary |-> NewDictionary]
        /\ Enabled(CONFIG)
    BY <1>3, <1>4 DEF Allocates
  <2>2. DictionaryInv(NewDictionary)
    BY EmptyIsSequence DEF DictionaryInv, NewDictionary
  <2>3. /\ build_request_identity(sapi).host # None
        /\ build_request_identity(sapi).uri_or_script # None
    BY NoneAssumption DEF NoneAssumption, build_request_identity, resolve_uri_or_script, UnwrapOr
  <2>4. Enabled(CONFIG')
    BY <1>1, <2>1
  <2> QED BY <2>1, <2>2, <2>3, <2>4 DEF GoodTrace
<1> QED BY <1>1, <1>2, <1>4 DEF TraceInv

\* A call adds itself to the calls, and at most its function to the
\* dictionary.
LEMMA CallTrace == ASSUME TraceInv, NEW execute_data \in CallSites, Call(execute_data) PROVE TraceInv'
<1> DEFINE pushed == push_dict_entry_via_intern_ref(trace.dictionary, Lazy(execute_data))
           call0  == calls'[Len(calls) + 1]
<1>1. /\ php_pc' = php_pc /\ CONFIG' = CONFIG /\ trace # None
      /\ trace' = [trace EXCEPT !.dictionary = pushed.dictionary]
      /\ php_pc = "request" /\ Enabled(CONFIG)
  BY DEF Call, config_vars, Lazy, TraceInv
<1>2. calls' = Append(calls, [site |-> execute_data, fn_id |-> pushed.fn_id,
                              projected |-> WouldAdd(trace.dictionary, Lazy(execute_data)),
                              billed |-> pushed.billed + CALL_RECORD_FIXED_BYTES])
  BY DEF Call, Lazy
<1>3. GoodTrace /\ IsSequence(calls)
  BY <1>1 DEF TraceInv
<1>4. /\ DictionaryInv(pushed.dictionary)
      /\ trace.dictionary.intern \subseteq pushed.dictionary.intern
      /\ KnownAs(pushed.dictionary, execute_data, pushed.fn_id)
  BY <1>3, PushKeepsDictionary DEF GoodTrace
<1>5. /\ IsSequence(calls') /\ Len(calls) \in Nat /\ DOMAIN calls = 1..Len(calls)
      /\ DOMAIN calls' = 1..(Len(calls) + 1)
      /\ \A i \in 1..Len(calls) : calls'[i] = calls[i]
      /\ call0.site = execute_data /\ call0.fn_id = pushed.fn_id
  BY <1>2, <1>3, AppendToSequence
<1> HIDE DEF pushed, call0
<1>6. /\ trace'.dictionary = pushed.dictionary
      /\ trace'.identity = trace.identity /\ trace'.limits = trace.limits
      /\ trace' = [identity |-> trace.identity, limits |-> trace.limits,
                   dictionary |-> pushed.dictionary]
  BY <1>1, <1>3 DEF GoodTrace
<1>7. GoodTrace'
  BY <1>3, <1>4, <1>6 DEF GoodTrace
<1>8. ASSUME NEW i \in DOMAIN calls'
      PROVE  /\ calls'[i].site \in CallSites
             /\ KnownAs(trace'.dictionary, calls'[i].site, calls'[i].fn_id)
  <2>1. CASE i = Len(calls) + 1
    BY <1>4, <1>5, <1>6, <2>1 DEF call0
  <2>2. CASE i \in 1..Len(calls)
    <3>1. /\ calls[i].site \in CallSites
          /\ KnownAs(trace.dictionary, calls[i].site, calls[i].fn_id)
      BY <1>5, <2>2 DEF TraceInv
    <3> QED BY <1>4, <1>5, <1>6, <2>2, <3>1 DEF KnownAs
  <2> QED BY <1>5, <2>1, <2>2
<1> QED BY <1>1, <1>5, <1>7, <1>8 DEF TraceInv

LEMMA NextTraceInv == TraceInv /\ [Next]_vars => TraceInv'
<1> SUFFICES ASSUME TraceInv, [Next]_vars PROVE TraceInv'
  OBVIOUS
<1> USE DEF config_vars, request_vars, GoodTrace, TraceInv
<1>1. CASE Startup
  BY <1>1 DEF Startup
<1>2. CASE StartupPanics
  <2>1. UNCHANGED request_vars /\ php_pc = "stopped"
    BY <1>2 DEF StartupPanics
  <2> QED BY <2>1
<1>3. CASE Reload
  <2>1. UNCHANGED request_vars /\ php_pc = "up"
    BY <1>3 DEF Reload
  <2> QED BY <2>1
<1>4. CASE MShutdown
  <2>1. UNCHANGED request_vars /\ php_pc = "up"
    BY <1>4 DEF MShutdown
  <2> QED BY <2>1
<1>5. CASE RInit
  BY <1>5, RInitTrace
<1>6. CASE RShutdown
  BY <1>6, EmptyIsSequence DEF RShutdown
<1>7. ASSUME NEW execute_data \in CallSites, Call(execute_data) PROVE TraceInv'
  BY <1>7, CallTrace
<1>8. CASE UNCHANGED vars
  BY <1>8 DEF vars
<1> QED BY <1>1, <1>2, <1>3, <1>4, <1>5, <1>6, <1>7, <1>8 DEF Next

LEMMA AlwaysTraceInv == Spec => []TraceInv
BY InitTraceInv, NextTraceInv, PTL DEF Spec

\* The slot of a recorded call, which no other key or fn_id leads to.
LEMMA SlotOfCall ==
    ASSUME TraceInv, NEW i \in DOMAIN calls
    PROVE  /\ DictionaryInv(trace.dictionary)
           /\ \E slot \in trace.dictionary.intern :
                 slot.key = Lazy(calls[i].site).key_ref /\ slot.fn_id = calls[i].fn_id
<1>1. calls # <<>>
  BY EmptyIsSequence
<1> QED BY <1>1 DEF TraceInv, GoodTrace, KnownAs

\* Two calls of a request share an fn_id exactly if they get one key.
LEMMA OneIdOneKey ==
    ASSUME TraceInv, NEW i \in DOMAIN calls, NEW j \in DOMAIN calls
    PROVE  calls[i].fn_id = calls[j].fn_id
             <=> SameFunction(extract_call_site(calls[i].site), extract_call_site(calls[j].site))
<1>1. PICK slot \in trace.dictionary.intern :
        slot.key = Lazy(calls[i].site).key_ref /\ slot.fn_id = calls[i].fn_id
  BY SlotOfCall
<1>2. PICK other \in trace.dictionary.intern :
        other.key = Lazy(calls[j].site).key_ref /\ other.fn_id = calls[j].fn_id
  BY SlotOfCall
<1>3. slot.fn_id = other.fn_id <=> slot.key = other.key
  BY SlotOfCall DEF DictionaryInv
<1>4. slot.key = other.key <=> SameFunction(extract_call_site(calls[i].site),
                                            extract_call_site(calls[j].site))
  BY <1>1, <1>2, SiteTyped, KeysExact DEF Lazy
<1> QED BY <1>1, <1>2, <1>3, <1>4

\* What is read of a call site that has a documented key, and its shape.
LEMMA DocumentedShape ==
    ASSUME NEW site, HasDocumentedKey(site)
    PROVE  LET info == extract_call_site(site) IN
           /\ info.function_name = site.function_name /\ info.class_name = site.scope
           /\ info.is_internal <=> site.func = "internal"
           /\ ~info.is_internal => info.filename = site.filename /\ info.lineno = site.line_start
           /\ info.is_internal => NamedInternal(info)
           /\ ~info.is_internal =>
                 /\ ClosureSite(site) => ClosureCall(info)
                 /\ ~ClosureSite(site) /\ site.scope # None => MethodCall(info)
                 /\ ~ClosureSite(site) /\ site.scope = None => PlainCall(info)
<1> DEFINE info == extract_call_site(site)
<1>1. \A zs \in {site.function_name, site.scope, site.filename} : zend_string_to_cow(zs) = zs
  BY DEF HasDocumentedKey, zend_string_to_cow
<1>2. /\ info.function_name = site.function_name /\ info.class_name = site.scope
      /\ info.is_internal <=> site.func = "internal"
      /\ ~info.is_internal => info.filename = site.filename /\ info.lineno = site.line_start
  BY <1>1 DEF extract_call_site, HasDocumentedKey
<1> HIDE DEF info
<1>3. CASE site.func = "internal"
  BY <1>2, <1>3 DEF HasDocumentedKey, NamedInternal, info
<1>4. CASE site.func # "internal" /\ ClosureSite(site)
  <2>1. IsClosure(info) /\ site.scope = None
    BY <1>2, <1>4 DEF HasDocumentedKey, ClosureSite, IsClosure
  <2> QED BY <1>2, <1>4, <2>1 DEF ClosureCall, info
<1>5. CASE site.func # "internal" /\ ~ClosureSite(site)
  <2>1. ~IsClosure(info)
    BY <1>2, <1>5 DEF ClosureSite, IsClosure
  <2> QED BY <1>2, <1>5, <2>1 DEF MethodCall, PlainCall, info
<1> QED BY <1>3, <1>4, <1>5

\* For such call sites one key is one documented key.
LEMMA DocumentedIsSame ==
    ASSUME NEW a, NEW b, HasDocumentedKey(a), HasDocumentedKey(b)
    PROVE  SameFunction(extract_call_site(a), extract_call_site(b))
             <=> DocumentedKey(a) = DocumentedKey(b)
<1> DEFINE x == extract_call_site(a)
           y == extract_call_site(b)
<1>1. /\ x.is_internal \in BOOLEAN /\ y.is_internal \in BOOLEAN
      /\ x.function_name = a.function_name /\ x.class_name = a.scope
      /\ y.function_name = b.function_name /\ y.class_name = b.scope
      /\ x.is_internal <=> a.func = "internal"
      /\ y.is_internal <=> b.func = "internal"
      /\ ~x.is_internal => x.filename = a.filename /\ x.lineno = a.line_start
      /\ ~y.is_internal => y.filename = b.filename /\ y.lineno = b.line_start
  BY SiteTyped, DocumentedShape
<1>2. /\ x.is_internal => NamedInternal(x)
      /\ ~x.is_internal =>
            /\ ClosureSite(a) => ClosureCall(x)
            /\ ~ClosureSite(a) /\ a.scope # None => MethodCall(x)
            /\ ~ClosureSite(a) /\ a.scope = None => PlainCall(x)
      /\ y.is_internal => NamedInternal(y)
      /\ ~y.is_internal =>
            /\ ClosureSite(b) => ClosureCall(y)
            /\ ~ClosureSite(b) /\ b.scope # None => MethodCall(y)
            /\ ~ClosureSite(b) /\ b.scope = None => PlainCall(y)
  BY DocumentedShape
<1>3. \A site :
        /\ site.func = "internal" => DocumentedKey(site) = <<"internal", site.function_name>>
        /\ site.func # "internal" /\ ClosureSite(site) =>
              DocumentedKey(site) = <<"closure", site.filename, site.line_start>>
        /\ site.func # "internal" /\ ~ClosureSite(site) /\ site.scope # None =>
              DocumentedKey(site) = <<"method", site.scope, site.function_name>>
        /\ site.func # "internal" /\ ~ClosureSite(site) /\ site.scope = None =>
              DocumentedKey(site)
                  = <<"function", site.filename, site.function_name, site.line_start>>
  BY DEF DocumentedKey, ClosureSite
<1> HIDE DEF x, y
<1>4. CASE a.func = "internal"
  <2>1. SameFunction(x, y) <=> NamedInternal(y) /\ x.function_name = y.function_name
    BY <1>1, <1>2, <1>4, SameByShape
  <2> QED BY <1>1, <1>2, <1>3, <1>4, <2>1 DEF NamedInternal, x, y
<1>5. CASE a.func # "internal" /\ ClosureSite(a)
  <2>1. SameFunction(x, y) <=>
          ClosureCall(y) /\ x.filename = y.filename /\ x.lineno = y.lineno
    BY <1>1, <1>2, <1>5, SameByShape
  <2>2. ClosureCall(y) <=> b.func # "internal" /\ ClosureSite(b)
    BY <1>1, <1>2 DEF ClosureCall, MethodCall, PlainCall
  <2> QED BY <1>1, <1>3, <1>5, <2>1, <2>2 DEF x, y
<1>6. CASE a.func # "internal" /\ ~ClosureSite(a) /\ a.scope # None
  <2>1. SameFunction(x, y) <=>
          MethodCall(y) /\ x.class_name = y.class_name /\ x.function_name = y.function_name
    BY <1>1, <1>2, <1>6, SameByShape
  <2>2. MethodCall(y) <=> b.func # "internal" /\ ~ClosureSite(b) /\ b.scope # None
    BY <1>1, <1>2 DEF ClosureCall, MethodCall, PlainCall
  <2> QED BY <1>1, <1>3, <1>6, <2>1, <2>2 DEF x, y
<1>7. CASE a.func # "internal" /\ ~ClosureSite(a) /\ a.scope = None
  <2>1. a.function_name # None
    BY <1>7 DEF ClosureSite
  <2>2. SameFunction(x, y) <=>
          /\ PlainCall(y) /\ x.filename = y.filename /\ x.lineno = y.lineno
          /\ x.function_name = y.function_name
    BY <1>1, <1>2, <1>7, <2>1, SameByShape DEF PlainCall
  <2>3. PlainCall(y) <=> b.func # "internal" /\ ~ClosureSite(b) /\ b.scope = None
    BY <1>1, <1>2 DEF ClosureCall, MethodCall, PlainCall
  <2> QED BY <1>1, <1>3, <1>7, <2>2, <2>3 DEF x, y
<1> QED BY <1>4, <1>5, <1>6, <1>7

\* Two calls of a request share an fn_id exactly if SPECIFICATION.md gives them
\* one identity, whatever functions there are and however their hashes collide.
THEOREM IdentityCorrect == Spec => []IdentityExact
<1>1. TraceInv => IdentityExact
  BY OneIdOneKey, DocumentedIsSame DEF IdentityExact
<1> QED BY <1>1, AlwaysTraceInv, PTL

\* The lazily rendered name of a call is the one categorise gives to any named
\* call of the same key, and so is the kind; the owning key is the same.
LEMMA RenderedByKey ==
    ASSUME NEW a, NEW b, a.is_internal \in BOOLEAN, b.is_internal \in BOOLEAN,
           b.function_name # None,
           categorise_lazy(a).key_ref = categorise_lazy(b).key_ref
    PROVE  /\ categorise(b).key = categorise_lazy(b).key_ref
           /\ render(categorise_lazy(a).fqn_spec) = categorise(b).fqn
           /\ categorise_lazy(a).kind = categorise(b).kind
<1> DEFINE fn == TextOf(b.function_name, <<>>)
<1>1. SameFunction(b, a)
  BY KeysExact
<1>2. ASSUME NEW other PROVE TextOf(b.function_name, other) = fn
  BY DEF TextOf
<1>3. NamedInternal(b) \/ MethodCall(b) \/ ClosureCall(b) \/ PlainCall(b)
  BY KeyOfShape DEF NamedInternal, UnnamedInternal
<1>4. CASE NamedInternal(b)
  <2>1. NamedInternal(a) /\ a.function_name = b.function_name
    BY <1>1, <1>4, SameByShape
  <2>2. categorise_lazy(a) = LazyCategorised(Internal(fn), "Internal", Borrowed(fn), <<>>, 0)
    BY <2>1, Zenon DEF categorise_lazy, NamedInternal
  <2>3. categorise_lazy(b).key_ref = Internal(fn)
    BY <1>4, KeyOfShape
  <2>4. categorise(b) = Categorised(Internal(fn), "Internal", fn, <<>>, 0)
    BY <1>2, <1>4, Zenon DEF categorise, NamedInternal
  <2> HIDE DEF fn
  <2>5. render(Borrowed(fn)) = fn
    BY DEF render, Borrowed
  <2> QED BY <2>2, <2>3, <2>4, <2>5 DEF LazyCategorised, Categorised
<1>5. CASE MethodCall(b)
  <2>1. MethodCall(a) /\ a.class_name = b.class_name /\ a.function_name = b.function_name
    BY <1>1, <1>5, SameByShape
  <2>2. categorise_lazy(a)
          = LazyCategorised(Method(<<b.class_name>>, fn), "Method",
                            MethodSpec(<<b.class_name>>, fn), TextOf(a.filename, <<>>), a.lineno)
    BY <2>1, Zenon DEF categorise_lazy, MethodCall
  <2>3. categorise_lazy(b).key_ref = Method(<<b.class_name>>, fn)
    BY <1>5, Zenon DEF categorise_lazy, LazyCategorised, MethodCall
  <2>4. categorise(b) = Categorised(Method(<<b.class_name>>, fn), "Method",
                                    <<b.class_name, "::">> \o fn, TextOf(b.filename, <<>>), b.lineno)
    BY <1>2, <1>5, Zenon DEF categorise, MethodCall
  <2>5. fn = <<b.function_name>>
    BY DEF TextOf
  <2> HIDE DEF fn
  <2>6. render(MethodSpec(<<b.class_name>>, fn)) = <<b.class_name>> \o <<"::">> \o fn
    BY DEF render, MethodSpec
  <2>7. <<b.class_name>> \o <<"::">> \o fn = <<b.class_name, "::">> \o fn
    BY <2>5
  <2> QED BY <2>2, <2>3, <2>4, <2>6, <2>7 DEF LazyCategorised, Categorised
<1>6. CASE ClosureCall(b)
  <2>1. ClosureCall(a) /\ a.filename = b.filename /\ a.lineno = b.lineno
    BY <1>1, <1>6, SameByShape
  <2> DEFINE file == TextOf(b.filename, <<>>)
  <2>2. categorise_lazy(a) = LazyCategorised(Closure(file, b.lineno), "Closure",
                                             ClosureSpec(file, b.lineno), file, b.lineno)
    BY <2>1, Zenon DEF categorise_lazy, ClosureCall
  <2>3. categorise_lazy(b).key_ref = Closure(file, b.lineno)
    BY <1>6, KeyOfShape
  <2>4. categorise(b) = Categorised(Closure(file, b.lineno), "Closure",
                                    ClosureFqn(file, b.lineno), file, b.lineno)
    BY <1>6, Zenon DEF categorise, ClosureCall
  <2> HIDE DEF file
  <2>5. render(ClosureSpec(file, b.lineno)) = ClosureFqn(file, b.lineno)
    BY DEF render, ClosureSpec
  <2> QED BY <2>2, <2>3, <2>4, <2>5 DEF LazyCategorised, Categorised
<1>7. CASE PlainCall(b)
  <2>1. PlainCall(a) /\ a.filename = b.filename /\ a.lineno = b.lineno
        /\ a.function_name = b.function_name
    BY <1>1, <1>7, SameByShape
  <2> DEFINE file == TextOf(b.filename, <<>>)
  <2>2. categorise_lazy(a) = LazyCategorised(Function(file, fn, b.lineno), "Function",
                                             Borrowed(fn), file, b.lineno)
    BY <2>1, Zenon DEF categorise_lazy, PlainCall
  <2>3. categorise_lazy(b).key_ref = Function(file, fn, b.lineno)
    BY <1>7, KeyOfShape
  <2>4. categorise(b) = Categorised(Function(file, fn, b.lineno), "Function", fn, file, b.lineno)
    BY <1>2, <1>7, Zenon DEF categorise, PlainCall
  <2> HIDE DEF file, fn
  <2>5. render(Borrowed(fn)) = fn
    BY DEF render, Borrowed
  <2> QED BY <2>2, <2>3, <2>4, <2>5 DEF LazyCategorised, Categorised
<1> QED BY <1>3, <1>4, <1>5, <1>6, <1>7

\* A named function is announced under the name and of the kind that the
\* allocating categorisation gives it, and found by that one's key.
THEOREM NamedSitesCorrect == Spec => []NamedSitesKeepIdentity
<1>1. TraceInv => NamedSitesKeepIdentity
  <2> SUFFICES ASSUME TraceInv, NEW i \in DOMAIN calls,
                      extract_call_site(calls[i].site).function_name # None
               PROVE  LET info  == extract_call_site(calls[i].site)
                          eager == categorise(info)
                          entry == trace.dictionary.new_entries[calls[i].fn_id]
                      IN /\ intern(trace.dictionary, eager.key,
                                   [fn_id |-> trace.dictionary.next_fn_id]).fn_id = calls[i].fn_id
                         /\ entry.fqn = eager.fqn /\ entry.kind = eager.kind
    BY Zenon DEF NamedSitesKeepIdentity
  <2> DEFINE info == extract_call_site(calls[i].site)
  <2>1. PICK slot \in trace.dictionary.intern :
          slot.key = Lazy(calls[i].site).key_ref /\ slot.fn_id = calls[i].fn_id
    BY SlotOfCall
  <2>2. PICK first \in CallSites :
          /\ slot.key = Lazy(first).key_ref
          /\ trace.dictionary.new_entries[slot.fn_id] = DictEntry(slot.fn_id, Lazy(first))
    BY SlotOfCall DEF DictionaryInv, SlotAnnounced
  <2>3. /\ categorise(info).key = slot.key
        /\ render(Lazy(first).fqn_spec) = categorise(info).fqn
        /\ Lazy(first).kind = categorise(info).kind
    <3> DEFINE other == extract_call_site(first)
    <3>1. info.is_internal \in BOOLEAN /\ other.is_internal \in BOOLEAN
      BY SiteTyped
    <3>2. /\ Lazy(first) = categorise_lazy(other) /\ Lazy(calls[i].site) = categorise_lazy(info)
          /\ info.function_name # None
      BY DEF Lazy
    <3> HIDE DEF other, info
    <3>3. categorise_lazy(other).key_ref = categorise_lazy(info).key_ref
      BY <2>1, <2>2, <3>2
    <3> QED BY <2>2, <3>1, <3>2, <3>3, RenderedByKey
  <2> DEFINE known == {s \in trace.dictionary.intern : s.key = categorise(info).key}
  <2>4. known = {slot}
    BY <2>3, SlotOfCall DEF DictionaryInv
  <2>5. FnIdOf(known) = slot.fn_id
    BY <2>4 DEF FnIdOf
  <2>6. intern(trace.dictionary, categorise(info).key, [fn_id |-> trace.dictionary.next_fn_id]).fn_id
          = slot.fn_id
    BY <2>4, <2>5 DEF intern
  <2>7. /\ DictEntry(slot.fn_id, Lazy(first)).fqn = render(Lazy(first).fqn_spec)
        /\ DictEntry(slot.fn_id, Lazy(first)).kind = Lazy(first).kind
    BY DEF DictEntry
  <2> QED BY <2>1, <2>2, <2>3, <2>6, <2>7, Zenon
<1> QED BY <1>1, AlwaysTraceInv, PTL

-----------------------------------------------------------------------------
(* Types.                                                                  *)

ProcessInv ==
    /\ php_pc \in {"stopped", "up", "request", "exited"}
    /\ observer \in {None, build_boot_observer(CONFIG)}

LEMMA InitProcessInv == Init => ProcessInv
BY DEF Init, ProcessInv

LEMMA NextProcessInv == ProcessInv /\ [Next]_vars => ProcessInv'
<1> SUFFICES ASSUME ProcessInv, [Next]_vars PROVE ProcessInv'
  OBVIOUS
<1> USE DEF ProcessInv, config_vars, minit_vars
<1>1. CASE Startup
  BY <1>1, Zenon DEF Startup
<1>2. CASE StartupPanics
  BY <1>2, Zenon DEF StartupPanics
<1>3. CASE Reload
  BY <1>3 DEF Reload
<1>4. CASE MShutdown
  BY <1>4 DEF MShutdown
<1>5. CASE RInit
  BY <1>5 DEF RInit
<1>6. CASE RShutdown
  BY <1>6 DEF RShutdown
<1>7. ASSUME NEW execute_data \in CallSites, Call(execute_data) PROVE ProcessInv'
  BY <1>7 DEF Call
<1>8. CASE UNCHANGED vars
  BY <1>8 DEF vars
<1> QED BY <1>1, <1>2, <1>3, <1>4, <1>5, <1>6, <1>7, <1>8 DEF Next

\* A disabled extension does nothing at all; a trace is complete from RINIT on,
\* and every fn_id a record carries was announced.
THEOREM ProcessTypeCorrect == Spec => []TypeOK
<1>1. ProcessInv /\ TraceInv => TypeOK
  <2> SUFFICES ASSUME ProcessInv, TraceInv PROVE TypeOK
    OBVIOUS
  <2>1. trace # None => /\ trace.identity.host # None /\ trace.identity.uri_or_script # None
                        /\ trace.dictionary.next_fn_id = Len(trace.dictionary.new_entries) + 1
    BY DEF TraceInv, GoodTrace, DictionaryInv
  <2>2. ASSUME NEW i \in DOMAIN calls
        PROVE  calls[i].fn_id \in DOMAIN trace.dictionary.new_entries
    <3>1. PICK slot \in trace.dictionary.intern : slot.fn_id = calls[i].fn_id
      BY SlotOfCall
    <3>2. /\ slot.fn_id \in 1..Len(trace.dictionary.new_entries)
          /\ IsSequence(trace.dictionary.new_entries)
      BY SlotOfCall DEF DictionaryInv, SlotAnnounced
    <3> QED BY <3>1, <3>2, AppendToSequence
  <2> QED BY <2>1, <2>2 DEF ProcessInv, TraceInv, TypeOK
<1>2. Spec => []ProcessInv
  BY InitProcessInv, NextProcessInv, PTL DEF Spec
<1> QED BY <1>1, <1>2, AlwaysTraceInv, PTL

-----------------------------------------------------------------------------
(* The filter.  What was observed had passed it, and it is still the one   *)
(* that MINIT stored, in lower case, from the operator's list.             *)

Passed(site) == should_observe_filter(CONFIG.skip_internal, CONFIG.skip_functions, FcallInfo(site))

FilterInv ==
    /\ IsSequence(calls)
    /\ calls # <<>> => php_pc = "request" /\ Enabled(CONFIG)
    /\ \A i \in DOMAIN calls : calls[i].site \in CallSites /\ Passed(calls[i].site)

\* A call that is recorded passed the filter.
LEMMA CallFilter ==
    ASSUME TraceInv, FilterInv, NEW execute_data \in CallSites, Call(execute_data)
    PROVE  FilterInv'
<1>1. /\ php_pc' = php_pc /\ CONFIG' = CONFIG
      /\ php_pc = "request" /\ Enabled(CONFIG)
  BY DEF Call, config_vars, TraceInv
<1>2. PICK call : calls' = Append(calls, call) /\ call.site = execute_data
  BY DEF Call
<1>3. CONFIG # None
  BY <1>1 DEF Enabled
<1>4. Passed(execute_data)
  BY <1>3, Zenon DEF Call, should_observe, Passed
<1>5. /\ IsSequence(calls') /\ DOMAIN calls = 1..Len(calls) /\ DOMAIN calls' = 1..(Len(calls) + 1)
      /\ Len(calls) \in Nat
      /\ \A i \in 1..Len(calls) : calls'[i] = calls[i]
      /\ calls'[Len(calls) + 1] = call
  BY <1>2, AppendToSequence DEF FilterInv
<1>6. \A site : Passed(site)' <=> Passed(site)
  BY <1>1, Zenon DEF Passed
<1>7. ASSUME NEW i \in DOMAIN calls' PROVE calls'[i].site \in CallSites /\ Passed(calls'[i].site)
  <2>1. CASE i = Len(calls) + 1
    BY <1>2, <1>4, <1>5, <2>1
  <2>2. CASE i \in 1..Len(calls)
    BY <1>5, <2>2 DEF FilterInv
  <2> QED BY <1>5, <2>1, <2>2
<1> QED BY <1>1, <1>5, <1>7, Zenon DEF FilterInv, Enabled, Passed

LEMMA AlwaysFilterInv == Spec => [](IInv /\ TraceInv /\ FilterInv)
<1>1. Init => FilterInv
  BY EmptyIsSequence DEF Init, FilterInv
<1>2. ASSUME TraceInv, FilterInv, [Next]_vars PROVE FilterInv'
  <2> USE DEF config_vars, request_vars
  <2>1. CASE calls' = calls /\ (calls = <<>> \/ (php_pc' = php_pc /\ CONFIG' = CONFIG))
    BY <1>2, <2>1, EmptyIsSequence, Zenon DEF FilterInv, Enabled, Passed
  <2>2. CASE calls' = <<>>
    BY <2>2, EmptyIsSequence DEF FilterInv
  <2>3. CASE Startup
    <3>1. php_pc = "stopped" /\ calls' = calls
      BY <2>3 DEF Startup
    <3> QED BY <1>2, <2>1, <3>1 DEF FilterInv
  <2>4. CASE StartupPanics
    <3>1. php_pc = "stopped" /\ calls' = calls
      BY <2>4 DEF StartupPanics
    <3> QED BY <1>2, <2>1, <3>1 DEF FilterInv
  <2>5. CASE Reload
    <3>1. php_pc = "up" /\ calls' = calls
      BY <2>5 DEF Reload
    <3> QED BY <1>2, <2>1, <3>1 DEF FilterInv
  <2>6. CASE MShutdown
    <3>1. php_pc = "up" /\ calls' = calls
      BY <2>6 DEF MShutdown
    <3> QED BY <1>2, <2>1, <3>1 DEF FilterInv
  <2>7. CASE RInit
    BY <2>2, <2>7 DEF RInit
  <2>8. CASE RShutdown
    BY <2>2, <2>8 DEF RShutdown
  <2>9. ASSUME NEW execute_data \in CallSites, Call(execute_data) PROVE FilterInv'
    BY <1>2, <2>9, CallFilter
  <2>10. CASE UNCHANGED vars
    BY <2>1, <2>10 DEF vars
  <2> QED BY <1>2, <2>3, <2>4, <2>5, <2>6, <2>7, <2>8, <2>9, <2>10 DEF Next
<1> QED BY <1>1, <1>2, AlwaysIInv, AlwaysTraceInv, PTL DEF Spec

\* Two texts in lower case agree word by word.
LEMMA LowerTextsAgree ==
    ASSUME NEW s, NEW t, LowerText(s) = LowerText(t)
    PROVE  DOMAIN s = DOMAIN t /\ \A i \in DOMAIN t : Lower[s[i]] = Lower[t[i]]
<1>1. DOMAIN LowerText(s) = DOMAIN s /\ DOMAIN LowerText(t) = DOMAIN t
  BY DEF LowerText
<1>2. DOMAIN s = DOMAIN t
  BY <1>1
<1>3. ASSUME NEW i \in DOMAIN t PROVE Lower[s[i]] = Lower[t[i]]
  <2>1. LowerText(s)[i] = Lower[s[i]] /\ LowerText(t)[i] = Lower[t[i]]
    BY <1>2 DEF LowerText
  <2> QED BY <2>1
<1> QED BY <1>2, <1>3

\* The key should_observe makes of a call that is spelt like a listed name, in
\* any case, is that name in lower case.
LEMMA ListedIsFound ==
    ASSUME NEW site \in CallSites, site.func # "null", site.function_name # None,
           NEW name, \A i \in DOMAIN name : name[i] \in DOMAIN Lower /\ Lossy[name[i]] = name[i],
           LowerText(name) = LowerText(FullName(site))
    PROVE  /\ FcallInfo(site).function_name # None
           /\ SkipKey(FcallInfo(site)) = LowerText(name)
<1> DEFINE fn == site.function_name
           class == site.scope
<1>1. fn \in DOMAIN Lower /\ (class # None => class \in DOMAIN Lower)
  BY NameAssumption DEF NameAssumption
<1>2. DOMAIN name = DOMAIN FullName(site)
      /\ \A i \in DOMAIN name : Lower[name[i]] = Lower[FullName(site)[i]]
  BY LowerTextsAgree
<1>3. ASSUME NEW i \in DOMAIN name, FullName(site)[i] \in DOMAIN Lower
      PROVE  Lossy[FullName(site)[i]] = FullName(site)[i]
  BY <1>2, <1>3, LowerAssumption DEF LowerAssumption
<1>4. /\ FcallInfo(site).function_name = Utf8OrNone(fn)
      /\ FcallInfo(site).class_name = Utf8OrNone(class)
  BY DEF FcallInfo
<1>5. CASE class = None
  <2>1. FullName(site) = <<fn>>
    BY <1>5 DEF FullName
  <2>2. 1 \in DOMAIN FullName(site) /\ FullName(site)[1] = fn
    BY <2>1
  <2>3. Lossy[fn] = fn
    BY <1>1, <1>2, <1>3, <2>2
  <2>4. FcallInfo(site).function_name = fn /\ FcallInfo(site).class_name = None
    BY <1>4, <1>5, <2>3 DEF Utf8OrNone
  <2>5. LowerText(<<fn>>) = <<Lower[fn]>>
    BY DEF LowerText
  <2> QED BY <2>1, <2>4, <2>5, Zenon DEF SkipKey
<1>6. CASE class # None
  <2>1. FullName(site) = <<class, "::", fn>>
    BY <1>6 DEF FullName
  <2>2. /\ 1 \in DOMAIN FullName(site) /\ FullName(site)[1] = class
        /\ 3 \in DOMAIN FullName(site) /\ FullName(site)[3] = fn
    BY <2>1
  <2>3. Lossy[fn] = fn /\ Lossy[class] = class
    BY <1>1, <1>2, <1>3, <1>6, <2>2
  <2>4. FcallInfo(site).function_name = fn /\ FcallInfo(site).class_name = class
    BY <1>4, <1>6, <2>3 DEF Utf8OrNone
  <2>5. LowerText(<<class, "::", fn>>) = <<Lower[class], "::", Lower[fn]>>
    BY LowerAssumption DEF LowerText, LowerAssumption
  <2> QED BY <1>6, <2>1, <2>4, <2>5, Zenon DEF SkipKey
<1> QED BY <1>5, <1>6

\* What is stored of an operator's list are its names, in lower case.
LEMMA ListStored ==
    ASSUME IInv, Enabled(CONFIG), source.ini.skip_functions # Empty,
           NEW name \in source.ini.skip_functions
    PROVE  LowerText(name) \in CONFIG.skip_functions
<1> DEFINE raw == raw_ini_from_ini_map(source.ini)
<1>1. CONFIG # None /\ CONFIG.enabled /\ StoredFromFiles
  BY DEF Enabled, IInv
<1>2. /\ Directives \subseteq DOMAIN source.ini /\ source.ini.skip_functions # None
      /\ "skip_functions" \in Directives /\ "skip_functions" \in Strings
  BY <1>1, IniAssumption DEF StoredFromFiles, IniAssumption, Directives, Strings
<1>3. MasterEnabled(raw)
  <2>1. disabled("MasterSwitchOff").enabled = FALSE
    BY DEF disabled
  <2> QED BY <1>1, <2>1, Zenon DEF StoredFromFiles, from_ini_values
<1>4. CONFIG.skip_functions = parse_skip_functions(raw)
  <2>1. from_ini_values(raw, source.token_file).config.skip_functions = parse_skip_functions(raw)
    BY <1>3, Zenon DEF from_ini_values
  <2> QED BY <1>1, <2>1, Zenon DEF StoredFromFiles
<1>5. raw.skip_functions = source.ini.skip_functions
  <2>1. raw["skip_functions"] = lookup_str(source.ini["skip_functions"])
    BY <1>2, RawIs, Zenon
  <2> QED BY <2>1, Zenon DEF lookup_str
<1>6. UnwrapOr(raw.skip_functions, {}) = source.ini.skip_functions
  BY <1>2, <1>5, Zenon DEF UnwrapOr
<1>7. parse_skip_functions(raw) = {LowerText(n) : n \in source.ini.skip_functions}
  <2>1. {LowerText(n) : n \in source.ini.skip_functions} # {}
    OBVIOUS
  <2> QED BY <1>6, <2>1, Zenon DEF parse_skip_functions
<1> QED BY <1>4, <1>7

\* No call of a listed function is recorded, nor of an internal one under
\* skip_internal, however the code spells its name.
THEOREM SkipListHonoured == Spec => []SkippedNeverRecorded
<1>1. IInv /\ TraceInv /\ FilterInv => SkippedNeverRecorded
  <2> SUFFICES ASSUME IInv, FilterInv, NEW i \in DOMAIN calls
               PROVE  LET site == calls[i].site IN
                      /\ CONFIG.skip_internal => site.func # "internal"
                      /\ site.func # "null" /\ site.function_name # None
                            /\ source.ini.skip_functions # Empty =>
                            \A name \in source.ini.skip_functions :
                                LowerText(name) # LowerText(FullName(site))
    BY Zenon DEF SkippedNeverRecorded
  <2> DEFINE site == calls[i].site
             info == FcallInfo(site)
  <2>1. site \in CallSites /\ Passed(site)
    BY DEF FilterInv
  <2>2. Enabled(CONFIG)
    BY EmptyIsSequence DEF FilterInv
  <2>3. ~(CONFIG.skip_internal /\ info.is_internal)
        /\ (info.function_name # None => SkipKey(info) \notin CONFIG.skip_functions)
    BY <2>1, Zenon DEF Passed, should_observe_filter
  <2>4. site.func = "internal" => info.is_internal
    BY DEF FcallInfo
  <2>5. ASSUME site.func # "null", site.function_name # None, source.ini.skip_functions # Empty,
               NEW name \in source.ini.skip_functions,
               LowerText(name) = LowerText(FullName(site))
        PROVE  FALSE
    <3>1. source.ini \in IniFiles \cup ReloadedFiles
      BY <2>2 DEF Enabled, IInv, StoredFromFiles
    <3>2. \A k \in DOMAIN name : name[k] \in DOMAIN Lower /\ Lossy[name[k]] = name[k]
      BY <2>5, <3>1, NameAssumption, Zenon DEF NameAssumption
    <3>3. info.function_name # None /\ SkipKey(info) = LowerText(name)
      BY <2>1, <2>5, <3>2, ListedIsFound, Zenon
    <3>4. LowerText(name) \in CONFIG.skip_functions
      BY <2>2, <2>5, ListStored
    <3> QED BY <2>3, <3>3, <3>4
  <2> QED BY <2>3, <2>4, <2>5
<1> QED BY <1>1, AlwaysFilterInv, PTL

-----------------------------------------------------------------------------
(* Numbers, as core::fmt writes them: one digit for each division that     *)
(* leaves something.                                                       *)

Bases == {2, 10, 16}

LEMMA Division ==
    ASSUME NEW x \in Nat, NEW b \in Bases
    PROVE  /\ x \div b \in Nat /\ x \div b <= x
           /\ x # 0 => x \div b < x
           /\ x = 0 => x \div b = 0
           /\ 1 + (x % b) \in 1..16
<1>1. CASE b = 2
  BY <1>1
<1>2. CASE b = 10
  BY <1>2
<1>3. CASE b = 16
  BY <1>3
<1> QED BY <1>1, <1>2, <1>3 DEF Bases

\* The equations of the quotients of n, as far as m divisions.
Divides(q, n, b, m) == q[0] = n /\ \A k \in 1..m : q[k] = q[k - 1] \div b

QuotientsUpTo(q, n, b, m) == q \in [0..m -> Nat] /\ Divides(q, n, b, m)

LEMMA QuotientsExist ==
    ASSUME NEW n \in Nat, NEW b \in Bases
    PROVE  \A m \in Nat : \E q : QuotientsUpTo(q, n, b, m)
<1> DEFINE P == {m \in Nat : \E q : QuotientsUpTo(q, n, b, m)}
<1>1. 0 \in P
  <2>1. QuotientsUpTo([k \in 0..0 |-> n], n, b, 0)
    BY DEF QuotientsUpTo, Divides
  <2> QED BY <2>1
<1>2. ASSUME NEW m \in Nat, m \in P PROVE m + 1 \in P
  <2>1. PICK q : QuotientsUpTo(q, n, b, m)
    BY <1>2
  <2> DEFINE p == [k \in 0..(m + 1) |-> IF k = m + 1 THEN q[m] \div b ELSE q[k]]
  <2>2. q[m] \in Nat
    BY <2>1 DEF QuotientsUpTo, Divides
  <2>3. q[m] \div b \in Nat
    BY <2>2, Division
  <2>4. p \in [0..(m + 1) -> Nat]
    <3> HIDE DEF Bases
    <3> QED BY <2>1, <2>3 DEF QuotientsUpTo, Divides
  <2>5. p[0] = n
    BY <2>1 DEF QuotientsUpTo, Divides
  <2>6. \A k \in 1..(m + 1) : p[k] = p[k - 1] \div b
    <3> TAKE k \in 1..(m + 1)
    <3>1. k - 1 \in 0..m /\ k - 1 # m + 1 /\ k \in 0..(m + 1) /\ k - 1 \in 0..(m + 1)
      OBVIOUS
    <3>2. p[k - 1] = q[k - 1]
      BY <3>1
    <3>3. CASE k = m + 1
      <4>1. p[k] = q[m] \div b /\ k - 1 = m
        BY <3>1, <3>3
      <4> QED BY <3>2, <4>1
    <3>4. CASE k # m + 1
      <4>1. p[k] = q[k] /\ k \in 1..m
        BY <3>1, <3>4
      <4>2. q[k] = q[k - 1] \div b
        BY <2>1, <4>1 DEF QuotientsUpTo, Divides
      <4> QED BY <3>2, <4>1, <4>2
    <3> QED BY <3>3, <3>4
  <2>7. QuotientsUpTo(p, n, b, m + 1)
    BY <2>4, <2>5, <2>6 DEF QuotientsUpTo, Divides
  <2> QED BY <2>7
<1> HIDE DEF P
<1>3. \A m \in Nat : m \in P
  BY <1>1, <1>2, SetInduction
<1> QED BY <1>3 DEF P

\* Two solutions agree as far as both go.
LEMMA QuotientsAgree ==
    ASSUME NEW n \in Nat, NEW b \in Bases, NEW l \in Nat, NEW m \in Nat, l <= m,
           NEW q, QuotientsUpTo(q, n, b, m),
           NEW p, Divides(p, n, b, l)
    PROVE  \A k \in 0..l : p[k] = q[k]
<1> USE DEF Divides
<1> DEFINE P == {k \in Nat : k <= l => p[k] = q[k]}
<1>1. 0 \in P
  BY DEF QuotientsUpTo, Divides
<1>2. ASSUME NEW k \in Nat, k \in P PROVE k + 1 \in P
  <2>1. SUFFICES ASSUME k + 1 <= l PROVE p[k + 1] = q[k + 1]
    OBVIOUS
  <2>2. k + 1 \in 1..l /\ k + 1 \in 1..m /\ (k + 1) - 1 = k
    BY <2>1
  <2>3. p[k + 1] = p[k] \div b
    <3>1. p[k + 1] = p[(k + 1) - 1] \div b
      BY <2>2
    <3> QED BY <2>2, <3>1
  <2>4. q[k + 1] = q[k] \div b
    <3>1. q[k + 1] = q[(k + 1) - 1] \div b
      BY <2>2 DEF QuotientsUpTo, Divides
    <3> QED BY <2>2, <3>1
  <2>5. p[k] = q[k]
    BY <1>2, <2>1
  <2> QED BY <2>3, <2>4, <2>5
<1> HIDE DEF P
<1>3. \A k \in Nat : k \in P
  BY <1>1, <1>2, SetInduction
<1> QED BY <1>3 DEF P

LEMMA QuotientsDefined ==
    ASSUME NEW n \in Nat, NEW b \in Bases
    PROVE  QuotientsUpTo(Quotients(n, b), n, b, n)
<1> DEFINE F(g) == [k \in 0..n |-> IF k = 0 THEN n ELSE g[k - 1] \div b]
<1>1. PICK q : QuotientsUpTo(q, n, b, n)
  BY QuotientsExist
<1>2. q = F(q)
  <2>1. \A k \in 0..n : q[k] = F(q)[k]
    BY <1>1 DEF QuotientsUpTo, Divides
  <2> QED BY <1>1, <2>1 DEF QuotientsUpTo, Divides
<1>3. Quotients(n, b) = F(Quotients(n, b))
  BY <1>2, Zenon DEF Quotients
<1> DEFINE p == Quotients(n, b)
<1> HIDE DEF p
<1>4. p = F(p)
  BY <1>3 DEF p
<1>5. Divides(p, n, b, n)
  BY <1>4 DEF Divides
<1>6. \A k \in 0..n : p[k] = q[k]
  BY <1>1, <1>5, QuotientsAgree
<1>7. p = q
  <2>1. DOMAIN p = 0..n
    BY <1>4
  <2>2. p = [k \in 0..n |-> p[k]] /\ q = [k \in 0..n |-> q[k]]
    BY <1>1, <1>4, <2>1 DEF QuotientsUpTo, Divides
  <2> QED BY <1>6, <2>2
<1> QED BY <1>1, <1>7 DEF p

\* Once nothing is left, nothing is.
LEMMA NothingStays ==
    ASSUME NEW n \in Nat, NEW b \in Bases, NEW m \in Nat, NEW q, QuotientsUpTo(q, n, b, m),
           NEW i \in 0..m, q[i] = 0
    PROVE  \A j \in i..m : q[j] = 0
<1> DEFINE P == {j \in Nat : i <= j /\ j <= m => q[j] = 0}
<1>1. 0 \in P
  OBVIOUS
<1>2. ASSUME NEW j \in Nat, j \in P PROVE j + 1 \in P
  <2>1. SUFFICES ASSUME i <= j + 1, j + 1 <= m PROVE q[j + 1] = 0
    OBVIOUS
  <2>2. CASE i = j + 1
    BY <2>2
  <2>3. CASE i # j + 1
    <3>1. j + 1 \in 1..m /\ (j + 1) - 1 = j /\ i <= j /\ j <= m
      BY <2>1, <2>3
    <3>2. q[j + 1] = q[(j + 1) - 1] \div b
      BY <3>1 DEF QuotientsUpTo, Divides
    <3>3. q[j] = 0
      BY <1>2, <3>1
    <3>4. 0 \div b = 0
      BY Division
    <3> QED BY <3>1, <3>2, <3>3, <3>4
  <2> QED BY <2>2, <2>3
<1> HIDE DEF P
<1>3. \A j \in Nat : j \in P
  BY <1>1, <1>2, SetInduction
<1> QED BY <1>3 DEF P

\* n divisions leave nothing of n.
LEMMA NothingLeft ==
    ASSUME NEW n \in Nat, NEW b \in Bases, NEW q, QuotientsUpTo(q, n, b, n)
    PROVE  q[n] = 0
<1> DEFINE P == {k \in Nat : k <= n => q[k] <= n - k}
<1>1. 0 \in P
  BY DEF QuotientsUpTo, Divides
<1>2. ASSUME NEW k \in Nat, k \in P PROVE k + 1 \in P
  <2>1. SUFFICES ASSUME k + 1 <= n PROVE q[k + 1] <= n - (k + 1)
    OBVIOUS
  <2>2. k + 1 \in 1..n /\ (k + 1) - 1 = k /\ k \in 0..n
    BY <2>1
  <2>3. q[k] \in Nat
    BY <2>2 DEF QuotientsUpTo, Divides
  <2>4. q[k + 1] = q[k] \div b
    <3>1. q[k + 1] = q[(k + 1) - 1] \div b
      BY <2>2 DEF QuotientsUpTo, Divides
    <3> QED BY <2>2, <3>1
  <2>5. q[k] <= n - k
    BY <1>2, <2>1
  <2> DEFINE x == q[k]
  <2> HIDE DEF x
  <2>6. x \in Nat /\ q[k + 1] = x \div b /\ x <= n - k
    BY <2>3, <2>4, <2>5 DEF x
  <2>7. x \div b \in Nat /\ (x # 0 => x \div b < x) /\ (x = 0 => x \div b = 0)
    BY <2>6, Division
  <2> DEFINE y == x \div b
  <2> HIDE DEF y
  <2>8. y \in Nat /\ (x # 0 => y < x) /\ (x = 0 => y = 0) /\ q[k + 1] = y
    BY <2>6, <2>7 DEF y
  <2> QED BY <2>1, <2>6, <2>8
<1> HIDE DEF P
<1>3. n \in P
  BY <1>1, <1>2, SetInduction
<1>4. q[n] \in Nat
  BY DEF QuotientsUpTo, Divides
<1> QED BY <1>3, <1>4 DEF P

\* ilog is the last division but one that leaves something.
LEMMA IlogIs ==
    ASSUME NEW n \in Nat, n # 0, NEW b \in Bases
    PROVE  /\ ilog(n, b) \in 0..(n - 1)
           /\ Quotients(n, b)[ilog(n, b)] # 0 /\ Quotients(n, b)[ilog(n, b) + 1] = 0
<1> DEFINE q == Quotients(n, b)
<1>1. QuotientsUpTo(q, n, b, n)
  BY QuotientsDefined
<1>2. q[n] = 0
  BY <1>1, NothingLeft
<1> HIDE DEF q
<1>3. \E k \in 0..(n - 1) : q[k] # 0 /\ q[k + 1] = 0
  <2> SUFFICES ASSUME \A k \in 0..(n - 1) : q[k] # 0 => q[k + 1] # 0 PROVE FALSE
    OBVIOUS
  <2> DEFINE P == {k \in Nat : k <= n => q[k] # 0}
  <2>1. 0 \in P
    BY <1>1 DEF QuotientsUpTo, Divides
  <2>2. ASSUME NEW k \in Nat, k \in P PROVE k + 1 \in P
    <3>1. SUFFICES ASSUME k + 1 <= n PROVE q[k + 1] # 0
      OBVIOUS
    <3>2. k \in 0..(n - 1) /\ q[k] # 0
      BY <2>2, <3>1
    <3> QED BY <3>2
  <2> HIDE DEF P
  <2>3. n \in P
    BY <2>1, <2>2, SetInduction
  <2> QED BY <1>2, <2>3 DEF P
<1>4. \E k \in 0..(n - 1) : Quotients(n, b)[k] # 0 /\ Quotients(n, b)[k + 1] = 0
  BY <1>3 DEF q
<1> QED BY <1>4, Zenon DEF ilog

\* Four binary digits are one hexadecimal digit.
LEMMA BitsOfDigit ==
    ASSUME NEW n \in Nat, n # 0
    PROVE  (ilog(n, 2) + 4) \div 4 = ilog(n, 16) + 1
<1> DEFINE q == Quotients(n, 16)
<1> DEFINE h == ilog(n, 16)
<1> DEFINE k == ilog(n, 2)
<1>0. PICK m \in Nat : m = 4 * n + 4
  OBVIOUS
<1>1. PICK p : QuotientsUpTo(p, n, 2, m)
  BY QuotientsExist DEF Bases
<1>2. QuotientsUpTo(q, n, 16, n) /\ QuotientsUpTo(Quotients(n, 2), n, 2, n)
  BY QuotientsDefined DEF Bases
<1>3. h \in 0..(n - 1) /\ q[h] # 0 /\ q[h + 1] = 0
  BY IlogIs DEF Bases
<1>4. k \in 0..(n - 1) /\ Quotients(n, 2)[k] # 0 /\ Quotients(n, 2)[k + 1] = 0
  BY IlogIs DEF Bases
<1>5. \A i \in 0..n : Quotients(n, 2)[i] = p[i]
  <2>1. n <= m
    BY <1>0
  <2>2. 2 \in Bases
    BY DEF Bases
  <2> DEFINE r == Quotients(n, 2)
  <2>3. Divides(r, n, 2, n)
    BY <1>2 DEF QuotientsUpTo
  <2> HIDE DEF r
  <2>5. \A i \in 0..n : r[i] = p[i]
    BY <1>1, <2>1, <2>2, <2>3, QuotientsAgree
  <2> QED BY <2>5 DEF r
<1> HIDE DEF q, h, k
<1>6. \A i \in 0..n : p[4 * i] = q[i]
  <2> DEFINE P == {i \in Nat : i <= n => p[4 * i] = q[i]}
  <2>1. 0 \in P
    BY <1>1, <1>2 DEF QuotientsUpTo, Divides
  <2>2. ASSUME NEW i \in Nat, i \in P PROVE i + 1 \in P
    <3>1. SUFFICES ASSUME i + 1 <= n PROVE p[4 * (i + 1)] = q[i + 1]
      OBVIOUS
    <3>2. \A j \in 1..m : p[j] = p[j - 1] \div 2
      BY <1>1 DEF QuotientsUpTo, Divides
    <3>3. PICK j \in Nat : j = 4 * i
      OBVIOUS
    <3>4. j + 4 <= m /\ 4 * (i + 1) = j + 4
      BY <1>0, <3>1, <3>3
    <3>5. /\ p[j + 1] = p[j] \div 2 /\ p[j + 2] = p[j + 1] \div 2
          /\ p[j + 3] = p[j + 2] \div 2 /\ p[j + 4] = p[j + 3] \div 2
      <4>1. /\ j + 1 \in 1..m /\ j + 2 \in 1..m /\ j + 3 \in 1..m /\ j + 4 \in 1..m
            /\ (j + 1) - 1 = j /\ (j + 2) - 1 = j + 1 /\ (j + 3) - 1 = j + 2 /\ (j + 4) - 1 = j + 3
        BY <3>4
      <4>2. /\ p[j + 1] = p[(j + 1) - 1] \div 2 /\ p[j + 2] = p[(j + 2) - 1] \div 2
            /\ p[j + 3] = p[(j + 3) - 1] \div 2 /\ p[j + 4] = p[(j + 4) - 1] \div 2
        BY <3>2, <4>1
      <4> QED BY <4>1, <4>2
    <3>6. p[j] \in Nat
      <4>1. p \in [0..m -> Nat] /\ j \in 0..m
        BY <1>1, <3>4 DEF QuotientsUpTo, Divides
      <4> QED BY <4>1
    <3>7. \A x \in Nat : (((x \div 2) \div 2) \div 2) \div 2 = x \div 16
      OBVIOUS
    <3>8. p[j + 4] = p[j] \div 16
      <4>1. p[j + 4] = (((p[j] \div 2) \div 2) \div 2) \div 2
        BY <3>5
      <4> QED BY <3>6, <3>7, <4>1
    <3>9. q[i + 1] = q[i] \div 16
      <4>1. i + 1 \in 1..n /\ (i + 1) - 1 = i
        BY <3>1
      <4>2. q[i + 1] = q[(i + 1) - 1] \div 16
        BY <1>2, <4>1 DEF QuotientsUpTo, Divides
      <4> QED BY <4>1, <4>2
    <3>10. p[j] = q[i]
      BY <2>2, <3>1, <3>3
    <3> QED BY <3>4, <3>8, <3>9, <3>10
  <2> HIDE DEF P
  <2>3. \A i \in Nat : i \in P
    BY <2>1, <2>2, SetInduction
  <2> QED BY <2>3 DEF P
<1>7. p[4 * h] # 0 /\ p[4 * h + 4] = 0
  <2>1. h \in 0..n /\ h + 1 \in 0..n /\ 4 * (h + 1) = 4 * h + 4
    BY <1>3
  <2> QED BY <1>3, <1>6, <2>1
<1>8. p[k] # 0 /\ p[k + 1] = 0
  <2>1. k \in 0..n /\ k + 1 \in 0..n
    BY <1>4
  <2>2. Quotients(n, 2)[k] = p[k] /\ Quotients(n, 2)[k + 1] = p[k + 1]
    BY <1>5, <2>1
  <2> QED BY <1>4, <2>2
<1>9. \A i, j \in 0..m : p[i] = 0 /\ i <= j => p[j] = 0
  <2> TAKE i \in 0..m, j \in 0..m
  <2> HAVE p[i] = 0 /\ i <= j
  <2>1. 2 \in Bases
    BY DEF Bases
  <2>2. j \in i..m
    BY <2>1
  <2> QED BY <1>1, <2>1, <2>2, NothingStays
<1>10. h \in Nat /\ k \in Nat /\ h <= n - 1 /\ k <= n - 1
  BY <1>3, <1>4
<1>11. 4 * h \in 0..m /\ 4 * h + 4 \in 0..m /\ k \in 0..m /\ k + 1 \in 0..m
  BY <1>0, <1>10
<1>12. ~(k + 1 <= 4 * h) /\ ~(4 * h + 4 <= k)
  BY <1>7, <1>8, <1>9, <1>11
<1>13. (k + 4) \div 4 = h + 1
  BY <1>10, <1>12
<1> QED BY <1>13 DEF h, k

-----------------------------------------------------------------------------
(* What texts take.                                                        *)

Parts == DOMAIN Length \cup {Digits[i] : i \in 1..16}
Bytes == [part \in Parts |-> PartLen(part)]

LEMMA DigitsAre == DOMAIN Digits = 1..16
BY DEF Digits

LEMMA BytesOfPart ==
    /\ Maps(Bytes, Parts, Int)
    /\ \A part \in Parts : PartLen(part) \in Int /\ Bytes[part] = PartLen(part)
    /\ \A i \in 1..16 : Digits[i] \in Parts /\ PartLen(Digits[i]) = 1
<1>1. ASSUME NEW part \in Parts PROVE PartLen(part) \in Int
  <2>1. CASE \E i \in DOMAIN Digits : Digits[i] = part
    <3>1. PartLen(part) = 1
      BY <2>1, Zenon DEF PartLen
    <3> QED BY <3>1
  <2>2. CASE ~\E i \in DOMAIN Digits : Digits[i] = part
    <3>1. PartLen(part) = Length[part]
      BY <2>2, Zenon DEF PartLen
    <3>2. part \in DOMAIN Length
      BY <2>2, DigitsAre, Zenon DEF Parts
    <3>3. Length[part] \in Nat
      BY <3>2, LengthAssumption, Zenon DEF LengthAssumption
    <3> QED BY <3>1, <3>3
  <2> QED BY <2>1, <2>2
<1>2. ASSUME NEW i \in 1..16 PROVE Digits[i] \in Parts /\ PartLen(Digits[i]) = 1
  <2>1. \E j \in DOMAIN Digits : Digits[j] = Digits[i]
    BY DigitsAre, Zenon
  <2> QED BY <2>1, Zenon DEF PartLen, Parts
<1> QED BY <1>1, <1>2, Zenon DEF Bytes, Maps

LEMMA TextLenIs ==
    ASSUME NEW text \in Seq(Parts)
    PROVE  TextLen(text) = Total(Mapped(Bytes, text)) /\ Mapped(Bytes, text) \in Seq(Int)
           /\ Len(Mapped(Bytes, text)) = Len(text)
           /\ \A i \in 1..Len(text) : Mapped(Bytes, text)[i] = PartLen(text[i])
<1>1. /\ Mapped(Bytes, text) \in Seq(Int)
      /\ Len(Mapped(Bytes, text)) = Len(text)
      /\ \A i \in 1..Len(text) : text[i] \in Parts /\ Mapped(Bytes, text)[i] = Bytes[text[i]]
  BY BytesOfPart, MappedAre
<1>2. DOMAIN text = 1..Len(text)
  BY LenProperties
<1>3. \A i \in DOMAIN text : Bytes[text[i]] = PartLen(text[i])
  BY <1>1, <1>2, BytesOfPart
<1>4. [i \in DOMAIN text |-> PartLen(text[i])] = Mapped(Bytes, text)
  BY <1>3, Zenon DEF Mapped
<1> QED BY <1>1, <1>2, <1>3, <1>4, Zenon DEF TextLen

LEMMA TextLenJoin ==
    ASSUME NEW s \in Seq(Parts), NEW t \in Seq(Parts)
    PROVE  Concat(s, t) \in Seq(Parts) /\ TextLen(Concat(s, t)) = TextLen(s) + TextLen(t)
<1>1. Concat(s, t) \in Seq(Parts)
  BY JoinTyped
<1>2. Mapped(Bytes, Concat(s, t)) = Concat(Mapped(Bytes, s), Mapped(Bytes, t))
  BY BytesOfPart, MappedJoin
<1>3. Mapped(Bytes, s) \in Seq(Int) /\ Mapped(Bytes, t) \in Seq(Int)
  BY TextLenIs
<1>4. Total(Concat(Mapped(Bytes, s), Mapped(Bytes, t)))
        = Total(Mapped(Bytes, s)) + Total(Mapped(Bytes, t))
  BY <1>3, TotalJoin
<1> QED BY <1>1, <1>2, <1>4, TextLenIs

LEMMA TextLenOfFew ==
    /\ <<>> \in Seq(Parts) /\ TextLen(<<>>) = 0
    /\ \A part \in Parts : <<part>> \in Seq(Parts) /\ TextLen(<<part>>) = PartLen(part)
<1>1. <<>> \in Seq(Parts) /\ Mapped(Bytes, <<>>) = <<>>
  <2>1. <<>> \in Seq(Parts)
    BY EmptySeq
  <2>2. Mapped(Bytes, <<>>) \in Seq(Int) /\ Len(Mapped(Bytes, <<>>)) = Len(<<>>)
    BY <2>1, TextLenIs
  <2> QED BY <2>1, <2>2, EmptySeq
<1>2. TextLen(<<>>) = 0
  BY <1>1, TextLenIs, TotalEmpty
<1>3. ASSUME NEW part \in Parts PROVE <<part>> \in Seq(Parts) /\ TextLen(<<part>>) = PartLen(part)
  <2> DEFINE text == <<part>>
  <2>1. text \in Seq(Parts) /\ Len(text) = 1 /\ text[1] = part
    OBVIOUS
  <2> HIDE DEF text
  <2> DEFINE m == Mapped(Bytes, text)
  <2>2. /\ TextLen(text) = Total(m) /\ m \in Seq(Int) /\ Len(m) = 1
        /\ m[1] = PartLen(part)
    BY <2>1, TextLenIs
  <2> HIDE DEF m
  <2>3. PartLen(part) \in Int
    BY BytesOfPart
  <2>4. m = Append(<<>>, PartLen(part))
    BY <2>2, <2>3
  <2>5. <<>> \in Seq(Int)
    BY EmptySeq
  <2>6. Total(m) = Total(<<>>) + PartLen(part)
    BY <2>3, <2>4, <2>5, TotalAppend
  <2> QED BY <2>1, <2>2, <2>3, <2>6, TotalEmpty DEF text
<1> QED BY <1>1, <1>2, <1>3

\* A number takes a byte for each digit.
LEMMA TextLenOfNumeral ==
    ASSUME NEW n \in Nat, NEW b \in Bases
    PROVE  /\ Numeral(n, b) \in Seq(Parts)
           /\ TextLen(Numeral(n, b)) = IF n = 0 THEN 1 ELSE ilog(n, b) + 1
<1> DEFINE top == IF n = 0 THEN 0 ELSE ilog(n, b)
<1> DEFINE q == Quotients(n, b)
<1> DEFINE text == Numeral(n, b)
<1>1. top \in 0..n
  BY IlogIs
<1>2. q \in [0..n -> Nat]
  BY QuotientsDefined DEF QuotientsUpTo
<1>3. text = [i \in 1..(top + 1) |-> Digits[1 + (q[top + 1 - i] % b)]]
  BY DEF Numeral
<1> HIDE DEF top, q, text
<1>4. ASSUME NEW i \in 1..(top + 1)
      PROVE  /\ text[i] \in Parts /\ PartLen(text[i]) = 1
  <2>1. top + 1 - i \in 0..n
    BY <1>1
  <2>2. q[top + 1 - i] \in Nat
    BY <1>2, <2>1
  <2>3. 1 + (q[top + 1 - i] % b) \in 1..16
    BY <2>2, Division
  <2>4. text[i] = Digits[1 + (q[top + 1 - i] % b)]
    BY <1>3
  <2> QED BY <2>3, <2>4, BytesOfPart
<1>5. text \in [1..(top + 1) -> Parts]
  BY <1>3, <1>4
<1>6. top + 1 \in Nat
  BY <1>1
<1>7. text \in Seq(Parts) /\ Len(text) = top + 1
  BY <1>5, <1>6, FunctionIsSeq
<1> DEFINE m == Mapped(Bytes, text)
<1>8. /\ TextLen(text) = Total(m) /\ m \in Seq(Int) /\ Len(m) = top + 1
      /\ \A i \in 1..(top + 1) : m[i] = PartLen(text[i])
  BY <1>7, TextLenIs
<1> HIDE DEF m
<1>9. Total(m) = Len(m)
  BY <1>4, <1>8, TotalOnes
<1>10. TextLen(text) = top + 1
  BY <1>8, <1>9
<1> QED BY <1>6, <1>7, <1>10 DEF text, top

LEMMA TextLenOfLiterals ==
    /\ {"(", ")@0x", "closure:", ":", "::", "anonymous"} \subseteq Parts
    /\ PartLen("(") = 1 /\ PartLen(")@0x") = 4 /\ PartLen("closure:") = 8
    /\ PartLen(":") = 1 /\ PartLen("::") = 2 /\ PartLen("anonymous") = Length["anonymous"]
    /\ Length["anonymous"] \in Nat
<1>1. \A i \in 1..16 : Digits[i] \notin {"(", ")@0x", "closure:", ":", "::", "anonymous"}
  BY DEF Digits
<1>2. \A part \in {"(", ")@0x", "closure:", ":", "::", "anonymous"} : PartLen(part) = Length[part]
  BY <1>1, DigitsAre, Zenon DEF PartLen
<1>3. /\ {"(", ")@0x", "closure:", ":", "::", "anonymous"} \subseteq DOMAIN Length
      /\ Length["("] = 1 /\ Length[")@0x"] = 4 /\ Length["closure:"] = 8
      /\ Length[":"] = 1 /\ Length["::"] = 2 /\ Length["anonymous"] \in Nat
  BY LengthAssumption DEF LengthAssumption
<1> QED BY <1>2, <1>3 DEF Parts

\* What is read of a call: an address, a line number, and texts of known parts.
Readable(a) ==
    /\ a.is_internal \in BOOLEAN
    /\ a.lineno \in Nat /\ a.execute_data_addr \in Nat
    /\ TextOf(a.function_name, <<>>) \in Seq(Parts)
    /\ TextOf(a.class_name, <<>>) \in Seq(Parts)
    /\ TextOf(a.filename, <<>>) \in Seq(Parts)

LEMMA SitesAreReadable == ASSUME NEW site \in CallSites PROVE Readable(extract_call_site(site))
<1> DEFINE a == extract_call_site(site)
<1>1. ASSUME NEW zs \in {site.function_name, site.scope, site.filename, None}
      PROVE  TextOf(zend_string_to_cow(zs), <<>>) \in Seq(Parts)
  <2>1. CASE zend_string_to_cow(zs) = None
    BY <2>1, TextLenOfFew DEF TextOf
  <2>2. CASE zend_string_to_cow(zs) # None
    <3>1. zs # None /\ zend_string_to_cow(zs) = Lossy[zs]
      BY <2>2 DEF zend_string_to_cow
    <3>2. Lossy[zs] \in Parts
      BY <3>1, SiteAssumption, Zenon DEF SiteAssumption, Parts
    <3>3. TextOf(zend_string_to_cow(zs), <<>>) = <<Lossy[zs]>>
      BY <2>2, <3>1, Zenon DEF TextOf
    <3> QED BY <3>2, <3>3, TextLenOfFew
  <2> QED BY <2>1, <2>2
<1>2. zend_string_to_cow(None) = None
  BY DEF zend_string_to_cow
<1>3. site.addr \in Nat /\ site.line_start \in Nat
  BY SiteAssumption DEF SiteAssumption
<1>4. CASE site.func = "null"
  <2>1. a = EmptyCallSite(site.addr)
    BY <1>4, Zenon DEF extract_call_site
  <2>2. /\ a.lineno = 0 /\ a.execute_data_addr = site.addr
        /\ a.function_name = None /\ a.class_name = None /\ a.filename = None
    BY <2>1 DEF EmptyCallSite
  <2> HIDE DEF a
  <2>3. /\ TextOf(a.function_name, <<>>) \in Seq(Parts) /\ TextOf(a.class_name, <<>>) \in Seq(Parts)
        /\ TextOf(a.filename, <<>>) \in Seq(Parts)
    <3>1. TextOf(None, <<>>) \in Seq(Parts)
      BY <1>1, <1>2
    <3> QED BY <2>2, <3>1
  <2>4. a.lineno \in Nat /\ a.execute_data_addr \in Nat
    BY <1>3, <2>2
  <2> QED BY <2>3, <2>4, SiteTyped DEF Readable, a
<1>5. CASE site.func # "null"
  <2> DEFINE internal == site.func = "internal"
  <2>1. a = [function_name |-> zend_string_to_cow(site.function_name),
             class_name    |-> zend_string_to_cow(site.scope),
             filename      |-> IF internal THEN None ELSE zend_string_to_cow(site.filename),
             lineno        |-> IF internal THEN 0 ELSE site.line_start,
             is_internal   |-> internal,
             execute_data_addr |-> site.addr]
    BY <1>5, Zenon DEF extract_call_site
  <2>2. a.is_internal \in BOOLEAN
    BY SiteTyped
  <2>3. /\ a.lineno \in {0, site.line_start} /\ a.execute_data_addr = site.addr
        /\ a.function_name = zend_string_to_cow(site.function_name)
        /\ a.class_name = zend_string_to_cow(site.scope)
        /\ a.filename \in {None, zend_string_to_cow(site.filename)}
    <3> HIDE DEF internal
    <3> QED BY <2>1
  <2> HIDE DEF a
  <2>4. /\ TextOf(a.function_name, <<>>) \in Seq(Parts) /\ TextOf(a.class_name, <<>>) \in Seq(Parts)
        /\ TextOf(a.filename, <<>>) \in Seq(Parts)
    BY <1>1, <1>2, <2>3
  <2> QED BY <1>3, <2>2, <2>3, <2>4 DEF Readable, a
<1> QED BY <1>4, <1>5

\* render_len is the length of what render writes.
LEMMA RenderedLength ==
    ASSUME NEW a, Readable(a)
    PROVE  LET lazy == categorise_lazy(a) IN
           /\ render_len(lazy.fqn_spec) = TextLen(render(lazy.fqn_spec))
           /\ render(lazy.fqn_spec) \in Seq(Parts) /\ lazy.file \in Seq(Parts)
<1> DEFINE lazy == categorise_lazy(a)
           fn == TextOf(a.function_name, <<>>)
           file == TextOf(a.filename, <<>>)
           addr == a.execute_data_addr
<1>1. /\ fn \in Seq(Parts) /\ file \in Seq(Parts) /\ <<>> \in Seq(Parts)
      /\ addr \in Nat /\ a.lineno \in Nat
  BY TextLenOfFew DEF Readable
<1>2. NamedInternal(a) \/ UnnamedInternal(a) \/ MethodCall(a) \/ ClosureCall(a) \/ PlainCall(a)
  BY KeyOfShape DEF Readable
<1>3. ASSUME NEW name \in Seq(Parts)
      PROVE  /\ render_len(Borrowed(name)) = TextLen(render(Borrowed(name)))
             /\ render(Borrowed(name)) \in Seq(Parts)
  BY DEF render_len, render, Borrowed
<1>4. CASE NamedInternal(a)
  <2>1. lazy = LazyCategorised(Internal(fn), "Internal", Borrowed(fn), <<>>, 0)
    BY <1>4, Zenon DEF categorise_lazy, NamedInternal
  <2>2. lazy.fqn_spec = Borrowed(fn) /\ lazy.file = <<>>
    BY <2>1 DEF LazyCategorised
  <2> QED BY <1>1, <1>3, <2>2
<1>5. CASE UnnamedInternal(a)
  <2>1. lazy = LazyCategorised(Function(<<>>, <<>>, addr % U32), "Internal",
                               Unknown("anonymous", addr), <<>>, 0)
    BY <1>5, Zenon DEF categorise_lazy, UnnamedInternal
  <2>2. lazy.fqn_spec = Unknown("anonymous", addr) /\ lazy.file = <<>>
    BY <2>1 DEF LazyCategorised
  <2> HIDE DEF lazy, addr
  <2>3. /\ render(Unknown("anonymous", addr)) = unknown_placeholder("anonymous", addr)
        /\ render_len(Unknown("anonymous", addr)) = 1 + Length["anonymous"] + 4 + HexDigits(addr)
    BY DEF render, render_len, Unknown
  <2> DEFINE head == <<"(", "anonymous", ")@0x">>
             number == Numeral(addr, 16)
  <2>4. head \in Seq(Parts) /\ TextLen(head) = 1 + Length["anonymous"] + 4
    <3> DEFINE one == <<"(">>
               two == <<"anonymous">>
               three == <<")@0x">>
    <3>1. /\ one \in Seq(Parts) /\ two \in Seq(Parts) /\ three \in Seq(Parts)
          /\ TextLen(one) = 1 /\ TextLen(two) = Length["anonymous"] /\ TextLen(three) = 4
      BY TextLenOfFew, TextLenOfLiterals
    <3>2. head = Concat(Concat(one, two), three)
      BY DEF Concat
    <3> HIDE DEF one, two, three, head
    <3>3. /\ Concat(one, two) \in Seq(Parts)
          /\ TextLen(Concat(one, two)) = 1 + Length["anonymous"]
      BY <3>1, TextLenJoin
    <3>4. /\ head \in Seq(Parts)
          /\ TextLen(head) = TextLen(Concat(one, two)) + TextLen(three)
      BY <3>1, <3>2, <3>3, TextLenJoin
    <3> QED BY <3>1, <3>3, <3>4
  <2>5. number \in Seq(Parts) /\ TextLen(number) = HexDigits(addr)
    <3>1. 16 \in Bases
      BY DEF Bases
    <3>2. /\ number \in Seq(Parts)
          /\ TextLen(number) = IF addr = 0 THEN 1 ELSE ilog(addr, 16) + 1
      BY <1>1, <3>1, TextLenOfNumeral
    <3>3. CASE addr = 0
      BY <3>2, <3>3 DEF HexDigits
    <3>4. CASE addr # 0
      <4>1. (ilog(addr, 2) + 4) \div 4 = ilog(addr, 16) + 1
        BY <1>1, <3>4, BitsOfDigit
      <4>2. ilog(addr, 2) \in Int
        BY <1>1, <3>4, IlogIs DEF Bases
      <4>3. ilog(addr, 2) + 1 + 3 = ilog(addr, 2) + 4
        BY <4>2
      <4> QED BY <3>2, <3>4, <4>1, <4>3 DEF HexDigits
    <3> QED BY <3>3, <3>4
  <2>6. unknown_placeholder("anonymous", addr) = Concat(head, number)
    BY Zenon DEF unknown_placeholder, Concat
  <2> HIDE DEF head, number
  <2>7. /\ Concat(head, number) \in Seq(Parts)
        /\ TextLen(Concat(head, number)) = TextLen(head) + TextLen(number)
    BY <2>4, <2>5, TextLenJoin
  <2> QED BY <1>1, <2>2, <2>3, <2>4, <2>5, <2>6, <2>7 DEF lazy
<1>6. CASE MethodCall(a)
  <2> DEFINE class == <<a.class_name>>
             colons == <<"::">>
  <2>1. lazy = LazyCategorised(Method(class, fn), "Method", MethodSpec(class, fn), file, a.lineno)
    BY <1>6, Zenon DEF categorise_lazy, MethodCall
  <2>2. lazy.fqn_spec = MethodSpec(class, fn) /\ lazy.file = file
    BY <2>1 DEF LazyCategorised
  <2>3. class = TextOf(a.class_name, <<>>)
    BY <1>6 DEF MethodCall, TextOf
  <2>4. class \in Seq(Parts)
    BY <2>3 DEF Readable
  <2>5. colons \in Seq(Parts) /\ TextLen(colons) = 2
    BY TextLenOfFew, TextLenOfLiterals
  <2> HIDE DEF lazy, class, fn, file
  <2>6. /\ render(MethodSpec(class, fn)) = class \o <<"::">> \o fn
        /\ render_len(MethodSpec(class, fn)) = TextLen(class) + 2 + TextLen(fn)
    BY DEF render, render_len, MethodSpec
  <2>7. render(MethodSpec(class, fn)) = Concat(Concat(class, colons), fn)
    BY <2>6, Zenon DEF Concat
  <2> HIDE DEF colons
  <2>8. /\ Concat(class, colons) \in Seq(Parts)
        /\ TextLen(Concat(class, colons)) = TextLen(class) + 2
    BY <2>4, <2>5, TextLenJoin
  <2>9. /\ Concat(Concat(class, colons), fn) \in Seq(Parts)
        /\ TextLen(Concat(Concat(class, colons), fn)) = TextLen(class) + 2 + TextLen(fn)
    BY <1>1, <2>8, TextLenJoin
  <2> QED BY <1>1, <2>2, <2>6, <2>7, <2>9 DEF lazy
<1>7. CASE ClosureCall(a)
  <2>1. lazy = LazyCategorised(Closure(file, a.lineno), "Closure",
                               ClosureSpec(file, a.lineno), file, a.lineno)
    BY <1>7, Zenon DEF categorise_lazy, ClosureCall
  <2>2. lazy.fqn_spec = ClosureSpec(file, a.lineno) /\ lazy.file = file
    BY <2>1 DEF LazyCategorised
  <2> DEFINE head == <<"closure:">>
             colon == <<":">>
             number == Numeral(a.lineno, 10)
  <2>3. /\ head \in Seq(Parts) /\ colon \in Seq(Parts)
        /\ TextLen(head) = 8 /\ TextLen(colon) = 1
    BY TextLenOfFew, TextLenOfLiterals
  <2>4. number \in Seq(Parts) /\ TextLen(number) = LineDigits(a.lineno)
    <3>1. 10 \in Bases
      BY DEF Bases
    <3> QED BY <1>1, <3>1, TextLenOfNumeral DEF LineDigits
  <2>5. LineDigits(a.lineno) \in Int
    <3>1. number \in Seq(Parts)
      BY <2>4
    <3>2. TextLen(number) \in Int
      <4> HIDE DEF number
      <4> QED BY <3>1, TextLenIs, TotalIsInt
    <3> QED BY <2>4, <3>2
  <2> HIDE DEF lazy, file
  <2>6. /\ render(ClosureSpec(file, a.lineno)) = ClosureFqn(file, a.lineno)
        /\ render_len(ClosureSpec(file, a.lineno)) = 8 + TextLen(file) + 1 + LineDigits(a.lineno)
    BY DEF render, render_len, ClosureSpec
  <2>7. ClosureFqn(file, a.lineno) = Concat(Concat(Concat(head, file), colon), number)
    BY Zenon DEF ClosureFqn, Concat
  <2> HIDE DEF head, colon, number
  <2>8. /\ Concat(head, file) \in Seq(Parts)
        /\ TextLen(Concat(head, file)) = 8 + TextLen(file)
    BY <1>1, <2>3, TextLenJoin
  <2>9. /\ Concat(Concat(head, file), colon) \in Seq(Parts)
        /\ TextLen(Concat(Concat(head, file), colon)) = 8 + TextLen(file) + 1
    BY <2>3, <2>8, TextLenJoin
  <2>10. /\ Concat(Concat(Concat(head, file), colon), number) \in Seq(Parts)
         /\ TextLen(Concat(Concat(Concat(head, file), colon), number))
              = 8 + TextLen(file) + 1 + LineDigits(a.lineno)
    BY <2>4, <2>9, TextLenJoin
  <2> QED BY <1>1, <2>2, <2>6, <2>7, <2>10 DEF lazy
<1>8. CASE PlainCall(a)
  <2>1. lazy = LazyCategorised(Function(file, fn, a.lineno), "Function",
                               Borrowed(fn), file, a.lineno)
    BY <1>8, Zenon DEF categorise_lazy, PlainCall
  <2>2. lazy.fqn_spec = Borrowed(fn) /\ lazy.file = file
    BY <2>1 DEF LazyCategorised
  <2> QED BY <1>1, <1>3, <2>2
<1> QED BY <1>2, <1>4, <1>5, <1>6, <1>7, <1>8

\* The gate's projection is the bill, found or not.
LEMMA BilledAsProjected ==
    ASSUME NEW dictionary, DictionaryInv(dictionary), NEW site \in CallSites
    PROVE  WouldAdd(dictionary, Lazy(site))
             = push_dict_entry_via_intern_ref(dictionary, Lazy(site)).billed
               + CALL_RECORD_FIXED_BYTES
<1> DEFINE lazy == Lazy(site)
           pushed == push_dict_entry_via_intern_ref(dictionary, lazy)
           entry == DictEntry(dictionary.next_fn_id, lazy)
           interned == intern_ref(dictionary, lazy.key_ref, entry)
<1>1. pushed.billed = IF interned.dictionary = dictionary THEN 0
                      ELSE DICT_ENTRY_FIXED_BYTES + TextLen(entry.fqn) + TextLen(entry.file)
  BY DEF push_dict_entry_via_intern_ref
<1>2. CASE contains_key_ref(dictionary, lazy.key_ref)
  <2>1. interned.dictionary = dictionary
    BY <1>2 DEF intern_ref
  <2>2. WouldAdd(dictionary, lazy) = CALL_RECORD_FIXED_BYTES
    BY <1>2 DEF WouldAdd
  <2> QED BY <1>1, <2>1, <2>2 DEF CALL_RECORD_FIXED_BYTES
<1>3. CASE ~contains_key_ref(dictionary, lazy.key_ref)
  <2>1. interned.dictionary # dictionary
    <3>1. interned.dictionary.next_fn_id = dictionary.next_fn_id + 1
      BY <1>3 DEF intern_ref, Insert
    <3>2. dictionary.next_fn_id \in Nat
      BY AppendToSequence DEF DictionaryInv
    <3> QED BY <3>1, <3>2
  <2>2. entry.fqn = render(lazy.fqn_spec) /\ entry.file = lazy.file
    BY DEF DictEntry
  <2>3. /\ render_len(lazy.fqn_spec) = TextLen(render(lazy.fqn_spec))
        /\ render(lazy.fqn_spec) \in Seq(Parts) /\ lazy.file \in Seq(Parts)
    BY SitesAreReadable, RenderedLength DEF Lazy
  <2>4. TextLen(entry.fqn) \in Int /\ TextLen(entry.file) \in Int
    <3> HIDE DEF lazy, entry
    <3> QED BY <2>2, <2>3, TextLenIs, TotalIsInt
  <2>5. WouldAdd(dictionary, lazy)
          = CALL_RECORD_FIXED_BYTES + DICT_ENTRY_FIXED_BYTES
            + TextLen(entry.fqn) + TextLen(entry.file)
    BY <1>3, <2>2, <2>3, Zenon DEF WouldAdd
  <2> HIDE DEF pushed, entry, interned, lazy
  <2>6. pushed.billed = DICT_ENTRY_FIXED_BYTES + TextLen(entry.fqn) + TextLen(entry.file)
    BY <1>1, <2>1, Zenon
  <2>7. WouldAdd(dictionary, lazy) = pushed.billed + CALL_RECORD_FIXED_BYTES
    BY <2>4, <2>5, <2>6 DEF DICT_ENTRY_FIXED_BYTES, CALL_RECORD_FIXED_BYTES
  <2> QED BY <2>7 DEF pushed, lazy
<1> QED BY <1>2, <1>3

\* A begin that the gate accepts is billed, to the byte, what the gate
\* expected: render_len, made of the bits of an address and the decimal
\* logarithm of a line number, is the length of the text render writes, for
\* every address, line number and name.
THEOREM ProjectionCorrect == Spec => []ProjectionExact
<1>1. Init => ProjectionExact
  BY EmptyIsSequence DEF Init, ProjectionExact
<1>2. TraceInv /\ ProjectionExact /\ [Next]_vars => ProjectionExact'
  <2> SUFFICES ASSUME TraceInv, ProjectionExact, [Next]_vars PROVE ProjectionExact'
    OBVIOUS
  <2>1. ASSUME NEW execute_data \in CallSites, Call(execute_data) PROVE ProjectionExact'
    <3> DEFINE pushed == push_dict_entry_via_intern_ref(trace.dictionary, Lazy(execute_data))
               call0 == [site |-> execute_data, fn_id |-> pushed.fn_id,
                         projected |-> WouldAdd(trace.dictionary, Lazy(execute_data)),
                         billed |-> pushed.billed + CALL_RECORD_FIXED_BYTES]
    <3>1. calls' = Append(calls, call0) /\ trace # None
      BY <2>1 DEF Call, Lazy
    <3>2. DictionaryInv(trace.dictionary) /\ IsSequence(calls)
      BY <3>1 DEF TraceInv, GoodTrace
    <3>3. call0.projected = call0.billed
      <4>1. WouldAdd(trace.dictionary, Lazy(execute_data)) = pushed.billed + CALL_RECORD_FIXED_BYTES
        BY <3>2, BilledAsProjected
      <4> HIDE DEF pushed
      <4> QED BY <4>1
    <3> HIDE DEF call0
    <3>4. /\ DOMAIN calls = 1..Len(calls) /\ DOMAIN calls' = 1..(Len(calls) + 1)
          /\ Len(calls) \in Nat
          /\ \A i \in 1..Len(calls) : calls'[i] = calls[i]
          /\ calls'[Len(calls) + 1] = call0
      BY <3>1, <3>2, AppendToSequence
    <3>5. ASSUME NEW i \in DOMAIN calls' PROVE calls'[i].projected = calls'[i].billed
      <4>1. CASE i = Len(calls) + 1
        BY <3>3, <3>4, <4>1
      <4>2. CASE i \in 1..Len(calls)
        BY <3>4, <4>2 DEF ProjectionExact
      <4> QED BY <3>4, <4>1, <4>2
    <3> QED BY <3>5 DEF ProjectionExact
  <2>2. calls' \in {calls, <<>>} => ProjectionExact'
    BY EmptyIsSequence DEF ProjectionExact
  <2>3. CASE Startup \/ StartupPanics \/ Reload \/ MShutdown \/ RInit \/ RShutdown \/ UNCHANGED vars
    <3>1. calls' \in {calls, <<>>}
      BY <2>3 DEF Startup, StartupPanics, Reload, MShutdown, RInit, RShutdown, vars, request_vars
    <3> QED BY <2>2, <3>1
  <2> QED BY <2>1, <2>3 DEF Next
<1> QED BY <1>1, <1>2, AlwaysTraceInv, PTL DEF Spec

=============================================================================
