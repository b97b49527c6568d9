------------------------------ MODULE Process -------------------------------
(***************************************************************************)
(* A PHP process with php-analyze loaded, from MINIT to MSHUTDOWN: MINIT   *)
(* resolves the configuration of Config.tla once, builds the observer that *)
(* the requests' calls then reach and installs the shipper's channel       *)
(* (bootstrap.rs, config.rs, the dispatcher of recorder/observer.rs).      *)
(* What the recorder does with an observed call is in Recorder.tla; here   *)
(* only its function counts, see CallSite.tla and Dictionary.tla.          *)
(***************************************************************************)
EXTENDS Dictionary, PhpInfo, FiniteSets

CONSTANTS
    IniFiles,       \* the ini files PHP may start with
    ReloadedFiles,  \* those it may find when MINIT runs a second time
    CallSites,      \* the execute_data Zend can hand over for a call
    SapiStates,     \* what the SAPI knows of a request
    MaxStarts,      \* bound: runs of MINIT
    MaxCalls        \* bound: calls of one request

\* PHP's ini store has a value for every directive the module registers.
ASSUME IniAssumption ==
    \A file \in IniFiles \cup ReloadedFiles :
        Directives \subseteq DOMAIN file /\ \A d \in Directives : file[d] # None

\* A listed name and a called one are made of known words, a listed one, which
\* ext_php_rs hands over as a String, of words that are UTF-8.
ASSUME NameAssumption ==
    /\ \A file \in IniFiles \cup ReloadedFiles : file.skip_functions # Empty =>
          \A name \in file.skip_functions : \A i \in DOMAIN name :
              name[i] \in DOMAIN Lower /\ Lossy[name[i]] = name[i]
    /\ \A site \in CallSites :
          {site.function_name, site.scope} \subseteq DOMAIN Lower \cup {None}

\* Zend reports an address and a line number, and names of known words.
ASSUME SiteAssumption ==
    \A site \in CallSites :
        /\ site.addr \in Nat /\ site.line_start \in Nat
        /\ \A zs \in {site.function_name, site.scope, site.filename} \ {None} :
              Lossy[zs] \in DOMAIN Length

\* What the phpinfo page and php.ini write for a missing or a hidden value is
\* no value of its own: neither a limit, a word of the page, nor a skip list.
ASSUME PageAssumption ==
    LET words == UrlSchemes \cup CpuSnapshotModes \cup {"on", "off", "path", "t"}
    IN /\ Redacted \notin {Unset, Empty} /\ Empty # Junk
       /\ \A absent \in {None, Empty, Unset, Redacted} :
            /\ absent \notin Int \cup words
            /\ \A file \in IniFiles \cup ReloadedFiles :
                  parse_skip_functions(raw_ini_from_ini_map(file)) # absent
       /\ None \notin BOOLEAN

\* None is no channel, none of the words that stand in for a missing one, and
\* no configuration.
ASSUME NoneAssumption ==
    /\ None \notin Nat /\ None \notin {"(unknown-host)", "(unknown-uri)"}
    /\ None # disabled("MasterSwitchOff")

TokenFiles == {"token", "blank", "unreadable"}

\* A file that is not named is not read.
TokenFilesOf(file) == IF file.auth_token_file = Empty THEN {"unreadable"} ELSE TokenFiles

VARIABLES
    ini, token_file,    \* on disk: php.ini, what reading auth_token_file gives
    php_pc,             \* "stopped", "up", "request", "exited"
    CONFIG,             \* the OnceLock
    CACHED_CPU_SNAPSHOT_MODE,
    observer,           \* the BootObserver handed to Zend
    log,                \* what the last MINIT wrote to the error log
    SENDER_SLOT,        \* the channel (the number of the MINIT that made it) or None
    RECEIVER_SLOT,
    SHIPPER_SPAWNED, SHIPPER_SPAWN_FAILED,
    SHIPPER_HANDLE,     \* the channel the shipper thread reads, or None
    trace,              \* the thread-local slot: None, or a trace
    calls,              \* history: the recorded calls of the request
    starts,             \* history: runs of MINIT
    source,             \* history: the files that CONFIG was resolved from
    last_minit          \* history: "none", or whether it "set" CONFIG, "kept" it or "panicked"

disk_vars == <<ini, token_file>>
config_vars == <<CONFIG, CACHED_CPU_SNAPSHOT_MODE, source>>
request_vars == <<trace, calls>>
minit_vars == <<observer, log, starts, last_minit>>
shipper_vars == <<SENDER_SLOT, RECEIVER_SLOT, SHIPPER_SPAWNED, SHIPPER_SPAWN_FAILED, SHIPPER_HANDLE>>
vars == <<disk_vars, php_pc, config_vars, minit_vars, shipper_vars, request_vars>>

Init ==
    /\ ini \in IniFiles /\ token_file \in TokenFilesOf(ini)
    /\ php_pc = "stopped"
    /\ CONFIG = None /\ CACHED_CPU_SNAPSHOT_MODE = None /\ source = None
    /\ observer = None /\ log = <<>>
    /\ SENDER_SLOT = None /\ RECEIVER_SLOT = None /\ SHIPPER_HANDLE = None
    /\ SHIPPER_SPAWNED = FALSE /\ SHIPPER_SPAWN_FAILED = FALSE
    /\ trace = None /\ calls = <<>>
    /\ starts = 0 /\ last_minit = "none"

-----------------------------------------------------------------------------
(* MINIT.                                                                  *)

Resolved == from_ini_values(raw_ini_from_ini_map(ini), token_file)

\* Mutant: the last MINIT wins.
SetAlways ==
    /\ CONFIG' = Resolved.config
    /\ CACHED_CPU_SNAPSHOT_MODE' = Resolved.config.cpu_snapshot_mode
    /\ source' = [ini |-> ini, token_file |-> token_file]

\* initialise_from_ini: the first MINIT of the process wins, and only it
\* publishes the CPU mode.
SetConfig ==
    IF CONFIG = None
    THEN /\ CONFIG' = Resolved.config
         /\ CACHED_CPU_SNAPSHOT_MODE' = Resolved.config.cpu_snapshot_mode
         /\ source' = [ini |-> ini, token_file |-> token_file]
    ELSE UNCHANGED config_vars

Enabled(config) == config # None /\ config.enabled

build_boot_observer(config) == IF Enabled(config) THEN "Recorder" ELSE "Disabled"

MasterSwitchNotice(config) ==
    IF config # None /\ config.disable_reason = "MasterSwitchOff"
    THEN Warn("MasterSwitchNotice") ELSE <<>>

\* Mutant: every MINIT makes a channel.
InstallAgain(config) ==
    /\ SENDER_SLOT' = IF Enabled(config) THEN starts' ELSE SENDER_SLOT
    /\ RECEIVER_SLOT' = IF Enabled(config) THEN starts' ELSE RECEIVER_SLOT

\* install_shipper_if_enabled: the first channel stays.
InstallShipper(config) ==
    IF Enabled(config) /\ SENDER_SLOT = None
    THEN SENDER_SLOT' = starts' /\ RECEIVER_SLOT' = starts'
    ELSE UNCHANGED <<SENDER_SLOT, RECEIVER_SLOT>>

\* startup_body_inner, then the observer factory of get_module.
Startup ==
    /\ php_pc = "stopped"
    /\ SetConfig
    /\ log' = Resolved.warnings \o MasterSwitchNotice(CONFIG')
    /\ last_minit' = IF CONFIG = None THEN "set" ELSE "kept"
    /\ observer' = build_boot_observer(CONFIG')
    /\ php_pc' = "up" /\ starts' = starts + 1
    /\ InstallShipper(CONFIG')
    /\ UNCHANGED <<disk_vars, request_vars, SHIPPER_SPAWNED, SHIPPER_SPAWN_FAILED, SHIPPER_HANDLE>>

\* startup contains a panic and still reports success: the observer factory
\* runs on whatever CONFIG was left.
StartupPanics ==
    /\ php_pc = "stopped"
    /\ \/ UNCHANGED config_vars
       \/ SetConfig
    /\ log' = <<>> /\ last_minit' = "panicked"
    /\ observer' = build_boot_observer(CONFIG')
    /\ php_pc' = "up" /\ starts' = starts + 1
    /\ UNCHANGED <<disk_vars, request_vars, shipper_vars>>

\* PHP runs MINIT again in the same process; the files may have changed.
Reload ==
    /\ php_pc = "up" /\ starts < MaxStarts
    /\ php_pc' = "stopped"
    /\ ini' \in ReloadedFiles /\ token_file' \in TokenFilesOf(ini')
    /\ UNCHANGED <<config_vars, minit_vars, shipper_vars, request_vars>>

\* mshutdown_body: the join of the shipper thread is in Shipper.tla.
MShutdown ==
    /\ php_pc = "up" /\ php_pc' = "exited"
    /\ SENDER_SLOT' = IF Enabled(CONFIG) THEN None ELSE SENDER_SLOT
    /\ SHIPPER_HANDLE' = IF Enabled(CONFIG) /\ SENDER_SLOT # None THEN None ELSE SHIPPER_HANDLE
    /\ UNCHANGED <<disk_vars, config_vars, minit_vars, request_vars,
                   RECEIVER_SLOT, SHIPPER_SPAWNED, SHIPPER_SPAWN_FAILED>>

-----------------------------------------------------------------------------
(* Requests.                                                               *)

\* spawn_shipper_if_enabled; the operating system may refuse the thread.
SpawnShipper(config) ==
    IF Enabled(config) /\ ~SHIPPER_SPAWN_FAILED /\ ~SHIPPER_SPAWNED /\ RECEIVER_SLOT # None
    THEN /\ RECEIVER_SLOT' = None
         /\ \/ SHIPPER_SPAWNED' = TRUE /\ SHIPPER_HANDLE' = RECEIVER_SLOT
               /\ UNCHANGED <<SENDER_SLOT, SHIPPER_SPAWN_FAILED>>
            \/ SHIPPER_SPAWN_FAILED' = TRUE /\ SENDER_SLOT' = None
               /\ UNCHANGED <<SHIPPER_SPAWNED, SHIPPER_HANDLE>>
    ELSE UNCHANGED shipper_vars

\* The SAPI's strings, as ext_php_rs reads them: None for a null pointer.
resolve_uri_or_script(sapi) ==
    UnwrapOr(sapi.request_uri, UnwrapOr(sapi.argv0, UnwrapOr(sapi.path_translated, "(unknown-uri)")))

build_request_identity(sapi) ==
    [host |-> UnwrapOr(sapi.hostname, "(unknown-host)"), sapi |-> sapi.name,
     uri_or_script |-> resolve_uri_or_script(sapi)]

\* TraceLimits::from(&Config)
TraceLimits(config) ==
    [d \in {"max_depth", "buffer_cap_bytes", "flush_records", "flush_bytes"} |-> config.limits[d]]

\* Mutant: a trace is allocated as soon as there is a configuration.
AllocatesUnlessUnset(config) == config # None

\* rinit_body's early returns.
Allocates(config) == Enabled(config)

RInit ==
    /\ php_pc = "up" /\ php_pc' = "request"
    /\ SpawnShipper(CONFIG)
    /\ \E sapi \in SapiStates :
          trace' = IF Allocates(CONFIG)
                   THEN [identity |-> build_request_identity(sapi), limits |-> TraceLimits(CONFIG),
                         dictionary |-> NewDictionary]
                   ELSE None
    /\ calls' = <<>>
    /\ UNCHANGED <<disk_vars, config_vars, minit_vars>>

should_observe(execute_data) ==
    /\ observer = "Recorder"
    /\ CONFIG # None =>
          should_observe_filter(CONFIG.skip_internal, CONFIG.skip_functions, FcallInfo(execute_data))

\* begin_handler for a begin that passes the gates of Recorder.tla, up to the
\* dictionary: the function is known by the key of categorise_lazy, and
\* announced as it was when first seen.
Call(execute_data) ==
    LET lazy   == categorise_lazy(extract_call_site(execute_data))
        pushed == push_dict_entry_via_intern_ref(trace.dictionary, lazy)
    IN /\ php_pc = "request" /\ Len(calls) < MaxCalls
       /\ should_observe(execute_data) /\ trace # None
       /\ trace' = [trace EXCEPT !.dictionary = pushed.dictionary]
       /\ calls' = Append(calls, [site |-> execute_data, fn_id |-> pushed.fn_id,
                                  projected |-> WouldAdd(trace.dictionary, lazy),
                                  billed |-> pushed.billed + CALL_RECORD_FIXED_BYTES])
       /\ UNCHANGED <<disk_vars, php_pc, config_vars, minit_vars, shipper_vars>>

RShutdown ==
    /\ php_pc = "request" /\ php_pc' = "up"
    /\ trace' = None /\ calls' = <<>>
    /\ UNCHANGED <<disk_vars, config_vars, minit_vars, shipper_vars>>

Next ==
    \/ Startup \/ StartupPanics \/ Reload \/ MShutdown
    \/ RInit \/ RShutdown
    \/ \E execute_data \in CallSites : Call(execute_data)

Spec == Init /\ [][Next]_vars

-----------------------------------------------------------------------------
(* Properties.                                                             *)

\* A trace exists in requests of an enabled extension only, and the observer
\* Zend holds is the one the stored configuration asks for (R-10: a disabled
\* extension does nothing at all).
TypeOK ==
    /\ php_pc \in {"stopped", "up", "request", "exited"}
    /\ trace # None => php_pc = "request" /\ Enabled(CONFIG)
    /\ observer \in {None, build_boot_observer(CONFIG)}
    /\ trace # None =>
          /\ trace.identity.host # None /\ trace.identity.uri_or_script # None
          /\ trace.dictionary.next_fn_id = Len(trace.dictionary.new_entries) + 1
    /\ \A i \in DOMAIN calls : calls[i].fn_id \in DOMAIN trace.dictionary.new_entries

\* Whatever the ini file says, a configuration that MINIT stores has every
\* limit in the range the other modules assume of their constants, a buffer
\* that can hold what a flush waits for, and, if it is enabled, the URL that
\* RINIT unwraps with expect.
ConfigWellFormed ==
    CONFIG # None =>
        /\ \A d \in Integral : CONFIG.limits[d] \in RANGE[d][1]..RANGE[d][2]
        /\ CONFIG.limits.flush_bytes <= CONFIG.limits.buffer_cap_bytes
        /\ CONFIG.enabled => CONFIG.server_url # None /\ CONFIG.auth_token_source # None

\* NFR-USE-2, "exactly one disable-summary warning": an extension that comes
\* up disabled says why in one line of the log, one that is enabled says
\* nothing of the kind, and one that was switched off says nothing else.
DisablingKinds == {"MissingServerUrl", "InvalidUrl", "UnsupportedScheme", "MissingToken",
                   "TokenFileUnreadable", "EmptyTokenFile", "MasterSwitchNotice"}
OneReasonLogged ==
    last_minit = "set" =>
        /\ Cardinality({i \in DOMAIN log : log[i].kind \in DisablingKinds})
                = IF CONFIG.enabled THEN 0 ELSE 1
        /\ CONFIG.disable_reason = "MasterSwitchOff" => Len(log) = 1

\* AC-CF-3: a token file that is set decides; the inline token is never used
\* in its place, and no request is posted with a token nobody could read.
TokenFileDecides ==
    CONFIG # None /\ source.ini.auth_token_file # Empty =>
        /\ CONFIG.auth_token_source # "Inline"
        /\ CONFIG.enabled => source.token_file = "token"

\* The recorder's hot path reads the mode from a cache that is published
\* beside the OnceLock; the two never disagree, however often MINIT runs.
current_cpu_snapshot_mode ==
    IF CACHED_CPU_SNAPSHOT_MODE \in CpuSnapshotModes THEN CACHED_CPU_SNAPSHOT_MODE
    ELSE IF CONFIG = None THEN "per-call" ELSE CONFIG.cpu_snapshot_mode
CpuModeAgrees ==
    CONFIG # None => current_cpu_snapshot_mode = CONFIG.cpu_snapshot_mode

\* What MINIT stored is fit for use, and so is its copy.
ConfigConsistent == ConfigWellFormed /\ CpuModeAgrees

\* PHP keeps the first answer of should_observe for every function: once the
\* configuration is there, the answer may not change any more, whatever a
\* later MINIT finds on disk.
FilterIsStatic ==
    [][CONFIG # None =>
         \A execute_data \in CallSites :
             should_observe(execute_data)' = should_observe(execute_data)]_vars

\* The operator's skip list is honoured however the code spells the name: no
\* recorded call is of a listed function, nor of an internal one under
\* skip_internal.
FullName(site) ==
    IF site.scope = None THEN <<site.function_name>>
    ELSE <<site.scope, "::", site.function_name>>
SkippedNeverRecorded ==
    \A i \in DOMAIN calls :
        LET site == calls[i].site IN
        /\ CONFIG.skip_internal => site.func # "internal"
        /\ site.func # "null" /\ site.function_name # None /\ source.ini.skip_functions # Empty =>
              \A name \in source.ini.skip_functions : LowerText(name) # LowerText(FullName(site))

\* categorise_lazy keeps the "identity rules identical to categorise", so that
\* "the dictionary stays single-rooted across both entry points": a named
\* function has one entry in the trace's dictionary, which the owning key of
\* categorise finds too, under the name and of the kind categorise gives.
NamedSitesKeepIdentity ==
    \A i \in DOMAIN calls :
        LET info  == extract_call_site(calls[i].site)
            eager == categorise(info)
            entry == trace.dictionary.new_entries[calls[i].fn_id]
        IN info.function_name # None =>
              /\ intern(trace.dictionary, eager.key, [fn_id |-> trace.dictionary.next_fn_id]).fn_id
                    = calls[i].fn_id
              /\ entry.fqn = eager.fqn /\ entry.kind = eager.kind

\* SPECIFICATION.md 4.1.2 on "the identity of a PHP function for interning
\* purposes. For user functions: (file_path, function_name, line). For methods:
\* (class_name, method_name). For closures: [...] declaring (file, line) [...].
\* For internal functions: the function name only."
ClosureSite(site) ==
    /\ site.func # "internal"
    /\ site.function_name \in ClosureNames \cup {None}
DocumentedKey(site) ==
    CASE site.func = "internal" -> <<"internal", site.function_name>>
      [] ClosureSite(site)      -> <<"closure", site.filename, site.line_start>>
      [] site.func # "internal" /\ ~ClosureSite(site) /\ site.scope # None ->
            <<"method", site.scope, site.function_name>>
      [] OTHER -> <<"function", site.filename, site.function_name, site.line_start>>

\* The call sites it says all about: Zend has a name for the function, or a
\* file for a nameless closure, and what it has is UTF-8.  The closures of a
\* class are left out: categorise_lazy takes them for one method.
HasDocumentedKey(site) ==
    /\ site.func # "null"
    /\ \A zs \in {site.function_name, site.scope, site.filename} \ {None} : Lossy[zs] = zs
    /\ site.func = "internal" => site.function_name # None
    /\ ClosureSite(site) => site.scope = None /\ site.filename # None

\* Such calls have one fn_id exactly if they are of one function: through
\* extract_call_site, the key of categorise_lazy, its hash and matches_ref, no
\* function gets a second entry, and no two are counted as one.
IdentityExact ==
    \A i, j \in {k \in DOMAIN calls : HasDocumentedKey(calls[k].site)} :
        calls[i].fn_id = calls[j].fn_id
            <=> DocumentedKey(calls[i].site) = DocumentedKey(calls[j].site)

\* "so two anonymous internals don't collide [...] so distinct call sites stay
\* distinct" (observer.rs, categorise_lazy).  False: the address is cut to the
\* 32 bits of a line number.
AnonymousInternalsApart ==
    \A i, j \in {k \in DOMAIN calls : /\ calls[k].site.func = "internal"
                                      /\ calls[k].site.function_name = None} :
        calls[i].fn_id = calls[j].fn_id => calls[i].site.addr = calls[j].site.addr

\* The cap gate's projection, made without interning or rendering, is what an
\* accepted begin and its record are billed, to the byte.
ProjectionExact == \A i \in DOMAIN calls : calls[i].projected = calls[i].billed

\* A limit an operator writes is the limit the process runs with, or a line of
\* the log names the directive.  Two things mean the default, without a word:
\* text that is not a number, and a number that no i64 holds.
NoSilentLimit ==
    last_minit = "set" /\ CONFIG.disable_reason # "MasterSwitchOff" =>
        \A d \in Integral :
            IF IsI64(source.ini[d])
            THEN \/ CONFIG.limits[d] = source.ini[d]
                 \/ \E i \in DOMAIN log : log[i] = OutOfRange(d)
            ELSE CONFIG.limits[d] = DefaultOf(raw_ini_from_ini_map(source.ini), d)

\* The phpinfo page tells all there is to tell: a php.ini written from its rows
\* (any token for the redacted one) gives a process of the same limits and
\* filters, with nothing to clamp; of the same configuration altogether, if the
\* extension is enabled or switched off.
ReadBack(directives) ==
    [d \in Directives |-> CASE directives[d] = Unset    -> Empty
                            [] directives[d] = Redacted -> "t"
                            [] OTHER                    -> directives[d]]
InfoReadsBack ==
    CONFIG # None =>
        LET again == from_ini_values(
                        raw_ini_from_ini_map(ReadBack(rows(CONFIG).directives)), "token")
        IN /\ \A field \in {"limits", "cpu_snapshot_mode", "skip_functions", "skip_internal"} :
                 again.config[field] = CONFIG[field]
           /\ CONFIG.enabled \/ CONFIG.disable_reason = "MasterSwitchOff" => again.config = CONFIG
           /\ \A i \in DOMAIN again.warnings : again.warnings[i].kind # "OutOfRange"

\* MINIT twice "does not orphan a receiver": what a request records goes into
\* the channel that the shipper thread reads, unless the thread could not be
\* spawned or MINIT panicked before it made one.
BatchesReachTheShipper ==
    trace # None =>
        \/ SENDER_SLOT # None /\ SENDER_SLOT = SHIPPER_HANDLE
        \/ SHIPPER_SPAWN_FAILED
        \/ last_minit = "panicked" /\ SENDER_SLOT = None

=============================================================================
