------------------------------- MODULE Config -------------------------------
(***************************************************************************)
(* The configuration of php-analyze (config.rs and the ini half of         *)
(* bootstrap.rs): from the strings of php.ini to the frozen Config, with   *)
(* the warnings to log on the way.  Pure definitions; Process.tla has the  *)
(* hooks that use them.                                                    *)
(*                                                                         *)
(* An ini file is a function from directive names to values.  A value (the *)
(* registered default where php.ini has none) keeps what the code tells    *)
(* apart: Empty for "" (or blanks), Junk for text the directive cannot     *)
(* parse, an integer, "on" and "off" for the textual booleans, the scheme  *)
(* for a URL, a set of names for a list.                                   *)
(***************************************************************************)
EXTENDS Integers, Sequences

CONSTANTS
    None,       \* Option::None
    Empty,      \* a directive left empty, or holding blanks only
    Junk,       \* a value that does not parse
    Lower,      \* to_ascii_lowercase on the words names are made of
    DEFAULT_SKIP_FUNCTIONS,
    MAX_BUFFER_CAP_BYTES,   \* 10_000_000_000, too large an integer for TLC
    MAX_I64                 \* i64::MAX, likewise

\* The upper end of RANGE_BUFFER_CAP_BYTES is above that of RANGE_FLUSH_BYTES
\* and above the default cap, and an i64 holds it; the curated list is in
\* lower case.
ASSUME RangeAssumption ==
    /\ MAX_BUFFER_CAP_BYTES \in Nat /\ MAX_BUFFER_CAP_BYTES >= 1000000000
    /\ MAX_I64 \in Nat /\ MAX_BUFFER_CAP_BYTES <= MAX_I64

LowerText(text) == [i \in DOMAIN text |-> Lower[text[i]]]

ASSUME CuratedAssumption ==
    \A name \in DEFAULT_SKIP_FUNCTIONS : LowerText(name) = name

DisableReasons ==
    {"MasterSwitchOff", "ServerUrlNotConfigured", "ServerUrlInvalid",
     "ServerUrlSchemeUnsupported", "TokenNotConfigured", "TokenFileUnreadable", "TokenFileEmpty"}
UrlSchemes == {"http", "https"}
TokenSources == {"File", "Inline"}
CpuSnapshotModes == {"per-call", "off"}

\* None is no reason and no value, and junk is no URL.
ASSUME OptionAssumption ==
    /\ None \notin DisableReasons \cup TokenSources \cup UrlSchemes \cup CpuSnapshotModes
    /\ Junk \notin UrlSchemes \cup {None}

-----------------------------------------------------------------------------
(* The numeric directives.                                                 *)

\* A directive's default, and what its value is clamped to.
DEFAULT ==
    [flush_records |-> 10000, flush_bytes |-> 1048576,
     buffer_cap_bytes |-> 67108864, max_depth |-> 1024, retry_count |-> 3,
     retry_backoff_ms |-> 100, http_timeout_ms |-> 2000,
     shutdown_grace_ms |-> 5000, shipper_queue_depth |-> 8]

RANGE ==
    [flush_records |-> <<1, 1000000000>>, flush_bytes |-> <<1024, 1000000000>>,
     buffer_cap_bytes |-> <<1024, MAX_BUFFER_CAP_BYTES>>,
     max_depth |-> <<1, 65535>>, retry_count |-> <<0, 10>>,
     retry_backoff_ms |-> <<1, 60000>>, http_timeout_ms |-> <<100, 60000>>,
     shutdown_grace_ms |-> <<0, 60000>>, shipper_queue_depth |-> <<1, 1024>>]

Integral == DOMAIN DEFAULT
Booleans == {"enabled", "skip_internal"}
Strings == {"server_url", "auth_token", "auth_token_file", "cpu_snapshot_mode", "skip_functions"}
Directives == Integral \cup Booleans \cup Strings

-----------------------------------------------------------------------------
(* raw_ini_from_ini_map: an empty directive is one that was not set.       *)

\* The textual forms PHP's own parser knows; anything else is not a Boolean.
parse_bool(s) == CASE s = "on"            -> TRUE
                   [] s \in {"off", Empty} -> FALSE
                   [] OTHER               -> None

lookup_str(s) == IF s = Empty THEN None ELSE s

\* What parse::<i64> reads: of the numbers, those that 64 bits hold.
IsI64(s) == s \in Int /\ -MAX_I64 - 1 <= s /\ s <= MAX_I64
lookup_int(s) == IF IsI64(s) THEN s ELSE None

lookup_bool(s) == IF lookup_str(s) = None THEN None ELSE parse_bool(s)

raw_ini_from_ini_map(ini) ==
    [d \in DOMAIN ini |-> CASE d \in Booleans -> lookup_bool(ini[d])
                            [] d \in Integral -> lookup_int(ini[d])
                            [] OTHER          -> lookup_str(ini[d])]

UnwrapOr(option, default) == IF option = None THEN default ELSE option

-----------------------------------------------------------------------------
(* from_ini_values, part by part.                                          *)

Larger(a, b) == IF a >= b THEN a ELSE b

Clamp(v, range) == IF v < range[1] THEN range[1]
                   ELSE IF v > range[2] THEN range[2] ELSE v

DirectiveValue(raw, d, default) == UnwrapOr(raw[d], default)

FlushBytes(raw) ==
    Clamp(DirectiveValue(raw, "flush_bytes", DEFAULT.flush_bytes), RANGE.flush_bytes)

\* Mutant: the cap is clamped on its own.
RangeOnItsOwn(raw, d) == RANGE[d]

\* The cap depends on flush_bytes as clamped: it is the cap's lower bound, and
\* raises its default.
DefaultOf(raw, d) == IF d = "buffer_cap_bytes"
                     THEN Larger(DEFAULT[d], FlushBytes(raw)) ELSE DEFAULT[d]
RangeOf(raw, d) == IF d = "buffer_cap_bytes"
                   THEN <<Larger(RANGE[d][1], FlushBytes(raw)), RANGE[d][2]>> ELSE RANGE[d]

Asked(raw, d) == DirectiveValue(raw, d, DefaultOf(raw, d))
Limits(raw) == [d \in Integral |-> Clamp(Asked(raw, d), RangeOf(raw, d))]

Warn(kind) == <<[kind |-> kind]>>

\* The warnings of the nine clamps, in the order from_ini_values makes them.
InOrder(warned) ==
    warned["flush_records"] \o warned["flush_bytes"] \o warned["buffer_cap_bytes"]
    \o warned["max_depth"] \o warned["retry_count"] \o warned["retry_backoff_ms"]
    \o warned["http_timeout_ms"] \o warned["shutdown_grace_ms"] \o warned["shipper_queue_depth"]

OutOfRange(d) == [kind |-> "OutOfRange", directive |-> d]

\* Mutant: a value is compared with the documented range.
WarningsOfDocumentedRange(raw) ==
    InOrder([d \in Integral |-> IF Clamp(Asked(raw, d), RANGE[d]) # Asked(raw, d)
                                THEN <<OutOfRange(d)>> ELSE <<>>])

RangeWarnings(raw) ==
    InOrder([d \in Integral |-> IF Limits(raw)[d] # Asked(raw, d)
                                THEN <<OutOfRange(d)>> ELSE <<>>])

\* resolve_server_url: only the scheme is looked at, and must be lower case.
resolve_server_url(raw) ==
    CASE raw.server_url = None ->
            [url |-> None, reason |-> "ServerUrlNotConfigured", warnings |-> Warn("MissingServerUrl")]
      [] raw.server_url = Junk ->
            [url |-> None, reason |-> "ServerUrlInvalid", warnings |-> Warn("InvalidUrl")]
      [] raw.server_url = "https" ->
            [url |-> "https", reason |-> None, warnings |-> <<>>]
      [] raw.server_url = "http" ->
            [url |-> "http", reason |-> None, warnings |-> Warn("HttpScheme")]
      [] OTHER ->
            [url |-> None, reason |-> "ServerUrlSchemeUnsupported", warnings |-> Warn("UnsupportedScheme")]

\* Mutant: a token file that does not help is passed over.
TokenFallsBack(raw, file) ==
    CASE raw.auth_token_file # None /\ file = "token" ->
            [source |-> "File", reason |-> None, warnings |-> <<>>]
      [] (raw.auth_token_file = None \/ file # "token") /\ raw.auth_token # None ->
            [source |-> "Inline", reason |-> None, warnings |-> <<>>]
      [] OTHER ->
            [source |-> None, reason |-> "TokenNotConfigured", warnings |-> Warn("MissingToken")]

\* resolve_token: a token file that is named decides, whatever it holds.  file
\* is what reading it gives: "unreadable", "blank" or "token".
resolve_token(raw, file) ==
    CASE raw.auth_token_file # None /\ file = "token" ->
            [source |-> "File", reason |-> None, warnings |-> <<>>]
      [] raw.auth_token_file # None /\ file = "blank" ->
            [source |-> None, reason |-> "TokenFileEmpty", warnings |-> Warn("EmptyTokenFile")]
      [] raw.auth_token_file # None /\ file = "unreadable" ->
            [source |-> None, reason |-> "TokenFileUnreadable", warnings |-> Warn("TokenFileUnreadable")]
      [] raw.auth_token_file = None /\ raw.auth_token # None ->
            [source |-> "Inline", reason |-> None, warnings |-> <<>>]
      [] OTHER ->
            [source |-> None, reason |-> "TokenNotConfigured", warnings |-> Warn("MissingToken")]

\* Mutant: the token is resolved, and complained about, without a URL too.
EndpointResolvesBoth(raw, file) ==
    LET url   == resolve_server_url(raw)
        token == resolve_token(raw, file)
    IN [url |-> url.url, source |-> token.source,
        reason |-> IF url.reason # None THEN url.reason ELSE token.reason,
        warnings |-> url.warnings \o token.warnings]

\* With no usable URL the token is not looked at.
Endpoint(raw, file) ==
    LET url   == resolve_server_url(raw)
        token == IF url.reason # None
                 THEN [source |-> None, reason |-> url.reason, warnings |-> <<>>]
                 ELSE resolve_token(raw, file)
    IN [url |-> url.url, source |-> token.source, reason |-> token.reason,
        warnings |-> url.warnings \o token.warnings]

cpu_snapshot_mode(raw) ==
    IF raw.cpu_snapshot_mode \in CpuSnapshotModes THEN raw.cpu_snapshot_mode ELSE "per-call"
CpuWarnings(raw) ==
    IF raw.cpu_snapshot_mode \in CpuSnapshotModes \cup {None}
    THEN <<>> ELSE Warn("UnknownCpuSnapshotMode")

\* parse_skip_functions: a list without entries means the curated one.
parse_skip_functions(raw) ==
    LET parsed == {LowerText(name) : name \in UnwrapOr(raw.skip_functions, {})}
    IN IF parsed = {} THEN DEFAULT_SKIP_FUNCTIONS ELSE parsed

\* Config::disabled
disabled(reason) ==
    [enabled |-> FALSE, disable_reason |-> reason, server_url |-> None,
     auth_token_source |-> None, limits |-> DEFAULT,
     cpu_snapshot_mode |-> "per-call", skip_functions |-> {}, skip_internal |-> FALSE]

MasterEnabled(raw) == UnwrapOr(raw.enabled, TRUE)

from_ini_values(raw, file) ==
    LET endpoint == Endpoint(raw, file)
    IN  IF ~MasterEnabled(raw)
        THEN [config |-> disabled("MasterSwitchOff"), warnings |-> <<>>]
        ELSE [config |->
                [enabled |-> endpoint.reason = None, disable_reason |-> endpoint.reason,
                 server_url |-> endpoint.url, auth_token_source |-> endpoint.source,
                 limits |-> Limits(raw), cpu_snapshot_mode |-> cpu_snapshot_mode(raw),
                 skip_functions |-> parse_skip_functions(raw),
                 skip_internal |-> UnwrapOr(raw.skip_internal, FALSE)],
              warnings |-> RangeWarnings(raw) \o endpoint.warnings \o CpuWarnings(raw)]

=============================================================================
