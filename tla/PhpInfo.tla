------------------------------ MODULE PhpInfo -------------------------------
(***************************************************************************)
(* The phpinfo() page of php-analyze (PhpInfoRenderer of bootstrap.rs): a  *)
(* row per directive, with what the process runs with.  A row's text is    *)
(* the value that Config.tla gives such a text in an ini file, or Unset    *)
(* and Redacted, the page's own words.                                     *)
(***************************************************************************)
EXTENDS Config

CONSTANTS Unset, Redacted   \* "(unset)", "***"

OnOff(flag) == IF flag THEN "on" ELSE "off"

\* Mutant: the switch row tells whether the extension runs.
EffectiveSwitch(config) == config.enabled

\* The row of the master switch tells the operator's intent.
MasterOn(config) == config.disable_reason # "MasterSwitchOff"

status_row(config) ==
    IF config.enabled THEN <<"enabled (true)">>
    ELSE <<"enabled (false", UnwrapOr(config.disable_reason, "unknown")>>

SkipRow(config) == IF config.skip_functions = {} THEN Empty ELSE config.skip_functions

push_directive_rows(config) ==
    [d \in Directives |->
        CASE d = "enabled"           -> OnOff(MasterOn(config))
          [] d = "server_url"        -> UnwrapOr(config.server_url, Unset)
          [] d = "auth_token"        -> Redacted
          [] d = "auth_token_file"   -> IF config.auth_token_source = "File" THEN "path" ELSE Unset
          [] d = "cpu_snapshot_mode" -> config.cpu_snapshot_mode
          [] d = "skip_functions"    -> SkipRow(config)
          [] d = "skip_internal"     -> OnOff(config.skip_internal)
          [] d \in Integral          -> config.limits[d]]

rows(config) ==
    IF config = None THEN [status |-> <<"MINIT has not run">>, directives |-> <<>>]
    ELSE [status |-> status_row(config), directives |-> push_directive_rows(config)]

=============================================================================
