--------------------------- MODULE MCPassthrough ----------------------------
\* Instances of Passthrough for TLC.
EXTENDS Passthrough

MCProcs == {"main", "copy"}
MCHookNames == {"on-ready", "on-first-data", "on-shutdown"}

\* A command line is the set of its options.
CommandLine(set) ==
  [hooks |-> set \cap MCHookNames, observe |-> "observe" \in set,
   ignore |-> "ignore" \in set,     timeout |-> "timeout" \in set,
   dryRun |-> "dry-run" \in set]

\* Signals against a first-data hook and a shutdown hook.
HookConfigs == { CommandLine({"on-first-data", "on-shutdown"}),
                 CommandLine({"on-first-data", "on-shutdown", "observe", "timeout"}),
                 CommandLine({"observe"}),
                 CommandLine({}) }

\* The error policy: every hook, with and without --ignore-hook-errors, and a
\* dry run.  --hook-timeout only adds steps to a run.
PolicyConfigs ==
  { CommandLine(MCHookNames \cup s \cup {"timeout"}) : s \in SUBSET {"ignore"} }
    \cup { CommandLine(MCHookNames \cup {"dry-run"}) }

AllConfigs == (HookConfigs \cup PolicyConfigs) \ { CommandLine({"on-first-data", "on-shutdown"}) }

\* Command lines whose copy goroutine runs no hook: only main takes signals.
MainOnlyConfigs ==
  { CommandLine(s) : s \in SUBSET {"on-ready", "on-shutdown", "observe"} }

LiveConfigs == HookConfigs \cup MainOnlyConfigs

\* A first-data hook alone.
FirstDataConfigs == { CommandLine({"on-first-data"}) }
=============================================================================
