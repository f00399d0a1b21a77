----------------------------- MODULE MCIdleCopy -----------------------------
\* Instances of IdleCopy for TLC.
EXTENDS IdleCopy

MCProcs == {"main", "obs"}
MCHookNames == {"on-first-data", "on-idle", "on-resume"}

CommandLine(set) ==
  [hooks |-> set \cap MCHookNames, observe |-> "observe" \in set,
   ignore |-> "ignore" \in set, timeout |-> "timeout" \in set, dryRun |-> FALSE]

\* Every hook, with events recorded; observation alone.
HookConfigs == { CommandLine(MCHookNames \cup {"observe"}),
                 CommandLine({"observe"}) }
=============================================================================
