-------------------------- MODULE MCHookExecution ---------------------------
\* Instances of HookExecution for TLC.
EXTENDS HookExecution

MCProcs == {"caller", "other"}
MCHooks == {"hook"}
=============================================================================
