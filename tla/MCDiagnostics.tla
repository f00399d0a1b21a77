--------------------------- MODULE MCDiagnostics ----------------------------
\* Instances of Diagnostics for TLC.
EXTENDS Diagnostics

On(e, hook, output) == [event |-> e, hook |-> hook, output |-> output]

Overlap == << On("idle", "async", 0), On("resume", "async", 0),
              On("shutdown", "none", 0) >>
Mixed   == << On("idle", "async", 1), On("resume", "sync", 0),
              On("shutdown", "none", 0) >>
Alone   == << On("idle", "async", 1), On("shutdown", "none", 0) >>
Cleanup == << On("first-data", "sync", 2), On("shutdown", "sync", 1) >>

Verbose(file) == [verbose |-> TRUE, file |-> file, dryRun |-> FALSE]
Quiet         == [verbose |-> FALSE, file |-> TRUE, dryRun |-> FALSE]
Dry(verbose)  == [verbose |-> verbose, file |-> FALSE, dryRun |-> TRUE]

\* Hooks that overlap one another, one whose output a synchronous hook meets, and
\* synchronous hooks alone, on a terminal or a file and on another writer.
MCRuns ==
  { [script |-> Overlap, mode |-> Verbose(TRUE)],
    [script |-> Overlap, mode |-> Dry(TRUE)],
    [script |-> Mixed,   mode |-> Verbose(TRUE)],
    [script |-> Mixed,   mode |-> Verbose(FALSE)],
    [script |-> Alone,   mode |-> Quiet] }
    \cup { [script |-> Cleanup, mode |-> m] :
             m \in {Verbose(TRUE), Verbose(FALSE), Quiet, Dry(FALSE)} }
=============================================================================
