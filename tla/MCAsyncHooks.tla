---------------------------- MODULE MCAsyncHooks ----------------------------
\* Instances of AsyncHooks for TLC: hooks are interchangeable.
EXTENDS AsyncHooks, TLC

HookSymmetry == Permutations(Hooks)
=============================================================================
