-------------------------- MODULE LifecycleMachine --------------------------
(***************************************************************************)
(* The lifecycle that `pipewisp --describe` publishes (describe.go,        *)
(* newDescription): the states a run passes through and the event that     *)
(* announces each transition.  It is the abstract specification that the   *)
(* stream modules implement: the events a run records, in the order it     *)
(* records them, are a path of this machine.                               *)
(***************************************************************************)
VARIABLES state,   \* the lifecycle state, "start" before the ready event
          event    \* the event that led to it

lifecycleVars == <<state, event>>

Transitions ==
  { [from |-> "ready",  event |-> "first-data", to |-> "active"],
    [from |-> "ready",  event |-> "shutdown",   to |-> "shutdown"],
    [from |-> "active", event |-> "idle",       to |-> "idle"],
    [from |-> "active", event |-> "shutdown",   to |-> "shutdown"],
    [from |-> "idle",   event |-> "resume",     to |-> "active"],
    [from |-> "idle",   event |-> "shutdown",   to |-> "shutdown"] }

\* InitialState and InitialEvent: the ready event opens the lifecycle.
InitialTransition == [from |-> "start", event |-> "ready", to |-> "ready"]

Take(t) ==
  /\ state = t.from
  /\ state' = t.to
  /\ event' = t.event

Init == state = "start" /\ event = "none"
Next == \E t \in Transitions \cup {InitialTransition} : Take(t)
Spec == Init /\ [][Next]_lifecycleVars
=============================================================================
