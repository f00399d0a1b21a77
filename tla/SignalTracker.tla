--------------------------- MODULE SignalTracker ----------------------------
(***************************************************************************)
(* signalTracker (completion.go): the one-slot channel os/signal delivers  *)
(* handled signals to, and the state every goroutine of a run shares about *)
(* them.  A goroutine takes a signal out of the channel and records it in  *)
(* two separate steps, so another goroutine can act in between.            *)
(*                                                                         *)
(* A signal is named by its place in the order of delivery: 1 is the first *)
(* signal the program was sent, 0 stands for "no signal".                  *)
(***************************************************************************)
EXTENDS Integers

CONSTANTS Procs,       \* the goroutines that receive from the channel
          MaxSignals   \* bound: signals delivered to one run

ASSUME MaxSignalsAssumption == MaxSignals \in Nat

VARIABLES sent,     \* how many signals have been delivered so far
          chan,     \* the channel's slot, 0 when it is empty
          inHand,   \* per goroutine: received but not yet remembered
          first,    \* tracker.first
          gen       \* tracker.generation

signalVars == <<sent, chan, inHand, first, gen>>

Signals == 0..MaxSignals

SignalTypeOK ==
  /\ sent \in Signals
  /\ chan \in Signals
  /\ inHand \in [Procs -> Signals]
  /\ first \in Signals
  /\ gen \in Nat

SignalInit ==
  /\ sent = 0
  /\ chan = 0
  /\ inHand = [g \in Procs |-> 0]
  /\ first = 0
  /\ gen = 0

\* A handled signal arrives.  os/signal never blocks: it drops the signal when
\* the slot is taken.  (MaxSignals bounds the environment.)
Deliver ==
  /\ sent < MaxSignals
  /\ sent' = sent + 1
  /\ chan' = IF chan = 0 THEN sent + 1 ELSE chan
  /\ UNCHANGED <<inHand, first, gen>>

\* `sig := <-tracker.signals`
Receive(g) ==
  /\ inHand[g] = 0
  /\ chan # 0
  /\ inHand' = [inHand EXCEPT ![g] = chan]
  /\ chan' = 0
  /\ UNCHANGED <<sent, first, gen>>

\* tracker.remember(sig), one critical section.
Remember(g) ==
  /\ inHand[g] # 0
  /\ first' = IF first = 0 THEN inHand[g] ELSE first
  /\ gen' = gen + 1
  /\ inHand' = [inHand EXCEPT ![g] = 0]
  /\ UNCHANGED <<sent, chan>>

\* One turn of poll's loop: a signal is received, then remembered.
PollStep(g) == Receive(g) \/ Remember(g)

\* Fault: poll is not called, or takes nothing.
NotDrained(g) == inHand[g] = 0

\* poll's default branch is taken: this goroutine has nothing left to record
\* and the channel is empty.  poll then returns `first`; reading it in the same
\* step loses nothing, because a signal delivered between the two can as well
\* have been delivered after them.
Drained(g) == chan = 0 /\ inHand[g] = 0

\* beginHookObservation and generationChanged: has any goroutine remembered a
\* signal since the generation `g0` was read?
NotNotified(g0) == FALSE       \* fault: other goroutines are not told
GenerationChanged(g0) == gen # g0
=============================================================================
