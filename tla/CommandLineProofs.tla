------------------------- MODULE CommandLineProofs --------------------------
(***************************************************************************)
(* Theorems about CommandLine, for argument lists of any length over any   *)
(* arguments: the parser accepts exactly what the published metadata       *)
(* allows, takes no option for a value, and no value for an option.        *)
(*                                                                         *)
(* The metadata says nothing of an order: a list is valid if some of its   *)
(* places can be taken as values.  The invariant compares the loop with    *)
(* such a set of places, in both directions: the places the loop has taken *)
(* are one (SoundInv), and the loop does not fail on any (CompleteInv).    *)
(***************************************************************************)
EXTENDS CommandLine, TLAPS

-----------------------------------------------------------------------------
(* The inductive invariant.                                                *)

\* The places before the loop's that are not values, and the names there.
Heads(at) == (1 .. place - 1) \ at
Names(S) == {args[i].name : i \in S}

\* A value the parser lets pass: a duration that is not positive is refused after
\* the loop.
Allowed(o, v, z) ==
  InDomain(o, v) \/ (o \in Durations /\ ~v.blank /\ v.duration = "other" /\ o \in z)

\* The loop has read what is before its place with the arguments at `at` as values.
ReadSo(at) ==
  /\ \A i \in at : i - 1 \in Heads(at) /\ args[i].form # "equals"
  /\ \A i \in Heads(at) :
       /\ args[i].name \in Options
       /\ args[i].form = "equals" =>
            args[i].name \in Valued /\ Allowed(args[i].name, args[i].value, zero)
       /\ i + 1 \in at <=> (args[i].form = "option" /\ args[i].name \in Valued)
       /\ i + 1 \in at =>
            /\ Allowed(args[i].name, args[i + 1].value, zero)
            /\ args[i].name \in Commands \cup {"--name"} => args[i + 1].value.dash = 0
       /\ args[i].name \in Exclusive => Len(args) = 1
  /\ \A i, j \in Heads(at) : args[i].name = args[j].name => i = j
  /\ seen = Names(Heads(at))
  /\ \A o \in seen : Rivals(o) \cap seen = {}

SoundInv == error = NoError => \E at \in SUBSET (1 .. place - 1) : ReadSo(at)

\* What the loop knows of a valid list.
Follows(at) ==
  /\ error = NoError /\ place \notin at
  /\ seen = Names(Heads(at)) /\ zero = {}

CompleteInv ==
  \A at \in SUBSET DOMAIN args : Reads(args, at) => Follows(at)

\* What has been returned, and what Run makes of it.
ReturnInv ==
  /\ returned /\ error = NoError => place = Len(args) + 1 /\ Problem = NoError
  /\ ~returned => error = NoError
  /\ status # "none" => returned /\ status = Status(fd, written)

IInv == TypeOK /\ SoundInv /\ CompleteInv /\ ReturnInv

-----------------------------------------------------------------------------
(* Arguments and options. *)

\* The options are told apart.
LEMMA OptionSets ==
  /\ Options = Exclusive \cup Flags \cup Valued
  /\ Exclusive \cap Flags = {} /\ Exclusive \cap Valued = {} /\ Flags \cap Valued = {}
  /\ Valued = Commands \cup Durations \cup {"--name", "--events-fd"}
  /\ Commands \cap Durations = {}
  /\ {"--name", "--events-fd"} \cap (Commands \cup Durations) = {}
  /\ "none" \notin Options
BY DEF Options, Exclusive, Flags, Valued, Commands, Durations

\* What the arguments of a list are.
LEMMA ArgumentFacts ==
  ASSUME TypeOK, NEW i \in 1 .. Len(args)
  PROVE  /\ args[i].form \in {"option", "equals", "value"}
         /\ args[i].name \in Options \cup {"none"} /\ args[i].value \in Value
         /\ args[i].form = "value" <=> args[i].name = "none"
         /\ args[i].form = "option" => /\ args[i].value.dash > 0
                                       /\ args[i].value.duration = "invalid"
                                       /\ args[i].value.fd = "invalid"
         /\ args[i].form = "value" /\ args[i].value.dash = 2 =>
              args[i].value.duration = "invalid" /\ args[i].value.fd = "invalid"
<1>1. args[i] \in Arguments
  <2>1. args \in Seq(Arguments)
    BY DEF TypeOK
  <2> QED BY <2>1
<1> QED BY <1>1, ArgumentsAssumption DEF Argument

\* Two options are rivals of each other.
LEMMA RivalsAreMutual ==
  \A o, p : o \in Rivals(p) => p \in Rivals(o) /\ o # p
BY DEF Rivals

\* The rivals are the conflicts of the metadata, but for the options that come alone.
LEMMA RivalsConflict ==
  /\ \A o \in Options \ Exclusive : Conflicts(o) = Rivals(o)
  /\ \A o \in Exclusive : Conflicts(o) = Options \ {o} /\ Rivals(o) = {}
BY DEF Rivals, Conflicts, Options, Exclusive, Flags, Valued, Commands, Durations

\* An error is an error.
LEMMA ErrorsDiffer ==
  ASSUME NEW what, NEW o, what # "none" PROVE <<what, o>> # NoError
BY DEF NoError

\* The errors of a value.
LEMMA ValueErrors ==
  ASSUME NEW o \in Valued, NEW v \in Value
  PROVE  /\ ValueError(o, v) \in {"none", "invalid", "low", "empty"}
         /\ ValueError(o, v) = "none" <=>
              InDomain(o, v) \/ (o \in Durations /\ ~v.blank /\ v.duration = "other")
         /\ InDomain(o, v) => ~(o \in Durations /\ v.duration = "other")
<1>1. CASE o = "--name"
  BY <1>1, OptionSets DEF ValueError, InDomain, Value
<1>2. CASE o = "--events-fd"
  BY <1>2, OptionSets DEF ValueError, InDomain, Value
<1>3. CASE o \in Commands
  BY <1>3, OptionSets DEF ValueError, InDomain, Value
<1>4. CASE o \in Durations
  BY <1>4, OptionSets DEF ValueError, InDomain, Value
<1> QED BY <1>1, <1>2, <1>3, <1>4, OptionSets

\* What is checked before the value.
LEMMA Clashes ==
  ASSUME NEW o
  PROVE  /\ Clash(o) \in {"none", "exclusive", "duplicate"}
         /\ Clash(o) = "none" <=> Rivals(o) \cap seen = {} /\ o \notin seen
BY DEF Clash

\* The problem found after the loop.
LEMMA Problems ==
  /\ Problem = NoError <=>
       /\ {"--idle", "--hook-timeout"} \cap zero = {}
       /\ "--idle" \in seen \/ Used = {}
       /\ "--idle" \in seen => Used # {} \/ seen \cap {"--verbose", "--events-fd"} # {}
  /\ Used # {} <=> \E o \in {"--on-idle", "--on-idle.async", "--on-resume",
                             "--on-resume.async"} : o \in seen
  /\ Problem \in {NoError} \cup (Errors \X Options)
<1>1. /\ DOMAIN IdleHooks = 1 .. 4
      /\ IdleHooks[1] = "--on-idle" /\ IdleHooks[2] = "--on-idle.async"
      /\ IdleHooks[3] = "--on-resume" /\ IdleHooks[4] = "--on-resume.async"
  BY DEF IdleHooks
<1>2. /\ Used \subseteq 1 .. 4
      /\ 1 \in Used <=> "--on-idle" \in seen
      /\ 2 \in Used <=> "--on-idle.async" \in seen
      /\ 3 \in Used <=> "--on-resume" \in seen
      /\ 4 \in Used <=> "--on-resume.async" \in seen
  BY <1>1 DEF Used
<1>3. /\ \A i \in Used : i \in {1, 2, 3, 4}
      /\ \A i \in Used : IdleHooks[i] \in Options
  <2>1. \A i \in Used : i \in {1, 2, 3, 4}
    BY <1>2
  <2>2. \A i \in {1, 2, 3, 4} : IdleHooks[i] \in Options
    BY <1>1 DEF Options, Valued, Commands
  <2> QED BY <2>1, <2>2
<1>4. ASSUME Used # {} PROVE Min(Used) \in Used
  <2>1. \E x \in Used : \A y \in Used : x <= y
    <3>1. CASE 1 \in Used
      BY <1>3, <3>1
    <3>2. CASE 1 \notin Used /\ 2 \in Used
      BY <1>3, <3>2
    <3>3. CASE 1 \notin Used /\ 2 \notin Used /\ 3 \in Used
      BY <1>3, <3>3
    <3>4. CASE 1 \notin Used /\ 2 \notin Used /\ 3 \notin Used
      BY <1>3, <1>4, <3>4
    <3> QED BY <3>1, <3>2, <3>3, <3>4
  <2> QED BY <2>1 DEF Min
<1>5. Used # {} => IdleHooks[Min(Used)] \in Options
  BY <1>3, <1>4
<1>6. Problem \in {NoError} \cup (Errors \X Options)
  <2>1. "zero" \in Errors /\ "requires" \in Errors
    BY DEF Errors
  <2>2. "--idle" \in Options /\ "--hook-timeout" \in Options
    BY DEF Options, Valued, Durations
  <2> QED BY <1>5, <2>1, <2>2 DEF Problem
<1>7. Used # {} <=> \E o \in {"--on-idle", "--on-idle.async", "--on-resume",
                             "--on-resume.async"} : o \in seen
  BY <1>2, <1>3
<1>8. \A o : <<"zero", o>> # NoError /\ <<"requires", o>> # NoError
  BY ErrorsDiffer
<1>9. Problem = NoError <=>
        /\ {"--idle", "--hook-timeout"} \cap zero = {}
        /\ "--idle" \in seen \/ Used = {}
        /\ "--idle" \in seen => Used # {} \/ seen \cap {"--verbose", "--events-fd"} # {}
  BY <1>8 DEF Problem
<1> QED BY <1>6, <1>7, <1>9

-----------------------------------------------------------------------------
(* The loop reads on.                                                      *)

\* The loop's place in the list.
LEMMA Places ==
  ASSUME TypeOK
  PROVE  /\ Len(args) \in Nat /\ DOMAIN args = 1 .. Len(args) /\ args \in Seq(Arguments)
         /\ place \in Nat /\ place - 1 \in Nat /\ place >= 1 /\ place <= Len(args) + 1
         /\ seen \subseteq Options /\ zero \subseteq seen /\ zero \subseteq Durations
<1>1. args \in Seq(Arguments) /\ place \in 1 .. Len(args) + 1
  BY DEF TypeOK
<1>2. seen \subseteq Options /\ zero \subseteq seen \cap Durations
  BY DEF TypeOK
<1>3. Len(args) \in Nat /\ DOMAIN args = 1 .. Len(args)
  BY <1>1
<1> QED BY <1>1, <1>2, <1>3

\* An option whose value, if it takes one, has been read: the places read so far
\* are still a reading.
LEMMA ReadOn ==
  ASSUME TypeOK, place <= Len(args), NEW at \in SUBSET (1 .. place - 1), ReadSo(at),
         Option \in Options \ Exclusive, Clash(Option) = "none",
         args' = args, seen' = seen \cup {Option}, zero \subseteq zero',
         args[place].form \in {"option", "equals"},
         args[place].form = "equals" => Option \in Valued /\ Allowed(Option, Given, zero'),
         \/ place' = place + 1 /\ ~(args[place].form = "option" /\ Option \in Valued)
         \/ /\ place' = place + 2 /\ args[place].form = "option" /\ Option \in Valued
            /\ args[place + 1].form # "equals"
            /\ Allowed(Option, args[place + 1].value, zero')
            /\ Option \in Commands \cup {"--name"} => args[place + 1].value.dash = 0
  PROVE  (\E t \in SUBSET (1 .. place - 1) : ReadSo(t))'
<1>1. /\ place \in Nat /\ place > 0 /\ place' \in Nat
      /\ place' = place + 1 \/ place' = place + 2
      /\ place' = place + 1 <=> ~(args[place].form = "option" /\ Option \in Valued)
  <2>1. place \in Nat /\ place > 0
    BY Places
  <2>2. place + 1 # place + 2
    BY <2>1
  <2> QED BY <2>1, <2>2
<1>2. PICK new : new = IF place' = place + 1 THEN at ELSE at \cup {place + 1}
  OBVIOUS
<1>3. /\ new \in SUBSET (1 .. place' - 1)
      /\ (1 .. place' - 1) \ new = Heads(at) \cup {place}
      /\ place + 1 \in new <=> (args[place].form = "option" /\ Option \in Valued)
      /\ \A i \in Heads(at) : i + 1 \in new <=> i + 1 \in at
      /\ place \notin Heads(at) /\ at \subseteq new
      /\ \A i \in new : i \in at \/ (i = place + 1 /\ place' = place + 2)
  <2>1. /\ at \subseteq 1 .. place - 1 /\ place \notin at /\ place + 1 \notin at
        /\ place \notin Heads(at)
    BY <1>1 DEF Heads
  <2>2. CASE place' = place + 1
    <3>1. new = at /\ 1 .. place' - 1 = (1 .. place - 1) \cup {place}
      BY <1>1, <1>2, <2>2
    <3> QED BY <1>1, <2>1, <2>2, <3>1 DEF Heads
  <2>3. CASE place' = place + 2
    <3>1. /\ new = at \cup {place + 1}
          /\ 1 .. place' - 1 = (1 .. place - 1) \cup {place, place + 1}
          /\ place' # place + 1
      BY <1>1, <1>2, <2>3
    <3>2. \A i \in Heads(at) : i + 1 # place + 1
      BY <1>1 DEF Heads
    <3>3. (1 .. place' - 1) \ new = Heads(at) \cup {place}
      <4>1. place + 1 \notin 1 .. place - 1 /\ place # place + 1
        BY <1>1
      <4> QED BY <2>1, <3>1, <4>1 DEF Heads
    <3>4. new \in SUBSET (1 .. place' - 1)
      BY <2>1, <3>1
    <3> QED BY <1>1, <2>1, <2>3, <3>1, <3>2, <3>3, <3>4
  <2> QED BY <1>1, <2>2, <2>3
<1>4. Heads(new)' = Heads(at) \cup {place}
  BY <1>3 DEF Heads
<1>5. \A o, v : Allowed(o, v, zero) => Allowed(o, v, zero')
  BY DEF Allowed
<1>6. \A i \in new : i - 1 \in Heads(at) \cup {place} /\ args[i].form # "equals"
  <2>1. \A i \in at : i - 1 \in Heads(at) /\ args[i].form # "equals"
    BY DEF ReadSo
  <2>2. place' = place + 2 => args[place + 1].form # "equals" /\ (place + 1) - 1 = place
    BY <1>1
  <2> QED BY <1>3, <2>1, <2>2
<1>7. ASSUME NEW i \in Heads(at) \cup {place}
      PROVE  /\ args[i].name \in Options
             /\ args[i].form = "equals" =>
                  args[i].name \in Valued /\ Allowed(args[i].name, args[i].value, zero')
             /\ i + 1 \in new <=> (args[i].form = "option" /\ args[i].name \in Valued)
             /\ i + 1 \in new =>
                  /\ Allowed(args[i].name, args[i + 1].value, zero')
                  /\ args[i].name \in Commands \cup {"--name"} => args[i + 1].value.dash = 0
             /\ args[i].name \in Exclusive => Len(args) = 1
  <2>1. CASE i \in Heads(at)
    <3>1. /\ args[i].name \in Options
          /\ args[i].form = "equals" =>
               args[i].name \in Valued /\ Allowed(args[i].name, args[i].value, zero)
          /\ i + 1 \in at <=> (args[i].form = "option" /\ args[i].name \in Valued)
          /\ i + 1 \in at =>
               /\ Allowed(args[i].name, args[i + 1].value, zero)
               /\ args[i].name \in Commands \cup {"--name"} => args[i + 1].value.dash = 0
          /\ args[i].name \in Exclusive => Len(args) = 1
      BY <2>1 DEF ReadSo
    <3>2. i + 1 \in new <=> i + 1 \in at
      BY <1>3, <2>1
    <3> QED BY <1>5, <3>1, <3>2
  <2>2. CASE i = place
    <3>1. place + 1 \in new => place' = place + 2
      BY <1>1, <1>3
    <3>2. place' = place + 2 => place' # place + 1
      BY <1>1
    <3>3. args[place].name = Option /\ args[place].value = Given
      BY DEF Option, Given
    <3> QED BY <1>3, <2>2, <3>1, <3>2, <3>3
  <2> QED BY <2>1, <2>2
<1>8. \A i, j \in Heads(at) \cup {place} : args[i].name = args[j].name => i = j
  <2>1. \A i \in Heads(at) : args[i].name # Option
    BY Clashes DEF ReadSo, Names
  <2> QED BY <2>1 DEF ReadSo, Option
<1>9. seen' = {args[i].name : i \in Heads(at) \cup {place}}
  BY DEF ReadSo, Names, Option
<1>10. \A o \in seen' : Rivals(o) \cap seen' = {}
  <2>1. Rivals(Option) \cap seen = {} /\ \A o \in seen : Rivals(o) \cap seen = {}
    BY Clashes DEF ReadSo
  <2> QED BY <2>1, RivalsAreMutual
<1>11. ReadSo(new)'
  <2>1. \A i \in new : i - 1 \in Heads(new)' /\ args'[i].form # "equals"
    BY <1>4, <1>6
  <2>2. \A i \in Heads(new)' :
          /\ args'[i].name \in Options
          /\ args'[i].form = "equals" =>
               args'[i].name \in Valued /\ Allowed(args'[i].name, args'[i].value, zero')
          /\ i + 1 \in new <=> (args'[i].form = "option" /\ args'[i].name \in Valued)
          /\ i + 1 \in new =>
               /\ Allowed(args'[i].name, args'[i + 1].value, zero')
               /\ args'[i].name \in Commands \cup {"--name"} => args'[i + 1].value.dash = 0
          /\ args'[i].name \in Exclusive => Len(args') = 1
    BY <1>4, <1>7
  <2>3. \A i, j \in Heads(new)' : args'[i].name = args'[j].name => i = j
    BY <1>4, <1>8
  <2>4. seen' = Names(Heads(new))'
    BY <1>4, <1>9 DEF Names
  <2> QED BY <1>10, <2>1, <2>2, <2>3, <2>4 DEF ReadSo
<1> QED BY <1>3, <1>11

\* What the loop meets in a valid list.
LEMMA ValidNext ==
  ASSUME TypeOK, place <= Len(args), NEW at \in SUBSET DOMAIN args,
         Reads(args, at), Follows(at)
  PROVE  /\ Option \in Options /\ args[place].form \in {"option", "equals"}
         /\ Option \in Exclusive => args[place].form = "option" /\ Len(args) = 1
         /\ Option \notin Exclusive => Clash(Option) = "none"
         /\ args[place].form = "equals" => Option \in Valued /\ InDomain(Option, Given)
         /\ args[place].form = "option" /\ Option \in Valued =>
              /\ ~Missing(Option) /\ InDomain(Option, args[place + 1].value)
              /\ place + 1 \in at /\ place + 2 \notin at
         /\ ~(args[place].form = "option" /\ Option \in Valued) => place + 1 \notin at
<1> DEFINE heads == DOMAIN args \ at
           used  == {args[i].name : i \in heads}
<1>1. /\ DOMAIN args = 1 .. Len(args) /\ place \in heads /\ place \in 1 .. Len(args)
      /\ Len(args) \in Nat /\ Heads(at) \subseteq heads /\ place \notin Heads(at)
      /\ place - 1 \in Nat /\ place \in Nat
  <2>1. /\ Len(args) \in Nat /\ DOMAIN args = 1 .. Len(args) /\ place \in Nat
        /\ place - 1 \in Nat /\ place >= 1
    BY Places
  <2>2. place \in 1 .. Len(args) /\ 1 .. place - 1 \subseteq 1 .. Len(args)
        /\ place \notin 1 .. place - 1
    BY <2>1
  <2>3. place \notin at
    BY DEF Follows
  <2> QED BY <2>1, <2>2, <2>3 DEF Heads
<1>2. /\ \A i \in at : i - 1 \in heads /\ args[i].form # "equals"
      /\ \A i \in heads :
           /\ args[i].name \in Options
           /\ args[i].form = "equals" =>
                args[i].name \in Valued /\ InDomain(args[i].name, args[i].value)
           /\ (i + 1 \in at) = (args[i].form = "option" /\ args[i].name \in Valued)
           /\ i + 1 \in at =>
                /\ InDomain(args[i].name, args[i + 1].value)
                /\ args[i].name \in Commands \cup {"--name"} => args[i + 1].value.dash = 0
      /\ \A i, j \in heads : args[i].name = args[j].name => i = j
      /\ \A o \in used : Conflicts(o) \cap used = {}
  BY DEF Reads
<1> HIDE DEF heads
<1>3. Option \in Options /\ Option \in used
  BY <1>1, <1>2 DEF Option
<1>4. args[place].form \in {"option", "equals"}
  BY <1>1, <1>3, ArgumentFacts, OptionSets DEF Option
<1>5. ASSUME Option \in Exclusive PROVE args[place].form = "option" /\ Len(args) = 1
  <2>1. Option \notin Valued
    BY <1>5, OptionSets
  <2>2. \A o \in used : o = Option
    <3>1. Conflicts(Option) = Options \ {Option}
      BY <1>5, RivalsConflict
    <3>2. used \subseteq Options
      BY <1>2
    <3> QED BY <1>2, <1>3, <3>1, <3>2
  <2>3. \A i \in heads : i = place
    <3>1. TAKE i \in heads
    <3>2. args[i].name \in used
      OBVIOUS
    <3>3. args[i].name = args[place].name
      BY <2>2, <3>2 DEF Option
    <3> QED BY <1>1, <1>2, <3>3
  <2>4. place + 1 \notin at
    BY <1>1, <1>2, <2>1 DEF Option
  <2>5. at = {}
    <3>1. ASSUME NEW i \in at PROVE FALSE
      <4>1. i - 1 = place
        BY <1>2, <2>3
      <4>2. i = place + 1
        BY <1>1, <4>1
      <4> QED BY <2>4, <4>2
    <3> QED BY <3>1
  <2>6. 1 \in heads /\ Len(args) \in heads
    BY <1>1, <2>5 DEF heads
  <2>7. Len(args) = 1
    BY <2>3, <2>6
  <2>8. args[place].form # "equals"
    BY <1>1, <1>2, <2>1 DEF Option
  <2> QED BY <1>4, <2>7, <2>8
<1>6. ASSUME Option \notin Exclusive PROVE Clash(Option) = "none"
  <2>1. Rivals(Option) \cap used = {}
    BY <1>2, <1>3, <1>6, RivalsConflict
  <2>2. seen \subseteq used
    BY <1>1 DEF Follows, Names
  <2>3. Option \notin seen
    <3>1. ASSUME NEW i \in Heads(at), args[i].name = Option PROVE FALSE
      <4>1. i = place
        BY <1>1, <1>2, <3>1 DEF Option
      <4> QED BY <1>1, <3>1, <4>1
    <3>2. seen = {args[i].name : i \in Heads(at)}
      BY DEF Follows, Names
    <3> QED BY <3>1, <3>2
  <2> QED BY <2>1, <2>2, <2>3, Clashes
<1>7. args[place].form = "equals" => Option \in Valued /\ InDomain(Option, Given)
  BY <1>1, <1>2 DEF Option, Given
<1>8. place + 1 \in at <=> (args[place].form = "option" /\ Option \in Valued)
  BY <1>1, <1>2 DEF Option
<1>9. ASSUME place + 1 \in at
      PROVE  ~Missing(Option) /\ InDomain(Option, args[place + 1].value) /\ place + 2 \notin at
  <2>1. place + 1 \in 1 .. Len(args) /\ place # Len(args)
    <3>1. at \subseteq DOMAIN args
      OBVIOUS
    <3>2. place + 1 \in 1 .. Len(args)
      BY <1>1, <1>9, <3>1
    <3>3. place \in Nat /\ Len(args) \in Nat
      BY <1>1
    <3> QED BY <3>2, <3>3
  <2>2. /\ InDomain(Option, args[place + 1].value) /\ args[place + 1].form # "equals"
        /\ Option \in Commands \cup {"--name"} => args[place + 1].value.dash = 0
    BY <1>1, <1>2, <1>9 DEF Option
  <2>3. ~LooksLikeOption(Option, args[place + 1].value)
    <3>1. CASE Option \in Commands \cup {"--name"}
      BY <2>2, <3>1 DEF LooksLikeOption
    <3>2. CASE Option \notin Commands \cup {"--name"}
      <4>1. /\ args[place + 1].value.duration = "positive"
               \/ args[place + 1].value.fd = "usable"
        BY <1>3, <1>8, <1>9, <2>2, <3>2, OptionSets DEF InDomain
      <4>2. args[place + 1].value.dash \in 0 .. 2 /\ args[place + 1].value.dash # 2
        BY <2>1, <2>2, <4>1, ArgumentFacts DEF Value
      <4> QED BY <3>2, <4>2 DEF LooksLikeOption
    <3> QED BY <3>1, <3>2
  <2>4. place + 2 \notin at
    <3>1. place + 2 \in at => place + 1 \in heads
      <4>1. (place + 2) - 1 = place + 1
        BY <1>1
      <4> QED BY <1>2, <4>1
    <3> QED BY <1>9, <3>1 DEF heads
  <2> QED BY <2>1, <2>2, <2>3, <2>4 DEF Missing
<1> QED BY <1>3, <1>4, <1>5, <1>6, <1>7, <1>8, <1>9

-----------------------------------------------------------------------------
(* The steps of the parser.                                                *)

\* The constants of a state in which the loop has not returned.
LEMMA Looping ==
  ASSUME IInv, ~returned
  PROVE  TypeOK /\ error = NoError /\ status = "none"
BY DEF IInv, ReturnInv

\* An error on a list that is not valid.
LEMMA Refuse ==
  ASSUME IInv, ~returned, NEW what \in Errors, NEW o \in {"none"} \cup Options,
         Return(what, o), UNCHANGED <<args, runVars>>,
         \A at \in SUBSET DOMAIN args : ~Reads(args, at)
  PROVE  IInv'
<1>1. TypeOK /\ error = NoError /\ status = "none"
  BY Looping
<1>2. error' # NoError
  <2>1. what # "none"
    BY DEF Errors
  <2> QED BY <2>1, ErrorsDiffer DEF Return
<1>3. TypeOK'
  <2>1. <<what, o>> \in ({"none"} \cup Errors) \X ({"none"} \cup Options)
    OBVIOUS
  <2> QED BY <1>1, <2>1 DEF TypeOK, Return, runVars
<1>4. SoundInv'
  BY <1>2 DEF SoundInv
<1>5. CompleteInv'
  BY DEF CompleteInv
<1>6. ReturnInv'
  BY <1>1, <1>2 DEF ReturnInv, Return, runVars
<1> QED BY <1>3, <1>4, <1>5, <1>6 DEF IInv

\* An option that is read, with its value if it takes one.
LEMMA Advance ==
  ASSUME IInv, ~returned, place <= Len(args), Option \in Options \ Exclusive,
         Clash(Option) = "none", UNCHANGED <<args, error, returned, runVars>>,
         seen' = seen \cup {Option}, zero \subseteq zero', zero' \subseteq seen' \cap Durations,
         \A at \in SUBSET DOMAIN args : Reads(args, at) /\ Follows(at) => zero' = {},
         args[place].form \in {"option", "equals"},
         args[place].form = "equals" => Option \in Valued /\ Allowed(Option, Given, zero'),
         \/ place' = place + 1 /\ ~(args[place].form = "option" /\ Option \in Valued)
         \/ /\ place' = place + 2 /\ args[place].form = "option" /\ Option \in Valued
            /\ place # Len(args) /\ args[place + 1].form # "equals"
            /\ Allowed(Option, args[place + 1].value, zero')
            /\ Option \in Commands \cup {"--name"} => args[place + 1].value.dash = 0
  PROVE  IInv'
<1>1. TypeOK /\ error = NoError /\ status = "none"
  BY Looping
<1>2. Len(args) \in Nat /\ place \in Nat /\ place >= 1
  BY <1>1, Places
<1>3. TypeOK'
  <2>1. place' \in 1 .. Len(args) + 1
    BY <1>2
  <2>2. seen' \subseteq Options
    BY <1>1, Places
  <2> QED BY <1>1, <2>1, <2>2 DEF TypeOK, runVars
<1>4. SoundInv'
  <2>1. PICK at \in SUBSET (1 .. place - 1) : ReadSo(at)
    BY <1>1 DEF IInv, SoundInv
  <2>2. (\E t \in SUBSET (1 .. place - 1) : ReadSo(t))'
    BY <1>1, <2>1, ReadOn
  <2> QED BY <2>2 DEF SoundInv
<1>5. ASSUME NEW at \in SUBSET DOMAIN args, Reads(args, at) PROVE Follows(at)'
  <2>1. Follows(at)
    BY <1>5 DEF IInv, CompleteInv
  <2>2. /\ args[place].form = "option" /\ Option \in Valued =>
             place + 1 \in at /\ place + 2 \notin at
        /\ ~(args[place].form = "option" /\ Option \in Valued) => place + 1 \notin at
    BY <1>1, <1>5, <2>1, ValidNext
  <2>3. place' \notin at
    BY <2>2
  <2>4. Heads(at)' = Heads(at) \cup {place}
    <3>1. place \notin at
      BY <2>1 DEF Follows
    <3>2. CASE place' = place + 1
      <4>1. 1 .. place' - 1 = (1 .. place - 1) \cup {place}
        BY <1>2, <3>2
      <4> QED BY <3>1, <4>1 DEF Heads
    <3>3. CASE place' = place + 2 /\ args[place].form = "option" /\ Option \in Valued
      <4>1. 1 .. place' - 1 = (1 .. place - 1) \cup {place, place + 1}
        BY <1>2, <3>3
      <4>2. place + 1 \in at
        BY <2>2, <3>3
      <4> QED BY <3>1, <4>1, <4>2 DEF Heads
    <3> QED BY <3>2, <3>3
  <2>5. seen' = Names(Heads(at))'
    BY <2>1, <2>4 DEF Follows, Names, Option
  <2>6. zero' = {} /\ error' = NoError
    BY <1>1, <1>5, <2>1
  <2> QED BY <2>3, <2>5, <2>6 DEF Follows
<1>6. CompleteInv'
  BY <1>5 DEF CompleteInv
<1>7. ReturnInv'
  BY <1>1 DEF ReturnInv, runVars
<1> QED BY <1>3, <1>4, <1>6, <1>7 DEF IInv

\* A value that is stored.
LEMMA StoreKeeps ==
  ASSUME IInv, ~returned, place <= Len(args), Option \in Valued, Clash(Option) = "none",
         UNCHANGED <<args, runVars>>, NEW v \in Value, NEW next, Store(Option, v, next),
         \A at \in SUBSET DOMAIN args : Reads(args, at) /\ Follows(at) => InDomain(Option, v),
         \/ args[place].form = "equals" /\ v = Given /\ next = place + 1
         \/ /\ args[place].form = "option" /\ v = args[place + 1].value /\ next = place + 2
            /\ place # Len(args) /\ args[place + 1].form # "equals"
            /\ Option \in Commands \cup {"--name"} => v.dash = 0
  PROVE  IInv'
<1>1. Option \in Options \ Exclusive
  BY OptionSets
<1>2. CASE ValueError(Option, v) # "none"
  <2>1. \A at \in SUBSET DOMAIN args : ~Reads(args, at)
    BY <1>2, ValueErrors DEF IInv, CompleteInv
  <2>2. ValueError(Option, v) \in Errors
    BY <1>2, ValueErrors DEF Errors
  <2>3. Return(ValueError(Option, v), Option)
    BY <1>2 DEF Store
  <2> QED BY <1>1, <2>1, <2>2, <2>3, Refuse
<1>3. CASE ValueError(Option, v) = "none"
  <2>1. /\ place' = next /\ seen' = seen \cup {Option} /\ UNCHANGED <<error, returned>>
        /\ zero' = zero \cup {d \in Durations : d = Option /\ v.duration = "other"}
    BY <1>3 DEF Store
  <2>2. zero \subseteq zero' /\ zero' \subseteq seen' \cap Durations
    <3>1. zero \subseteq seen \cap Durations
      BY DEF IInv, TypeOK
    <3> QED BY <2>1, <3>1
  <2>3. Allowed(Option, v, zero')
    BY <1>3, <2>1, ValueErrors DEF Allowed
  <2>4. ASSUME NEW at \in SUBSET DOMAIN args, Reads(args, at), Follows(at) PROVE zero' = {}
    <3>1. zero = {}
      BY <2>4 DEF Follows
    <3>2. ~(Option \in Durations /\ v.duration = "other")
      BY <2>4, ValueErrors
    <3> QED BY <2>1, <3>1, <3>2
  <2> QED BY <1>1, <2>1, <2>2, <2>3, <2>4, Advance
<1> QED BY <1>2, <1>3

\* An argument that is no option, or a flag with a value.
LEMMA ReadOtherKeeps == IInv /\ ReadOther => IInv'
<1> SUFFICES ASSUME IInv, ReadOther PROVE IInv'
  OBVIOUS
<1>1. /\ ~returned /\ place <= Len(args)
      /\ \/ args[place].form = "value"
         \/ args[place].form = "equals" /\ Option \notin Valued
  BY DEF ReadOther, At, Option
<1>2. \A at \in SUBSET DOMAIN args : ~Reads(args, at)
  BY <1>1, ValidNext DEF IInv, CompleteInv
<1>3. PICK what \in Errors : Return(what, "none")
  BY DEF ReadOther, Errors
<1> QED BY <1>1, <1>2, <1>3, Refuse DEF ReadOther

\* --describe, --help or --version.
LEMMA ReadExclusiveKeeps == IInv /\ ReadExclusive => IInv'
<1> SUFFICES ASSUME IInv, ReadExclusive PROVE IInv'
  OBVIOUS
<1>1. /\ ~returned /\ place <= Len(args)
      /\ args[place].form = "option" /\ Option \in Exclusive
      /\ UNCHANGED <<args, runVars>>
  BY DEF ReadExclusive, At, Option
<1>2. TypeOK /\ error = NoError /\ status = "none"
  BY <1>1, Looping
<1>3. Len(args) \in Nat /\ place \in Nat /\ place >= 1 /\ DOMAIN args = 1 .. Len(args)
  BY <1>2, Places
<1>4. CASE Len(args) # 1
  <2>1. \A at \in SUBSET DOMAIN args : ~Reads(args, at)
    BY <1>1, <1>4, ValidNext DEF IInv, CompleteInv
  <2>2. "combined" \in Errors /\ Option \in Options
    BY <1>1, OptionSets DEF Errors
  <2> QED BY <1>1, <1>4, <2>1, <2>2, Refuse DEF ReadExclusive
<1>5. CASE Len(args) = 1
  <2>1. /\ place = 1 /\ place' = 2 /\ seen' = {Option} /\ returned' = TRUE
        /\ UNCHANGED <<zero, error>>
    BY <1>1, <1>3, <1>5 DEF ReadExclusive
  <2>2. seen = {} /\ zero = {}
    <3>1. PICK at \in SUBSET (1 .. place - 1) : ReadSo(at)
      BY <1>2 DEF IInv, SoundInv
    <3>2. Heads(at) = {}
      BY <2>1 DEF Heads
    <3>3. seen = {}
      BY <3>1, <3>2 DEF ReadSo, Names
    <3> QED BY <1>2, <3>3, Places
  <2>3. Option \in Options /\ Option \notin Valued /\ Option \notin Flags
    BY <1>1, OptionSets
  <2>4. TypeOK'
    <3>1. place' \in 1 .. Len(args) + 1 /\ seen' \subseteq Options
      BY <1>5, <2>1, <2>3
    <3>2. zero' \subseteq seen' \cap Durations
      BY <2>1, <2>2
    <3> QED BY <1>1, <1>2, <2>1, <3>1, <3>2 DEF TypeOK, runVars
  <2>5. 1 .. place' - 1 = {1} /\ DOMAIN args = {1}
    BY <1>3, <1>5, <2>1
  <2>6. SoundInv'
    <3>1. Heads({})' = {1}
      BY <2>5 DEF Heads
    <3>2. seen' = Names(Heads({}))'
      BY <1>1, <2>1, <3>1 DEF Names, Option
    <3>3. \A o \in seen' : Rivals(o) \cap seen' = {}
      BY <1>1, <2>1, RivalsConflict
    <3>4. ReadSo({})'
      BY <1>1, <1>5, <2>1, <2>3, <3>1, <3>2, <3>3 DEF ReadSo, Option
    <3> QED BY <3>4 DEF SoundInv
  <2>7. CompleteInv'
    <3>1. ASSUME NEW at \in SUBSET DOMAIN args, Reads(args, at) PROVE Follows(at)'
      <4>1. 1 \notin at
        BY <2>1, <3>1 DEF IInv, CompleteInv, Follows
      <4>2. Heads(at)' = {1}
        BY <2>5, <4>1 DEF Heads
      <4>3. seen' = Names(Heads(at))'
        BY <1>1, <2>1, <4>2 DEF Names, Option
      <4>4. place' \notin at
        BY <2>1, <2>5
      <4> QED BY <1>2, <2>1, <2>2, <4>3, <4>4 DEF Follows
    <3> QED BY <1>1, <3>1 DEF CompleteInv
  <2>8. Problem' = NoError
    <3>1. Option \notin {"--idle", "--on-idle", "--on-idle.async", "--on-resume",
                         "--on-resume.async"}
      BY <1>1 DEF Exclusive
    <3>2. "--idle" \notin seen' /\ Used' = {}
      <4>1. Used' = {i \in DOMAIN IdleHooks : IdleHooks[i] = Option}
        BY <2>1 DEF Used, IdleHooks
      <4>2. \A i \in DOMAIN IdleHooks : IdleHooks[i] # Option
        BY <3>1 DEF IdleHooks
      <4> QED BY <2>1, <3>1, <4>1, <4>2
    <3> QED BY <2>1, <2>2, <3>2 DEF Problem
  <2>9. ReturnInv'
    BY <1>1, <1>2, <1>5, <2>1, <2>8 DEF ReturnInv, runVars
  <2> QED BY <2>4, <2>6, <2>7, <2>9 DEF IInv
<1> QED BY <1>4, <1>5

\* A flag.
LEMMA ReadFlagKeeps == IInv /\ ReadFlag => IInv'
<1> SUFFICES ASSUME IInv, ReadFlag PROVE IInv'
  OBVIOUS
<1>1. /\ ~returned /\ place <= Len(args)
      /\ args[place].form = "option" /\ Option \in Flags
      /\ UNCHANGED <<args, runVars>>
  BY DEF ReadFlag, At, Option
<1>2. Option \in Options \ Exclusive /\ Option \notin Valued
  BY <1>1, OptionSets
<1>3. CASE Clash(Option) # "none"
  <2>1. \A at \in SUBSET DOMAIN args : ~Reads(args, at)
    BY <1>1, <1>2, <1>3, ValidNext DEF IInv, CompleteInv
  <2>2. Clash(Option) \in Errors
    BY <1>3, Clashes DEF Errors
  <2> QED BY <1>1, <1>2, <1>3, <2>1, <2>2, Refuse DEF ReadFlag
<1>4. CASE Clash(Option) = "none"
  <2>1. /\ place' = place + 1 /\ seen' = seen \cup {Option}
        /\ UNCHANGED <<zero, error, returned>>
    BY <1>4 DEF ReadFlag
  <2>2. zero' \subseteq seen' \cap Durations
    <3>1. zero \subseteq seen \cap Durations
      BY DEF IInv, TypeOK
    <3> QED BY <2>1, <3>1
  <2>3. \A at \in SUBSET DOMAIN args : Reads(args, at) /\ Follows(at) => zero' = {}
    BY <2>1 DEF Follows
  <2> QED BY <1>1, <1>2, <1>4, <2>1, <2>2, <2>3, Advance
<1> QED BY <1>3, <1>4

\* `--name=value`.
LEMMA ReadEqualsKeeps == IInv /\ ReadEquals => IInv'
<1> SUFFICES ASSUME IInv, ReadEquals PROVE IInv'
  OBVIOUS
<1>1. /\ ~returned /\ place <= Len(args)
      /\ args[place].form = "equals" /\ Option \in Valued
      /\ UNCHANGED <<args, runVars>>
  BY DEF ReadEquals, At, Option
<1>2. Option \in Options \ Exclusive
  BY <1>1, OptionSets
<1>3. CASE Clash(Option) # "none"
  <2>1. \A at \in SUBSET DOMAIN args : ~Reads(args, at)
    BY <1>1, <1>2, <1>3, ValidNext DEF IInv, CompleteInv
  <2>2. Clash(Option) \in Errors
    BY <1>3, Clashes DEF Errors
  <2> QED BY <1>1, <1>2, <1>3, <2>1, <2>2, Refuse DEF ReadEquals
<1>4. CASE Clash(Option) = "none"
  <2>1. Store(Option, Given, place + 1)
    BY <1>4 DEF ReadEquals
  <2>2. Given \in Value
    <3>1. TypeOK /\ place \in 1 .. Len(args)
      BY <1>1, Places DEF IInv
    <3> QED BY <3>1, ArgumentFacts DEF Given
  <2>3. \A at \in SUBSET DOMAIN args :
          Reads(args, at) /\ Follows(at) => InDomain(Option, Given)
    BY <1>1, ValidNext DEF IInv
  <2> QED BY <1>1, <1>4, <2>1, <2>2, <2>3, StoreKeeps
<1> QED BY <1>3, <1>4

\* `--name value`.
LEMMA ReadSeparateKeeps == IInv /\ ReadSeparate => IInv'
<1> SUFFICES ASSUME IInv, ReadSeparate PROVE IInv'
  OBVIOUS
<1>1. /\ ~returned /\ place <= Len(args)
      /\ args[place].form = "option" /\ Option \in Valued
      /\ UNCHANGED <<args, runVars>>
  BY DEF ReadSeparate, At, Option
<1>2. Option \in Options \ Exclusive /\ TypeOK
  BY <1>1, OptionSets DEF IInv
<1>3. CASE Clash(Option) # "none"
  <2>1. \A at \in SUBSET DOMAIN args : ~Reads(args, at)
    BY <1>1, <1>2, <1>3, ValidNext DEF IInv, CompleteInv
  <2>2. Clash(Option) \in Errors
    BY <1>3, Clashes DEF Errors
  <2> QED BY <1>1, <1>2, <1>3, <2>1, <2>2, Refuse DEF ReadSeparate
<1>4. CASE Clash(Option) = "none" /\ Missing(Option)
  <2>1. \A at \in SUBSET DOMAIN args : ~Reads(args, at)
    BY <1>1, <1>4, ValidNext DEF IInv, CompleteInv
  <2>2. "missing" \in Errors
    BY DEF Errors
  <2> QED BY <1>1, <1>2, <1>4, <2>1, <2>2, Refuse DEF ReadSeparate
<1>5. CASE Clash(Option) = "none" /\ ~Missing(Option)
  <2>1. Store(Option, args[place + 1].value, place + 2)
    BY <1>5 DEF ReadSeparate
  <2>2. /\ place # Len(args) /\ args[place + 1].form # "equals"
        /\ ~LooksLikeOption(Option, args[place + 1].value)
    BY <1>5 DEF Missing
  <2>3. args[place + 1].value \in Value
    <3>1. place \in Nat /\ Len(args) \in Nat
      BY <1>2, Places
    <3>2. place + 1 \in 1 .. Len(args)
      BY <1>1, <2>2, <3>1
    <3> QED BY <1>2, <3>2, ArgumentFacts
  <2>4. Option \in Commands \cup {"--name"} => args[place + 1].value.dash = 0
    <3>1. args[place + 1].value.dash \in 0 .. 2
      BY <2>3 DEF Value
    <3> QED BY <2>2, <3>1 DEF LooksLikeOption
  <2>5. \A at \in SUBSET DOMAIN args :
          Reads(args, at) /\ Follows(at) => InDomain(Option, args[place + 1].value)
    BY <1>1, <1>2, ValidNext
  <2> QED BY <1>1, <1>5, <2>1, <2>2, <2>3, <2>4, <2>5, StoreKeeps
<1> QED BY <1>3, <1>4, <1>5

-----------------------------------------------------------------------------
(* The checks after the loop, and Run.                                     *)

\* The options of a valid list that has been read.
LEMMA ValidRead ==
  ASSUME TypeOK, place = Len(args) + 1, NEW at \in SUBSET DOMAIN args,
         Reads(args, at), Follows(at)
  PROVE  Problem = NoError
<1>1. DOMAIN args \ at = Heads(at)
  <2>1. 1 .. place - 1 = DOMAIN args
    BY Places
  <2> QED BY <2>1 DEF Heads
<1>2. seen = {args[i].name : i \in DOMAIN args \ at} /\ zero = {}
  BY <1>1 DEF Follows, Names
<1>3. \A o \in seen : /\ Requires(o) \subseteq seen
                      /\ RequiresAny(o) \cap seen # {} \/ RequiresAny(o) = {}
  BY <1>2 DEF Reads
<1>4. "--idle" \in seen \/ Used = {}
  BY <1>3, Problems DEF Requires
<1>5. "--idle" \in seen => Used # {} \/ seen \cap {"--verbose", "--events-fd"} # {}
  BY <1>3, Problems DEF RequiresAny
<1> QED BY <1>2, <1>4, <1>5, Problems

\* The checks after the loop.
LEMMA ValidateKeeps == IInv /\ Validate => IInv'
<1> SUFFICES ASSUME IInv, Validate PROVE IInv'
  OBVIOUS
<1>1. /\ ~returned /\ place > Len(args) /\ error' = Problem /\ returned' = TRUE
      /\ UNCHANGED <<args, place, seen, zero, runVars>>
  BY DEF Validate
<1>2. TypeOK /\ error = NoError /\ status = "none"
  BY <1>1, Looping
<1>3. place = Len(args) + 1
  BY <1>1, <1>2, Places
<1>4. Problem' = Problem
  BY <1>1 DEF Problem, Used
<1>5. TypeOK'
  <2>1. Problem \in ({"none"} \cup Errors) \X ({"none"} \cup Options)
    BY Problems DEF NoError
  <2> QED BY <1>1, <1>2, <2>1 DEF TypeOK, runVars
<1>6. SoundInv'
  <2>1. PICK at \in SUBSET (1 .. place - 1) : ReadSo(at)
    BY <1>2 DEF IInv, SoundInv
  <2>2. ReadSo(at)'
    BY <1>1, <2>1 DEF ReadSo, Heads, Names
  <2> QED BY <1>1, <2>2 DEF SoundInv
<1>7. ASSUME NEW at \in SUBSET DOMAIN args, Reads(args, at) PROVE Follows(at)'
  <2>1. Follows(at)
    BY <1>7 DEF IInv, CompleteInv
  <2>2. Problem = NoError
    BY <1>2, <1>3, <1>7, <2>1, ValidRead
  <2> QED BY <1>1, <2>1, <2>2 DEF Follows, Heads, Names
<1>8. CompleteInv'
  BY <1>1, <1>7 DEF CompleteInv
<1>9. ReturnInv'
  BY <1>1, <1>2, <1>3, <1>4 DEF ReturnInv, runVars
<1> QED BY <1>5, <1>6, <1>8, <1>9 DEF IInv

\* What the other actions leave alone.
LEMMA Unmoved ==
  ASSUME IInv, UNCHANGED <<args, parseVars>> PROVE SoundInv' /\ CompleteInv'
<1>1. UNCHANGED <<args, place, seen, zero, error, returned>>
  BY DEF parseVars
<1>2. SoundInv'
  BY <1>1 DEF IInv, SoundInv, ReadSo, Heads, Names
<1>3. CompleteInv'
  BY <1>1 DEF IInv, CompleteInv, Follows, Heads, Names
<1> QED BY <1>2, <1>3

\* Run.
LEMMA RunKeeps == IInv /\ Run => IInv'
<1> SUFFICES ASSUME IInv, Run PROVE IInv'
  OBVIOUS
<1>1. /\ UNCHANGED <<args, place, seen, zero, error, returned, fd>>
      /\ returned /\ written' \in BOOLEAN /\ status' = Status(fd, written')
  BY DEF Run, parseVars
<1>2. SoundInv' /\ CompleteInv'
  BY <1>1, Unmoved DEF parseVars
<1>3. TypeOK'
  <2>1. Status(fd, written') \in {"runs", "exit 0", "exit 1", "exit 2"}
    BY DEF Status
  <2> QED BY <1>1, <2>1 DEF IInv, TypeOK
<1>4. ReturnInv'
  <2>1. Problem' = Problem
    BY <1>1 DEF Problem, Used
  <2>2. Status(fd, written)' = Status(fd, written')
    BY <1>1 DEF Status
  <2> QED BY <1>1, <2>1, <2>2 DEF IInv, ReturnInv
<1> QED BY <1>2, <1>3, <1>4 DEF IInv

\* Nothing moves.
LEMMA StutterKeeps == IInv /\ UNCHANGED vars => IInv'
<1> SUFFICES ASSUME IInv, UNCHANGED vars PROVE IInv'
  OBVIOUS
<1>1. UNCHANGED <<args, place, seen, zero, error, returned, fd, written, status>>
  BY DEF vars, parseVars, runVars
<1>2. SoundInv' /\ CompleteInv'
  BY <1>1, Unmoved DEF parseVars
<1>3. TypeOK'
  BY <1>1 DEF IInv, TypeOK
<1>4. ReturnInv'
  BY <1>1 DEF IInv, ReturnInv, Problem, Used, Status
<1> QED BY <1>2, <1>3, <1>4 DEF IInv

\* Nothing has been read at first, and no list is valid with a value before its
\* first option.
LEMMA InitEstablishes == Init => IInv
<1> SUFFICES ASSUME Init PROVE IInv
  OBVIOUS
<1>1. PICK n \in 0 .. MaxArgs : args \in [1 .. n -> Arguments]
  BY DEF Init
<1>2. /\ args \in Seq(Arguments) /\ Len(args) = n /\ Len(args) <= MaxArgs /\ n \in Nat
      /\ DOMAIN args = 1 .. n
  BY <1>1, MaxArgsAssumption
<1>3. /\ place = 1 /\ seen = {} /\ zero = {} /\ error = NoError /\ returned = FALSE
      /\ fd \in Descriptors /\ written = TRUE /\ status = "none"
  BY DEF Init
<1>4. 1 .. place - 1 = {} /\ place \in 1 .. Len(args) + 1
  BY <1>2, <1>3
<1>5. \A at : Heads(at) = {}
  BY <1>4 DEF Heads
<1>6. TypeOK
  BY <1>2, <1>3, <1>4 DEF TypeOK, NoError
<1>7. SoundInv
  <2>1. seen = Names(Heads({}))
    BY <1>3, <1>5 DEF Names
  <2>2. ReadSo({})
    BY <1>3, <1>5, <2>1 DEF ReadSo
  <2> QED BY <2>2 DEF SoundInv
<1>8. CompleteInv
  <2>1. ASSUME NEW at \in SUBSET DOMAIN args, Reads(args, at) PROVE Follows(at)
    <3>1. 1 \notin at
      <4>1. ASSUME 1 \in at PROVE FALSE
        <5>1. 1 - 1 \in DOMAIN args
          BY <2>1, <4>1 DEF Reads
        <5> QED BY <1>2, <5>1
      <4> QED BY <4>1
    <3>2. seen = Names(Heads(at))
      BY <1>3, <1>5 DEF Names
    <3> QED BY <1>3, <3>1, <3>2 DEF Follows
  <2> QED BY <2>1 DEF CompleteInv
<1>9. ReturnInv
  BY <1>3 DEF ReturnInv
<1> QED BY <1>6, <1>7, <1>8, <1>9 DEF IInv

\* The invariant holds in every state.
THEOREM Inductive == Spec => []IInv
<1>1. Init => IInv
  BY InitEstablishes
<1>2. IInv /\ [Next]_vars => IInv'
  <2> SUFFICES ASSUME IInv, [Next]_vars PROVE IInv'
    OBVIOUS
  <2>1. CASE ReadOther
    BY <2>1, ReadOtherKeeps
  <2>2. CASE ReadExclusive
    BY <2>2, ReadExclusiveKeeps
  <2>3. CASE ReadFlag
    BY <2>3, ReadFlagKeeps
  <2>4. CASE ReadEquals
    BY <2>4, ReadEqualsKeeps
  <2>5. CASE ReadSeparate
    BY <2>5, ReadSeparateKeeps
  <2>6. CASE Validate
    BY <2>6, ValidateKeeps
  <2>7. CASE Run
    BY <2>7, RunKeeps
  <2>8. CASE Finished \/ UNCHANGED vars
    BY <2>8, StutterKeeps DEF Finished
  <2> QED BY <2>1, <2>2, <2>3, <2>4, <2>5, <2>6, <2>7, <2>8 DEF Next
<1> QED BY <1>1, <1>2, PTL DEF Spec

-----------------------------------------------------------------------------
(* What the invariant says of a command line that has been read.           *)

\* A list whose reading succeeded: the reading, and the options in it.
LEMMA Accepted ==
  ASSUME IInv, returned, error = NoError
  PROVE  /\ Valid(args)
         /\ \A i \in DOMAIN args : args[i].form # "value" => args[i].name \in seen
         /\ \A o \in Options : Named(args, o) <=> o \in seen
<1>1. TypeOK /\ place = Len(args) + 1 /\ Problem = NoError
  BY DEF IInv, ReturnInv
<1>2. PICK at \in SUBSET (1 .. place - 1) : ReadSo(at)
  BY DEF IInv, SoundInv
<1>3. DOMAIN args = 1 .. place - 1 /\ DOMAIN args = 1 .. Len(args) /\ Len(args) \in Nat
  BY <1>1, Places
<1> DEFINE heads == DOMAIN args \ at
           used  == {args[i].name : i \in heads}
<1>4. Heads(at) = heads /\ seen = used
  BY <1>2, <1>3 DEF Heads, ReadSo, Names
<1>5. zero = {}
  <2>1. {"--idle", "--hook-timeout"} \cap zero = {}
    BY <1>1, Problems
  <2>2. zero \subseteq {"--idle", "--hook-timeout"}
    BY <1>1, Places DEF Durations
  <2> QED BY <2>1, <2>2
<1>6. \A o, v : Allowed(o, v, zero) <=> InDomain(o, v)
  BY <1>5 DEF Allowed
<1>7. \A i \in at : i - 1 \in heads /\ args[i].form # "equals"
  BY <1>2, <1>4 DEF ReadSo
<1>8. \A i \in heads :
        /\ args[i].name \in Options
        /\ args[i].form = "equals" =>
             args[i].name \in Valued /\ InDomain(args[i].name, args[i].value)
        /\ (i + 1 \in at) = (args[i].form = "option" /\ args[i].name \in Valued)
        /\ i + 1 \in at =>
             /\ InDomain(args[i].name, args[i + 1].value)
             /\ args[i].name \in Commands \cup {"--name"} => args[i + 1].value.dash = 0
        /\ args[i].name \in Exclusive => Len(args) = 1
  BY <1>2, <1>4, <1>6 DEF ReadSo
<1>9. \A i, j \in heads : args[i].name = args[j].name => i = j
  BY <1>2, <1>4 DEF ReadSo
<1>10. ASSUME NEW o \in used
       PROVE  /\ Requires(o) \subseteq used
              /\ RequiresAny(o) \cap used # {} \/ RequiresAny(o) = {}
              /\ Conflicts(o) \cap used = {}
  <2>1. Requires(o) \subseteq used
    BY <1>1, <1>4, Problems DEF Requires
  <2>2. RequiresAny(o) \cap used # {} \/ RequiresAny(o) = {}
    BY <1>1, <1>4, Problems DEF RequiresAny
  <2>3. CASE o \in Exclusive
    <3>1. heads \subseteq {1}
      BY <1>3, <1>8, <2>3
    <3>2. \A p \in used : p = o
      BY <3>1
    <3> QED BY <2>1, <2>2, <2>3, <3>2, RivalsConflict
  <2>4. CASE o \notin Exclusive
    <3>1. o \in Options
      BY <1>8
    <3>2. Rivals(o) \cap used = {}
      BY <1>2, <1>4 DEF ReadSo
    <3> QED BY <2>1, <2>2, <2>4, <3>1, <3>2, RivalsConflict
  <2> QED BY <2>3, <2>4
<1>11. Valid(args)
  <2>1. Reads(args, at)
    BY <1>7, <1>8, <1>9, <1>10 DEF Reads
  <2>2. at \in SUBSET DOMAIN args
    BY <1>3
  <2> QED BY <2>1, <2>2 DEF Valid
<1>12. ASSUME NEW i \in at PROVE args[i].form = "value" /\ args[i].name = "none"
  <2>1. i \in 1 .. Len(args) /\ i - 1 \in heads /\ (i - 1) + 1 = i
    <3>1. i \in 1 .. Len(args)
      BY <1>3
    <3>2. i - 1 \in heads
      BY <1>7
    <3> QED BY <3>1, <3>2
  <2>2. /\ args[i].form \in {"option", "equals", "value"}
        /\ args[i].form = "value" <=> args[i].name = "none"
        /\ args[i].form = "option" => /\ args[i].value.dash > 0
                                      /\ args[i].value.duration = "invalid"
                                      /\ args[i].value.fd = "invalid"
    BY <1>1, <2>1, ArgumentFacts
  <2>3. PICK o : o = args[i - 1].name
    OBVIOUS
  <2>4. /\ o \in Valued /\ InDomain(o, args[i].value)
        /\ o \in Commands \cup {"--name"} => args[i].value.dash = 0
    BY <1>8, <2>1, <2>3
  <2>5. o \in Commands \cup {"--name"} \/ o \in Durations \cup {"--events-fd"}
    BY <2>4, OptionSets
  <2>6. args[i].form # "option"
    <3>1. CASE o \in Commands \cup {"--name"}
      BY <2>2, <2>4, <3>1
    <3>2. CASE o \in Durations \cup {"--events-fd"}
      BY <2>2, <2>4, <3>2, OptionSets DEF InDomain
    <3> QED BY <2>5, <3>1, <3>2
  <2> QED BY <1>7, <2>2, <2>6
<1>13. \A i \in DOMAIN args : args[i].form # "value" => args[i].name \in seen
  BY <1>4, <1>12
<1>14. \A o \in Options : Named(args, o) <=> o \in seen
  BY <1>4, <1>12, OptionSets DEF Named
<1> QED BY <1>11, <1>13, <1>14

\* The type invariant.
THEOREM TypeCorrect == Spec => []TypeOK
BY Inductive, PTL DEF IInv

\* The parser accepts exactly the command lines that the metadata allows, however
\* long they are, and Run's exit status says which.
THEOREM SchemaIsDecided == Spec => []SchemaDecides
<1>1. IInv => SchemaDecides
  <2> SUFFICES ASSUME IInv, status # "none" PROVE SchemaDecides
    BY DEF SchemaDecides
  <2>1. returned /\ status = Status(fd, written)
    BY DEF IInv, ReturnInv
  <2>2. CASE error # NoError
    <3>1. ~Valid(args)
      BY <2>2 DEF IInv, CompleteInv, Follows, Valid
    <3> QED BY <2>1, <2>2, <3>1 DEF SchemaDecides, Status
  <2>3. CASE error = NoError
    <3>1. Valid(args) /\ \A o \in Options : Named(args, o) <=> o \in seen
      BY <2>1, <2>3, Accepted
    <3>2. /\ Named(args, "--describe") <=> "--describe" \in seen
          /\ Named(args, "--events-fd") <=> "--events-fd" \in seen
          /\ (\E o \in Exclusive : Named(args, o)) <=> seen \cap Exclusive # {}
      <4>1. "--describe" \in Options /\ "--events-fd" \in Options
        BY DEF Options, Exclusive, Valued
      <4>2. Exclusive \subseteq Options
        BY OptionSets
      <4> QED BY <3>1, <4>1, <4>2
    <3>3. FALSE \in {fd.open, fd.writable, fd.nonblock, fd.stream, fd.duplicates} <=>
            ~(ValidDescriptor(fd) /\ fd.duplicates)
      <4>1. fd \in Descriptor
        BY DescriptorsAssumption DEF IInv, TypeOK
      <4> QED BY <4>1 DEF Descriptor, ValidDescriptor
    <3> QED BY <2>1, <2>3, <3>1, <3>2, <3>3 DEF SchemaDecides, Status
  <2> QED BY <2>2, <2>3
<1> QED BY <1>1, Inductive, PTL

\* A duration or descriptor is called missing only before an argument that does
\* not read as one.
MissingInv ==
  \A o \in Durations \cup {"--events-fd"} :
    error = <<"missing", o>> /\ place < Len(args) =>
      args[place + 1].form = "equals" \/ ~Readable(o, args[place + 1].value)

\* An argument that looks like an option to a duration or a descriptor.
LEMMA DashesUnreadable ==
  ASSUME TypeOK, NEW i \in 1 .. Len(args), NEW o \in Durations \cup {"--events-fd"},
         LooksLikeOption(o, args[i].value), args[i].form # "equals"
  PROVE  ~Readable(o, args[i].value)
<1>1. args[i].value.dash = 2
  <2>1. args[i].value.dash \in 0 .. 2
    BY ArgumentFacts DEF Value
  <2>2. o \notin Commands \cup {"--name"}
    BY OptionSets
  <2> QED BY <2>1, <2>2 DEF LooksLikeOption
<1>2. args[i].value.duration = "invalid" /\ args[i].value.fd = "invalid"
  BY <1>1, ArgumentFacts
<1> QED BY <1>2 DEF Readable

\* Only a separate option whose argument looks like an option is called missing.
LEMMA MissingKept == IInv /\ MissingInv /\ [Next]_vars => MissingInv'
<1> SUFFICES ASSUME IInv, MissingInv, [Next]_vars PROVE MissingInv'
  OBVIOUS
<1>1. CASE UNCHANGED <<args, place, error>>
  BY <1>1 DEF MissingInv
<1>2. CASE ReadSeparate /\ Clash(Option) = "none" /\ Missing(Option)
  <2>1. /\ error' = <<"missing", Option>> /\ place' = place /\ args' = args
        /\ place <= Len(args)
    BY <1>2 DEF ReadSeparate, Return, At
  <2>2. TypeOK /\ place \in Nat /\ place >= 1 /\ Len(args) \in Nat
    BY Places DEF IInv
  <2>3. SUFFICES ASSUME NEW o \in Durations \cup {"--events-fd"}, o = Option,
                        place < Len(args), args[place + 1].form # "equals"
                 PROVE  ~Readable(o, args[place + 1].value)
    BY <2>1 DEF MissingInv
  <2>4. place + 1 \in 1 .. Len(args)
    BY <2>2, <2>3
  <2>5. LooksLikeOption(o, args[place + 1].value)
    BY <1>2, <2>2, <2>3 DEF Missing
  <2> QED BY <2>2, <2>3, <2>4, <2>5, DashesUnreadable
<1>3. ASSUME NEW what, NEW o, error' = <<what, o>>, what # "missing" PROVE MissingInv'
  BY <1>3 DEF MissingInv
<1>4. ASSUME error' = NoError PROVE MissingInv'
  BY <1>3, <1>4 DEF NoError
<1>5. ASSUME NEW o, Return(Clash(o), o) PROVE MissingInv'
  <2>1. Clash(o) # "missing"
    BY Clashes
  <2> QED BY <1>3, <1>5, <2>1 DEF Return
<1>6. ASSUME NEW o \in Valued, NEW v \in Value, NEW next, Store(o, v, next), ~returned
      PROVE  MissingInv'
  <2>1. CASE ValueError(o, v) # "none"
    <3>1. error' = <<ValueError(o, v), o>> /\ ValueError(o, v) # "missing"
      BY <1>6, <2>1, ValueErrors DEF Store, Return
    <3> QED BY <1>3, <3>1
  <2>2. CASE ValueError(o, v) = "none"
    BY <1>4, <1>6, <2>2, Looping DEF Store
  <2> QED BY <2>1, <2>2
<1>7. CASE ReadOther
  <2>1. PICK what \in {"positional", "unknown"} : error' = <<what, "none">>
    BY <1>7 DEF ReadOther, Return
  <2> QED BY <1>3, <2>1
<1>8. CASE ReadExclusive
  <2>1. ~returned /\ (error' = <<"combined", Option>> \/ error' = error)
    BY <1>8 DEF ReadExclusive, Return, At
  <2> QED BY <1>3, <1>4, <2>1, Looping
<1>9. CASE ReadFlag
  <2>1. ~returned /\ (Return(Clash(Option), Option) \/ error' = error)
    BY <1>9 DEF ReadFlag, At
  <2> QED BY <1>4, <1>5, <2>1, Looping
<1>10. CASE ReadEquals
  <2>1. /\ ~returned /\ Option \in Valued
        /\ Return(Clash(Option), Option) \/ Store(Option, Given, place + 1)
    BY <1>10 DEF ReadEquals, At, Option
  <2>2. Given \in Value
    <3>1. TypeOK /\ place \in 1 .. Len(args)
      BY <1>10, Places DEF IInv, ReadEquals, At
    <3> QED BY <3>1, ArgumentFacts DEF Given
  <2> QED BY <1>5, <1>6, <2>1, <2>2
<1>11. CASE ReadSeparate /\ ~(Clash(Option) = "none" /\ Missing(Option))
  <2>1. CASE Clash(Option) # "none"
    BY <1>5, <1>11, <2>1 DEF ReadSeparate
  <2>2. CASE Clash(Option) = "none"
    <3>1. /\ ~returned /\ Option \in Valued /\ ~Missing(Option)
          /\ Store(Option, args[place + 1].value, place + 2)
      BY <1>11, <2>2 DEF ReadSeparate, At, Option
    <3>2. args[place + 1].value \in Value
      <4>1. TypeOK /\ place \in Nat /\ place >= 1 /\ Len(args) \in Nat /\ place <= Len(args)
        BY <1>11, Places DEF IInv, ReadSeparate, At
      <4>2. place + 1 \in 1 .. Len(args)
        BY <3>1, <4>1 DEF Missing
      <4> QED BY <4>1, <4>2, ArgumentFacts
    <3> QED BY <1>6, <3>1, <3>2
  <2> QED BY <2>1, <2>2
<1>12. CASE Validate
  <2>1. error' = Problem
    BY <1>12 DEF Validate
  <2>2. CASE Problem = NoError
    BY <1>4, <2>1, <2>2
  <2>3. CASE Problem # NoError
    <3>1. PICK what \in {"zero", "requires"}, o \in Options : Problem = <<what, o>>
      BY <2>3, Problems DEF Problem, Options, Valued, Durations
    <3> QED BY <1>3, <2>1, <3>1
  <2> QED BY <2>2, <2>3
<1>13. CASE Run \/ Finished \/ UNCHANGED vars
  BY <1>1, <1>13 DEF Run, Finished, vars, parseVars
<1> QED BY <1>2, <1>7, <1>8, <1>9, <1>10, <1>11, <1>12, <1>13 DEF Next

\* An accepted command line has every option of it set, and a duration or
\* descriptor that was given is not called missing.
THEOREM OptionsKept == Spec => []OptionsAndValuesApart
<1>1. Init => MissingInv
  BY DEF Init, MissingInv, NoError
<1>2. IInv /\ MissingInv => OptionsAndValuesApart
  <2> SUFFICES ASSUME IInv, MissingInv PROVE OptionsAndValuesApart
    OBVIOUS
  <2>1. ASSUME status \in {"runs", "exit 0"}
        PROVE  \A i \in DOMAIN args : args[i].form # "value" => args[i].name \in seen
    <3>1. returned /\ status = Status(fd, written)
      BY <2>1 DEF IInv, ReturnInv
    <3>2. error = NoError
      BY <2>1, <3>1 DEF Status
    <3> QED BY <3>1, <3>2, Accepted
  <2> QED BY <2>1 DEF MissingInv, OptionsAndValuesApart
<1> QED BY <1>1, <1>2, Inductive, MissingKept, PTL DEF Spec
=============================================================================
