---------------------------- MODULE CommandLine -----------------------------
(***************************************************************************)
(* The command line (cli.go): parseArgs, one action per case of its loop,  *)
(* with the hand-written rules and the order of its error returns; Run's   *)
(* exit statuses (run.go); and, apart from the parser, the table of        *)
(* options that --describe publishes (cli_metadata.go).                    *)
(*                                                                         *)
(* A value is what the parser can tell of a string: how many leading       *)
(* dashes it has (0, 1, or 2 for "--"), whether it is blank, and how it    *)
(* reads as a duration, a descriptor and a name.                           *)
(***************************************************************************)
EXTENDS Integers, SequencesExt

CONSTANTS Arguments,     \* the arguments to combine
          Descriptors,   \* what --events-fd may be given
          MaxArgs        \* bound: length of the argument list

Value == [dash : 0..2, blank : BOOLEAN, duration : {"invalid", "positive", "other"},
          fd : {"invalid", "low", "usable"}, name : BOOLEAN]

Exclusive == {"--describe", "--help", "--version"}
Flags     == {"--dry-run", "--verbose", "--ignore-hook-errors"}
Commands  == {"--on-ready", "--on-first-data", "--on-shutdown", "--on-idle",
              "--on-idle.async", "--on-resume", "--on-resume.async"}
Durations == {"--idle", "--hook-timeout"}
Valued    == Commands \cup Durations \cup {"--name", "--events-fd"}
Options   == Exclusive \cup Flags \cup Valued

\* "option": `--name`; "equals": `--name=value`; "value": any other string.
\* `value` of an option is the option itself read as a value.
Argument == [form : {"option", "equals", "value"},
             name : Options \cup {"none"}, value : Value]

Descriptor == [open : BOOLEAN, writable : BOOLEAN, nonblock : BOOLEAN,
               stream : BOOLEAN, duplicates : BOOLEAN]

ASSUME ArgumentsAssumption ==
  /\ Arguments \subseteq Argument
  /\ \A a \in Arguments : a.form = "value" <=> a.name = "none"
  /\ \A a \in Arguments :
       a.form = "value" /\ a.value.dash = 2 =>
         a.value.duration = "invalid" /\ a.value.fd = "invalid"
  /\ \A a \in Arguments :
       a.form = "option" =>
         a.value.dash > 0 /\ a.value.duration = "invalid" /\ a.value.fd = "invalid"
ASSUME DescriptorsAssumption == Descriptors \subseteq Descriptor
ASSUME MaxArgsAssumption == MaxArgs \in Nat

VARIABLES args,      \* the argument list
          place,     \* the loop's place in it
          seen,      \* the options that are set
          zero,      \* those of them whose duration is not positive
          error,     \* what parseArgs returns: the kind of error and the option
          returned,  \* has it returned?
          fd,        \* the descriptor --events-fd names
          written,   \* could the description be written?
          status     \* the exit status, "runs" when the stream is started

parseVars == <<place, seen, zero, error, returned>>
runVars   == <<fd, written, status>>
vars      == <<args, parseVars, runVars>>

NoError == <<"none", "none">>
Errors  == {"unknown", "positional", "combined", "exclusive", "duplicate", "missing",
            "empty", "invalid", "low", "zero", "requires"}

TypeOK ==
  /\ args \in Seq(Arguments) /\ Len(args) <= MaxArgs
  /\ place \in 1 .. Len(args) + 1
  /\ seen \subseteq Options /\ zero \subseteq seen \cap Durations
  /\ error \in ({"none"} \cup Errors) \X ({"none"} \cup Options) /\ returned \in BOOLEAN
  /\ fd \in Descriptors /\ written \in BOOLEAN
  /\ status \in {"none", "runs", "exit 0", "exit 1", "exit 2"}

Init ==
  /\ \E n \in 0 .. MaxArgs : args \in [1 .. n -> Arguments]
  /\ place = 1 /\ seen = {} /\ zero = {} /\ error = NoError /\ returned = FALSE
  /\ fd \in Descriptors /\ written = TRUE /\ status = "none"

-----------------------------------------------------------------------------
(* parseArgs *)

Return(what, o) ==
  /\ error' = <<what, o>> /\ returned' = TRUE
  /\ UNCHANGED <<place, seen, zero>>

\* Separate names and commands reject any leading dash, durations and
\* descriptors "--" only.
AnyDash(o, v) == v.dash >= 1             \* fault: a signed value is refused as an option
LooksLikeOption(o, v) == v.dash >= IF o \in Commands \cup {"--name"} THEN 1 ELSE 2

\* The argument after a separate option is missing, or is one itself; an
\* `--option=value` has two dashes.
Missing(o) ==
  \/ place = Len(args)
  \/ args[place + 1].form = "equals" \/ LooksLikeOption(o, args[place + 1].value)

\* validateName, parseEventsFD, validateCommand and parseDuration.
ValueError(o, v) ==
  CASE o = "--name"      -> IF v.name THEN "none" ELSE "invalid"
    [] o = "--events-fd" -> IF v.fd = "usable" THEN "none" ELSE v.fd
    [] o \in Commands    -> IF v.blank THEN "empty" ELSE "none"
    [] o \in Durations   -> IF v.blank THEN "empty"
                            ELSE IF v.duration = "invalid" THEN "invalid" ELSE "none"

\* The value ends before place `next`.
Store(o, v, next) ==
  IF ValueError(o, v) # "none" THEN Return(ValueError(o, v), o)
  ELSE /\ place' = next /\ seen' = seen \cup {o}
       /\ zero' = zero \cup {d \in Durations : d = o /\ v.duration = "other"}
       /\ UNCHANGED <<error, returned>>

\* Fault: an async hook may come after the synchronous one.
OneWay(o) ==
  IF o \in {"--on-idle", "--on-resume"} THEN {"--on-idle.async", "--on-resume.async"}
  ELSE {}

Rivals(o) ==
  CASE o = "--on-idle"         -> {"--on-idle.async"}
    [] o = "--on-idle.async"   -> {"--on-idle"}
    [] o = "--on-resume"       -> {"--on-resume.async"}
    [] o = "--on-resume.async" -> {"--on-resume"}
    [] OTHER                   -> {}

\* What is checked of an option before its value.
Clash(o) ==
  IF Rivals(o) \cap seen # {} THEN "exclusive"
  ELSE IF o \in seen THEN "duplicate" ELSE "none"

At(form, names) ==
  ~returned /\ place <= Len(args) /\ args[place].form = form /\ args[place].name \in names

Option == args[place].name
Given  == args[place].value

ReadOther ==
  /\ At("value", {"none"}) \/ At("equals", Options \ Valued)
  /\ Return(IF args[place].form = "value" /\ Given.dash = 0 THEN "positional"
            ELSE "unknown", "none")
  /\ UNCHANGED <<args, runVars>>

\* --describe, --help and --version: parseArgs returns at once.
ReadExclusive ==
  /\ At("option", Exclusive)
  /\ IF Len(args) # 1 THEN Return("combined", Option)
     ELSE /\ seen' = {Option} /\ returned' = TRUE /\ place' = place + 1
          /\ UNCHANGED <<zero, error>>
  /\ UNCHANGED <<args, runVars>>

ReadFlag ==
  /\ At("option", Flags)
  /\ IF Clash(Option) # "none" THEN Return(Clash(Option), Option)
     ELSE /\ seen' = seen \cup {Option} /\ place' = place + 1
          /\ UNCHANGED <<zero, error, returned>>
  /\ UNCHANGED <<args, runVars>>

ReadEquals ==
  /\ At("equals", Valued)
  /\ IF Clash(Option) # "none" THEN Return(Clash(Option), Option)
     ELSE Store(Option, Given, place + 1)
  /\ UNCHANGED <<args, runVars>>

ReadSeparate ==
  /\ At("option", Valued)
  /\ IF Clash(Option) # "none" THEN Return(Clash(Option), Option)
     ELSE IF Missing(Option) THEN Return("missing", Option)
     ELSE Store(Option, args[place + 1].value, place + 2)
  /\ UNCHANGED <<args, runVars>>

\* The checks after the loop, in their order.
IdleHooks == <<"--on-idle", "--on-idle.async", "--on-resume", "--on-resume.async">>
Used == {i \in DOMAIN IdleHooks : IdleHooks[i] \in seen}

Problem ==
  IF "--idle" \in zero THEN <<"zero", "--idle">>
  ELSE IF "--hook-timeout" \in zero THEN <<"zero", "--hook-timeout">>
  ELSE IF "--idle" \notin seen /\ Used # {} THEN <<"requires", IdleHooks[Min(Used)]>>
  ELSE IF /\ "--idle" \in seen /\ Used = {}
          /\ seen \cap {"--verbose", "--events-fd"} = {}
         THEN <<"requires", "--idle">>
  ELSE NoError

Validate ==
  /\ ~returned /\ place > Len(args)
  /\ error' = Problem /\ returned' = TRUE
  /\ UNCHANGED <<args, place, seen, zero, runVars>>

-----------------------------------------------------------------------------
(* Run *)

ValidDescriptor(d) == d.open /\ d.writable /\ d.nonblock /\ d.stream

\* Fault: the exit status of sysexits.h for a usage error.
UsageStatus(d, ok) == IF error # NoError THEN "exit 64" ELSE "runs"

\* newEventEmitter returns nil where the descriptor cannot be duplicated.
Status(d, ok) ==
  IF error # NoError THEN "exit 1"
  ELSE IF "--describe" \in seen /\ ~ok THEN "exit 1"
  ELSE IF seen \cap Exclusive # {} THEN "exit 0"
  ELSE IF "--events-fd" \in seen /\ ~(ValidDescriptor(d) /\ d.duplicates) THEN "exit 2"
  ELSE "runs"

Run ==
  /\ returned /\ status = "none"
  /\ written' \in BOOLEAN
  /\ status' = Status(fd, written')
  /\ UNCHANGED <<args, parseVars, fd>>

Finished == status # "none" /\ UNCHANGED vars

Next ==
  \/ ReadOther \/ ReadExclusive \/ ReadFlag \/ ReadEquals \/ ReadSeparate
  \/ Validate \/ Run \/ Finished

Spec == Init /\ [][Next]_vars

-----------------------------------------------------------------------------
(* The schema that --describe publishes: the options, the types of their   *)
(* values, and which options require or exclude which.                     *)

Requires(o) ==
  IF o \in {"--on-idle", "--on-idle.async", "--on-resume", "--on-resume.async"}
    THEN {"--idle"} ELSE {}

RequiresAny(o) ==
  IF o = "--idle" THEN {"--verbose", "--events-fd", "--on-idle", "--on-idle.async",
                        "--on-resume", "--on-resume.async"} ELSE {}

Conflicts(o) ==
  CASE o \in Exclusive         -> Options \ {o}
    [] o = "--on-idle"         -> {"--on-idle.async"}
    [] o = "--on-idle.async"   -> {"--on-idle"}
    [] o = "--on-resume"       -> {"--on-resume.async"}
    [] o = "--on-resume.async" -> {"--on-resume"}
    [] OTHER                   -> {}

\* The values of the published types, with what --describe does not say of them
\* (cli.go, the value's own check): durations are positive, descriptors not below
\* 3, commands and durations not blank, names printable and without brackets.
InDomain(o, v) ==
  CASE o = "--name"      -> v.name
    [] o = "--events-fd" -> v.fd = "usable"
    [] o \in Commands    -> ~v.blank
    [] o \in Durations   -> ~v.blank /\ v.duration = "positive"

\* The list can be read under the schema with the arguments at the places `at`
\* as values of the options before them: every option is known, none is
\* repeated, each has a value if it takes one, and the constraints between
\* options hold.  Not published, but a rule of the parser, is that a separate
\* name or command has no leading dash.
Reads(list, at) ==
  LET heads == DOMAIN list \ at
      used == {list[i].name : i \in heads}
  IN /\ \A i \in at : i - 1 \in heads /\ list[i].form # "equals"
     /\ \A i \in heads :
          /\ list[i].name \in Options
          /\ list[i].form = "equals" =>
               list[i].name \in Valued /\ InDomain(list[i].name, list[i].value)
          /\ (i + 1 \in at) = (list[i].form = "option" /\ list[i].name \in Valued)
          /\ i + 1 \in at =>
               /\ InDomain(list[i].name, list[i + 1].value)
               /\ list[i].name \in Commands \cup {"--name"} => list[i + 1].value.dash = 0
     /\ \A i, j \in heads : list[i].name = list[j].name => i = j
     /\ \A o \in used : /\ Requires(o) \subseteq used
                        /\ RequiresAny(o) \cap used # {} \/ RequiresAny(o) = {}
                        /\ Conflicts(o) \cap used = {}

Valid(list) == \E at \in SUBSET DOMAIN list : Reads(list, at)

\* The options of a valid list.
Named(list, o) == \E i \in DOMAIN list : list[i].name = o

\* The parser, whose option constraints and order of checks are written by hand
\* ("Keep parsing explicit: option-specific validation and error precedence are
\* public contracts, not a grammar generated from the help/description
\* metadata", cli.go:45), accepts exactly the argument lists that the published
\* metadata allows with values that pass their checks, and Run gives them the
\* documented exit status: 1 for an invalid command line, 2 for a descriptor that
\* cannot carry events.
SchemaDecides ==
  status # "none" =>
    status = IF ~Valid(args) THEN "exit 1"
             ELSE IF Named(args, "--describe") /\ ~written THEN "exit 1"
             ELSE IF \E o \in Exclusive : Named(args, o) THEN "exit 0"
             ELSE IF Named(args, "--events-fd") /\
                     FALSE \in {fd.open, fd.writable, fd.nonblock, fd.stream, fd.duplicates}
                    THEN "exit 2"
             ELSE "runs"

\* Options and values are told apart although no grammar says which argument is
\* which ("Separate names and commands reject any leading dash to avoid consuming
\* flags.  Durations and FDs reject only "--", so signed values reach their
\* existing type and domain checks", cli.go:348): a list that is accepted has
\* every option of it set, and a duration or descriptor is called missing only
\* where the next argument does not read as one, so `--idle -1s` is told that
\* --idle must be positive.
Readable(o, v) == (IF o = "--events-fd" THEN v.fd ELSE v.duration) # "invalid"

OptionsAndValuesApart ==
  /\ status \in {"runs", "exit 0"} =>
       \A i \in DOMAIN args : args[i].form # "value" => args[i].name \in seen
  /\ \A o \in Durations \cup {"--events-fd"} :
       error = <<"missing", o>> /\ place < Len(args) =>
         args[place + 1].form = "equals" \/ ~Readable(o, args[place + 1].value)
=============================================================================
