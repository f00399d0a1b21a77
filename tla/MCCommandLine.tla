--------------------------- MODULE MCCommandLine ----------------------------
\* Instances of CommandLine for TLC: every option, and the values that differ.
EXTENDS CommandLine

Text(dash, blank, duration, number, name) ==
  [dash |-> dash, blank |-> blank, duration |-> duration, fd |-> number, name |-> name]

Word      == Text(0, FALSE, "invalid",  "invalid", TRUE)
Blank     == Text(0, TRUE,  "invalid",  "invalid", FALSE)
Bracket   == Text(0, FALSE, "invalid",  "invalid", FALSE)    \* [x]
Seconds   == Text(0, FALSE, "positive", "invalid", TRUE)     \* 5s
Zero      == Text(0, FALSE, "other",    "low",     TRUE)     \* 0
Negative  == Text(1, FALSE, "other",    "invalid", TRUE)     \* -1s
MinusOne  == Text(1, FALSE, "invalid",  "low",     TRUE)     \* -1
Three     == Text(0, FALSE, "invalid",  "usable",  TRUE)     \* 3
Dashes    == Text(2, FALSE, "invalid",  "invalid", TRUE)     \* --
Short     == Text(1, FALSE, "invalid",  "invalid", TRUE)     \* -h

Bare(v)      == [form |-> "value", name |-> "none", value |-> v]
Long(o)      == [form |-> "option", name |-> o, value |-> Dashes]
Equals(o, v) == [form |-> "equals", name |-> o, value |-> v]

MCArguments ==
  { Long(o) : o \in Options }
    \cup { [Long("--help") EXCEPT !.value = Short] }
    \cup { Bare(v) : v \in {Word, Blank, Seconds, Zero, Negative, MinusOne, Three, Dashes} }
    \cup { Equals(o, Word) : o \in {"--verbose", "--describe", "--name", "--on-ready",
                                    "--on-idle", "--on-idle.async", "--on-resume.async"} }
    \cup { Equals("--name", Bracket), Equals("--on-shutdown", Short),
           Equals("--on-first-data", Blank), Equals("--idle", Seconds),
           Equals("--idle", Negative), Equals("--hook-timeout", Zero),
           Equals("--events-fd", Three), Equals("--events-fd", MinusOne) }

Usable == [open |-> TRUE, writable |-> TRUE, nonblock |-> TRUE, stream |-> TRUE,
           duplicates |-> TRUE]
MCDescriptors == { Usable } \cup { [Usable EXCEPT ![f] = FALSE] : f \in DOMAIN Usable }
=============================================================================
