----------------------------- MODULE LimitRestore -----------------------------
(***************************************************************************)
(* What the coordinator promises about one charger limit (the fallback     *)
(* limit, or the charging current limit) that the firmware may reset to an *)
(* invalid value: a limit that a poll shows invalid is restored once, to   *)
(* the last valid value seen or else to the maximum, and not again until a *)
(* poll has shown it valid.  What it remembers of the limit goes only with *)
(* the data itself, when the entry is unloaded or Home Assistant stops.    *)
(***************************************************************************)
EXTENDS Integers

CONSTANTS
    JudgedAlways, \* whether the limit is judged also when the maximum reads as 0
    None

VARIABLES
    amps,  \* the limit, as last read by a poll or restored: None before the first
    max,   \* the maximum read with it
    good,  \* the last valid value seen, None if there was none
    stage  \* "trusted", "restoring" or "spent"

restoreVars == <<amps, max, good, stage>>

Judged == amps # None /\ (JudgedAlways \/ max > 0)
Valid == Judged /\ amps <= max
Invalid == Judged /\ amps > max

Init == amps = None /\ max = None /\ good = None /\ stage = "trusted"

\* A poll shows the limit valid.
SeenValid ==
    /\ stage # "restoring"
    /\ Valid'
    /\ stage' = "trusted" /\ good' = amps'

\* A poll shows it invalid, the first since a valid one: it is written back.
BeginRestore ==
    /\ stage = "trusted"
    /\ Invalid'
    /\ stage' = "restoring" /\ UNCHANGED good

\* A poll shows it invalid again, or cannot tell: nothing is done about it.
SeenAgain ==
    /\ stage = "spent"
    /\ Invalid'
    /\ UNCHANGED <<stage, good>>
SeenUnjudged ==
    /\ stage # "restoring"
    /\ amps' # None /\ ~Judged'
    /\ UNCHANGED <<stage, good>>

\* The restore was accepted; or it was not, and the limit is as it was read.  The two
\* look alike only where the value restored is the one that was read, which can be the
\* case after the maximum was lowered below the last valid value.
Accepted ==
    /\ stage = "restoring" /\ stage' = "spent"
    /\ amps' = IF good = None THEN max ELSE good
    /\ UNCHANGED <<max, good>>
Refused ==
    /\ stage = "restoring" /\ stage' = "spent"
    /\ UNCHANGED <<amps, max, good>>

\* The entry is unloaded or Home Assistant stops.
Forget ==
    /\ amps # None
    /\ amps' = None /\ max' = None /\ good' = None /\ stage' = "trusted"

Next ==
    \/ SeenValid \/ BeginRestore \/ SeenAgain \/ SeenUnjudged
    \/ Accepted \/ Refused \/ Forget

\* Every restore is answered, or dropped with the coordinator.
RestoreEnds == (stage = "restoring") ~> (stage # "restoring")

\* What may happen to the limit, and what must.
Safe == Init /\ [][Next]_restoreVars
Spec == Safe /\ RestoreEnds
==============================================================================
