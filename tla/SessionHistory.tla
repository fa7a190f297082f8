---------------------------- MODULE SessionHistory ----------------------------
(***************************************************************************)
(* The coordinator with a log of what it has been told: every finished     *)
(* poll and every button pressed, in order.  The coordinator keeps three   *)
(* small variables instead of the log; the properties say that the session *)
(* state it shows is nevertheless the one the whole log calls for.         *)
(***************************************************************************)
EXTENDS CoordinatorProperties, Sequences, FiniteSets

CONSTANT MaxLog  \* bound: events logged since the entry was set up

ASSUME MaxLogAssumption == MaxLog \in Nat

VARIABLE log

Polled(d) == [kind |-> "poll", status |-> d]
Pressed(button) == [kind |-> "press", button |-> button]

\* A poll is logged when its data is published, which may be after its restores.
LogPoll == log' = IF poll' = "idle" THEN Append(log, Polled(data')) ELSE log

HInit == Init /\ log = <<>>

\* Time stands still: the session memory depends on the order of polls and presses,
\* not on their distance, and a requested poll may come whenever a scheduled one may.
HNext ==
    \/ /\ Len(log) < MaxLog
       /\ \/ (ReadSucceeds \/ RestoreEnds) /\ LogPoll
          \/ \E button \in Buttons : Press(button) /\ log' = Append(log, Pressed(button))
    \/ /\ ShutDown \/ \E kind \in FailureKinds : SetUpFails(kind)
       /\ log' = <<>>
    \/ /\ \/ SetUp \/ RequestedRefresh \/ ChargerChanges
          \/ \E kind \in FailureKinds : ReadFails(kind)
       /\ UNCHANGED log

HSpec == HInit /\ [][HNext]_<<vars, log>>

-------------------------------------------------------------------------------
PollsIn == {i \in DOMAIN log : log[i].kind = "poll"}
PollsAfter(i) == {j \in PollsIn : j > i}
StatusAt(i) == log[i].status

\* A button's command stands until a poll shows the cable unplugged, or the session
\* where the command leads: a start is over from B2 on, a stop back in A or B1.
Stands(button) ==
    \E i \in DOMAIN log :
        /\ log[i] = Pressed(button)
        /\ \A j \in DOMAIN log : j > i => log[j].kind = "poll"
        /\ \A j \in PollsAfter(i) :
             /\ StatusAt(j).lock # 0
             /\ IF button = "start" THEN StatusAt(j).state < 2
                                    ELSE StatusAt(j).state \notin Plugged

\* Charging or a pause was polled, and since then neither idle, nor complete, nor an
\* unplugged cable.
ActiveSince ==
    \E i \in PollsIn :
        /\ StatusAt(i).state \in {3, 4, 5}
        /\ \A j \in PollsAfter(i) :
             \/ StatusAt(j).state \in {3, 4, 5}
             \/ StatusAt(j).state \notin {0, 2} /\ StatusAt(j).lock # 0

\* How many polls in a row, up to the last, have shown state 5.
FivesInARow == Cardinality({i \in PollsIn : \A j \in PollsAfter(i) \cup {i} : StatusAt(j).state = 5})

InState(raws) == data # None /\ data.state \in raws
TooLowToCharge == data.current < PAUSE_CURRENT_THRESHOLD

\* "Paused by command" is shown exactly when the charger is paused and a stop pressed
\* here has not been superseded (session_state.py:93, __init__.py:388-402).
PausedByCommandIsEarned ==
    session_state = "paused_by_command" <=> InState({5}) /\ Stands("stop")

\* "Paused by current" is shown exactly when the limit is too low to charge and the
\* charger is paused without a standing stop, or fell back to B1 in the session the
\* polls have seen active (README:11, session_state.py:75-81).
PausedByCurrentIsEarned ==
    session_state = "paused_by_current" <=>
        /\ data # None /\ TooLowToCharge
        /\ \/ InState({5}) /\ ~Stands("stop")
           \/ InState({1}) /\ ActiveSince

\* State 5 passes for active in its first polls only (session_state.py:102-106).
ActiveIsEarned ==
    session_state = "active" <=>
        \/ InState({3, 4})
        \/ /\ InState({5}) /\ ~Stands("stop") /\ ~TooLowToCharge
           /\ data.phase <= PAUSE_CURRENT_THRESHOLD
           /\ FivesInARow <= STATE_5_TRANSITION_POLLS

\* A start pressed while the vehicle waits is still known as the last command while
\* every poll shows it waiting (__init__.py:396-398), and no other command is.
StartIsRemembered == lastCommand = "start" <=> Stands("start")
===============================================================================
