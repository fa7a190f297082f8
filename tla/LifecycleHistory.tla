--------------------------- MODULE LifecycleHistory ---------------------------
(***************************************************************************)
(* The entry's life with the log of SessionHistory: the buttons are        *)
(* pressed by real calls, which write, try again and ask for polls, and    *)
(* which go on when their entry is gone, beside a poll of the coordinator  *)
(* before.  None of that may reach the session memory.                     *)
(***************************************************************************)
EXTENDS CommandsProperties, SessionHistory

historyVars == <<lifecycleVars, log>>

LogAnswer ==
    \/ (ReadSucceeds \/ RestoreEnds) /\ LogPoll
    \/ (\E kind \in FailureKinds : ReadFails(kind)) /\ UNCHANGED log
    \/ (\E kind \in FailureKinds : SetUpFails(kind)) /\ log' = <<>>

LogCall(call) ==
    log' = IF call.kind \in LastCommands THEN Append(log, Pressed(call.kind)) ELSE log

LHInit == LInit /\ log = <<>>

\* The log is not bounded: this is there to be proved about.
LHNext ==
    \/ \E t \in Tasks, call \in Calls : Loaded(Begin(t, call)) /\ LogCall(call)
    \/ Loaded(PollAnswered) /\ LogAnswer
    \/ UnloadEntry /\ log' = <<>>
    \/ /\ \/ Loaded(FirstRefresh)
          \/ Loaded(ScheduleFires)
          \/ Loaded(CooldownEnds)
          \/ \E t \in Tasks : Loaded(CurrentCallSteps(t)) \/ OldCallSteps(t)
          \/ Loaded(ChargerChanges /\ UNCHANGED <<calling, wire, debouncer>>)
          \/ Loaded(TimePasses)
          \/ OldPollMoves
       /\ UNCHANGED log

LHSpec == LHInit /\ [][LHNext]_historyVars
===============================================================================
