---------------------------- MODULE EntryLifecycle ----------------------------
(***************************************************************************)
(* Commands, with the entry unloaded and set up again at any time.  An     *)
(* unload ends what the entry itself has started: the schedule, its poll,  *)
(* the debouncer.  It does not end what service calls have started.  Those *)
(* calls, and the poll one of them or the debouncer has begun, go on in    *)
(* the old coordinator, beside those of the new one: on the same           *)
(* connection, and with the same issues.                                   *)
(***************************************************************************)
EXTENDS Commands

ASSUME OldAssumption == "old" \notin Tasks

VARIABLE old  \* what is left of the coordinator that was unloaded last

lifecycleVars == <<allVars, old>>

NoMemory == [l \in Limits |-> [lastValid |-> None, fixAttempted |-> FALSE, issue |-> FALSE]]

\* Its calls, its poll with what it has read and what it remembers of the limits, and
\* its data.
Gone == [calls |-> {}, poll |-> "idle", polled |-> None, memory |-> NoMemory, data |-> None]

\* Nothing refers to an old coordinator any more once its calls and its poll have ended.
Kept(o) == IF o.calls = {} /\ o.poll = "idle" THEN Gone ELSE o

\* A poll that a call or the debouncer has begun is a task of Home Assistant's, not of
\* the entry's.
Outlives == poll # "idle" /\ refresher # "schedule"

\* Mutant: the requests of calls are dropped with their entry, and the calls never told.
UnloadEntry_DropsRequests ==
    /\ entry = "loaded" /\ old = Gone
    /\ ShutDown
    /\ old' = Kept([Gone EXCEPT !.calls = {t \in Tasks : task[t] # Idle}, !.data = data])
    /\ wire' = <<>>
    /\ refresher' = None /\ cooling' = FALSE /\ pending' = FALSE
    /\ UNCHANGED calling

\* async_unload_entry and async_shutdown of the coordinator.  Bound: no second unload
\* before the work left by the first has ended.
UnloadEntry ==
    /\ entry = "loaded" /\ old = Gone
    /\ ShutDown
    /\ Outlives => charger' = charger
    /\ LET left == [Gone EXCEPT !.calls = {t \in Tasks : task[t] # Idle}, !.data = data]
           onWire(who) == IF who = "poll" THEN "old" ELSE who
       IN  IF Outlives
           THEN /\ old' = [left EXCEPT !.poll = poll, !.polled = polled, !.memory = repair]
                /\ wire' = [i \in DOMAIN wire |-> onWire(wire[i])]
           ELSE /\ old' = Kept(left)
                /\ IF poll = "idle"
                   THEN wire' = wire
                   ELSE \E i \in DOMAIN wire : wire[i] = "poll" /\ wire' = RemoveAt(wire, i)
    /\ refresher' = None /\ cooling' = FALSE /\ pending' = FALSE
    /\ UNCHANGED calling

-------------------------------------------------------------------------------
\* The old poll.

\* What it remembers, with the issues as they are now.
OldRepair == [l \in Limits |-> [old.memory[l] EXCEPT !.issue = repair[l].issue]]

\* The old poll goes on with the limits not judged yet: it awaits the first restore
\* that is needed, or ends and publishes to nobody but the issues.
OldJudges(limits, d, rep) ==
    LET needed == {l \in limits : NeedsRestore(l, d, rep[l])}
        next == IF "fallback" \in needed THEN "fallback" ELSE "current"
        seen == IF next = "fallback" THEN {next} ELSE limits
        judged == [l \in Limits |-> IF l \in seen THEN Remembered(l, d, rep[l]) ELSE rep[l]]
    IN  /\ repair' = [l \in Limits |-> [repair[l] EXCEPT !.issue = judged[l].issue]]
        /\ IF needed # {}
           THEN /\ old' = [old EXCEPT !.poll = next, !.polled = d, !.memory = judged]
                /\ wire' = Append(Tail(wire), "old")
                /\ UNCHANGED scanIssue
           ELSE /\ old' = Kept([old EXCEPT !.poll = "idle", !.polled = None,
                                           !.memory = NoMemory, !.data = d])
                /\ wire' = Tail(wire)
                /\ scanIssue' = (d.timeout > 0 /\ ScanInterval >= d.timeout)

OldPollAnswered == wire # <<>> /\ Head(wire) = "old"

OldReadSucceeds ==
    /\ old.poll = "reading"
    /\ OldJudges(Limits, charger, OldRepair)
    /\ UNCHANGED charger

OldReadFails ==
    /\ old.poll = "reading"
    /\ old' = Kept([old EXCEPT !.poll = "idle", !.memory = NoMemory])
    /\ wire' = Tail(wire)
    /\ UNCHANGED <<charger, repair, scanIssue>>

\* The limits judged after l.
After(l) == {"current"} \ {l}

OldRestoreSucceeds(l) ==
    LET value == RestoreValue(old.polled, old.memory[l])
    IN  /\ old.poll = l
        /\ charger' = WithReading(l, charger, value)
        /\ OldJudges(After(l), WithReading(l, old.polled, value),
                     [OldRepair EXCEPT ![l].issue = FALSE])

OldRestoreFails(l) ==
    LET value == RestoreValue(old.polled, old.memory[l])
    IN  /\ old.poll = l
        /\ charger' \in {charger, WithReading(l, charger, value)}
        /\ OldJudges(After(l), old.polled, [OldRepair EXCEPT ![l].issue = TRUE])

OldPollMoves ==
    /\ OldPollAnswered
    /\ \/ OldReadSucceeds
       \/ OldReadFails
       \/ \E l \in Limits : OldRestoreSucceeds(l) \/ OldRestoreFails(l)
    /\ UNCHANGED <<entry, link, availability, data, session, calling, debouncer>>

-------------------------------------------------------------------------------
\* The old calls.

\* The call leaves the old coordinator when it ends.
OldCallMoves(t) ==
    old' = IF task'[t] = Idle THEN Kept([old EXCEPT !.calls = @ \ {t}]) ELSE old

\* A debouncer that was shut down ignores the request for a refresh.
OldWriteSucceeds(t) ==
    /\ wire # <<>> /\ Head(wire) = t
    /\ charger' \in {charger, Obeyed(task[t].call, charger)}
    /\ GoOn(t, Tail(wire), old.data)
    /\ UNCHANGED <<entry, link, availability, data, session, repair, scanIssue, debouncer>>

\* The old poll this call waited for has ended.
OldResume(t) ==
    /\ task[t].at = "refreshing" /\ old.poll = "idle"
    /\ GoOn(t, wire, old.data)
    /\ UNCHANGED <<vars, debouncer>>

OldCallSteps(t) ==
    /\ t \in old.calls
    /\ WriteFails(t) \/ OldWriteSucceeds(t) \/ OldResume(t)
    /\ OldCallMoves(t)

-------------------------------------------------------------------------------
LInit == CInit /\ old = Gone

\* The steps of the entry as it is now, and of its calls.
Loaded(A) == A /\ UNCHANGED old
CurrentCallSteps(t) == t \notin old.calls /\ CallSteps(t)

LNext ==
    \/ Loaded(FirstRefresh)
    \/ Loaded(PollAnswered)
    \/ Loaded(ScheduleFires)
    \/ Loaded(CooldownEnds)
    \/ \E t \in Tasks, call \in Calls : Loaded(Begin(t, call))
    \/ \E t \in Tasks : Loaded(CurrentCallSteps(t))
    \/ Loaded(ChargerChanges /\ UNCHANGED <<calling, wire, debouncer>>)
    \/ Loaded(TimePasses)
    \/ UnloadEntry
    \/ OldPollMoves
    \/ \E t \in Tasks : OldCallSteps(t)

\* That of Commands, and the old coordinator's work goes on to its end too.
LFairness ==
    /\ WF_lifecycleVars(Loaded(FirstRefresh))
    /\ WF_lifecycleVars(Loaded(PollAnswered))
    /\ WF_lifecycleVars(Loaded(ScheduleFires))
    /\ WF_lifecycleVars(Loaded(CooldownEnds))
    /\ WF_lifecycleVars(Loaded(TimePasses))
    /\ WF_lifecycleVars(OldPollMoves)
    /\ \A t \in Tasks : WF_lifecycleVars(Loaded(CurrentCallSteps(t)) \/ OldCallSteps(t))

LSpec == LInit /\ [][LNext]_lifecycleVars /\ LFairness
===============================================================================
