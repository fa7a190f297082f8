------------------------------- MODULE Commands -------------------------------
(***************************************************************************)
(* The coordinator together with the service calls that write to the       *)
(* charger (button.py, number.py, switch.py).  Calls and polls run         *)
(* concurrently on one event loop (PARALLEL_UPDATES = 0) and meet in three *)
(* places: the connection, which serves their requests in the order they   *)
(* came; the refresh debouncer of Home Assistant's DataUpdateCoordinator,  *)
(* which runs, puts off or drops the refresh a call asks for; and          *)
(* last_command.                                                           *)
(*                                                                         *)
(* No timer is counted down here: a poll may be due, and a cooldown over,  *)
(* at any time, which covers every distance between a call and a poll.     *)
(* Time passes for the age of the last success only, which decides whether *)
(* a failure is tolerated.                                                 *)
(***************************************************************************)
EXTENDS Entities

CONSTANTS
    Tasks,   \* the service calls that may run at the same time
    Calls    \* the calls made, as [kind, value]

CallKinds == {"start", "stop", "limit", "fallback", "timeout", "lock"}

ASSUME CallsAssumption ==
    /\ Calls \subseteq [kind : CallKinds, value : Nat]
    /\ None \notin Tasks \cup {"schedule", "cooldown"}
    /\ Tasks \cap {"poll", "schedule", "cooldown"} = {}

VARIABLES
    task,       \* per task: its call, where it is, and which attempt it is at
    wire,       \* who waits for an answer, in the order the requests were made
    refresher,  \* who holds the debouncer's lock: None, a task, or "schedule", "cooldown"
    cooling,    \* the debouncer's cooldown timer is running
    pending,    \* a refresh is to run when it ends (execute_at_end_of_timer)
    lastIssued  \* history: the session command written last: "none", "start", "stop"

calling == <<task, lastIssued>>
debouncer == <<refresher, cooling, pending>>
allVars == <<vars, task, wire, refresher, cooling, pending, lastIssued>>

-------------------------------------------------------------------------------
\* The charger's answer to a write: it may also obey only later, or not at all.
Obeyed(call, c) ==
    CASE call.kind = "start" -> IF c.state \in {1, 5} THEN [c EXCEPT !.state = 4] ELSE c
      [] call.kind = "stop" -> IF c.state \in Charging
                               THEN [c EXCEPT !.state = 5, !.current = 0] ELSE c
      [] call.kind = "limit" -> WithReading("current", c, call.value)
      [] call.kind = "fallback" -> WithReading("fallback", c, call.value)
      [] call.kind = "timeout" -> [c EXCEPT !.timeout = call.value]
      [] call.kind = "lock" -> IF c.lock = 0 THEN c
                               ELSE [c EXCEPT !.lock = IF call.value = 1 THEN 17 ELSE 1]

\* A number entity takes the values of its range.
Accepted(call) ==
    call.kind \in {"limit", "fallback"} => call.value <= native_max_value(data)

Idle == [call |-> None, at |-> "idle", attempt |-> 0]

-------------------------------------------------------------------------------
\* Polls on the wire.

\* The handler's next request, or the end of the poll: the lock of a scheduled poll is
\* released at once, that of a cooldown poll with a new cooldown, that of a task when
\* the task resumes.
PollMoves ==
    /\ wire' = IF poll' = "idle" THEN Tail(wire) ELSE Append(Tail(wire), "poll")
    /\ refresher' = IF poll' = "idle" /\ refresher \notin Tasks THEN None ELSE refresher
    /\ cooling' = (cooling \/ (poll' = "idle" /\ refresher = "cooldown"))
    /\ UNCHANGED <<pending, calling>>

PollAnswered ==
    /\ wire # <<>> /\ Head(wire) = "poll"
    /\ ReadEnds \/ RestoreEnds
    /\ PollMoves

FirstRefresh ==
    /\ SetUp
    /\ wire' = Append(wire, "poll")
    /\ refresher' = "schedule"
    /\ UNCHANGED <<cooling, pending, calling>>

\* The coroutine of a refresh: it cancels the debouncer's timer and starts a poll.
Refresh(owner) ==
    /\ entry = "loaded" /\ poll = "idle" /\ refresher = None
    /\ BeginRead
    /\ wire' = Append(wire, "poll")
    /\ refresher' = owner
    /\ cooling' = FALSE /\ pending' = FALSE
    /\ UNCHANGED <<charger, entry, polled, availability, data, session, repair, scanIssue>>

ScheduleFires == Refresh("schedule") /\ UNCHANGED calling

\* Debouncer._handle_timer_finish
CooldownEnds ==
    /\ cooling
    /\ \/ pending /\ Refresh("cooldown") /\ UNCHANGED calling
       \/ /\ ~pending
          /\ cooling' = FALSE
          /\ UNCHANGED <<vars, calling, wire, refresher, pending>>

-------------------------------------------------------------------------------
\* Service calls.

\* Put the call's request on the wire.
Issue(t, call, attempt) ==
    /\ task' = [task EXCEPT ![t] = [call |-> call, at |-> "writing", attempt |-> attempt]]
    /\ lastIssued' = IF call.kind \in LastCommands THEN call.kind ELSE lastIssued

\* Mutant: a stop is not noted as the last command before it is written.
Begin_StopUnnoted(t, call) ==
    /\ task[t] = Idle
    /\ entry = "loaded" /\ lastUpdateSuccess
    /\ Accepted(call)
    /\ IF call.kind = "start" THEN Press(call.kind) ELSE UNCHANGED vars
    /\ Issue(t, call, 1)
    /\ wire' = Append(wire, t)
    /\ UNCHANGED debouncer

\* A call runs up to its first await.  The entity must be available.
Begin(t, call) ==
    /\ task[t] = Idle
    /\ entry = "loaded" /\ lastUpdateSuccess
    /\ Accepted(call)
    /\ IF call.kind \in LastCommands THEN Press(call.kind) ELSE UNCHANGED vars
    /\ Issue(t, call, 1)
    /\ wire' = Append(wire, t)
    /\ UNCHANGED debouncer

\* The end of a write that failed: the error goes to the caller.  The charger may
\* have obeyed, and its answer been lost.
WriteFails(t) ==
    /\ wire # <<>> /\ Head(wire) = t
    /\ charger' \in {charger, Obeyed(task[t].call, charger)}
    /\ task' = [task EXCEPT ![t] = Idle]
    /\ wire' = Tail(wire)
    /\ UNCHANGED <<entry, link, availability, data, session, repair, scanIssue,
                   debouncer, lastIssued>>

\* Mutant: a start is repeated for as long as the vehicle waits.
TriesAgain_ForEver(t, d) ==
    task[t].call.kind = "start" /\ d # None /\ d.state \in Plugged

\* A start that still sees the vehicle waiting is written a second time.
TriesAgain(t, d) ==
    /\ task[t].call.kind = "start" /\ task[t].attempt = 1
    /\ d # None /\ d.state \in Plugged

\* After request_refresh, with d as the coordinator's data: the second attempt, whose
\* request follows `queue`, or the end.
GoOn(t, queue, d) ==
    IF TriesAgain(t, d)
    THEN Issue(t, task[t].call, 2) /\ wire' = Append(queue, t)
    ELSE task' = [task EXCEPT ![t] = Idle] /\ wire' = queue /\ UNCHANGED lastIssued

\* Mutant: the call polls by itself, past the debouncer.
WriteSucceeds_PollsItself(t) ==
    /\ wire # <<>> /\ Head(wire) = t
    /\ charger' \in {charger, Obeyed(task[t].call, charger)}
    /\ BeginRead
    /\ wire' = Append(Tail(wire), "poll")
    /\ refresher' = t
    /\ task' = [task EXCEPT ![t].at = "refreshing"]
    /\ UNCHANGED <<entry, polled, availability, data, session, repair, scanIssue,
                   cooling, pending, lastIssued>>

\* The write is accepted, and the call asks for a refresh (Debouncer.async_call): put
\* off while it cools down, dropped while a refresh is running, run otherwise.
WriteSucceeds(t) ==
    /\ wire # <<>> /\ Head(wire) = t
    /\ charger' \in {charger, Obeyed(task[t].call, charger)}
    /\ IF cooling \/ refresher # None
       THEN /\ pending' = (pending \/ cooling)
            /\ GoOn(t, Tail(wire), data)
            /\ UNCHANGED <<link, refresher, cooling>>
       ELSE /\ BeginRead
            /\ wire' = Append(Tail(wire), "poll")
            /\ refresher' = t
            /\ task' = [task EXCEPT ![t].at = "refreshing"]
            /\ UNCHANGED <<polled, cooling, pending, lastIssued>>
    /\ UNCHANGED <<entry, availability, data, session, repair, scanIssue>>

\* The refresh this call ran has ended: the lock is released, the cooldown starts.
Resume(t) ==
    /\ task[t].at = "refreshing" /\ poll = "idle"
    /\ refresher' = None
    /\ cooling' = TRUE
    /\ GoOn(t, wire, data)
    /\ UNCHANGED <<vars, pending>>

\* Time passes, in any amount, between any two steps.
TimePasses ==
    /\ entry = "loaded" /\ age < MaxAge
    /\ age' = age + 1
    /\ UNCHANGED <<charger, entry, link, failedPolls, lastUpdateSuccess, isAvailable, data,
                   session, repair, scanIssue, calling, wire, debouncer>>

-------------------------------------------------------------------------------
CInit ==
    /\ Init
    /\ task = [t \in Tasks |-> Idle]
    /\ wire = <<>>
    /\ refresher = None /\ cooling = FALSE /\ pending = FALSE
    /\ lastIssued = "none"

CallSteps(t) == WriteFails(t) \/ WriteSucceeds(t) \/ Resume(t)

CNext ==
    \/ FirstRefresh
    \/ PollAnswered
    \/ ScheduleFires
    \/ CooldownEnds
    \/ \E t \in Tasks, call \in Calls : Begin(t, call)
    \/ \E t \in Tasks : CallSteps(t)
    \/ ChargerChanges /\ UNCHANGED <<calling, wire, debouncer>>
    \/ TimePasses

\* Every request is answered or fails in its turn, tasks that may run do, polls keep
\* being due, and time does not stand still.
CFairness ==
    /\ WF_allVars(FirstRefresh)
    /\ WF_allVars(PollAnswered)
    /\ WF_allVars(ScheduleFires)
    /\ WF_allVars(CooldownEnds)
    /\ WF_allVars(TimePasses)
    /\ \A t \in Tasks : WF_allVars(CallSteps(t))

CSpec == CInit /\ [][CNext]_allVars /\ CFairness
===============================================================================
