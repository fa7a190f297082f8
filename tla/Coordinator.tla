----------------------------- MODULE Coordinator -----------------------------
(***************************************************************************)
(* The polling coordinator of one config entry                             *)
(* (AbbTerraAcDataUpdateCoordinator in __init__.py) and the charger it     *)
(* polls.  A poll is a coroutine: it runs from one await to the next in    *)
(* one step, and anything else may happen while it waits for an answer.    *)
(*                                                                         *)
(* Time is counted in ticks.  Currents in a status are in mA where the     *)
(* registers hold mA (current, userMax, phase) and in A where they hold A  *)
(* (fallback).  Module Commands puts the real service calls, the           *)
(* refresh debouncer and the request queue in the place of the button      *)
(* presses and the refresh requests that may come here at any time.        *)
(***************************************************************************)
EXTENDS SessionState

CONSTANTS
    Statuses,       \* the statuses the charger may take by itself
    FailureKinds,   \* how a read may fail: "connection", "modbus", "other"
    Buttons,        \* the buttons the user may press: "start", "stop"
    ScanInterval,   \* ticks from the end of a poll to the next scheduled one
    RequestTimeout, \* ticks within which a request is answered or fails
    TOLERATED_FAILURE_SECONDS,  \* in ticks
    MaxAge,         \* bound: ages from here on are not told apart
    None

Limits == {"fallback", "current"}

Status == [state: 0..127, reduced: BOOLEAN, lock: Nat, error: Nat, userMax: Nat,
           current: Nat, fallback: Nat, timeout: Nat, phase: Nat]

ASSUME StatusesAssumption == Statuses # {} /\ Statuses \subseteq Status
ASSUME FailureKindsAssumption == FailureKinds \subseteq {"connection", "modbus", "other"}
ASSUME ButtonsAssumption == Buttons \subseteq {"start", "stop"}
ASSUME TimeAssumption ==
    /\ ScanInterval \in Nat \ {0}
    /\ RequestTimeout \in Nat \ {0}
    /\ TOLERATED_FAILURE_SECONDS \in Nat \ {0}
    /\ MaxAge \in Nat
    /\ MaxAge >= TOLERATED_FAILURE_SECONDS
ASSUME NoneAssumption == None \notin Nat /\ None \notin Status

VARIABLES
    charger,            \* the charger's registers
    entry,              \* the config entry: "not_loaded", "setting_up", "loaded"
    poll,               \* "idle", "reading", or the limit whose restore is awaited
    polled,             \* the status the poll in flight has read
    timer,              \* ticks left to the next poll, or for the awaited answer
    age,                \* ticks since _last_success
    failedPolls,        \* _failed_polls, told apart up to 2
    data,               \* coordinator.data
    lastUpdateSuccess,  \* coordinator.last_update_success: entities are available
    isAvailable,        \* _is_available
    lastCommand,        \* last_command
    state5Polls,        \* _state_5_polls, told apart past the transition
    sessionWasActive,   \* _session_was_active
    repair,             \* per limit: _last_valid_*, _*_fix_attempted, and its issue
    scanIssue           \* the scan_interval_exceeds_timeout issue is open

link == <<poll, polled, timer>>
availability == <<age, failedPolls, lastUpdateSuccess, isAvailable>>
session == <<lastCommand, state5Polls, sessionWasActive>>
vars == <<charger, entry, link, availability, data, session, repair, scanIssue>>

-------------------------------------------------------------------------------
\* Limits.

AtMost(n, bound) == IF n < bound THEN n ELSE bound

\* int() of the register value in A.
UserMax(d) == d.userMax \div 1000
Reading(l, d) == IF l = "fallback" THEN d.fallback ELSE d.current \div 1000

WithReading(l, d, amps) ==
    IF l = "fallback" THEN [d EXCEPT !.fallback = amps]
                      ELSE [d EXCEPT !.current = 1000 * amps]

\* The charging current limit is judged only when the maximum is known.
Judged(l, d) == l = "fallback" \/ UserMax(d) > 0
Valid(l, d) == Judged(l, d) /\ Reading(l, d) <= UserMax(d)

\* Mutant: only a limit above the charger's default is invalid.
Invalid_Default(l, d) == Judged(l, d) /\ Reading(l, d) > 32

Invalid(l, d) == Judged(l, d) /\ Reading(l, d) > UserMax(d)

\* Mutant: every poll that finds the limit invalid restores it again.
NeedsRestore_Always(l, d, r) == Invalid(l, d)

NeedsRestore(l, d, r) == Invalid(l, d) /\ ~r.fixAttempted

\* Mutant: with no valid value remembered, the charger's default is restored.
RestoreValue_Default(d, r) == IF r.lastValid = None THEN 32 ELSE r.lastValid

RestoreValue(d, r) == IF r.lastValid = None THEN UserMax(d) ELSE r.lastValid

\* Mutants: a valid reading leaves the issue open; the attempt is not remembered.
Remembered_KeepsIssue(l, d, r) ==
    CASE Valid(l, d) -> [r EXCEPT !.lastValid = Reading(l, d), !.fixAttempted = FALSE]
      [] NeedsRestore(l, d, r) -> [r EXCEPT !.fixAttempted = TRUE]
      [] OTHER -> r
Remembered_NoAttempt(l, d, r) ==
    IF Valid(l, d)
    THEN [lastValid |-> Reading(l, d), fixAttempted |-> FALSE, issue |-> FALSE]
    ELSE r

\* What the coordinator remembers of a limit once it has judged the reading.
Remembered(l, d, r) ==
    CASE Valid(l, d) ->
            [lastValid |-> Reading(l, d), fixAttempted |-> FALSE, issue |-> FALSE]
      [] NeedsRestore(l, d, r) -> [r EXCEPT !.fixAttempted = TRUE]
      [] OTHER -> r

-------------------------------------------------------------------------------
\* The session memory.

\* Mutants: idle and plugged in do not end a stop; B1 ends a start too.
SyncedCommand_KeepsStop(d) ==
    IF d.lock = 0 \/ (d.state >= 2 /\ lastCommand = "start")
    THEN "none"
    ELSE lastCommand
SyncedCommand_PlainB1(d) ==
    IF d.lock = 0 \/ d.state \in Plugged \/ (d.state >= 2 /\ lastCommand = "start")
    THEN "none"
    ELSE lastCommand

\* _sync_last_command_after_poll
SyncedCommand(d) ==
    IF \/ d.lock = 0
       \/ d.state >= 2 /\ lastCommand = "start"
       \/ d.state \in Plugged /\ lastCommand # "start"
    THEN "none"
    ELSE lastCommand

\* Mutant: an unplugged cable does not end the session.
ActivitySeen_IgnoresCable(d) ==
    d.state \in Charging \cup {5} \/ (sessionWasActive /\ d.state \notin {0, 2})

\* _update_session_was_active
ActivitySeen(d) ==
    \/ d.state \in Charging \cup {5}
    \/ sessionWasActive /\ d.state \notin {0, 2} /\ d.lock # 0

\* The session state entity's value.
session_state ==
    IF data = None THEN "unknown"
    ELSE derive_session_state(data.state, data.current, lastCommand, data.phase,
                              state5Polls, sessionWasActive)

-------------------------------------------------------------------------------
\* The poll handler, from await to await.

\* A setup or a reload makes a new coordinator; only issues outlive the old one.
NewCoordinator ==
    /\ poll' = "idle" /\ polled' = None /\ timer' = 0
    /\ age' = 0 /\ failedPolls' = 0 /\ lastUpdateSuccess' = TRUE /\ isAvailable' = TRUE
    /\ data' = None
    /\ lastCommand' = "none" /\ state5Polls' = 0 /\ sessionWasActive' = FALSE
    /\ repair' = [l \in Limits |-> [repair[l] EXCEPT !.lastValid = None,
                                                     !.fixAttempted = FALSE]]

\* Write a limit back and wait for the charger's answer.
AwaitRestore(l, d, rep) ==
    /\ poll' = l
    /\ polled' = d
    /\ timer' = RequestTimeout
    /\ repair' = rep
    /\ UNCHANGED <<entry, data, lastUpdateSuccess, isAvailable, session, scanIssue>>

\* The rest of the handler after the restores: the new data is published.
FinishPoll(d, rep) ==
    /\ entry' = "loaded"
    /\ poll' = "idle" /\ polled' = None /\ timer' = ScanInterval
    /\ data' = d
    /\ lastUpdateSuccess' = TRUE /\ isAvailable' = TRUE
    /\ lastCommand' = SyncedCommand(d)
    /\ state5Polls' = IF d.state = 5
                      THEN AtMost(state5Polls + 1, STATE_5_TRANSITION_POLLS + 1)
                      ELSE 0
    /\ sessionWasActive' = ActivitySeen(d)
    /\ repair' = rep
    /\ scanIssue' = (d.timeout > 0 /\ ScanInterval >= d.timeout)

\* Judge the charging current limit, the second of the two.
JudgeCurrent(d, rep) ==
    LET judged == [rep EXCEPT !["current"] = Remembered("current", d, rep["current"])]
    IN  IF NeedsRestore("current", d, rep["current"])
        THEN AwaitRestore("current", d, judged)
        ELSE FinishPoll(d, judged)

\* Judge the fallback limit, the first.
JudgeFallback(d, rep) ==
    LET judged == [rep EXCEPT !["fallback"] = Remembered("fallback", d, rep["fallback"])]
    IN  IF NeedsRestore("fallback", d, rep["fallback"])
        THEN AwaitRestore("fallback", d, judged)
        ELSE JudgeCurrent(d, judged)

\* Back from the restore of limit l.
AfterRestore(l, d, rep) ==
    IF l = "fallback" THEN JudgeCurrent(d, rep) ELSE FinishPoll(d, rep)

BeginRead ==
    /\ poll' = "reading"
    /\ timer' = RequestTimeout

\* async_setup_entry: the first refresh of a new coordinator.
SetUp ==
    /\ entry = "not_loaded"
    /\ entry' = "setting_up"
    /\ BeginRead
    /\ UNCHANGED <<charger, polled, availability, data, session, repair, scanIssue>>

ScheduledRefresh ==
    /\ entry = "loaded" /\ poll = "idle" /\ timer = 0
    /\ BeginRead
    /\ UNCHANGED <<charger, entry, polled, availability, data, session, repair, scanIssue>>

\* A service call asks for a refresh, ahead of the schedule.
RequestedRefresh ==
    /\ entry = "loaded" /\ poll = "idle"
    /\ BeginRead
    /\ UNCHANGED <<charger, entry, polled, availability, data, session, repair, scanIssue>>

\* Mutant: the poll hands on the previous data.
ReadSucceeds_OldData ==
    /\ poll = "reading"
    /\ failedPolls' = 0 /\ age' = 0
    /\ JudgeFallback(IF data = None THEN charger ELSE data, repair)
    /\ UNCHANGED charger

ReadSucceeds ==
    /\ poll = "reading"
    /\ failedPolls' = 0
    /\ age' = 0
    /\ JudgeFallback(charger, repair)
    /\ UNCHANGED charger

\* Mutants: the last data is kept for ever; the outage is not noted; failures are
\* counted anew after each one that was not tolerated.
TolerateFailure_ForEver ==
    /\ failedPolls' = AtMost(failedPolls + 1, 2)
    /\ UNCHANGED <<lastUpdateSuccess, isAvailable>>
TolerateFailure_Unnoted ==
    /\ failedPolls' = AtMost(failedPolls + 1, 2)
    /\ lastUpdateSuccess' = (failedPolls = 0 \/ age < TOLERATED_FAILURE_SECONDS)
    /\ UNCHANGED isAvailable
TolerateFailure_CountsAnew ==
    IF data # None /\ (failedPolls = 0 \/ age < TOLERATED_FAILURE_SECONDS)
    THEN failedPolls' = 1 /\ lastUpdateSuccess' = TRUE /\ UNCHANGED isAvailable
    ELSE failedPolls' = 0 /\ lastUpdateSuccess' = FALSE /\ isAvailable' = FALSE

\* A timeout or a lost link: the last data is kept for a while.
TolerateFailure ==
    /\ failedPolls' = AtMost(failedPolls + 1, 2)
    /\ IF data # None /\ (failedPolls = 0 \/ age < TOLERATED_FAILURE_SECONDS)
       THEN lastUpdateSuccess' = TRUE /\ UNCHANGED isAvailable
       ELSE lastUpdateSuccess' = FALSE /\ isAvailable' = FALSE

\* Any other failure: unavailable at once.
RejectFailure ==
    /\ lastUpdateSuccess' = FALSE /\ isAvailable' = FALSE
    /\ UNCHANGED failedPolls

\* Mutant: a tolerated failure counts as a success of its time.
ReadFails_Renewing(kind) ==
    /\ entry = "loaded" /\ poll = "reading"
    /\ IF kind = "connection" THEN TolerateFailure ELSE RejectFailure
    /\ age' = IF lastUpdateSuccess' THEN 0 ELSE age
    /\ poll' = "idle"
    /\ timer' = ScanInterval
    /\ UNCHANGED <<charger, entry, polled, data, session, repair, scanIssue>>

ReadFails(kind) ==
    /\ entry = "loaded" /\ poll = "reading"
    /\ IF kind = "connection" THEN TolerateFailure ELSE RejectFailure
    /\ poll' = "idle"
    /\ timer' = ScanInterval
    /\ UNCHANGED <<charger, entry, polled, age, data, session, repair, scanIssue>>

\* Mutant: the entry is loaded although its first refresh failed.
SetUpFails_Loads(kind) ==
    /\ entry = "setting_up" /\ poll = "reading"
    /\ entry' = "loaded"
    /\ NewCoordinator
    /\ UNCHANGED <<charger, scanIssue>>

\* The first refresh fails: ConfigEntryNotReady, and a new setup later.
SetUpFails(kind) ==
    /\ entry = "setting_up" /\ poll = "reading"
    /\ entry' = "not_loaded"
    /\ NewCoordinator
    /\ UNCHANGED <<charger, scanIssue>>

RestoreSucceeds(l) ==
    LET value == RestoreValue(polled, repair[l])
    IN  /\ poll = l
        /\ charger' = WithReading(l, charger, value)
        /\ AfterRestore(l, WithReading(l, polled, value), [repair EXCEPT ![l].issue = FALSE])
        /\ UNCHANGED <<age, failedPolls>>

\* Mutant: a restore that fails opens no issue.
RestoreFails_Unreported(l) ==
    /\ poll = l
    /\ charger' \in {charger, WithReading(l, charger, RestoreValue(polled, repair[l]))}
    /\ AfterRestore(l, polled, repair)
    /\ UNCHANGED <<age, failedPolls>>

\* The charger refused the write, or applied it and its answer was lost.
RestoreFails(l) ==
    /\ poll = l
    /\ charger' \in {charger, WithReading(l, charger, RestoreValue(polled, repair[l]))}
    /\ AfterRestore(l, polled, [repair EXCEPT ![l].issue = TRUE])
    /\ UNCHANGED <<age, failedPolls>>

-------------------------------------------------------------------------------
\* Around the poll handler.

\* The first step of a button's handler, up to its first await.  A button that is
\* not available cannot be pressed.
Press(button) ==
    /\ entry = "loaded" /\ lastUpdateSuccess
    /\ lastCommand' = button
    /\ UNCHANGED <<charger, entry, link, availability, data, state5Polls,
                   sessionWasActive, repair, scanIssue>>

\* The charger moves: a vehicle, its owner, its app, its firmware.
ChargerChanges ==
    /\ \E s \in Statuses : s # charger /\ charger' = s
    /\ UNCHANGED <<entry, link, availability, data, session, repair, scanIssue>>

\* Mutant: the issue about the scan interval is not deleted.
ShutDown_KeepsScanIssue ==
    /\ entry # "not_loaded"
    /\ entry' = "not_loaded"
    /\ NewCoordinator
    /\ UNCHANGED <<charger, scanIssue>>

\* Home Assistant stops and starts again, or the entry is unloaded with no poll in flight
\* but one of its schedule's: that poll is dropped, and a write it waits for may have been
\* applied.  An unload that a poll begun by a service call outlives is EntryLifecycle's.
ShutDown ==
    /\ entry # "not_loaded"
    /\ entry' = "not_loaded"
    /\ charger' \in {charger} \cup
         {WithReading(l, charger, RestoreValue(polled, repair[l])) : l \in Limits \cap {poll}}
    /\ NewCoordinator
    /\ scanIssue' = FALSE

Tick ==
    /\ timer > 0
    /\ timer' = timer - 1
    /\ age' = AtMost(age + 1, MaxAge)
    /\ UNCHANGED <<charger, entry, poll, polled, failedPolls, lastUpdateSuccess,
                   isAvailable, data, session, repair, scanIssue>>

-------------------------------------------------------------------------------
Init ==
    /\ charger \in Statuses
    /\ entry = "not_loaded"
    /\ poll = "idle" /\ polled = None /\ timer = 0
    /\ age = 0 /\ failedPolls = 0 /\ lastUpdateSuccess = TRUE /\ isAvailable = TRUE
    /\ data = None
    /\ lastCommand = "none" /\ state5Polls = 0 /\ sessionWasActive = FALSE
    /\ repair = [l \in Limits |-> [lastValid |-> None, fixAttempted |-> FALSE, issue |-> FALSE]]
    /\ scanIssue = FALSE

ReadEnds == ReadSucceeds \/ \E kind \in FailureKinds : ReadFails(kind) \/ SetUpFails(kind)
RestoreEnds == \E l \in Limits : RestoreSucceeds(l) \/ RestoreFails(l)

Next ==
    \/ SetUp
    \/ ScheduledRefresh
    \/ RequestedRefresh
    \/ ReadEnds
    \/ RestoreEnds
    \/ \E button \in Buttons : Press(button)
    \/ ChargerChanges
    \/ ShutDown
    \/ Tick

\* Time passes, and the event loop runs what is due: every request is answered or
\* times out, every scheduled poll starts.
Fairness ==
    /\ WF_vars(Tick)
    /\ WF_vars(ScheduledRefresh)
    /\ WF_vars(ReadEnds)
    /\ WF_vars(RestoreEnds)

Spec == Init /\ [][Next]_vars /\ Fairness
===============================================================================
