--------------------------- MODULE CoordinatorProofs ---------------------------
(***************************************************************************)
(* Proofs about the coordinator, for every set of statuses, every interval *)
(* and every timeout the assumptions of Coordinator allow.                 *)
(***************************************************************************)
EXTENDS AgeHistory, TLAPS

-------------------------------------------------------------------------------
\* The operators on limits.

\* A limit's reading and maximum are natural numbers, and a status stays one when a
\* limit of it is written.
LEMMA StatusFacts ==
    ASSUME NEW d \in Status, NEW l \in Limits
    PROVE  /\ UserMax(d) \in Nat
           /\ Reading(l, d) \in Nat
           /\ \A n \in Nat : WithReading(l, d, n) \in Status
<1>1. d.userMax \in Nat /\ d.current \in Nat /\ d.fallback \in Nat
    BY DEF Status
<1>2. \A n \in Nat : n \div 1000 \in Nat
    OBVIOUS
<1>3. \A n \in Nat : 1000 * n \in Nat
    OBVIOUS
<1>4. UserMax(d) \in Nat /\ Reading(l, d) \in Nat
    BY <1>1, <1>2 DEF UserMax, Reading
<1>5. \A n \in Nat : WithReading(l, d, n) \in Status
    BY <1>3 DEF WithReading, Status
<1> QED BY <1>4, <1>5

\* The value a restore writes is a number of amperes.
LEMMA RestoreValueType ==
    ASSUME NEW d \in Status, NEW r \in Repair
    PROVE  RestoreValue(d, r) \in Nat
BY StatusFacts DEF RestoreValue, Repair, Limits

\* Judging a reading leaves a well-formed memory of the limit.
LEMMA RememberedType ==
    ASSUME NEW d \in Status, NEW l \in Limits, NEW r \in Repair
    PROVE  Remembered(l, d, r) \in Repair
<1>1. Reading(l, d) \in Nat
    BY StatusFacts
<1>2. CASE Valid(l, d)
    BY <1>1, <1>2 DEF Remembered, Repair, NeedsRestore, Invalid, Valid
<1>3. CASE ~Valid(l, d)
    BY <1>3 DEF Remembered, Repair
<1> QED BY <1>2, <1>3

-------------------------------------------------------------------------------
\* Type correctness.

\* What a step of the poll handler leaves behind is well typed.
PollOutcome ==
    /\ entry' \in {"not_loaded", "setting_up", "loaded"}
    /\ poll' \in {"idle"} \cup Limits /\ (entry' = "not_loaded" => poll' = "idle")
    /\ polled' \in Status \cup {None} /\ (polled' # None <=> poll' \in Limits)
    /\ timer' \in Nat
    /\ data' \in Status \cup {None} /\ (data' # None <=> entry' = "loaded")
    /\ lastUpdateSuccess' \in BOOLEAN /\ isAvailable' \in BOOLEAN
    /\ lastCommand' \in LastCommands
    /\ state5Polls' \in 0..(STATE_5_TRANSITION_POLLS + 1)
    /\ sessionWasActive' \in BOOLEAN
    /\ repair' \in [Limits -> Repair]
    /\ scanIssue' \in BOOLEAN

LEMMA AwaitRestoreType ==
    ASSUME TypeOK, poll # "idle", NEW l \in Limits, NEW d \in Status, NEW rep \in [Limits -> Repair],
           AwaitRestore(l, d, rep)
    PROVE  PollOutcome
BY NoneAssumption, TimeAssumption DEF TypeOK, AwaitRestore, PollOutcome, session

LEMMA FinishPollType ==
    ASSUME TypeOK, NEW d \in Status, NEW rep \in [Limits -> Repair], FinishPoll(d, rep)
    PROVE  PollOutcome
<1>1. lastCommand' \in LastCommands
    BY DEF FinishPoll, SyncedCommand, TypeOK, LastCommands
<1>2. state5Polls' \in 0..(STATE_5_TRANSITION_POLLS + 1)
    BY DEF FinishPoll, TypeOK, AtMost, STATE_5_TRANSITION_POLLS
<1>3. sessionWasActive' \in BOOLEAN
    BY DEF FinishPoll, ActivitySeen
<1>4. scanIssue' \in BOOLEAN
    BY DEF FinishPoll
<1>5. poll' = "idle" /\ polled' = None /\ poll' \notin Limits
    BY DEF FinishPoll, Limits
<1>6. /\ entry' = "loaded" /\ timer' \in Nat /\ data' = d /\ repair' = rep
      /\ lastUpdateSuccess' = TRUE /\ isAvailable' = TRUE
    BY TimeAssumption DEF FinishPoll
<1> QED BY <1>1, <1>2, <1>3, <1>4, <1>5, <1>6, NoneAssumption DEF PollOutcome

LEMMA JudgeCurrentType ==
    ASSUME TypeOK, poll # "idle", NEW d \in Status, NEW rep \in [Limits -> Repair], JudgeCurrent(d, rep)
    PROVE  PollOutcome
<1> DEFINE judged == [rep EXCEPT !["current"] = Remembered("current", d, rep["current"])]
<1>1. "current" \in Limits
    BY DEF Limits
<1>2. judged \in [Limits -> Repair]
    BY <1>1, RememberedType
<1>3. AwaitRestore("current", d, judged) \/ FinishPoll(d, judged)
    BY DEF JudgeCurrent
<1> QED BY <1>1, <1>2, <1>3, AwaitRestoreType, FinishPollType

LEMMA JudgeFallbackType ==
    ASSUME TypeOK, poll # "idle", NEW d \in Status, NEW rep \in [Limits -> Repair], JudgeFallback(d, rep)
    PROVE  PollOutcome
<1> DEFINE judged == [rep EXCEPT !["fallback"] = Remembered("fallback", d, rep["fallback"])]
<1>1. "fallback" \in Limits
    BY DEF Limits
<1>2. judged \in [Limits -> Repair]
    BY <1>1, RememberedType
<1>3. AwaitRestore("fallback", d, judged) \/ JudgeCurrent(d, judged)
    BY DEF JudgeFallback
<1> QED BY <1>1, <1>2, <1>3, AwaitRestoreType, JudgeCurrentType

LEMMA AfterRestoreType ==
    ASSUME TypeOK, poll # "idle", NEW l \in Limits, NEW d \in Status, NEW rep \in [Limits -> Repair],
           AfterRestore(l, d, rep)
    PROVE  PollOutcome
BY JudgeCurrentType, FinishPollType DEF AfterRestore

LEMMA NewCoordinatorType ==
    ASSUME TypeOK, NewCoordinator, entry' = "not_loaded", scanIssue' \in BOOLEAN
    PROVE  PollOutcome /\ age' \in 0..MaxAge /\ failedPolls' \in 0..2
<1>1. repair' \in [Limits -> Repair]
    BY DEF TypeOK, NewCoordinator, Repair
<1>2. "idle" \notin Limits /\ "none" \in LastCommands
    BY DEF Limits, LastCommands
<1>3. /\ poll' = "idle" /\ polled' = None /\ timer' = 0 /\ age' = 0 /\ failedPolls' = 0
      /\ lastUpdateSuccess' = TRUE /\ isAvailable' = TRUE /\ data' = None
      /\ lastCommand' = "none" /\ state5Polls' = 0 /\ sessionWasActive' = FALSE
    BY DEF NewCoordinator
<1>4. /\ poll' \in {"idle"} \cup Limits
      /\ polled' \in Status \cup {None} /\ (polled' # None <=> poll' \in Limits)
      /\ data' \in Status \cup {None} /\ (data' # None <=> entry' = "loaded")
      /\ poll' = "idle"
    BY <1>2, <1>3
<1>5. /\ timer' \in Nat /\ age' \in 0..MaxAge /\ failedPolls' \in 0..2
      /\ state5Polls' \in 0..(STATE_5_TRANSITION_POLLS + 1)
    BY <1>3, TimeAssumption DEF STATE_5_TRANSITION_POLLS
<1>6. /\ lastUpdateSuccess' \in BOOLEAN /\ isAvailable' \in BOOLEAN
      /\ sessionWasActive' \in BOOLEAN /\ lastCommand' \in LastCommands
    BY <1>2, <1>3
<1> QED BY <1>1, <1>4, <1>5, <1>6 DEF PollOutcome

\* While a restore is awaited, the value being written is a number, and so writing it
\* to the charger or to the polled status leaves a status.
LEMMA WrittenType ==
    ASSUME TypeOK, NEW l \in Limits, poll = l
    PROVE  LET value == RestoreValue(polled, repair[l])
           IN  /\ polled \in Status
               /\ value \in Nat
               /\ WithReading(l, charger, value) \in Status
               /\ WithReading(l, polled, value) \in Status
<1>1. polled \in Status
    BY DEF TypeOK
<1>2. RestoreValue(polled, repair[l]) \in Nat
    BY <1>1, RestoreValueType DEF TypeOK
<1> QED BY <1>1, <1>2, StatusFacts DEF TypeOK

\* TypeOK is inductive.
LEMMA TypeStep == TypeOK /\ [Next]_vars => TypeOK'
<1> SUFFICES ASSUME TypeOK, [Next]_vars PROVE TypeOK'
    OBVIOUS
<1>0. "idle" \notin Limits /\ "reading" \notin Limits
    BY DEF Limits
<1>1. CASE SetUp
    BY <1>0, <1>1, TimeAssumption DEF SetUp, TypeOK, BeginRead, availability, session
<1>2. CASE ScheduledRefresh \/ RequestedRefresh
    BY <1>0, <1>2, TimeAssumption
    DEF ScheduledRefresh, RequestedRefresh, TypeOK, BeginRead, availability, session
<1>3. CASE ReadSucceeds
    <2>1. PollOutcome
        BY <1>3, JudgeFallbackType DEF ReadSucceeds, TypeOK
    <2> QED BY <1>3, <2>1, TimeAssumption DEF ReadSucceeds, TypeOK, PollOutcome
<1>4. ASSUME NEW kind \in FailureKinds, ReadFails(kind) PROVE TypeOK'
    <2>1. TolerateFailure \/ RejectFailure
        BY <1>4 DEF ReadFails
    <2>2. failedPolls' \in 0..2
        BY <2>1 DEF TolerateFailure, RejectFailure, AtMost, TypeOK
    <2>3. lastUpdateSuccess' \in BOOLEAN /\ isAvailable' \in BOOLEAN
        BY <2>1 DEF TolerateFailure, RejectFailure, TypeOK
    <2>4. /\ poll' = "idle" /\ timer' = ScanInterval /\ poll = "reading"
          /\ UNCHANGED <<charger, entry, polled, age, data, lastCommand, state5Polls,
                         sessionWasActive, repair, scanIssue>>
        BY <1>4 DEF ReadFails, session
    <2>5. timer' \in Nat
        BY <2>4, TimeAssumption
    <2> QED BY <2>2, <2>3, <2>4, <2>5, <1>0 DEF TypeOK
<1>5. ASSUME NEW kind \in FailureKinds, SetUpFails(kind) PROVE TypeOK'
    BY <1>5, NewCoordinatorType DEF SetUpFails, TypeOK, PollOutcome
<1>6. ASSUME NEW l \in Limits, RestoreSucceeds(l) PROVE TypeOK'
    <2> DEFINE value == RestoreValue(polled, repair[l])
               rep == [repair EXCEPT ![l].issue = FALSE]
    <2>1. poll = l /\ AfterRestore(l, WithReading(l, polled, value), rep)
        BY <1>6 DEF RestoreSucceeds
    <2>2. rep \in [Limits -> Repair]
        BY DEF TypeOK, Repair
    <2>3. PollOutcome /\ WithReading(l, charger, value) \in Status
        BY <2>1, <2>2, <1>0, WrittenType, AfterRestoreType
    <2> QED BY <1>6, <2>3 DEF RestoreSucceeds, TypeOK, PollOutcome
<1>7. ASSUME NEW l \in Limits, RestoreFails(l) PROVE TypeOK'
    <2> DEFINE rep == [repair EXCEPT ![l].issue = TRUE]
    <2>1. poll = l /\ AfterRestore(l, polled, rep)
        BY <1>7 DEF RestoreFails
    <2>2. rep \in [Limits -> Repair]
        BY DEF TypeOK, Repair
    <2>3. PollOutcome
        BY <2>1, <2>2, <1>0, WrittenType, AfterRestoreType
    <2>4. charger' \in Status
        BY <1>7, <2>1, WrittenType DEF RestoreFails, TypeOK
    <2> QED BY <1>7, <2>3, <2>4 DEF RestoreFails, TypeOK, PollOutcome
<1>8. ASSUME NEW button \in Buttons, Press(button) PROVE TypeOK'
    BY <1>8, ButtonsAssumption DEF Press, TypeOK, LastCommands, link, availability
<1>9. CASE ChargerChanges
    BY <1>9, StatusesAssumption DEF ChargerChanges, TypeOK, link, availability, session
<1>10. CASE ShutDown
    <2>1. charger' \in Status
        BY <1>10, WrittenType DEF ShutDown, TypeOK
    <2> QED BY <1>10, <2>1, NewCoordinatorType DEF ShutDown, TypeOK, PollOutcome
<1>11. CASE Tick
    BY <1>11, TimeAssumption DEF Tick, TypeOK, AtMost, session
<1>12. CASE UNCHANGED vars
    BY <1>12 DEF vars, link, availability, session, TypeOK
<1> QED BY <1>1, <1>2, <1>3, <1>4, <1>5, <1>6, <1>7, <1>8, <1>9, <1>10, <1>11, <1>12
    DEF Next, ReadEnds, RestoreEnds

LEMMA TypeInit == Init => TypeOK
<1> SUFFICES ASSUME Init PROVE TypeOK
    OBVIOUS
<1>1. repair \in [Limits -> Repair]
    BY DEF Init, Repair
<1>2. charger \in Status
    BY StatusesAssumption DEF Init
<1>3. "idle" \notin Limits /\ "none" \in LastCommands
    BY DEF Limits, LastCommands
<1>4. /\ entry = "not_loaded" /\ poll = "idle" /\ polled = None /\ timer = 0
      /\ age = 0 /\ failedPolls = 0 /\ lastUpdateSuccess = TRUE /\ isAvailable = TRUE
      /\ data = None /\ lastCommand = "none" /\ state5Polls = 0
      /\ sessionWasActive = FALSE /\ scanIssue = FALSE
    BY DEF Init
<1>5. /\ poll \in {"idle", "reading"} \cup Limits /\ poll = "idle"
      /\ polled \in Status \cup {None} /\ (polled # None <=> poll \in Limits)
      /\ data \in Status \cup {None} /\ (data # None <=> entry = "loaded")
      /\ entry \in {"not_loaded", "setting_up", "loaded"}
    BY <1>3, <1>4
<1>6. /\ timer \in Nat /\ age \in 0..MaxAge /\ failedPolls \in 0..2
      /\ state5Polls \in 0..(STATE_5_TRANSITION_POLLS + 1)
    BY <1>4, TimeAssumption DEF STATE_5_TRANSITION_POLLS
<1>7. /\ lastUpdateSuccess \in BOOLEAN /\ isAvailable \in BOOLEAN
      /\ sessionWasActive \in BOOLEAN /\ scanIssue \in BOOLEAN
      /\ lastCommand \in LastCommands
    BY <1>3, <1>4
<1> QED BY <1>1, <1>2, <1>5, <1>6, <1>7 DEF TypeOK

\* Every variable keeps its type, and a poll holds a status exactly while it waits for
\* a restore; the entry has data exactly while it is loaded.
THEOREM TypeCorrect == Spec => []TypeOK
<1>1. Init => TypeOK
    BY TypeInit
<1>2. TypeOK /\ [Next]_vars => TypeOK'
    BY TypeStep
<1> QED BY <1>1, <1>2, PTL DEF Spec

-------------------------------------------------------------------------------
\* Availability.

\* What the availability of entities depends on, at the end of a stretch of the
\* handler: it waits for a restore of l, or it has published.
Awaits(l) ==
    /\ poll' = l /\ timer' = RequestTimeout
    /\ UNCHANGED <<entry, lastUpdateSuccess, isAvailable>>

Publishes ==
    /\ poll' = "idle" /\ timer' = ScanInterval /\ entry' = "loaded"
    /\ lastUpdateSuccess' = TRUE /\ isAvailable' = TRUE

LEMMA JudgeOutcome ==
    ASSUME NEW d, NEW rep
    PROVE  /\ JudgeCurrent(d, rep) => Awaits("current") \/ Publishes
           /\ JudgeFallback(d, rep) => Awaits("fallback") \/ Awaits("current") \/ Publishes
           /\ AfterRestore("fallback", d, rep) => Awaits("current") \/ Publishes
           /\ AfterRestore("current", d, rep) => Publishes
<1>1. ASSUME NEW l, NEW r, AwaitRestore(l, d, r) PROVE Awaits(l)
    BY <1>1 DEF AwaitRestore, Awaits
<1>2. ASSUME NEW r, FinishPoll(d, r) PROVE Publishes
    BY <1>2 DEF FinishPoll, Publishes
<1>3. ASSUME NEW r, JudgeCurrent(d, r) PROVE Awaits("current") \/ Publishes
    BY <1>1, <1>2, <1>3 DEF JudgeCurrent
<1>4. JudgeFallback(d, rep) => Awaits("fallback") \/ Awaits("current") \/ Publishes
    BY <1>1, <1>3 DEF JudgeFallback
<1>5. /\ AfterRestore("fallback", d, rep) => Awaits("current") \/ Publishes
      /\ AfterRestore("current", d, rep) => Publishes
    BY <1>2, <1>3 DEF AfterRestore
<1> QED BY <1>3, <1>4, <1>5

\* Failures are alike: all of the tolerated kind, or none.
FailuresAlike == FailureKinds \subseteq {"connection"} \/ "connection" \notin FailureKinds

\* The counter is reset before the restores of a poll are awaited; _is_available is
\* what the entities show; and when failures are of the tolerated kind, entities are
\* unavailable only once the tolerance is used up, so that no failure is tolerated
\* again before a poll succeeds.
OutageInv ==
    /\ poll \in Limits => failedPolls = 0
    /\ entry = "loaded" => isAvailable = lastUpdateSuccess
    /\ "connection" \notin FailureKinds => failedPolls = 0
    /\ "connection" \in FailureKinds /\ Published /\ ~lastUpdateSuccess
         => failedPolls > 0 /\ age >= TOLERATED_FAILURE_SECONDS

LEMMA OutageStep ==
    ASSUME FailuresAlike, TypeOK, OutageInv, [Next]_vars
    PROVE  OutageInv'
<1>0. "idle" \notin Limits /\ "reading" \notin Limits /\ Limits = {"fallback", "current"}
    BY DEF Limits
\* A stretch of the handler that publishes, or waits with the counter reset.
<1>a. ASSUME failedPolls' = 0, Publishes PROVE OutageInv'
    BY <1>a, <1>0 DEF OutageInv, Publishes, Published
<1>b. ASSUME NEW l \in Limits, failedPolls' = 0, Awaits(l) PROVE OutageInv'
    BY <1>b, <1>0 DEF OutageInv, Awaits, Published
<1>1. CASE SetUp
    BY <1>1, <1>0 DEF SetUp, BeginRead, OutageInv, Published, availability
<1>2. CASE ScheduledRefresh \/ RequestedRefresh
    BY <1>2, <1>0
    DEF ScheduledRefresh, RequestedRefresh, BeginRead, OutageInv, Published, availability
<1>3. CASE ReadSucceeds
    BY <1>3, <1>a, <1>b, <1>0, JudgeOutcome DEF ReadSucceeds
<1>4. ASSUME NEW kind \in FailureKinds, ReadFails(kind) PROVE OutageInv'
    <2>1. /\ entry = "loaded" /\ entry' = "loaded" /\ poll = "reading" /\ poll' = "idle"
          /\ age' = age /\ data # None
        BY <1>4 DEF ReadFails, TypeOK
    <2>2. isAvailable = lastUpdateSuccess
        BY <2>1 DEF OutageInv
    <2>3. CASE "connection" \in FailureKinds
        <3>1. TolerateFailure
            BY <1>4, <2>3 DEF ReadFails, FailuresAlike
        <3>2. failedPolls' > 0
            BY <3>1 DEF TolerateFailure, AtMost, TypeOK
        <3>3. age \in Nat /\ TOLERATED_FAILURE_SECONDS \in Nat
            BY TimeAssumption DEF TypeOK
        <3>4. CASE failedPolls = 0 \/ age < TOLERATED_FAILURE_SECONDS
            <4>1. lastUpdateSuccess' = TRUE /\ isAvailable' = isAvailable
                BY <3>1, <3>4, <2>1 DEF TolerateFailure
            <4>2. lastUpdateSuccess
                BY <3>3, <3>4, <2>1, <2>3, <1>0 DEF OutageInv, Published, TypeOK
            <4> QED BY <4>1, <4>2, <2>1, <2>2, <2>3, <1>0 DEF OutageInv, Published, TypeOK
        <3>5. CASE ~(failedPolls = 0 \/ age < TOLERATED_FAILURE_SECONDS)
            <4>1. lastUpdateSuccess' = FALSE /\ isAvailable' = FALSE
                BY <3>1, <3>5, <2>1 DEF TolerateFailure
            <4>2. age' >= TOLERATED_FAILURE_SECONDS
                BY <3>3, <3>5, <2>1
            <4> QED BY <4>1, <4>2, <3>2, <2>1, <2>3, <1>0 DEF OutageInv
        <3> QED BY <3>4, <3>5
    <2>4. CASE "connection" \notin FailureKinds
        <3>1. RejectFailure
            BY <1>4, <2>4 DEF ReadFails
        <3> QED BY <3>1, <2>1, <2>4, <1>0 DEF RejectFailure, OutageInv
    <2> QED BY <2>3, <2>4
<1>5. ASSUME NEW kind \in FailureKinds, SetUpFails(kind) PROVE OutageInv'
    BY <1>5, <1>0 DEF SetUpFails, NewCoordinator, OutageInv, Published
<1>6. ASSUME NEW l \in Limits, RestoreSucceeds(l) \/ RestoreFails(l) PROVE OutageInv'
    <2>1. failedPolls' = 0
        BY <1>6 DEF RestoreSucceeds, RestoreFails, OutageInv
    <2>2. Publishes \/ Awaits("current")
        BY <1>6, <1>0, JudgeOutcome DEF RestoreSucceeds, RestoreFails
    <2> QED BY <2>1, <2>2, <1>a, <1>b, <1>0
<1>7. CASE \E button \in Buttons : Press(button)
    BY <1>7 DEF Press, OutageInv, Published, link, availability
<1>8. CASE ChargerChanges
    BY <1>8 DEF ChargerChanges, OutageInv, Published, link, availability
<1>9. CASE ShutDown
    BY <1>9, <1>0 DEF ShutDown, NewCoordinator, OutageInv, Published
<1>10. CASE Tick
    <2>1. age' >= age \/ age' = MaxAge
        BY <1>10, TimeAssumption DEF Tick, AtMost, TypeOK
    <2>2. age >= TOLERATED_FAILURE_SECONDS => age' >= TOLERATED_FAILURE_SECONDS
        BY <2>1, <1>10, TimeAssumption DEF Tick, AtMost, TypeOK
    <2>3. UNCHANGED <<entry, poll, failedPolls, lastUpdateSuccess, isAvailable>>
        BY <1>10 DEF Tick
    <2> QED BY <2>2, <2>3 DEF OutageInv, Published
<1>11. CASE UNCHANGED vars
    BY <1>11 DEF vars, link, availability, OutageInv, Published
<1> QED BY <1>1, <1>2, <1>3, <1>4, <1>5, <1>6, <1>7, <1>8, <1>9, <1>10, <1>11
    DEF Next, ReadEnds, RestoreEnds

LEMMA OutageInvHolds == ASSUME FailuresAlike PROVE Spec => [](TypeOK /\ OutageInv)
<1>1. Init => TypeOK
    BY TypeInit
<1>2. Init => OutageInv
    BY DEF Init, OutageInv, Limits, Published
<1>3. TypeOK /\ OutageInv /\ [Next]_vars => (TypeOK /\ OutageInv)'
    BY TypeStep, OutageStep
<1> QED BY <1>1, <1>2, <1>3, PTL DEF Spec

\* What is logged and what the entities show agree, as long as failures are all
\* timeouts and lost links, or none of them is.
THEOREM AvailabilityAgreesHolds == ASSUME FailuresAlike PROVE Spec => []AvailabilityAgrees
<1>1. OutageInv => AvailabilityAgrees
    BY DEF OutageInv, AvailabilityAgrees
<1> QED BY <1>1, OutageInvHolds, PTL

LEMMA ComesBackWithGoodPoll ==
    ASSUME FailuresAlike, TypeOK, OutageInv, Next, ComesBack PROVE failedPolls' = 0
<1>0. "idle" \notin Limits /\ "reading" \notin Limits /\ Limits = {"fallback", "current"}
    BY DEF Limits
<1>1. entry = "loaded" /\ ~lastUpdateSuccess /\ entry' = "loaded" /\ lastUpdateSuccess'
    BY DEF ComesBack
<1>2. CASE ReadSucceeds
    BY <1>2 DEF ReadSucceeds
<1>3. ASSUME NEW kind \in FailureKinds, ReadFails(kind) PROVE FALSE
    <2>1. poll = "reading" /\ Published
        BY <1>0, <1>1, <1>3 DEF ReadFails, Published
    <2>2. kind = "connection" /\ TolerateFailure
        BY <1>3, <1>1 DEF ReadFails, RejectFailure
    <2>3. failedPolls > 0 /\ age >= TOLERATED_FAILURE_SECONDS
        BY <2>1, <2>2, <1>1 DEF OutageInv
    <2>4. failedPolls # 0 /\ ~(age < TOLERATED_FAILURE_SECONDS)
        BY <2>3, TimeAssumption DEF TypeOK
    <2> QED BY <2>2, <2>4, <1>1 DEF TolerateFailure
<1>4. ASSUME NEW l \in Limits, RestoreSucceeds(l) \/ RestoreFails(l)
      PROVE  failedPolls' = 0
    BY <1>4 DEF RestoreSucceeds, RestoreFails, OutageInv
<1>5. ASSUME ~ReadEnds, ~RestoreEnds PROVE FALSE
    BY <1>5, <1>1
    DEF Next, SetUp, ScheduledRefresh, RequestedRefresh, Press, ChargerChanges, ShutDown,
        Tick, availability
<1> QED BY <1>1, <1>2, <1>3, <1>4, <1>5 DEF ReadEnds, RestoreEnds, SetUpFails

\* Under the same assumption, entities come back only with a poll that succeeded.
THEOREM OutageEndsWithGoodPollHolds ==
    ASSUME FailuresAlike PROVE Spec => OutageEndsWithGoodPoll
<1>1. TypeOK /\ OutageInv /\ [Next]_vars => [ComesBack => failedPolls' = 0]_vars
    BY ComesBackWithGoodPoll
<1> QED BY <1>1, OutageInvHolds, PTL DEF Spec, OutageEndsWithGoodPoll

\* Polls are frequent enough: a poll cycle fits into the tolerance, so that a first failure
\* is never tolerated for its own sake.
PollsOften == PollCycle < TOLERATED_FAILURE_SECONDS

\* How long ago the last success may have been when a failure is tolerated, and when the
\* last poll ended: two restores, or a failure that was tolerated.
Oldest == Larger(TOLERATED_FAILURE_SECONDS - 1, PollCycle)
AgeAtPollEnd == IF failedPolls = 0 THEN 2 * RequestTimeout ELSE Oldest

\* The time since the last success and what is left on the timer are bounded together:
\* time moves one into the other.
FreshInv ==
    /\ poll = "fallback" => age + timer <= RequestTimeout
    /\ poll = "current" => age + timer <= 2 * RequestTimeout
    /\ poll = "idle" /\ entry = "loaded" /\ lastUpdateSuccess
         => age + timer <= AgeAtPollEnd + ScanInterval
    /\ poll = "reading" /\ entry = "loaded" /\ lastUpdateSuccess
         => age + timer <= AgeAtPollEnd + ScanInterval + RequestTimeout

\* The steps of the clock.
Times ==
    /\ age \in Nat /\ timer \in Nat /\ failedPolls \in 0..2
    /\ ScanInterval \in Nat \ {0} /\ RequestTimeout \in Nat \ {0}
    /\ TOLERATED_FAILURE_SECONDS \in Nat \ {0}

\* One tick moves at most one from what is left on the timer into the age.
LEMMA TickMovesTime ==
    ASSUME NEW a \in Nat, NEW t \in Nat, NEW b \in Nat, NEW u \in Nat, NEW n \in Nat,
           a + t <= n, b <= a + 1, u = t - 1
    PROVE  b + u <= n
OBVIOUS

LEMMA SumBounded ==
    ASSUME NEW a \in Nat, NEW t \in Nat, NEW m \in Nat, a <= m
    PROVE  a + t <= m + t
OBVIOUS

LEMMA OldestFacts ==
    ASSUME Times
    PROVE  /\ PollCycle \in Nat /\ Oldest \in Nat /\ PollCycle <= Oldest
           /\ TOLERATED_FAILURE_SECONDS - 1 <= Oldest
           /\ PollCycle = ScanInterval + 3 * RequestTimeout
BY DEF Times, Oldest, PollCycle, Larger

\* A failure that is tolerated comes before the tolerance is over, or is the first and comes
\* within a poll cycle of the last good poll.
LEMMA KeptIsYoung ==
    ASSUME FailureKinds \subseteq {"connection"}, TypeOK, OutageInv, FreshInv,
           NEW kind \in FailureKinds, ReadFails(kind), lastUpdateSuccess'
    PROVE  age <= TOLERATED_FAILURE_SECONDS - 1 \/ age <= PollCycle
<1>0. "reading" \notin Limits
    BY DEF Limits
<1>t. Times
    BY TimeAssumption DEF TypeOK, Times
<1>1. entry = "loaded" /\ poll = "reading" /\ TolerateFailure
    BY DEF ReadFails
<1>2. failedPolls = 0 \/ age < TOLERATED_FAILURE_SECONDS
    BY <1>1 DEF TolerateFailure
<1>3. CASE failedPolls = 0
    <2>1. lastUpdateSuccess
        BY <1>0, <1>1, <1>3, <1>t DEF OutageInv, Published, Times, TypeOK
    <2>2. age + timer <= 2 * RequestTimeout + ScanInterval + RequestTimeout
        BY <1>1, <1>3, <2>1 DEF FreshInv, AgeAtPollEnd
    <2> QED BY <2>2, <1>t, OldestFacts DEF Times
<1>4. CASE age < TOLERATED_FAILURE_SECONDS
    BY <1>4, <1>t DEF Times
<1> QED BY <1>2, <1>3, <1>4

LEMMA FreshStep ==
    ASSUME FailureKinds \subseteq {"connection"}, TypeOK, OutageInv, FreshInv, [Next]_vars
    PROVE  FreshInv'
<1>0. "idle" \notin Limits /\ "reading" \notin Limits /\ Limits = {"fallback", "current"}
    BY DEF Limits
<1>t. Times /\ MaxAge \in Nat /\ age <= MaxAge
    BY TimeAssumption DEF TypeOK, Times
<1>o. Oldest \in Nat
    BY <1>t, OldestFacts
<1>p. AgeAtPollEnd \in Nat
    BY <1>t, <1>o DEF AgeAtPollEnd, Times
\* A stretch that publishes soon enough, and one that waits for a restore.
<1>a. ASSUME failedPolls' = 0, age' \in Nat, age' <= 2 * RequestTimeout, Publishes
      PROVE  FreshInv'
    <2>1. poll' = "idle" /\ timer' = ScanInterval
        BY <1>a DEF Publishes
    <2>2. AgeAtPollEnd' = 2 * RequestTimeout
        BY <1>a DEF AgeAtPollEnd
    <2>3. age' + timer' <= AgeAtPollEnd' + ScanInterval
        <3>1. 2 * RequestTimeout \in Nat /\ ScanInterval \in Nat
            BY <1>t DEF Times
        <3>2. age' + ScanInterval <= 2 * RequestTimeout + ScanInterval
            BY <1>a, <3>1, SumBounded
        <3> QED BY <3>2, <2>1, <2>2
    <2> QED BY <2>1, <2>3 DEF FreshInv
<1>b. ASSUME age' \in Nat,
             (age' = 0 /\ Awaits("fallback")) \/ (age' <= RequestTimeout /\ Awaits("current"))
      PROVE  FreshInv'
    BY <1>b, <1>t DEF FreshInv, Awaits, AgeAtPollEnd, Times
<1>1. CASE SetUp
    BY <1>1 DEF SetUp, BeginRead, FreshInv
<1>2. CASE ScheduledRefresh \/ RequestedRefresh
    <2>1. /\ poll = "idle" /\ entry = "loaded" /\ poll' = "reading" /\ timer' = RequestTimeout
          /\ UNCHANGED <<age, failedPolls, lastUpdateSuccess>>
        BY <1>2 DEF ScheduledRefresh, RequestedRefresh, BeginRead, availability
    <2>2. AgeAtPollEnd' = AgeAtPollEnd /\ AgeAtPollEnd \in Nat
        BY <2>1, <1>p DEF AgeAtPollEnd
    <2>3. lastUpdateSuccess => age <= AgeAtPollEnd + ScanInterval
        BY <2>1, <2>2, <1>t DEF FreshInv, Times
    <2>4. lastUpdateSuccess =>
            age' + timer' <= AgeAtPollEnd' + ScanInterval + RequestTimeout
        BY <2>1, <2>2, <2>3, <1>t DEF Times
    <2> QED BY <2>1, <2>4 DEF FreshInv
<1>3. CASE ReadSucceeds
    <2>1. failedPolls' = 0 /\ age' = 0
        BY <1>3 DEF ReadSucceeds
    <2>2. Awaits("fallback") \/ Awaits("current") \/ Publishes
        BY <1>3, JudgeOutcome DEF ReadSucceeds
    <2>3. 0 <= 2 * RequestTimeout /\ 0 <= RequestTimeout
        BY <1>t DEF Times
    <2> QED BY <2>1, <2>2, <2>3, <1>a, <1>b
<1>4. ASSUME NEW kind \in FailureKinds, ReadFails(kind) PROVE FreshInv'
    <2>1. /\ entry = "loaded" /\ poll = "reading" /\ poll' = "idle" /\ timer' = ScanInterval
          /\ age' = age
        BY <1>4 DEF ReadFails
    <2>2. TolerateFailure
        BY <1>4 DEF ReadFails
    <2>3. failedPolls' # 0
        BY <2>2, <1>t DEF TolerateFailure, AtMost, Times
    <2>4. lastUpdateSuccess' => age <= Oldest
        BY <1>4, <1>t, KeptIsYoung, OldestFacts DEF Times
    <2>5. lastUpdateSuccess' => age' + timer' <= AgeAtPollEnd' + ScanInterval
        BY <2>1, <2>3, <2>4, <1>t, <1>o DEF AgeAtPollEnd, Times
    <2> QED BY <2>1, <2>5 DEF FreshInv
<1>5. ASSUME NEW kind \in FailureKinds, SetUpFails(kind) PROVE FreshInv'
    BY <1>5 DEF SetUpFails, NewCoordinator, FreshInv
<1>6. ASSUME NEW l \in Limits, RestoreSucceeds(l) \/ RestoreFails(l) PROVE FreshInv'
    <2>1. poll = l /\ failedPolls' = 0 /\ age' = age
        BY <1>6 DEF RestoreSucceeds, RestoreFails, OutageInv
    <2>2. CASE l = "fallback"
        <3>1. Awaits("current") \/ Publishes
            BY <1>6, <2>2, JudgeOutcome DEF RestoreSucceeds, RestoreFails
        <3>2. age <= RequestTimeout /\ age <= 2 * RequestTimeout
            BY <2>1, <2>2, <1>t DEF FreshInv, Times
        <3> QED BY <3>1, <3>2, <2>1, <1>a, <1>b, <1>t DEF Times
    <2>3. CASE l = "current"
        <3>1. Publishes
            BY <1>6, <2>3, JudgeOutcome DEF RestoreSucceeds, RestoreFails
        <3>2. age <= 2 * RequestTimeout
            BY <2>1, <2>3, <1>t DEF FreshInv, Times
        <3> QED BY <3>1, <3>2, <2>1, <1>a, <1>t DEF Times
    <2> QED BY <2>2, <2>3, <1>0
<1>7. CASE \E button \in Buttons : Press(button)
    BY <1>7 DEF Press, FreshInv, AgeAtPollEnd, link, availability
<1>8. CASE ChargerChanges
    BY <1>8 DEF ChargerChanges, FreshInv, AgeAtPollEnd, link, availability
<1>9. CASE ShutDown
    BY <1>9 DEF ShutDown, NewCoordinator, FreshInv
<1>10. CASE Tick
    <2>1. UNCHANGED <<entry, poll, failedPolls, lastUpdateSuccess>>
        BY <1>10 DEF Tick
    <2>2. timer' = timer - 1 /\ age' <= age + 1 /\ age' \in Nat /\ timer' \in Nat
        BY <1>10, <1>t DEF Tick, AtMost, Times
    <2>3. AgeAtPollEnd' = AgeAtPollEnd /\ AgeAtPollEnd \in Nat
        BY <2>1, <1>p DEF AgeAtPollEnd
    <2>4. \A n \in Nat : age + timer <= n => age' + timer' <= n
        <3>1. age \in Nat /\ timer \in Nat
            BY <1>t DEF Times
        <3> TAKE n \in Nat
        <3> HAVE age + timer <= n
        <3> DEFINE a == age  t == timer  b == age'  u == timer'
        <3>2. /\ a \in Nat /\ t \in Nat /\ b \in Nat /\ u \in Nat
              /\ a + t <= n /\ b <= a + 1 /\ u = t - 1
            BY <2>2, <3>1
        <3> HIDE DEF a, t, b, u
        <3>3. b + u <= n
            BY <3>2, TickMovesTime
        <3> QED BY <3>3 DEF b, u
    <2>5. /\ RequestTimeout \in Nat /\ 2 * RequestTimeout \in Nat
          /\ AgeAtPollEnd + ScanInterval \in Nat
          /\ AgeAtPollEnd + ScanInterval + RequestTimeout \in Nat
        BY <2>3, <1>t DEF Times
    <2> QED BY <2>1, <2>3, <2>4, <2>5 DEF FreshInv
<1>11. CASE UNCHANGED vars
    BY <1>11 DEF vars, link, availability, FreshInv, AgeAtPollEnd
<1> QED BY <1>1, <1>2, <1>3, <1>4, <1>5, <1>6, <1>7, <1>8, <1>9, <1>10, <1>11
    DEF Next, ReadEnds, RestoreEnds

LEMMA FreshInvHolds ==
    ASSUME FailureKinds \subseteq {"connection"}
    PROVE  Spec => [](TypeOK /\ OutageInv /\ FreshInv)
<1>1. FailuresAlike
    BY DEF FailuresAlike
<1>2. Init => FreshInv
    BY DEF Init, FreshInv
<1>3. ASSUME TypeOK, OutageInv, FreshInv, [Next]_vars PROVE FreshInv'
    BY <1>3, FreshStep
<1> QED BY <1>1, <1>2, <1>3, OutageInvHolds, PTL DEF Spec

\* When polls are frequent and fail by timeouts and lost links only, no failed poll is
\* tolerated once the last good one is as old as the tolerance.
THEOREM KeptOnlyWithinToleranceHolds ==
    ASSUME FailureKinds \subseteq {"connection"}, PollsOften
    PROVE  Spec => KeptOnlyWithinTolerance
<1> DEFINE Keeps == /\ entry = "loaded" /\ poll = "reading" /\ poll' = "idle"
                    /\ failedPolls' # 0 /\ entry' = "loaded" /\ lastUpdateSuccess'
<1>1. ASSUME TypeOK, OutageInv, FreshInv, Next, Keeps
      PROVE  age < TOLERATED_FAILURE_SECONDS
    <2>1. PICK kind \in FailureKinds : ReadFails(kind)
        <3>1. "reading" \notin Limits /\ ~SetUp /\ ~ReadSucceeds
            BY <1>1 DEF Limits, SetUp, ReadSucceeds
        <3>2. ~RestoreEnds /\ \A k \in FailureKinds : ~SetUpFails(k)
            BY <1>1, <3>1 DEF RestoreEnds, RestoreSucceeds, RestoreFails, SetUpFails
        <3> QED BY <1>1, <3>1, <3>2
            DEF Next, ReadEnds, ScheduledRefresh, RequestedRefresh, BeginRead, Press,
                ChargerChanges, ShutDown, Tick, link
    <2>2. age <= TOLERATED_FAILURE_SECONDS - 1 \/ age <= PollCycle
        BY <1>1, <2>1, KeptIsYoung
    <2>3. Times
        BY <1>1, TimeAssumption DEF TypeOK, Times
    <2> QED BY <2>2, <2>3, OldestFacts DEF PollsOften, Times
<1>2. TypeOK /\ OutageInv /\ FreshInv /\ [Next]_vars =>
        [Keeps => age < TOLERATED_FAILURE_SECONDS]_vars
    BY <1>1
<1> QED BY <1>2, FreshInvHolds, PTL DEF Spec, KeptOnlyWithinTolerance

-------------------------------------------------------------------------------
\* The age of the data shown.

\* Between polls the data is as old as the last success.  While restores are awaited it is
\* that of the poll before, and grows by one request for each.
AgeInv ==
    /\ dataAge \in Nat
    /\ Published => dataAge = age
    /\ poll = "fallback" /\ entry = "loaded" /\ lastUpdateSuccess
         => dataAge + timer <= Oldest + ScanInterval + 2 * RequestTimeout
    /\ poll = "current" /\ entry = "loaded" /\ lastUpdateSuccess
         => dataAge + timer <= Oldest + PollCycle

LEMMA AgeStep ==
    ASSUME TypeOK, TypeOK', FreshInv, AgeInv, [ANext]_ageVars
    PROVE  AgeInv'
<1>0. "idle" \notin Limits /\ "reading" \notin Limits /\ Limits = {"fallback", "current"}
    BY DEF Limits
<1>t. Times /\ age' \in Nat /\ timer' \in Nat
    BY TimeAssumption DEF TypeOK, Times
<1>o. /\ Oldest \in Nat /\ PollCycle \in Nat /\ PollCycle <= Oldest
      /\ PollCycle = ScanInterval + 3 * RequestTimeout
    BY <1>t, OldestFacts
\* A stretch of the handler that publishes, or waits.
<1>a. ASSUME Publishes, dataAge' = age' PROVE AgeInv'
    BY <1>a, <1>0, <1>t DEF Publishes, AgeInv
<1>b. ASSUME NEW l \in Limits, Awaits(l), dataAge' = dataAge,
             entry = "loaded" /\ lastUpdateSuccess =>
               dataAge <= Oldest + ScanInterval + (IF l = "fallback" THEN 1 ELSE 2) * RequestTimeout
      PROVE  AgeInv'
    BY <1>b, <1>0, <1>t, <1>o DEF Awaits, AgeInv, Published, Times
<1>1. CASE Tick /\ dataAge' = AtMost(dataAge + 1, MaxAge)
    <2>1. /\ UNCHANGED <<entry, poll, lastUpdateSuccess>> /\ timer' = timer - 1
          /\ age' = AtMost(age + 1, MaxAge)
        BY <1>1 DEF Tick
    <2>2. dataAge' \in Nat /\ dataAge' <= dataAge + 1
        BY <1>1, TimeAssumption DEF AgeInv, AtMost
    <2>3. \A n \in Nat : dataAge + timer <= n => dataAge' + timer' <= n
        <3>1. dataAge \in Nat /\ timer \in Nat
            BY <1>t DEF Times, AgeInv
        <3> TAKE n \in Nat
        <3> HAVE dataAge + timer <= n
        <3> DEFINE a == dataAge  t == timer  b == dataAge'  u == timer'
        <3>2. /\ a \in Nat /\ t \in Nat /\ b \in Nat /\ u \in Nat
              /\ a + t <= n /\ b <= a + 1 /\ u = t - 1
            BY <2>1, <2>2, <3>1, <1>t
        <3> HIDE DEF a, t, b, u
        <3>3. b + u <= n
            BY <3>2, TickMovesTime
        <3> QED BY <3>3 DEF b, u
    <2>4. Oldest + ScanInterval + 2 * RequestTimeout \in Nat /\ Oldest + PollCycle \in Nat
        BY <1>t, <1>o DEF Times
    <2>5. Published' => dataAge' = age'
        BY <1>1, <2>1 DEF AgeInv, Published
    <2> QED BY <2>1, <2>2, <2>3, <2>4, <2>5 DEF AgeInv
<1>2. CASE ReadSucceeds /\ dataAge' = IF poll' = "idle" THEN age' ELSE dataAge
    <2>1. Awaits("fallback") \/ Awaits("current") \/ Publishes
        BY <1>2, JudgeOutcome DEF ReadSucceeds
    <2>2. poll = "reading"
        BY <1>2 DEF ReadSucceeds
    <2>3. ASSUME entry = "loaded", lastUpdateSuccess
          PROVE  /\ dataAge <= Oldest + ScanInterval + 1 * RequestTimeout
                 /\ dataAge <= Oldest + ScanInterval + 2 * RequestTimeout
        <3>1. dataAge = age /\ age + timer <= AgeAtPollEnd + ScanInterval + RequestTimeout
            BY <2>2, <2>3, <1>0 DEF AgeInv, FreshInv, Published
        <3>2. AgeAtPollEnd \in Nat /\ AgeAtPollEnd <= Oldest
            BY <1>t, <1>o DEF AgeAtPollEnd, Times
        <3> QED BY <3>1, <3>2, <1>t, <1>o DEF Times
    <2>4. CASE Publishes
        BY <1>2, <1>a, <2>4 DEF Publishes
    <2>5. CASE Awaits("fallback")
        BY <1>2, <1>b, <1>0, <2>3, <2>5 DEF Awaits
    <2>6. CASE Awaits("current")
        BY <1>2, <1>b, <1>0, <2>3, <2>6 DEF Awaits
    <2> QED BY <2>1, <2>4, <2>5, <2>6
<1>3. ASSUME NEW l \in Limits, RestoreSucceeds(l) \/ RestoreFails(l),
             dataAge' = IF poll' = "idle" THEN age' ELSE dataAge
      PROVE  AgeInv'
    <2>1. poll = l
        BY <1>3 DEF RestoreSucceeds, RestoreFails
    <2>2. CASE l = "fallback"
        <3>1. Awaits("current") \/ Publishes
            BY <1>3, <2>2, JudgeOutcome DEF RestoreSucceeds, RestoreFails
        <3>2. entry = "loaded" /\ lastUpdateSuccess =>
                dataAge <= Oldest + ScanInterval + 2 * RequestTimeout
            BY <2>1, <2>2, <1>t, <1>o DEF AgeInv, Times
        <3>3. CASE Publishes
            BY <1>3, <1>a, <3>3 DEF Publishes
        <3>4. CASE Awaits("current")
            BY <1>3, <1>b, <1>0, <3>2, <3>4 DEF Awaits
        <3> QED BY <3>1, <3>3, <3>4
    <2>3. CASE l = "current"
        <3>1. Publishes
            BY <1>3, <2>3, JudgeOutcome DEF RestoreSucceeds, RestoreFails
        <3> QED BY <1>3, <1>a, <3>1 DEF Publishes
    <2> QED BY <2>2, <2>3, <1>0
<1>4. CASE (ShutDown \/ \E kind \in FailureKinds : SetUpFails(kind)) /\ dataAge' = 0
    <2>1. NewCoordinator /\ entry' = "not_loaded"
        BY <1>4 DEF ShutDown, SetUpFails
    <2> QED BY <1>4, <2>1 DEF NewCoordinator, AgeInv, Published
<1>5. ASSUME UNCHANGED <<dataAge, age>>, poll' \in {"idle", "reading"}, poll \in {"idle", "reading"},
             entry' = "loaded" => entry = "loaded"
      PROVE  AgeInv'
    BY <1>5, <1>0 DEF AgeInv, Published
<1>6. CASE (SetUp \/ ScheduledRefresh \/ RequestedRefresh) /\ UNCHANGED dataAge
    BY <1>5, <1>6
    DEF SetUp, ScheduledRefresh, RequestedRefresh, BeginRead, availability, TypeOK
<1>7. ASSUME NEW kind \in FailureKinds, ReadFails(kind), UNCHANGED dataAge PROVE AgeInv'
    BY <1>5, <1>7 DEF ReadFails
<1>8. CASE UNCHANGED <<dataAge, age, timer, entry, poll, lastUpdateSuccess>>
    BY <1>8 DEF AgeInv, Published
<1>9. CASE (ChargerChanges \/ \E button \in Buttons : Press(button)) /\ UNCHANGED dataAge
    BY <1>8, <1>9 DEF ChargerChanges, Press, link, availability
<1>10. CASE UNCHANGED ageVars
    BY <1>8, <1>10 DEF ageVars, vars, link, availability
<1> QED BY <1>1, <1>2, <1>3, <1>4, <1>6, <1>7, <1>9, <1>10 DEF ANext, RestoreEnds

LEMMA ANextIsNext == [ANext]_ageVars => [Next]_vars
BY DEF ANext, Next, ReadEnds, ageVars

\* Whatever the scan interval, the timeout and the tolerance, available entities never show
\* data that the poll after a tolerated failure should have replaced, its restores included.
THEOREM FreshWhenAvailableHolds ==
    ASSUME FailureKinds \subseteq {"connection"}
    PROVE  ASpec => []FreshWhenAvailable
<1>1. AInit => TypeOK /\ OutageInv /\ FreshInv /\ AgeInv
    BY TypeInit DEF AInit, Init, OutageInv, Published, Limits, FreshInv, AgeInv
<1>2. ASSUME TypeOK, OutageInv, FreshInv, AgeInv, [ANext]_ageVars
      PROVE  TypeOK' /\ OutageInv' /\ FreshInv' /\ AgeInv'
    <2>1. FailuresAlike
        BY DEF FailuresAlike
    <2>2. TypeOK' /\ OutageInv' /\ FreshInv'
        BY <1>2, <2>1, ANextIsNext, TypeStep, OutageStep, FreshStep
    <2> QED BY <1>2, <2>2, AgeStep
<1>3. ASSUME TypeOK, FreshInv, AgeInv PROVE FreshWhenAvailable
    <2>1. Times
        BY <1>3, TimeAssumption DEF TypeOK, Times
    <2>2. poll \in {"idle", "reading", "fallback", "current"}
        BY <1>3 DEF TypeOK, Limits
    <2>3. StaleBound = Oldest + PollCycle
        BY DEF StaleBound, Oldest
    <2>4. AgeAtPollEnd \in Nat /\ AgeAtPollEnd <= Oldest
        BY <2>1, OldestFacts DEF AgeAtPollEnd, Times
    <2>5. CASE poll \in {"idle", "reading"}
        BY <1>3, <2>1, <2>3, <2>4, <2>5, OldestFacts
        DEF FreshInv, AgeInv, Published, Limits, FreshWhenAvailable, Times
    <2>6. CASE poll \in {"fallback", "current"}
        BY <1>3, <2>1, <2>3, <2>6, OldestFacts DEF AgeInv, FreshWhenAvailable, Times
    <2> QED BY <2>2, <2>5, <2>6
<1> QED BY <1>1, <1>2, <1>3, PTL DEF ASpec
================================================================================
