----------------------------- MODULE RepairProofs -----------------------------
(***************************************************************************)
(* Proofs about the repair of limits and its issues, for every set of      *)
(* statuses, every interval and every timeout; last, that the coordinator  *)
(* takes each limit through the steps of LimitRepair and no others.        *)
(***************************************************************************)
EXTENDS CoordinatorProofs, EntitiesProperties

-------------------------------------------------------------------------------
\* Judging one limit.

\* A limit that was judged: an invalid limit has been restored or given up on, and, where
\* nobody else tells of issues, an open issue tells the truth.
Settled(l, d, r, told) ==
    /\ told /\ r.issue => ~Valid(l, d)
    /\ Invalid(l, d) => r.fixAttempted

LEMMA LimitsAre == /\ Limits = {"fallback", "current"} /\ "fallback" # "current"
                   /\ "fallback" \in Limits /\ "current" \in Limits
                   /\ "idle" \notin Limits /\ "reading" \notin Limits
BY DEF Limits

LEMMA InvalidIsNotValid ==
    ASSUME NEW d \in Status, NEW l \in Limits, Invalid(l, d)
    PROVE  ~Valid(l, d)
<1>1. Reading(l, d) \in Nat /\ UserMax(d) \in Nat
    BY StatusFacts
<1> QED BY <1>1 DEF Invalid, Valid

LEMMA RememberedSettles ==
    ASSUME NEW d \in Status, NEW l \in Limits, NEW r \in Repair, ~NeedsRestore(l, d, r),
           NEW CONSTANT told
    PROVE  Settled(l, d, Remembered(l, d, r), told)
<1>1. CASE Valid(l, d)
    BY <1>1, InvalidIsNotValid DEF Remembered, Settled
<1>2. CASE ~Valid(l, d)
    BY <1>2 DEF Remembered, Settled, NeedsRestore
<1> QED BY <1>1, <1>2

LEMMA RememberedAttempt ==
    ASSUME NEW d \in Status, NEW l \in Limits, NEW r \in Repair, NeedsRestore(l, d, r)
    PROVE  /\ Invalid(l, d) /\ ~r.fixAttempted
           /\ Remembered(l, d, r).fixAttempted /\ Remembered(l, d, r).issue = r.issue
<1>1. Invalid(l, d) /\ ~r.fixAttempted
    BY DEF NeedsRestore
<1>2. ~Valid(l, d)
    BY <1>1, InvalidIsNotValid
<1>3. Remembered(l, d, r) = [r EXCEPT !.fixAttempted = TRUE]
    BY <1>2 DEF Remembered
<1> QED BY <1>1, <1>3 DEF Repair

\* What is known of a limit once d is judged: what was, or what d shows, if that is valid.
Known(value, l, d, before) == value \in {None, before} \/ (value = Reading(l, d) /\ Valid(l, d))

LEMMA RememberedKnown ==
    ASSUME NEW d, NEW l, NEW r \in Repair
    PROVE  Known(Remembered(l, d, r).lastValid, l, d, r.lastValid)
<1>1. CASE Valid(l, d)
    BY <1>1 DEF Remembered, Known
<1>2. CASE ~Valid(l, d)
    BY <1>2 DEF Remembered, Known, Repair
<1> QED BY <1>1, <1>2

\* Writing one limit of a status leaves the other as it was.
LEMMA OtherLimit ==
    ASSUME NEW d \in Status, NEW n \in Nat
    PROVE  /\ Valid("fallback", WithReading("current", d, n)) = Valid("fallback", d)
           /\ Invalid("fallback", WithReading("current", d, n)) = Invalid("fallback", d)
<1>1. /\ WithReading("current", d, n).fallback = d.fallback
      /\ WithReading("current", d, n).userMax = d.userMax
    BY DEF WithReading, Status
<1> QED BY <1>1 DEF Valid, Invalid, Judged, Reading, UserMax

-------------------------------------------------------------------------------
\* The invariant.

\* A limit whose restore is awaited is invalid and marked; of the two limits the
\* fallback limit is settled before the other is restored; published data is settled.
RepairInv(told) ==
    /\ Published => \A l \in Limits : Settled(l, data, repair[l], told)
    /\ \A l \in Limits : poll = l => Invalid(l, polled) /\ repair[l].fixAttempted
    /\ poll = "current" => Settled("fallback", polled, repair["fallback"], told)

LEMMA FinishPollSettled ==
    ASSUME NEW d, NEW rep, NEW CONSTANT told, FinishPoll(d, rep),
           \A l \in Limits : Settled(l, d, rep[l], told)
    PROVE  RepairInv(told)'
<1>1. poll' = "idle" /\ data' = d /\ repair' = rep
    BY DEF FinishPoll
<1>2. poll' \notin Limits
    BY <1>1, LimitsAre
<1>3. \A l \in Limits : Settled(l, data, repair[l], told)'
    BY <1>1 DEF Settled, Valid, Invalid, Judged, Reading, UserMax
<1> QED BY <1>1, <1>2, <1>3, LimitsAre DEF RepairInv

LEMMA AwaitRestoreSettled ==
    ASSUME NEW l \in Limits, NEW d, NEW rep, NEW CONSTANT told, AwaitRestore(l, d, rep),
           Invalid(l, d), rep[l].fixAttempted,
           l = "current" => Settled("fallback", d, rep["fallback"], told)
    PROVE  RepairInv(told)'
<1>1. poll' = l /\ polled' = d /\ repair' = rep
    BY DEF AwaitRestore
<1>2. ~Published'
    BY <1>1 DEF Published
<1>3. Invalid(l, polled)' /\ repair'[l].fixAttempted
    BY <1>1 DEF Invalid, Judged, Reading, UserMax
<1>4. poll' = "current" => Settled("fallback", polled, repair["fallback"], told)'
    BY <1>1 DEF Settled, Valid, Invalid, Judged, Reading, UserMax
<1> QED BY <1>1, <1>2, <1>3, <1>4 DEF RepairInv

LEMMA JudgeCurrentSettled ==
    ASSUME NEW d \in Status, NEW rep \in [Limits -> Repair], NEW CONSTANT told,
           JudgeCurrent(d, rep), Settled("fallback", d, rep["fallback"], told)
    PROVE  RepairInv(told)'
<1> DEFINE new == Remembered("current", d, rep["current"])
           judged == [rep EXCEPT !["current"] = new]
<1>1. rep["current"] \in Repair /\ judged["fallback"] = rep["fallback"] /\ judged["current"] = new
    BY LimitsAre
<1>2. CASE NeedsRestore("current", d, rep["current"])
    <2>1. AwaitRestore("current", d, judged)
        BY <1>2 DEF JudgeCurrent
    <2>2. Invalid("current", d) /\ new.fixAttempted
        BY <1>1, <1>2, LimitsAre, RememberedAttempt
    <2> HIDE DEF judged, new
    <2> QED BY <1>1, <2>1, <2>2, LimitsAre, AwaitRestoreSettled DEF Settled
<1>3. CASE ~NeedsRestore("current", d, rep["current"])
    <2>1. FinishPoll(d, judged)
        BY <1>3 DEF JudgeCurrent
    <2>2. Settled("current", d, new, told)
        BY <1>1, <1>3, LimitsAre, RememberedSettles
    <2> HIDE DEF judged, new
    <2>3. \A l \in Limits : Settled(l, d, judged[l], told)
        BY <1>1, <2>2, LimitsAre
    <2> QED BY <2>1, <2>3, FinishPollSettled
<1> QED BY <1>2, <1>3

LEMMA JudgeFallbackSettled ==
    ASSUME NEW d \in Status, NEW rep \in [Limits -> Repair], NEW CONSTANT told,
           JudgeFallback(d, rep)
    PROVE  RepairInv(told)'
<1> DEFINE new == Remembered("fallback", d, rep["fallback"])
           judged == [rep EXCEPT !["fallback"] = new]
<1>1. /\ rep["fallback"] \in Repair /\ judged["fallback"] = new
      /\ judged \in [Limits -> Repair]
    BY LimitsAre, RememberedType
<1>2. CASE NeedsRestore("fallback", d, rep["fallback"])
    <2>1. AwaitRestore("fallback", d, judged)
        BY <1>2 DEF JudgeFallback
    <2>2. Invalid("fallback", d) /\ new.fixAttempted
        BY <1>1, <1>2, LimitsAre, RememberedAttempt
    <2> HIDE DEF judged, new
    <2> QED BY <1>1, <2>1, <2>2, LimitsAre, AwaitRestoreSettled
<1>3. CASE ~NeedsRestore("fallback", d, rep["fallback"])
    <2>1. JudgeCurrent(d, judged)
        BY <1>3 DEF JudgeFallback
    <2>2. Settled("fallback", d, new, told)
        BY <1>1, <1>3, LimitsAre, RememberedSettles
    <2> HIDE DEF judged, new
    <2> QED BY <1>1, <2>1, <2>2, JudgeCurrentSettled
<1> QED BY <1>2, <1>3

\* The rest of the handler after a restore of l, whose memory it has set to r.
LEMMA RestoredSettled ==
    ASSUME NEW CONSTANT told, TypeOK, RepairInv(told), NEW l \in Limits, poll = l,
           NEW d \in Status, NEW r \in Repair, Settled(l, d, r, told),
           l = "current" => Settled("fallback", d, repair["fallback"], told),
           AfterRestore(l, d, [repair EXCEPT ![l] = r])
    PROVE  RepairInv(told)'
<1> DEFINE rep == [repair EXCEPT ![l] = r]
<1>1. rep \in [Limits -> Repair] /\ rep[l] = r
    BY DEF TypeOK
<1>2. \A k \in Limits \ {l} : rep[k] = repair[k]
    BY DEF TypeOK
<1> HIDE DEF rep
<1>3. CASE l = "fallback"
    <2>1. JudgeCurrent(d, rep)
        BY <1>3 DEF AfterRestore, rep
    <2> QED BY <1>1, <1>3, <2>1, JudgeCurrentSettled
<1>4. CASE l = "current"
    <2>1. FinishPoll(d, rep)
        BY <1>4, LimitsAre DEF AfterRestore, rep
    <2>2. Settled("fallback", d, rep["fallback"], told) /\ Settled("current", d, rep["current"], told)
        BY <1>1, <1>2, <1>4, LimitsAre
    <2>3. \A k \in Limits : Settled(k, d, rep[k], told)
        BY <2>2, LimitsAre
    <2> QED BY <2>1, <2>3, FinishPollSettled
<1> QED BY <1>3, <1>4, LimitsAre

LEMMA RepairStep ==
    ASSUME NEW CONSTANT told, TypeOK, RepairInv(told), [Next]_vars PROVE RepairInv(told)'
\* Steps that touch neither the data nor the memory, and are of no restore.
<1>a. ASSUME UNCHANGED <<polled, data, repair>>, poll' \notin Limits,
             poll \notin Limits \/ poll' = poll, entry' = "loaded" => entry = "loaded"
      PROVE  RepairInv(told)'
    BY <1>a, LimitsAre
    DEF RepairInv, Published, Settled, Valid, Invalid, Judged, Reading, UserMax
<1>b. ASSUME UNCHANGED <<polled, data, repair, poll, entry>> PROVE RepairInv(told)'
    BY <1>b DEF RepairInv, Published, Settled, Valid, Invalid, Judged, Reading, UserMax
<1>c. ASSUME entry' = "not_loaded", poll' = "idle" PROVE RepairInv(told)'
    BY <1>c, LimitsAre DEF RepairInv, Published
<1>1. CASE SetUp
    BY <1>1, <1>a, LimitsAre DEF SetUp, BeginRead, TypeOK
<1>2. CASE ScheduledRefresh \/ RequestedRefresh
    BY <1>2, <1>a, LimitsAre DEF ScheduledRefresh, RequestedRefresh, BeginRead
<1>3. CASE ReadSucceeds
    BY <1>3, JudgeFallbackSettled DEF ReadSucceeds, TypeOK
<1>4. ASSUME NEW kind \in FailureKinds, ReadFails(kind) PROVE RepairInv(told)'
    BY <1>4, <1>a, LimitsAre DEF ReadFails
<1>5. ASSUME NEW kind \in FailureKinds, SetUpFails(kind) PROVE RepairInv(told)'
    BY <1>5, <1>c DEF SetUpFails, NewCoordinator
<1>6. ASSUME NEW l \in Limits, RestoreSucceeds(l) PROVE RepairInv(told)'
    <2> DEFINE value == RestoreValue(polled, repair[l])
               d == WithReading(l, polled, value)
               r == [repair[l] EXCEPT !.issue = FALSE]
    <2>1. poll = l /\ AfterRestore(l, d, [repair EXCEPT ![l] = r])
        BY <1>6 DEF RestoreSucceeds
    <2>2. d \in Status /\ polled \in Status /\ value \in Nat
        BY <2>1, WrittenType
    <2>3. repair[l] \in Repair /\ repair[l].fixAttempted
        BY <2>1 DEF TypeOK, RepairInv
    <2>4. r \in Repair /\ ~r.issue /\ r.fixAttempted
        BY <2>3 DEF Repair
    <2> HIDE DEF r
    <2>5. Settled(l, d, r, told)
        BY <2>4 DEF Settled
    <2>6. l = "current" => Settled("fallback", d, repair["fallback"], told)
        BY <2>1, <2>2, OtherLimit DEF RepairInv, Settled
    <2> HIDE DEF d
    <2> QED BY <2>1, <2>2, <2>4, <2>5, <2>6, RestoredSettled
<1>7. ASSUME NEW l \in Limits, RestoreFails(l) PROVE RepairInv(told)'
    <2> DEFINE r == [repair[l] EXCEPT !.issue = TRUE]
    <2>1. poll = l /\ AfterRestore(l, polled, [repair EXCEPT ![l] = r])
        BY <1>7 DEF RestoreFails
    <2>2. polled \in Status /\ Invalid(l, polled)
        BY <2>1, WrittenType DEF RepairInv
    <2>3. repair[l] \in Repair /\ repair[l].fixAttempted
        BY <2>1 DEF TypeOK, RepairInv
    <2>4. r \in Repair /\ r.fixAttempted
        BY <2>3 DEF Repair
    <2> HIDE DEF r
    <2>5. Settled(l, polled, r, told)
        BY <2>2, <2>4, InvalidIsNotValid DEF Settled
    <2>6. l = "current" => Settled("fallback", polled, repair["fallback"], told)
        BY <2>1 DEF RepairInv
    <2> QED BY <2>1, <2>2, <2>4, <2>5, <2>6, RestoredSettled
<1>8. CASE \E button \in Buttons : Press(button)
    BY <1>8, <1>b DEF Press, link
<1>9. CASE ChargerChanges
    BY <1>9, <1>b DEF ChargerChanges, link
<1>10. CASE ShutDown
    BY <1>10, <1>c DEF ShutDown, NewCoordinator
<1>11. CASE Tick
    BY <1>11, <1>b DEF Tick
<1>12. CASE UNCHANGED vars
    BY <1>12, <1>b DEF vars, link
<1> QED BY <1>1, <1>2, <1>3, <1>4, <1>5, <1>6, <1>7, <1>8, <1>9, <1>10, <1>11, <1>12
    DEF Next, ReadEnds, RestoreEnds

LEMMA RepairInvHolds == Spec => [](TypeOK /\ RepairInv(TRUE))
<1>1. Init => RepairInv(TRUE)
    BY LimitsAre DEF Init, RepairInv, Published
<1>2. TypeOK /\ RepairInv(TRUE) /\ [Next]_vars => RepairInv(TRUE)'
    BY RepairStep
<1> QED BY <1>1, <1>2, TypeInit, TypeStep, PTL DEF Spec

\* A limit that is out of its number's range, and is judged, is invalid.
LEMMA OutOfRangeIsInvalid ==
    ASSUME NEW d \in Status, NEW l \in Limits, l = "current" => UserMax(d) > 0, OutOfRange(l, d)
    PROVE  Invalid(l, d)
<1>1. d.userMax = 0 => UserMax(d) = 0
    BY DEF UserMax
<1>2. Reading(l, d) \in Nat /\ UserMax(d) \in Nat
    BY StatusFacts
<1> QED BY <1>1, <1>2 DEF OutOfRange, native_max_value, Invalid, Judged, Limits

LEMMA OutOfRangeSettled ==
    ASSUME NEW CONSTANT told, TypeOK, RepairInv(told) PROVE OutOfRangeIsAttempted
<1>1. Published => data \in Status
    BY DEF Published, TypeOK
<1> QED BY <1>1, OutOfRangeIsInvalid DEF RepairInv, OutOfRangeIsAttempted, Settled

\* A limit beyond its number's range has been restored or given up on, but for a current
\* limit with a maximum below 1 A, which no poll judges.
THEOREM OutOfRangeIsAttemptedHolds == Spec => []OutOfRangeIsAttempted
<1>1. TypeOK /\ RepairInv(TRUE) => OutOfRangeIsAttempted
    BY OutOfRangeSettled
<1> QED BY <1>1, RepairInvHolds, PTL

-------------------------------------------------------------------------------
\* The scan interval issue.

\* The issue follows the timeout last read, and there is none before the first poll of a
\* coordinator has been answered.
ScanInv ==
    /\ Published => (scanIssue <=> data.timeout \in 1..ScanInterval)
    /\ entry = "not_loaded" \/ (entry = "setting_up" /\ poll = "reading") => ~scanIssue

LEMMA FinishPollScan ==
    ASSUME NEW d \in Status, NEW rep, FinishPoll(d, rep)
    PROVE  ScanInv'
<1>1. /\ data' = d /\ entry' = "loaded"
      /\ scanIssue' = (d.timeout > 0 /\ ScanInterval >= d.timeout)
    BY DEF FinishPoll
<1>2. d.timeout \in Nat /\ ScanInterval \in Nat
    BY TimeAssumption DEF Status
<1>3. d.timeout \in 1..ScanInterval <=> d.timeout > 0 /\ ScanInterval >= d.timeout
    BY <1>2
<1> QED BY <1>1, <1>3 DEF ScanInv

LEMMA AwaitRestoreScan ==
    ASSUME NEW l \in Limits, NEW d, NEW rep, entry # "not_loaded", AwaitRestore(l, d, rep)
    PROVE  ScanInv'
BY LimitsAre DEF AwaitRestore, ScanInv, Published

LEMMA JudgedScan ==
    ASSUME NEW d \in Status, NEW rep, entry # "not_loaded"
    PROVE  /\ JudgeCurrent(d, rep) => ScanInv'
           /\ JudgeFallback(d, rep) => ScanInv'
<1>1. ASSUME NEW r, JudgeCurrent(d, r) PROVE ScanInv'
    BY <1>1, FinishPollScan, AwaitRestoreScan, LimitsAre DEF JudgeCurrent
<1>2. JudgeFallback(d, rep) => ScanInv'
    BY <1>1, AwaitRestoreScan, LimitsAre DEF JudgeFallback
<1> QED BY <1>1, <1>2

\* Whatever was open before, a poll that is answered has the issue follow it.
LEMMA ReadScan == TypeOK /\ ReadSucceeds => ScanInv'
BY JudgedScan DEF ReadSucceeds, TypeOK

LEMMA ScanStep == ASSUME TypeOK, ScanInv, [Next]_vars PROVE ScanInv'
<1>a. ASSUME UNCHANGED <<data, scanIssue>>, entry' = entry, poll' = poll
      PROVE  ScanInv'
    BY <1>a DEF ScanInv, Published
<1>1. CASE SetUp
    BY <1>1 DEF SetUp, BeginRead, ScanInv, Published
<1>2. CASE ScheduledRefresh \/ RequestedRefresh
    BY <1>2, LimitsAre DEF ScheduledRefresh, RequestedRefresh, BeginRead, ScanInv, Published
<1>3. CASE ReadSucceeds
    BY <1>3, ReadScan
<1>4. ASSUME NEW kind \in FailureKinds, ReadFails(kind) PROVE ScanInv'
    BY <1>4, LimitsAre DEF ReadFails, ScanInv, Published
<1>5. ASSUME NEW kind \in FailureKinds, SetUpFails(kind) PROVE ScanInv'
    BY <1>5 DEF SetUpFails, NewCoordinator, ScanInv, Published
<1>6. ASSUME NEW l \in Limits, RestoreSucceeds(l) \/ RestoreFails(l) PROVE ScanInv'
    <2>1. poll = l /\ entry # "not_loaded"
        BY <1>6, LimitsAre DEF RestoreSucceeds, RestoreFails, TypeOK
    <2>2. ASSUME NEW d \in Status, NEW rep, AfterRestore(l, d, rep) PROVE ScanInv'
        BY <2>1, <2>2, JudgedScan, FinishPollScan DEF AfterRestore
    <2> QED BY <1>6, <2>2, WrittenType DEF RestoreSucceeds, RestoreFails
<1>7. CASE \E button \in Buttons : Press(button)
    BY <1>7, <1>a DEF Press, link
<1>8. CASE ChargerChanges
    BY <1>8, <1>a DEF ChargerChanges, link
<1>9. CASE ShutDown
    BY <1>9 DEF ShutDown, NewCoordinator, ScanInv, Published
<1>10. CASE Tick
    BY <1>10, <1>a DEF Tick
<1>11. CASE UNCHANGED vars
    BY <1>11, <1>a DEF vars, link
<1> QED BY <1>1, <1>2, <1>3, <1>4, <1>5, <1>6, <1>7, <1>8, <1>9, <1>10, <1>11
    DEF Next, ReadEnds, RestoreEnds

-------------------------------------------------------------------------------
\* What is restored.

\* The charger's maximum is not changed by anyone.
SameMax == \A s, t \in Statuses : s.userMax = t.userMax

\* The status a poll holds has the charger's maximum, which no remembered limit exceeds.
MaxInv ==
    /\ \A s \in Statuses : s.userMax = charger.userMax
    /\ poll \in Limits => polled.userMax = charger.userMax
    /\ \A l \in Limits : repair[l].lastValid # None => repair[l].lastValid <= UserMax(charger)

LEMMA WritingKeepsMax ==
    ASSUME NEW d \in Status, NEW l \in Limits, NEW n \in Nat
    PROVE  WithReading(l, d, n).userMax = d.userMax
BY DEF WithReading, Status

\* What the rest of a handler leaves of the limits' memory, when it started with rep and
\* judges d.
WithinMax(rep, m) == \A l \in Limits : rep[l].lastValid # None => rep[l].lastValid <= m

LEMMA RememberedKeepsMax ==
    ASSUME NEW d \in Status, NEW l \in Limits, NEW r \in Repair,
           r.lastValid # None => r.lastValid <= UserMax(d)
    PROVE  Remembered(l, d, r).lastValid # None => Remembered(l, d, r).lastValid <= UserMax(d)
<1>1. CASE Valid(l, d)
    <2>1. Remembered(l, d, r) =
            [lastValid |-> Reading(l, d), fixAttempted |-> FALSE, issue |-> FALSE]
        BY <1>1, InvalidIsNotValid DEF Remembered, NeedsRestore
    <2>2. Reading(l, d) <= UserMax(d)
        BY <1>1 DEF Valid
    <2> QED BY <2>1, <2>2
<1>2. CASE ~Valid(l, d)
    BY <1>2 DEF Remembered, Repair
<1> QED BY <1>1, <1>2

LEMMA RememberedWithinMax ==
    ASSUME NEW d \in Status, NEW l \in Limits, NEW rep \in [Limits -> Repair],
           WithinMax(rep, UserMax(d))
    PROVE  WithinMax([rep EXCEPT ![l] = Remembered(l, d, rep[l])], UserMax(d))
BY RememberedKeepsMax DEF WithinMax

\* A stretch of the handler that judges d keeps MaxInv.
MaxKept(d) ==
    /\ poll' \in Limits => polled' = d
    /\ WithinMax(repair', UserMax(d))

LEMMA JudgedWithinMax ==
    ASSUME NEW d \in Status, NEW rep \in [Limits -> Repair], WithinMax(rep, UserMax(d))
    PROVE  /\ FinishPoll(d, rep) => MaxKept(d)
           /\ JudgeCurrent(d, rep) => MaxKept(d)
           /\ JudgeFallback(d, rep) => MaxKept(d)
<1>1. ASSUME NEW r, WithinMax(r, UserMax(d)), FinishPoll(d, r) PROVE MaxKept(d)
    BY <1>1, LimitsAre DEF FinishPoll, MaxKept
<1>2. ASSUME NEW r, WithinMax(r, UserMax(d)), NEW l \in Limits, AwaitRestore(l, d, r)
      PROVE  MaxKept(d)
    BY <1>2 DEF AwaitRestore, MaxKept
<1>3. ASSUME NEW r \in [Limits -> Repair], WithinMax(r, UserMax(d)), JudgeCurrent(d, r)
      PROVE  MaxKept(d)
    BY <1>1, <1>2, <1>3, LimitsAre, RememberedWithinMax DEF JudgeCurrent
<1>4. ASSUME JudgeFallback(d, rep) PROVE MaxKept(d)
    <2> DEFINE judged == [rep EXCEPT !["fallback"] = Remembered("fallback", d, rep["fallback"])]
    <2>1. judged \in [Limits -> Repair] /\ WithinMax(judged, UserMax(d))
        BY LimitsAre, RememberedType, RememberedWithinMax
    <2>2. AwaitRestore("fallback", d, judged) \/ JudgeCurrent(d, judged)
        BY <1>4 DEF JudgeFallback
    <2> QED BY <2>1, <2>2, <1>2, <1>3, LimitsAre
<1> QED BY <1>1, <1>3, <1>4

LEMMA MaxStep == ASSUME SameMax, TypeOK, MaxInv, [Next]_vars PROVE MaxInv'
<1>a. ASSUME UNCHANGED <<polled, repair>>, charger'.userMax = charger.userMax,
             poll' \in Limits => poll' = poll
      PROVE  MaxInv'
    BY <1>a DEF MaxInv, UserMax
<1>b. ASSUME NEW d \in Status, d.userMax = charger.userMax, MaxKept(d),
             charger'.userMax = charger.userMax
      PROVE  MaxInv'
    BY <1>b DEF MaxInv, MaxKept, WithinMax, UserMax
<1>c. ASSUME NewCoordinator, charger'.userMax = charger.userMax PROVE MaxInv'
    <2>1. ASSUME NEW l \in Limits PROVE repair'[l].lastValid = None
        <3>1. repair[l] \in Repair
            BY DEF TypeOK
        <3>2. repair'[l] = [repair[l] EXCEPT !.lastValid = None, !.fixAttempted = FALSE]
            BY <1>c, Zenon DEF NewCoordinator
        <3>3. repair'[l] = [lastValid |-> None, fixAttempted |-> FALSE, issue |-> repair[l].issue]
            BY <3>1, <3>2 DEF Repair
        <3> QED BY <3>3
    <2>2. poll' \notin Limits
        BY <1>c, LimitsAre DEF NewCoordinator
    <2> QED BY <1>c, <2>1, <2>2 DEF MaxInv, UserMax
<1>d. WithinMax(repair, UserMax(charger))
    BY DEF MaxInv, WithinMax
<1>1. CASE SetUp \/ ScheduledRefresh \/ RequestedRefresh
    BY <1>1, <1>a, LimitsAre DEF SetUp, ScheduledRefresh, RequestedRefresh, BeginRead
<1>2. CASE ReadSucceeds
    BY <1>2, <1>b, <1>d, JudgedWithinMax DEF ReadSucceeds, TypeOK
<1>3. ASSUME NEW kind \in FailureKinds, ReadFails(kind) PROVE MaxInv'
    BY <1>3, <1>a, LimitsAre DEF ReadFails
<1>4. ASSUME NEW kind \in FailureKinds, SetUpFails(kind) PROVE MaxInv'
    BY <1>4, <1>c DEF SetUpFails
<1>5. ASSUME NEW l \in Limits, RestoreSucceeds(l) \/ RestoreFails(l) PROVE MaxInv'
    <2> DEFINE value == RestoreValue(polled, repair[l])
    <2>1. /\ poll = l /\ polled \in Status /\ value \in Nat
          /\ WithReading(l, polled, value) \in Status /\ charger \in Status
        BY <1>5, WrittenType DEF RestoreSucceeds, RestoreFails, TypeOK
    <2>2. charger'.userMax = charger.userMax
        BY <1>5, <2>1, WritingKeepsMax DEF RestoreSucceeds, RestoreFails
    <2>3. ASSUME NEW d \in Status, d.userMax = polled.userMax, NEW b \in BOOLEAN,
                 AfterRestore(l, d, [repair EXCEPT ![l].issue = b])
          PROVE  MaxInv'
        <3> DEFINE rep == [repair EXCEPT ![l].issue = b]
        <3>1. rep \in [Limits -> Repair] /\ \A k \in Limits : rep[k].lastValid = repair[k].lastValid
            BY DEF TypeOK, Repair
        <3>2. d.userMax = charger.userMax /\ UserMax(d) = UserMax(charger)
            BY <2>1, <2>3 DEF MaxInv, UserMax
        <3> HIDE DEF rep
        <3>3. WithinMax(rep, UserMax(d))
            BY <3>1, <3>2, <1>d DEF WithinMax
        <3>4. MaxKept(d)
            BY <2>3, <3>1, <3>3, JudgedWithinMax DEF AfterRestore, rep
        <3> QED BY <1>b, <2>2, <3>2, <3>4
    <2>4. CASE RestoreSucceeds(l)
        BY <2>1, <2>3, <2>4, WritingKeepsMax DEF RestoreSucceeds
    <2>5. CASE RestoreFails(l)
        BY <2>1, <2>3, <2>5 DEF RestoreFails
    <2> QED BY <1>5, <2>4, <2>5
<1>6. CASE \E button \in Buttons : Press(button)
    BY <1>6, <1>a DEF Press, link
<1>7. CASE ChargerChanges
    BY <1>7, <1>a DEF ChargerChanges, link, MaxInv
<1>8. CASE ShutDown
    <2>1. charger'.userMax = charger.userMax
        BY <1>8, WrittenType, WritingKeepsMax DEF ShutDown, TypeOK
    <2> QED BY <1>8, <2>1, <1>c DEF ShutDown
<1>9. CASE Tick
    BY <1>9, <1>a DEF Tick
<1>10. CASE UNCHANGED vars
    BY <1>10, <1>a DEF vars, link
<1> QED BY <1>1, <1>2, <1>3, <1>4, <1>5, <1>6, <1>7, <1>8, <1>9, <1>10
    DEF Next, ReadEnds, RestoreEnds

\* What a restore writes is within the maximum, as long as the maximum does not change.
THEOREM RestoreWithinMaxHolds == ASSUME SameMax PROVE Spec => []RestoreWithinMax
<1>1. Init => MaxInv
    BY LimitsAre DEF Init, MaxInv, SameMax
<1>2. ASSUME TypeOK, MaxInv PROVE RestoreWithinMax
    <2>1. ASSUME NEW l \in Limits, poll = l PROVE RestoreValue(polled, repair[l]) <= UserMax(polled)
        <3>1. UserMax(polled) = UserMax(charger) /\ UserMax(polled) \in Nat
            BY <1>2, <2>1, WrittenType, StatusFacts DEF MaxInv, UserMax
        <3> QED BY <1>2, <3>1 DEF RestoreValue, MaxInv
    <2> QED BY <2>1 DEF RestoreWithinMax
<1>3. ASSUME TypeOK, MaxInv, [Next]_vars PROVE MaxInv'
    BY <1>3, MaxStep
<1> QED BY <1>1, <1>2, <1>3, TypeInit, TypeStep, PTL DEF Spec

-------------------------------------------------------------------------------
\* The refinement of LimitRepair.

\* A limit's part of what the coordinator holds stays as it is, the issue aside.
Still(l) == UNCHANGED <<Amps(l), MaxSeen(l), Stage(l), repair[l].lastValid>>

\* A poll has come to limit l of status d, and draws its conclusions.
Concluded(l, d) ==
    \/ /\ Valid(l, d)
       /\ Stage(l)' = "trusted" /\ repair'[l].lastValid = Reading(l, d) /\ repair'[l].issue = FALSE
    \/ /\ Invalid(l, d) /\ Stage(l) = "trusted" /\ Stage(l)' = "restoring"
       /\ UNCHANGED <<repair[l].lastValid, repair[l].issue>>
    \/ /\ Invalid(l, d) /\ Stage(l) = "spent"
       /\ UNCHANGED <<Stage(l), repair[l].lastValid, repair[l].issue>>
    \/ /\ ~Judged(l, d)
       /\ UNCHANGED <<Stage(l), repair[l].lastValid, repair[l].issue>>
Seen(l) ==
    /\ Stage(l) # "restoring"
    /\ \E d \in Status : Amps(l)' = Reading(l, d) /\ MaxSeen(l)' = UserMax(d) /\ Concluded(l, d)

\* The restore of l was answered.
Answered(l) ==
    /\ Stage(l) = "restoring" /\ Stage(l)' = "spent"
    /\ UNCHANGED <<MaxSeen(l), repair[l].lastValid>>
    /\ Amps(l)' \in Nat
    /\ \/ /\ Amps(l)' = IF repair[l].lastValid = None THEN MaxSeen(l) ELSE repair[l].lastValid
          /\ repair'[l].issue = FALSE
       \/ Amps(l)' = Amps(l) /\ repair'[l].issue = TRUE

Forgotten(l) ==
    /\ Amps(l) # None
    /\ Amps(l)' = None /\ MaxSeen(l)' = None /\ repair'[l].lastValid = None
    /\ Stage(l)' = "trusted" /\ repair'[l].issue = repair[l].issue

\* Limit l takes a step of LimitRepair, or none; and one of LimitRestore, or none.
Promised(l) ==
    \/ Still(l) /\ repair'[l].issue = repair[l].issue
    \/ Seen(l) \/ Answered(l) \/ Forgotten(l)
Attempted(l) == Still(l) \/ Promised(l)

\* Of a limit that was not read yet nothing is remembered.
UnreadInv(l) == Amps(l) = None => repair[l].lastValid = None /\ Stage(l) = "trusted"

LEMMA AmpsFacts ==
    ASSUME NEW l \in Limits, NEW d \in Status
    PROVE  Reading(l, d) \in Nat /\ UserMax(d) \in Nat /\ Reading(l, d) # None
BY StatusFacts, NoneAssumption

LEMMA UnreadStep ==
    ASSUME NEW l \in Limits, UnreadInv(l), Attempted(l) PROVE UnreadInv(l)'
<1>1. CASE Still(l)
    BY <1>1 DEF Still, UnreadInv
<1>2. CASE Seen(l)
    BY <1>2, AmpsFacts DEF Seen, UnreadInv
<1>3. CASE Answered(l)
    BY <1>3, NoneAssumption DEF Answered, UnreadInv
<1>4. CASE Forgotten(l)
    BY <1>4 DEF Forgotten, UnreadInv
<1> QED BY <1>1, <1>2, <1>3, <1>4 DEF Attempted, Promised

\* What of a limit a step shows: what status it is seen in decides.
LEMMA SeenInDecides ==
    ASSUME NEW l \in Limits
    PROVE  /\ \A d \in Status : SeenIn(l)' = d =>
                Amps(l)' = Reading(l, d) /\ MaxSeen(l)' = UserMax(d)
           /\ \A d \in Status : SeenIn(l) = d =>
                Amps(l) = Reading(l, d) /\ MaxSeen(l) = UserMax(d)
           /\ SeenIn(l)' = None => Amps(l)' = None /\ MaxSeen(l)' = None
           /\ SeenIn(l) = None => Amps(l) = None /\ MaxSeen(l) = None
           /\ SeenIn(l)' = SeenIn(l) => Amps(l)' = Amps(l) /\ MaxSeen(l)' = MaxSeen(l)
<1>1. None \notin Status
    BY NoneAssumption
<1> QED BY <1>1 DEF Amps, MaxSeen, Reading, UserMax

\* A limit no handler touched.
LEMMA Untouched ==
    ASSUME NEW l \in Limits, repair'[l] = repair[l], poll' = l <=> poll = l,
           SeenIn(l)' = SeenIn(l)
    PROVE  Promised(l)
BY SeenInDecides DEF Promised, Still, Stage

\* The handler has judged l and goes on without a restore of it.
LEMMA JudgedNow ==
    ASSUME TypeOK, NEW l \in Limits, NEW d \in Status, ~NeedsRestore(l, d, repair[l]),
           repair'[l] = Remembered(l, d, repair[l]), poll # l, poll' # l, SeenIn(l)' = d
    PROVE  Promised(l)
<1>1. repair[l] \in Repair
    BY DEF TypeOK
<1>2. Amps(l)' = Reading(l, d) /\ MaxSeen(l)' = UserMax(d)
    BY SeenInDecides
<1>3. CASE Valid(l, d)
    <2>1. repair'[l] = [lastValid |-> Reading(l, d), fixAttempted |-> FALSE, issue |-> FALSE]
        BY <1>3, InvalidIsNotValid DEF Remembered
    <2>2. Concluded(l, d) /\ Stage(l) # "restoring"
        BY <1>3, <2>1 DEF Concluded, Stage
    <2> QED BY <1>2, <2>2 DEF Promised, Seen
<1>4. CASE ~Valid(l, d)
    <2>1. repair'[l] = repair[l]
        BY <1>4 DEF Remembered
    <2>2. Invalid(l, d) => repair[l].fixAttempted
        BY DEF NeedsRestore
    <2>3. ~Invalid(l, d) => ~Judged(l, d)
        BY <1>4, AmpsFacts DEF Valid, Invalid
    <2>4. Concluded(l, d) /\ Stage(l) # "restoring"
        BY <2>1, <2>2, <2>3 DEF Concluded, Stage
    <2> QED BY <1>2, <2>4 DEF Promised, Seen
<1> QED BY <1>3, <1>4

\* The limit is found invalid and its restore begins.
LEMMA RestoreBegun ==
    ASSUME TypeOK, NEW l \in Limits, NEW d \in Status, NeedsRestore(l, d, repair[l]),
           repair'[l] = Remembered(l, d, repair[l]), poll # l, poll' = l, SeenIn(l)' = d
    PROVE  Promised(l)
<1>1. repair[l] \in Repair
    BY DEF TypeOK
<1>2. Invalid(l, d) /\ ~repair[l].fixAttempted /\ ~Valid(l, d)
    BY InvalidIsNotValid DEF NeedsRestore
<1>3. repair'[l] = [repair[l] EXCEPT !.fixAttempted = TRUE]
    BY <1>2 DEF Remembered
<1>4. repair'[l].lastValid = repair[l].lastValid /\ repair'[l].issue = repair[l].issue
    BY <1>1, <1>3 DEF Repair
<1>5. Concluded(l, d) /\ Stage(l) # "restoring"
    BY <1>2, <1>4 DEF Concluded, Stage
<1> QED BY <1>5, SeenInDecides DEF Promised, Seen

\* What the answered restore of l leaves of the status it was read with.
RestoredTo(l, d, b) ==
    \/ d = polled /\ b = TRUE
    \/ d = WithReading(l, polled, RestoreValue(polled, repair[l])) /\ b = FALSE

LEMMA RestoreEnded ==
    ASSUME TypeOK, NEW l \in Limits, poll = l, poll' # l, NEW d \in Status, NEW b,
           RestoredTo(l, d, b), SeenIn(l)' = d, repair'[l].lastValid = repair[l].lastValid,
           repair'[l].fixAttempted, repair'[l].issue = b
    PROVE  Promised(l)
<1> DEFINE value == RestoreValue(polled, repair[l])
<1>1. polled \in Status /\ value \in Nat /\ WithReading(l, polled, value) \in Status
    BY WrittenType
<1>2. Amps(l) = Reading(l, polled) /\ MaxSeen(l) = UserMax(polled)
    BY <1>1, SeenInDecides DEF SeenIn
<1>3. Amps(l)' = Reading(l, d) /\ MaxSeen(l)' = UserMax(d)
    BY SeenInDecides
<1>4. /\ Reading(l, WithReading(l, polled, value)) = value
      /\ UserMax(WithReading(l, polled, value)) = UserMax(polled)
    <2> HIDE DEF value
    <2>1. (1000 * value) \div 1000 = value
        BY <1>1
    <2> QED BY <1>1, <2>1 DEF WithReading, Reading, UserMax, Status
<1>5. value = IF repair[l].lastValid = None THEN MaxSeen(l) ELSE repair[l].lastValid
    BY <1>2 DEF RestoreValue
<1>6. Stage(l) = "restoring" /\ Stage(l)' = "spent"
    BY DEF Stage
<1> HIDE DEF value
<1>7. Reading(l, d) \in Nat /\ UserMax(d) = UserMax(polled)
    BY <1>1, <1>4, AmpsFacts DEF RestoredTo, value
<1>8. \/ Reading(l, d) = value /\ b = FALSE
      \/ Reading(l, d) = Reading(l, polled) /\ b = TRUE
    BY <1>4 DEF RestoredTo, value
<1> QED BY <1>2, <1>3, <1>5, <1>6, <1>7, <1>8 DEF Promised, Answered

\* The handler.

\* Judging the charging current limit leaves the other to its caller.
LEMMA JudgeCurrentPromised ==
    ASSUME TypeOK, NEW d \in Status, NEW rep \in [Limits -> Repair], JudgeCurrent(d, rep),
           rep["current"] = repair["current"], poll # "current"
    PROVE  /\ Promised("current")
           /\ poll' # "fallback" /\ repair'["fallback"] = rep["fallback"]
           /\ SeenIn("fallback")' = d
<1> DEFINE new == Remembered("current", d, rep["current"])
           judged == [rep EXCEPT !["current"] = new]
<1>1. judged["fallback"] = rep["fallback"] /\ judged["current"] = new
    BY LimitsAre
<1>2. CASE NeedsRestore("current", d, rep["current"])
    <2>1. AwaitRestore("current", d, judged)
        BY <1>2 DEF JudgeCurrent
    <2> HIDE DEF judged
    <2>2. poll' = "current" /\ polled' = d /\ repair' = judged
        BY <2>1 DEF AwaitRestore
    <2>3. SeenIn("fallback")' = d /\ SeenIn("current")' = d
        BY <2>2 DEF SeenIn
    <2> QED BY <1>1, <1>2, <2>2, <2>3, LimitsAre, RestoreBegun
<1>3. CASE ~NeedsRestore("current", d, rep["current"])
    <2>1. FinishPoll(d, judged)
        BY <1>3 DEF JudgeCurrent
    <2> HIDE DEF judged
    <2>2. poll' = "idle" /\ data' = d /\ repair' = judged
        BY <2>1 DEF FinishPoll
    <2>3. SeenIn("fallback")' = d /\ SeenIn("current")' = d
        BY <2>2 DEF SeenIn
    <2> QED BY <1>1, <1>3, <2>2, <2>3, LimitsAre, JudgedNow
<1> QED BY <1>2, <1>3

LEMMA JudgeFallbackPromised ==
    ASSUME TypeOK, poll = "reading", NEW d \in Status, JudgeFallback(d, repair)
    PROVE  Promised("fallback") /\ Promised("current")
<1> DEFINE new == Remembered("fallback", d, repair["fallback"])
           judged == [repair EXCEPT !["fallback"] = new]
<1>1. /\ judged["fallback"] = new /\ judged["current"] = repair["current"]
      /\ repair["fallback"] \in Repair
    BY LimitsAre DEF TypeOK
<1>2. judged \in [Limits -> Repair]
    BY <1>1, LimitsAre, RememberedType DEF TypeOK
<1>3. poll # "fallback" /\ poll # "current"
    BY LimitsAre
<1>4. CASE NeedsRestore("fallback", d, repair["fallback"])
    <2>1. AwaitRestore("fallback", d, judged)
        BY <1>4 DEF JudgeFallback
    <2> HIDE DEF judged
    <2>2. poll' = "fallback" /\ polled' = d /\ data' = data /\ repair' = judged
        BY <2>1 DEF AwaitRestore
    <2>3. SeenIn("fallback")' = d /\ SeenIn("current")' = SeenIn("current")
        BY <1>3, <2>2 DEF SeenIn
    <2>4. Promised("fallback")
        BY <1>1, <1>3, <1>4, <2>2, <2>3, LimitsAre, RestoreBegun
    <2>5. Promised("current")
        BY <1>1, <1>3, <2>2, <2>3, LimitsAre, Untouched
    <2> QED BY <2>4, <2>5
<1>5. CASE ~NeedsRestore("fallback", d, repair["fallback"])
    <2>1. JudgeCurrent(d, judged)
        BY <1>5 DEF JudgeFallback
    <2> HIDE DEF judged
    <2>2. /\ Promised("current") /\ SeenIn("fallback")' = d
          /\ poll' # "fallback" /\ repair'["fallback"] = judged["fallback"]
        BY <1>1, <1>2, <1>3, <2>1, JudgeCurrentPromised
    <2>3. Promised("fallback")
        BY <1>1, <1>3, <1>5, <2>2, LimitsAre, JudgedNow
    <2> QED BY <2>2, <2>3
<1> QED BY <1>4, <1>5

\* The rest of the handler after the restore of l, whose issue it set to b.
LEMMA AfterRestorePromised ==
    ASSUME NEW CONSTANT told, TypeOK, RepairInv(told), NEW l \in Limits, poll = l,
           NEW d \in Status, NEW b \in BOOLEAN, RestoredTo(l, d, b),
           AfterRestore(l, d, [repair EXCEPT ![l].issue = b])
    PROVE  Promised("fallback") /\ Promised("current")
<1> DEFINE r == [repair[l] EXCEPT !.issue = b]
           rep == [repair EXCEPT ![l] = r]
<1>1. repair[l] \in Repair /\ repair[l].fixAttempted
    BY DEF TypeOK, RepairInv
<1>2. /\ r \in Repair /\ r.fixAttempted /\ r.issue = b
      /\ r.lastValid = repair[l].lastValid
    BY <1>1 DEF Repair
<1>3. /\ rep \in [Limits -> Repair] /\ rep[l] = r
      /\ \A k \in Limits \ {l} : rep[k] = repair[k]
    BY <1>2 DEF TypeOK
<1>4. AfterRestore(l, d, rep)
    OBVIOUS
<1> HIDE DEF rep, r
<1>5. CASE l = "fallback"
    <2>1. JudgeCurrent(d, rep)
        BY <1>4, <1>5 DEF AfterRestore
    <2>2. /\ Promised("current") /\ SeenIn("fallback")' = d
          /\ poll' # "fallback" /\ repair'["fallback"] = rep["fallback"]
        BY <1>3, <1>5, <2>1, LimitsAre, JudgeCurrentPromised
    <2>3. Promised("fallback")
        BY <1>2, <1>3, <1>5, <2>2, LimitsAre, RestoreEnded
    <2> QED BY <2>2, <2>3
<1>6. CASE l = "current"
    <2>1. FinishPoll(d, rep)
        BY <1>4, <1>6, LimitsAre DEF AfterRestore
    <2>2. poll' = "idle" /\ data' = d /\ repair' = rep
        BY <2>1 DEF FinishPoll
    <2>3. SeenIn("fallback")' = d /\ SeenIn("current")' = d /\ SeenIn("fallback") = polled
        BY <1>6, <2>2 DEF SeenIn
    <2>4. Promised("current")
        BY <1>2, <1>3, <1>6, <2>2, <2>3, LimitsAre, RestoreEnded
    <2>5. polled \in Status /\ RestoreValue(polled, repair["current"]) \in Nat
        BY <1>6, WrittenType
    <2>6. Reading("fallback", d) = Reading("fallback", polled) /\ UserMax(d) = UserMax(polled)
        BY <1>6, <2>5 DEF RestoredTo, WithReading, Reading, UserMax, Status
    <2>7. Amps("fallback")' = Amps("fallback") /\ MaxSeen("fallback")' = MaxSeen("fallback")
        BY <2>3, <2>5, <2>6, LimitsAre, SeenInDecides
    <2>8. Promised("fallback")
        BY <1>3, <1>6, <2>2, <2>7, LimitsAre DEF Promised, Still, Stage
    <2> QED BY <2>4, <2>8
<1> QED BY <1>5, <1>6, LimitsAre

\* Every step.

LEMMA PromiseStep ==
    ASSUME NEW CONSTANT told, TypeOK, RepairInv(told), [Next]_vars,
           UnreadInv("fallback"), UnreadInv("current")
    PROVE  Promised("fallback") /\ Promised("current")
\* Steps of no restore that leave the memory alone.
<1>a. ASSUME repair' = repair, data' = data, poll' \notin Limits, poll \notin Limits
      PROVE  Promised("fallback") /\ Promised("current")
    <2>1. \A l \in Limits : SeenIn(l)' = SeenIn(l)
        BY <1>a, LimitsAre DEF SeenIn
    <2> QED BY <1>a, <2>1, LimitsAre, Untouched
<1>b. ASSUME repair' = repair, data' = data, polled' = polled, poll' = poll
      PROVE  Promised("fallback") /\ Promised("current")
    <2>1. \A l \in Limits : SeenIn(l)' = SeenIn(l)
        BY <1>b DEF SeenIn
    <2> QED BY <1>b, <2>1, LimitsAre, Untouched
\* Nothing is remembered but the issues.
<1>c. ASSUME NewCoordinator PROVE Promised("fallback") /\ Promised("current")
    <2>1. ASSUME NEW l \in Limits, UnreadInv(l) PROVE Promised(l)
        <3>1. repair[l] \in Repair
            BY DEF TypeOK
        <3>2. repair'[l] = [repair[l] EXCEPT !.lastValid = None, !.fixAttempted = FALSE]
            BY <1>c, Zenon DEF NewCoordinator
        <3>3. repair'[l] = [lastValid |-> None, fixAttempted |-> FALSE, issue |-> repair[l].issue]
            BY <3>1, <3>2 DEF Repair
        <3>4. poll' # l /\ SeenIn(l)' = None
            BY <1>c, LimitsAre DEF NewCoordinator, SeenIn
        <3>5. /\ Amps(l)' = None /\ MaxSeen(l)' = None /\ Stage(l)' = "trusted"
              /\ repair'[l].lastValid = None /\ repair'[l].issue = repair[l].issue
            BY <3>3, <3>4, SeenInDecides DEF Stage
        <3>6. SeenIn(l) = None \/ SeenIn(l) \in Status
            BY DEF SeenIn, TypeOK
        <3>7. CASE Amps(l) = None
            <4>1. MaxSeen(l) = None
                BY <3>6, <3>7, SeenInDecides, AmpsFacts
            <4> QED BY <2>1, <3>5, <3>7, <4>1 DEF UnreadInv, Promised, Still
        <3>8. CASE Amps(l) # None
            BY <3>5, <3>8 DEF Promised, Forgotten
        <3> QED BY <3>7, <3>8
    <2> QED BY <2>1, LimitsAre
<1>1. CASE SetUp
    BY <1>1, <1>a, LimitsAre DEF SetUp, BeginRead, TypeOK
<1>2. CASE ScheduledRefresh \/ RequestedRefresh
    BY <1>2, <1>a, LimitsAre DEF ScheduledRefresh, RequestedRefresh, BeginRead
<1>3. CASE ReadSucceeds
    BY <1>3, JudgeFallbackPromised DEF ReadSucceeds, TypeOK
<1>4. ASSUME NEW kind \in FailureKinds, ReadFails(kind)
      PROVE  Promised("fallback") /\ Promised("current")
    BY <1>4, <1>a, LimitsAre DEF ReadFails
<1>5. ASSUME NEW kind \in FailureKinds, SetUpFails(kind)
      PROVE  Promised("fallback") /\ Promised("current")
    BY <1>5, <1>c DEF SetUpFails
<1>6. ASSUME NEW l \in Limits, RestoreSucceeds(l) \/ RestoreFails(l)
      PROVE  Promised("fallback") /\ Promised("current")
    <2>1. CASE RestoreSucceeds(l)
        <3> DEFINE d == WithReading(l, polled, RestoreValue(polled, repair[l]))
        <3>1. poll = l /\ AfterRestore(l, d, [repair EXCEPT ![l].issue = FALSE])
            BY <2>1 DEF RestoreSucceeds
        <3>2. d \in Status
            BY <3>1, WrittenType
        <3>3. RestoredTo(l, d, FALSE)
            BY DEF RestoredTo
        <3> HIDE DEF d
        <3> QED BY <3>1, <3>2, <3>3, AfterRestorePromised
    <2>2. CASE RestoreFails(l)
        <3>1. poll = l /\ AfterRestore(l, polled, [repair EXCEPT ![l].issue = TRUE])
            BY <2>2 DEF RestoreFails
        <3>2. polled \in Status
            BY <3>1, WrittenType
        <3>3. RestoredTo(l, polled, TRUE)
            BY DEF RestoredTo
        <3> QED BY <3>1, <3>2, <3>3, AfterRestorePromised
    <2> QED BY <1>6, <2>1, <2>2
<1>7. CASE \E button \in Buttons : Press(button)
    BY <1>7, <1>b DEF Press, link
<1>8. CASE ChargerChanges
    BY <1>8, <1>b DEF ChargerChanges, link
<1>9. CASE ShutDown
    BY <1>9, <1>c DEF ShutDown
<1>10. CASE Tick
    BY <1>10, <1>b DEF Tick
<1>11. CASE UNCHANGED vars
    BY <1>11, <1>b DEF vars, link
<1> QED BY <1>1, <1>2, <1>3, <1>4, <1>5, <1>6, <1>7, <1>8, <1>9, <1>10, <1>11
    DEF Next, ReadEnds, RestoreEnds

\* What is promised of a limit is what the abstract specification does with it.
LEMMA PromisedIsAllowed ==
    /\ Promised("fallback") => [FallbackRepair!RepairNext]_(FallbackRepair!repairVars)
    /\ Promised("current") => [CurrentRepair!RepairNext]_(CurrentRepair!repairVars)
<1>1. \A l \in Limits : \A d \in Status :
         Reading(l, d) \in Nat /\ UserMax(d) \in Nat /\ Reading(l, d) # None
    BY AmpsFacts
<1>2. ASSUME Promised("fallback")
      PROVE  [FallbackRepair!RepairNext]_(FallbackRepair!repairVars)
    <2>1. CASE Still("fallback") /\ repair'["fallback"].issue = repair["fallback"].issue
        BY <2>1 DEF Still, FallbackRepair!repairVars, FallbackRepair!restoreVars
    <2>2. CASE Seen("fallback")
        BY <1>1, <2>2, LimitsAre
        DEF Seen, Concluded, Valid, Invalid, Judged, FallbackRepair!RepairNext,
            FallbackRepair!SeenValid, FallbackRepair!BeginRestore, FallbackRepair!SeenAgain,
            FallbackRepair!SeenUnjudged, FallbackRepair!Valid, FallbackRepair!Invalid,
            FallbackRepair!Judged
    <2>3. CASE Answered("fallback")
        BY <2>3 DEF Answered, FallbackRepair!RepairNext, FallbackRepair!Accepted,
                    FallbackRepair!Refused
    <2>4. CASE Forgotten("fallback")
        BY <2>4 DEF Forgotten, FallbackRepair!RepairNext, FallbackRepair!Forget
    <2> QED BY <1>2, <2>1, <2>2, <2>3, <2>4 DEF Promised
<1>3. ASSUME Promised("current")
      PROVE  [CurrentRepair!RepairNext]_(CurrentRepair!repairVars)
    <2>1. CASE Still("current") /\ repair'["current"].issue = repair["current"].issue
        BY <2>1 DEF Still, CurrentRepair!repairVars, CurrentRepair!restoreVars
    <2>2. CASE Seen("current")
        BY <1>1, <2>2, LimitsAre
        DEF Seen, Concluded, Valid, Invalid, Judged, CurrentRepair!RepairNext,
            CurrentRepair!SeenValid, CurrentRepair!BeginRestore, CurrentRepair!SeenAgain,
            CurrentRepair!SeenUnjudged, CurrentRepair!Valid, CurrentRepair!Invalid,
            CurrentRepair!Judged
    <2>3. CASE Answered("current")
        BY <2>3 DEF Answered, CurrentRepair!RepairNext, CurrentRepair!Accepted,
                    CurrentRepair!Refused
    <2>4. CASE Forgotten("current")
        BY <2>4 DEF Forgotten, CurrentRepair!RepairNext, CurrentRepair!Forget
    <2> QED BY <1>3, <2>1, <2>2, <2>3, <2>4 DEF Promised
<1> QED BY <1>2, <1>3

\* How every coordinator begins.
LEMMA NothingRead ==
    ASSUME NEW l \in Limits, poll = "idle", data = None,
           repair = [k \in Limits |-> [lastValid |-> None, fixAttempted |-> FALSE, issue |-> FALSE]]
    PROVE  /\ Amps(l) = None /\ MaxSeen(l) = None /\ Stage(l) = "trusted"
           /\ repair[l].lastValid = None /\ repair[l].issue = FALSE
<1>1. poll # l /\ SeenIn(l) = None
    BY LimitsAre DEF SeenIn
<1>2. repair[l] = [lastValid |-> None, fixAttempted |-> FALSE, issue |-> FALSE]
    BY Zenon
<1> QED BY <1>1, <1>2, SeenInDecides DEF Stage

\* The coordinator implements what LimitRepair allows, for both limits at once: one
\* restore per loss of validity, to the value last seen valid or the maximum; an issue
\* opened exactly when that was not accepted, and closed exactly when the limit is seen
\* valid or a restore accepted; and all of it forgotten only with the data, the issue never.
THEOREM RepairIsAllowed == Spec => FallbackRepair!RepairSafe /\ CurrentRepair!RepairSafe
<1>1. ASSUME Init
      PROVE  /\ FallbackRepair!RepairInit /\ CurrentRepair!RepairInit
             /\ UnreadInv("fallback") /\ UnreadInv("current")
    <2>1. \A l \in Limits : /\ Amps(l) = None /\ MaxSeen(l) = None /\ Stage(l) = "trusted"
                            /\ repair[l].lastValid = None /\ repair[l].issue = FALSE
        BY <1>1, NothingRead DEF Init
    <2> QED BY <2>1, LimitsAre
        DEF FallbackRepair!RepairInit, FallbackRepair!Init, CurrentRepair!RepairInit,
            CurrentRepair!Init, UnreadInv
<1>2. ASSUME TypeOK, RepairInv(TRUE), UnreadInv("fallback"), UnreadInv("current"), [Next]_vars
      PROVE  /\ [FallbackRepair!RepairNext]_(FallbackRepair!repairVars)
             /\ [CurrentRepair!RepairNext]_(CurrentRepair!repairVars)
             /\ UnreadInv("fallback")' /\ UnreadInv("current")'
    <2>1. Promised("fallback") /\ Promised("current")
        BY <1>2, PromiseStep
    <2> QED BY <1>2, <2>1, PromisedIsAllowed, UnreadStep, LimitsAre DEF Attempted
<1> QED BY <1>1, <1>2, RepairInvHolds, PTL
    DEF Spec, FallbackRepair!RepairSafe, CurrentRepair!RepairSafe
===============================================================================
