---------------------------- MODULE LifecycleProofs ----------------------------
(***************************************************************************)
(* What the coordinator keeps to with calls beside its polls, through      *)
(* every unload, and with an old poll beside its own: each proof takes the *)
(* steps by StepKinds.                                                     *)
(***************************************************************************)
EXTENDS CommandsProofs, StatusBlockProofs, EntitiesProofs, LifecycleHistory, IssueHistory

-------------------------------------------------------------------------------
\* What is restored, by either coordinator.

\* What the old poll has read and remembers is within the charger's maximum.
OldMaxInv ==
    /\ old.poll \in Limits => old.polled.userMax = charger.userMax
    /\ old.poll # "idle" => WithinMax(old.memory, UserMax(charger))

LEMMA MaxOfWritten ==
    ASSUME NEW c \in Status, NEW d \in Status, c.userMax = d.userMax
    PROVE  UserMax(c) = UserMax(d)
BY DEF UserMax

LEMMA LifecycleMaxStep ==
    ASSUME SameMax, TypeOK, TypeOK', CallsInv, MaxInv, OldMaxInv, [LNext]_lifecycleVars
    PROVE  MaxInv' /\ OldMaxInv'
<1>0. charger \in Status /\ charger' \in Status
    BY DEF TypeOK
<1>1. CASE [Next]_vars /\ old' = old
    <2>1. MaxInv'
        BY <1>1, MaxStep
    <2>2. charger'.userMax = charger.userMax
        <3>1. PICK s \in Statuses : TRUE
            BY StatusesAssumption
        <3> QED BY <2>1, <3>1 DEF MaxInv
    <2> QED BY <1>0, <1>1, <2>1, <2>2, MaxOfWritten DEF OldMaxInv
<1>2. CASE ShutDown /\ UnloadEntry
    <2>1. MaxInv'
        BY <1>2, MaxStep DEF Next
    <2> DEFINE left == [Gone EXCEPT !.calls = {t \in Tasks : task[t] # Idle}, !.data = data]
               live == [left EXCEPT !.poll = poll, !.polled = polled, !.memory = repair]
    <2>2. left.poll = "idle" /\ Gone.poll = "idle"
        BY DEF Gone
    <2>3. CASE Outlives
        <3>1. old' = live /\ charger' = charger
            BY <1>2, <2>3 DEF UnloadEntry
        <3>2. old'.poll = poll /\ old'.polled = polled /\ old'.memory = repair
            BY <3>1 DEF Gone
        <3> HIDE DEF live, left
        <3> QED BY <2>1, <3>1, <3>2 DEF MaxInv, OldMaxInv, WithinMax
    <2>4. CASE ~Outlives
        <3>1. old' = Kept(left)
            BY <1>2, <2>4 DEF UnloadEntry
        <3> HIDE DEF left
        <3>2. old'.poll = "idle"
            BY <2>2, <3>1 DEF Kept
        <3> QED BY <2>1, <3>2, LimitsAre DEF OldMaxInv
    <2> QED BY <2>3, <2>4
<1>3. CASE CallEffect /\ OldStays
    <2>1. /\ charger'.userMax = charger.userMax /\ UNCHANGED <<polled, repair>>
          /\ poll' \in Limits => poll' = poll
        BY <1>3, LimitsAre DEF CallEffect
    <2>2. UserMax(charger) = UserMax(charger')
        BY <1>0, <2>1, MaxOfWritten
    <2>3. MaxInv'
        BY <2>1, <2>2 DEF MaxInv, UserMax
    <2>4. OldMaxInv'
        BY <1>3, <2>1, <2>2, LimitsAre DEF OldMaxInv, OldStays, UserMax, WithinMax
    <2> QED BY <2>3, <2>4
<1>4. CASE OldPollMoves
    <2>1. UNCHANGED <<poll, polled>>
        BY <1>4 DEF OldPollMoves, link
    <2>2. CASE /\ old'.poll = "idle" /\ UNCHANGED <<charger, repair>>
        BY <2>1, <2>2, LimitsAre DEF MaxInv, OldMaxInv, UserMax
    <2>3. ASSUME NEW d \in Status, NEW rep \in [Limits -> Repair], OldPollWentOn(d, rep),
                 \A k \in Limits : rep[k].lastValid = old.memory[k].lastValid,
                 \/ old.poll = "reading" /\ d = charger /\ charger' = charger
                 \/ \E l \in Limits, n \in Nat :
                      /\ old.poll = l
                      /\ d \in {old.polled, WithReading(l, old.polled, n)}
                      /\ charger' \in {charger, WithReading(l, charger, n)},
                 old.poll # "idle"
          PROVE  MaxInv' /\ OldMaxInv'
        <3>1. d.userMax = charger.userMax /\ charger'.userMax = charger.userMax
            <4>1. CASE old.poll = "reading" /\ d = charger /\ charger' = charger
                BY <4>1
            <4>2. ASSUME NEW l \in Limits, NEW n \in Nat, old.poll = l,
                         d \in {old.polled, WithReading(l, old.polled, n)},
                         charger' \in {charger, WithReading(l, charger, n)}
                  PROVE  d.userMax = charger.userMax /\ charger'.userMax = charger.userMax
                <5>1. old.polled \in Status /\ old.polled.userMax = charger.userMax
                    BY <4>2, OldWrittenType DEF CallsInv, OldMaxInv
                <5> QED BY <1>0, <4>2, <5>1, WritingKeepsMax
            <4> QED BY <2>3, <4>1, <4>2
        <3>2. UserMax(d) = UserMax(charger) /\ UserMax(charger) = UserMax(charger')
            BY <1>0, <3>1, MaxOfWritten
        <3>3. WithinMax(rep, UserMax(d))
            BY <2>3, <3>2 DEF OldMaxInv, WithinMax
        <3>4. MaxInv'
            BY <2>1, <2>3, <3>1, <3>2 DEF OldPollWentOn, MaxInv, UserMax
        <3>5. WithinMax(old'.memory, UserMax(charger'))
            BY <2>3, <3>2, <3>3 DEF OldPollWentOn, Known, Valid, WithinMax
        <3>6. old'.poll \in Limits => old'.polled = d
            BY <2>3, LimitsAre DEF OldPollWentOn
        <3>7. OldMaxInv'
            BY <3>1, <3>5, <3>6 DEF OldMaxInv, UserMax, WithinMax
        <3> QED BY <3>4, <3>7
    <2> QED BY <1>4, <2>2, <2>3, OldPollOutcome
<1> QED BY <1>1, <1>2, <1>3, <1>4, StepKinds

\* Neither the coordinator nor the poll left of the one before it ever writes a limit
\* above the maximum, whatever limits users set meanwhile, as long as the maximum stays.
THEOREM RestoresWithinMaxHolds == ASSUME SameMax PROVE LSpec => []RestoresWithinMax
<1>1. LInit => MaxInv /\ OldMaxInv
    BY LimitsAre DEF LInit, CInit, Init, MaxInv, OldMaxInv, SameMax, Gone
<1>2. ASSUME TypeOK, CallsInv, MaxInv, OldMaxInv, [LNext]_lifecycleVars
      PROVE  MaxInv' /\ OldMaxInv'
    BY <1>2, CallsStep, LifecycleMaxStep
<1>3. ASSUME TypeOK, CallsInv, MaxInv, OldMaxInv PROVE RestoresWithinMax
    <2>1. charger \in Status
        BY <1>3 DEF TypeOK
    <2>2. ASSUME NEW l \in Limits, poll = l PROVE RestoreValue(polled, repair[l]) <= UserMax(polled)
        <3>1. polled \in Status /\ polled.userMax = charger.userMax
            BY <1>3, <2>2, WrittenType DEF MaxInv
        <3>2. UserMax(polled) = UserMax(charger) /\ UserMax(polled) \in Nat
            BY <2>1, <3>1, MaxOfWritten, StatusFacts
        <3> QED BY <1>3, <3>2 DEF RestoreValue, MaxInv
    <2>3. ASSUME NEW l \in Limits, old.poll = l
          PROVE  RestoreValue(old.polled, old.memory[l]) <= UserMax(old.polled)
        <3>1. old.polled \in Status /\ old.polled.userMax = charger.userMax
            BY <1>3, <2>3, OldWrittenType DEF OldMaxInv, CallsInv
        <3>2. UserMax(old.polled) = UserMax(charger) /\ UserMax(old.polled) \in Nat
            BY <2>1, <3>1, MaxOfWritten, StatusFacts
        <3> QED BY <1>3, <2>3, <3>2, LimitsAre DEF RestoreValue, OldMaxInv, WithinMax
    <2> QED BY <2>2, <2>3 DEF RestoresWithinMax, RestoreWithinMax
<1> QED BY <1>1, <1>2, <1>3, CallsInvHolds, PTL DEF LSpec

-------------------------------------------------------------------------------
\* What the coordinator keeps to, with calls beside its polls and an old poll beside it.

\* Of what the coordinator's availability and repairs rest on, an old poll touches the
\* issues only.
LEMMA OldPollEffect ==
    ASSUME TypeOK, CallsInv, OldPollMoves
    PROVE  /\ UNCHANGED <<entry, poll, polled, data, age, failedPolls, lastUpdateSuccess, isAvailable>>
           /\ \A l \in Limits : /\ repair'[l].fixAttempted = repair[l].fixAttempted
                               /\ repair'[l].lastValid = repair[l].lastValid
<1>1. UNCHANGED <<entry, poll, polled, data, age, failedPolls, lastUpdateSuccess, isAvailable>>
    BY DEF OldPollMoves, link, availability
<1>2. \A l \in Limits : /\ repair'[l].fixAttempted = repair[l].fixAttempted
                        /\ repair'[l].lastValid = repair[l].lastValid
    BY OldPollOutcome DEF OldPollWentOn
<1> QED BY <1>1, <1>2

LEMMA LifecycleRepairStep ==
    ASSUME TypeOK, CallsInv, RepairInv(FALSE), [LNext]_lifecycleVars PROVE RepairInv(FALSE)'
<1>1. CASE [Next]_vars
    BY <1>1, RepairStep
<1>2. CASE ShutDown
    BY <1>2, RepairStep DEF Next
<1>3. CASE CallEffect
    BY <1>3, LimitsAre
    DEF CallEffect, RepairInv, Published, Settled, Valid, Invalid, Judged, Reading, UserMax
<1>4. CASE OldPollMoves
    <2>1. /\ UNCHANGED <<entry, poll, polled, data>>
          /\ \A l \in Limits : repair'[l].fixAttempted = repair[l].fixAttempted
        BY <1>4, OldPollEffect
    <2> QED BY <2>1, LimitsAre
        DEF RepairInv, Published, Settled, Valid, Invalid, Judged, Reading, UserMax
<1> QED BY <1>1, <1>2, <1>3, <1>4, StepKinds

\* A limit beyond its number's range has been restored or given up on, whatever calls write
\* beside the polls and whatever an old poll has judged meanwhile; but for a current limit
\* with a maximum below 1 A, which no poll judges.
THEOREM OutOfRangeIsAttemptedDuringCalls == LSpec => []OutOfRangeIsAttempted
<1>1. LInit => RepairInv(FALSE)
    BY LimitsAre DEF LInit, CInit, Init, RepairInv, Published
<1>2. TypeOK /\ CallsInv /\ RepairInv(FALSE) /\ [LNext]_lifecycleVars => RepairInv(FALSE)'
    BY LifecycleRepairStep
<1>3. TypeOK /\ RepairInv(FALSE) => OutOfRangeIsAttempted
    BY OutOfRangeSettled
<1> QED BY <1>1, <1>2, <1>3, CallsInvHolds, PTL DEF LSpec

LEMMA LifecycleOutageStep ==
    ASSUME FailuresAlike, TypeOK, CallsInv, OutageInv, [LNext]_lifecycleVars PROVE OutageInv'
<1>1. CASE [Next]_vars
    BY <1>1, OutageStep
<1>2. CASE ShutDown
    BY <1>2, OutageStep DEF Next
<1>3. CASE CallEffect
    <2>1. age' >= age /\ age \in Nat /\ age' \in Nat /\ TOLERATED_FAILURE_SECONDS \in Nat
        BY <1>3, TimeAssumption DEF CallEffect, TypeOK
    <2>2. age >= TOLERATED_FAILURE_SECONDS => age' >= TOLERATED_FAILURE_SECONDS
        BY <2>1
    <2> QED BY <1>3, <2>2, LimitsAre DEF CallEffect, OutageInv, Published
<1>4. CASE OldPollMoves
    <2>1. UNCHANGED <<entry, poll, age, failedPolls, lastUpdateSuccess, isAvailable>>
        BY <1>4, OldPollEffect
    <2> QED BY <2>1 DEF OutageInv, Published
<1> QED BY <1>1, <1>2, <1>3, <1>4, StepKinds

\* What is logged of an outage and what the entities show agree, with the polls that calls
\* ask for beside the scheduled ones, any time between them, and through every unload.
THEOREM AvailabilityAgreesDuringCalls == ASSUME FailuresAlike PROVE LSpec => []AvailabilityAgrees
<1>1. LInit => OutageInv
    BY LimitsAre DEF LInit, CInit, Init, OutageInv, Published
<1>2. TypeOK /\ CallsInv /\ OutageInv /\ [LNext]_lifecycleVars => OutageInv'
    BY LifecycleOutageStep
<1>3. OutageInv => AvailabilityAgrees
    BY DEF OutageInv, AvailabilityAgrees
<1> QED BY <1>1, <1>2, <1>3, CallsInvHolds, PTL DEF LSpec

\* Entities come back from an outage only with a poll that succeeded, with calls and an old
\* poll beside the polls, and however much time has passed.
THEOREM OutageEndsDuringCalls == ASSUME FailuresAlike PROVE LSpec => OutageEndsWithGoodPoll
<1>1. LInit => OutageInv
    BY LimitsAre DEF LInit, CInit, Init, OutageInv, Published
<1>2. TypeOK /\ CallsInv /\ OutageInv /\ [LNext]_lifecycleVars => OutageInv'
    BY LifecycleOutageStep
<1>3. ASSUME TypeOK, CallsInv, OutageInv, [LNext]_lifecycleVars, ComesBack, vars' # vars
      PROVE  failedPolls' = 0
    <2>1. lastUpdateSuccess' # lastUpdateSuccess
        BY <1>3 DEF ComesBack
    <2>2. ~(CallEffect \/ OldPollMoves)
        BY <2>1 DEF CallEffect, OldPollMoves, availability
    <2>3. Next
        BY <1>3, <2>2, StepKinds DEF Next
    <2> QED BY <1>3, <2>3, ComesBackWithGoodPoll
<1>4. TypeOK /\ CallsInv /\ OutageInv /\ [LNext]_lifecycleVars =>
         [ComesBack => failedPolls' = 0]_vars
    BY <1>3
<1> QED BY <1>1, <1>2, <1>4, CallsInvHolds, PTL DEF LSpec, OutageEndsWithGoodPoll

-------------------------------------------------------------------------------
\* What is restored can be written, by either coordinator.

\* The limits that calls write fit their registers: what does not fit is refused before it
\* is sent, a current limit by the device library (device.py:193-203), a fallback limit by
\* the encoding of a single register.
CallsFit ==
    \A call \in Calls : /\ call.kind = "limit" => LimitFits("current", call.value)
                        /\ call.kind = "fallback" => LimitFits("fallback", call.value)

\* What an old poll has read and remembers has been in the limit's registers too; it waits
\* for the restore of an invalid limit.
OldFitsInv ==
    /\ old.poll \in Limits => Fits(old.polled) /\ Invalid(old.poll, old.polled)
    /\ old.poll # "idle" => RepairFits(old.memory)

LEMMA ObeyedFits ==
    ASSUME CallsFit, NEW c \in Status, NEW call \in Calls, Fits(c) PROVE Fits(Obeyed(call, c))
<1>1. call.kind \in CallKinds /\ call.value \in Nat
    BY CallsAssumption
<1>2. \A l \in Limits : LimitFits(l, call.value) => Fits(WithReading(l, c, call.value))
    BY <1>1, WritingFits
<1>3. /\ [c EXCEPT !.state = 4].fallback = c.fallback /\ [c EXCEPT !.state = 4].current = c.current
      /\ [c EXCEPT !.state = 5, !.current = 0].fallback = c.fallback
      /\ [c EXCEPT !.state = 5, !.current = 0].current = 0
      /\ \A n : /\ [c EXCEPT !.timeout = n].fallback = c.fallback
                /\ [c EXCEPT !.timeout = n].current = c.current
                /\ [c EXCEPT !.lock = n].fallback = c.fallback
                /\ [c EXCEPT !.lock = n].current = c.current
    BY DEF Status
<1>4. FitsRegisters(0)
    BY DEF FitsRegisters
<1>5. CASE call.kind \in {"start", "stop", "timeout", "lock"}
    BY <1>1, <1>3, <1>4, <1>5 DEF Obeyed, Fits
<1>6. CASE call.kind \in {"limit", "fallback"}
    BY <1>2, <1>6, LimitsAre DEF Obeyed, CallsFit
<1> QED BY <1>1, <1>5, <1>6 DEF CallKinds

LEMMA LifecycleFitsStep ==
    ASSUME RegistersFit, CallsFit, TypeOK, CallsInv, RepairInv(FALSE), FitsInv, OldFitsInv,
           [LNext]_lifecycleVars
    PROVE  FitsInv' /\ OldFitsInv'
<1>0. charger \in Status
    BY DEF TypeOK
<1>1. CASE [Next]_vars /\ old' = old
    BY <1>1, FitsStep DEF OldFitsInv, Fits, RepairFits
<1>2. CASE ShutDown /\ UnloadEntry
    <2>1. FitsInv'
        BY <1>2, FitsStep DEF Next
    <2> DEFINE left == [Gone EXCEPT !.calls = {t \in Tasks : task[t] # Idle}, !.data = data]
               live == [left EXCEPT !.poll = poll, !.polled = polled, !.memory = repair]
    <2>2. left.poll = "idle" /\ Gone.poll = "idle"
        BY DEF Gone
    <2>3. CASE Outlives
        <3>1. old' = live
            BY <1>2, <2>3 DEF UnloadEntry
        <3>2. old'.poll = poll /\ old'.polled = polled /\ old'.memory = repair
            BY <3>1 DEF Gone
        <3> HIDE DEF live, left
        <3>3. old'.poll \in Limits => Fits(old'.polled) /\ Invalid(old'.poll, old'.polled)
            BY <3>2 DEF FitsInv, RepairInv
        <3>4. RepairFits(old'.memory)
            BY <3>2 DEF FitsInv
        <3> QED BY <2>1, <3>3, <3>4 DEF OldFitsInv, Fits, RepairFits, Invalid, Judged, Reading, UserMax
    <2>4. CASE ~Outlives
        <3>1. old' = Kept(left)
            BY <1>2, <2>4 DEF UnloadEntry
        <3> HIDE DEF left
        <3>2. old'.poll = "idle"
            BY <2>2, <3>1 DEF Kept
        <3> QED BY <2>1, <3>2, LimitsAre DEF OldFitsInv
    <2> QED BY <2>3, <2>4
<1>3. CASE CallEffect /\ OldStays
    <2>1. /\ UNCHANGED <<polled, repair>>
          /\ poll' \in Limits => poll' = poll
          /\ charger' \in {charger} \cup {Obeyed(call, charger) : call \in Calls}
        BY <1>3, LimitsAre DEF CallEffect
    <2>2. Fits(charger')
        BY <1>0, <2>1, ObeyedFits DEF FitsInv
    <2>3. FitsInv'
        BY <2>1, <2>2 DEF FitsInv, Fits, RepairFits
    <2>4. OldFitsInv'
        BY <1>3, LimitsAre
        DEF OldFitsInv, OldStays, Fits, RepairFits, Invalid, Judged, Reading, UserMax
    <2> QED BY <2>3, <2>4
<1>4. CASE OldPollMoves
    <2>1. UNCHANGED <<poll, polled>>
        BY <1>4 DEF OldPollMoves, link
    <2>2. CASE old'.poll = "idle" /\ UNCHANGED <<charger, repair>>
        BY <2>1, <2>2, LimitsAre DEF FitsInv, OldFitsInv, Fits, RepairFits
    <2>3. ASSUME NEW d \in Status, NEW rep \in [Limits -> Repair], OldPollWentOn(d, rep),
                 \A k \in Limits : rep[k].lastValid = old.memory[k].lastValid,
                 \/ old.poll = "reading" /\ d = charger /\ charger' = charger
                 \/ \E l \in Limits, n \in Nat :
                      /\ old.poll = l /\ n = RestoreValue(old.polled, old.memory[l])
                      /\ d \in {old.polled, WithReading(l, old.polled, n)}
                      /\ charger' \in {charger, WithReading(l, charger, n)},
                 old.poll # "idle"
          PROVE  FitsInv' /\ OldFitsInv'
        <3>1. Fits(d) /\ Fits(charger')
            <4>1. CASE old.poll = "reading" /\ d = charger /\ charger' = charger
                BY <4>1 DEF FitsInv
            <4>2. ASSUME NEW l \in Limits, NEW n \in Nat,
                         old.poll = l, n = RestoreValue(old.polled, old.memory[l]),
                         d \in {old.polled, WithReading(l, old.polled, n)},
                         charger' \in {charger, WithReading(l, charger, n)}
                  PROVE  Fits(d) /\ Fits(charger')
                <5>1. old.polled \in Status /\ old.memory[l] \in Repair
                    BY <4>2, OldWrittenType DEF CallsInv, LifecycleTypeOK, Left
                <5>2. Fits(old.polled) /\ Fits(charger) /\ LimitFits(l, n)
                    BY <4>2, <5>1, RestoredFits, LimitsAre DEF FitsInv, OldFitsInv, RepairFits
                <5> QED BY <1>0, <4>2, <5>1, <5>2, WritingFits
            <4> QED BY <2>3, <4>1, <4>2
        <3>2. RepairFits(old'.memory)
            <4>1. ASSUME NEW l \in Limits, old'.memory[l].lastValid # None
                  PROVE  LimitFits(l, old'.memory[l].lastValid)
                <5>1. \/ old'.memory[l].lastValid = old.memory[l].lastValid
                      \/ old'.memory[l].lastValid = Reading(l, d)
                    BY <2>3, <4>1 DEF OldPollWentOn, Known
                <5> QED BY <2>3, <3>1, <4>1, <5>1, ReadingFits DEF OldFitsInv, RepairFits
            <4> QED BY <4>1 DEF RepairFits
        <3>3. old'.poll \in Limits => Fits(old'.polled) /\ Invalid(old'.poll, old'.polled)
            BY <2>3, <3>1, LimitsAre DEF OldPollWentOn
        <3>4. FitsInv'
            BY <2>1, <2>3, <3>1 DEF OldPollWentOn, FitsInv, Fits, RepairFits
        <3> QED BY <3>2, <3>3, <3>4
            DEF OldFitsInv, Fits, RepairFits, Invalid, Judged, Reading, UserMax
    <2> QED BY <1>4, <2>2, <2>3, OldPollOutcome
<1> QED BY <1>1, <1>2, <1>3, <1>4, StepKinds

\* What either coordinator restores fits the limit's registers and is read back as itself,
\* whatever limits users set beside it and whatever was remembered from another maximum.
THEOREM RestoresReadBackHolds ==
    ASSUME RegistersFit, CallsFit
    PROVE  LSpec => []RestoresReadBack
<1>1. LInit => RepairInv(FALSE) /\ FitsInv /\ OldFitsInv
    BY LimitsAre
    DEF LInit, CInit, Init, RepairInv, Published, FitsInv, OldFitsInv, RepairFits, RegistersFit, Gone
<1>2. ASSUME TypeOK, CallsInv, RepairInv(FALSE), FitsInv, OldFitsInv, [LNext]_lifecycleVars
      PROVE  RepairInv(FALSE)' /\ FitsInv' /\ OldFitsInv'
    BY <1>2, LifecycleRepairStep, LifecycleFitsStep
<1>3. ASSUME TypeOK, CallsInv, RepairInv(FALSE), FitsInv, OldFitsInv
      PROVE  RestoresReadBack
    <2>1. RestoreReadsBack
        BY <1>3, FitsReadsBack
    <2>2. ASSUME old.poll \in Limits
          PROVE  ReadsBack(old.poll, RestoreValue(old.polled, old.memory[old.poll]))
        <3>1. /\ old.polled \in Status /\ old.memory[old.poll] \in Repair
              /\ RestoreValue(old.polled, old.memory[old.poll]) \in Nat
            BY <1>3, <2>2, OldWrittenType DEF CallsInv, LifecycleTypeOK, Left
        <3>2. LimitFits(old.poll, RestoreValue(old.polled, old.memory[old.poll]))
            BY <1>3, <2>2, <3>1, RestoredFits, LimitsAre DEF OldFitsInv, RepairFits
        <3> QED BY <2>2, <3>1, <3>2, FittingReadsBack
    <2> QED BY <2>1, <2>2 DEF RestoresReadBack
<1> QED BY <1>1, <1>2, <1>3, CallsInvHolds, PTL DEF LSpec

-------------------------------------------------------------------------------
\* The refinement of LimitRestore.

LEMMA LifecyclePromiseStep ==
    ASSUME TypeOK, CallsInv, RepairInv(FALSE), [LNext]_lifecycleVars,
           UnreadInv("fallback"), UnreadInv("current")
    PROVE  Attempted("fallback") /\ Attempted("current")
<1>1. CASE [Next]_vars \/ ShutDown
    BY <1>1, PromiseStep DEF Next, Attempted
<1>2. ASSUME NEW l \in Limits, repair'[l].fixAttempted = repair[l].fixAttempted,
             repair'[l].lastValid = repair[l].lastValid, UNCHANGED <<data, polled>>,
             \A k \in Limits : poll' = k <=> poll = k
      PROVE  Attempted(l)
    <2>1. SeenIn(l)' = SeenIn(l)
        BY <1>2, LimitsAre DEF SeenIn
    <2>2. Amps(l)' = Amps(l) /\ MaxSeen(l)' = MaxSeen(l)
        BY <2>1, SeenInDecides
    <2> QED BY <1>2, <2>2 DEF Attempted, Still, Stage
<1>3. CASE CallEffect
    BY <1>2, <1>3, LimitsAre DEF CallEffect
<1>4. CASE OldPollMoves
    BY <1>2, <1>4, LimitsAre, OldPollEffect
<1> QED BY <1>1, <1>3, <1>4, StepKinds

\* What is attempted of a limit is what the abstract specification does with it.
LEMMA AttemptedIsAllowed ==
    /\ Attempted("fallback") => [FallbackAttempts!Next]_(FallbackAttempts!restoreVars)
    /\ Attempted("current") => [CurrentAttempts!Next]_(CurrentAttempts!restoreVars)
<1>1. \A l \in Limits : \A d \in Status :
         Reading(l, d) \in Nat /\ UserMax(d) \in Nat /\ Reading(l, d) # None
    BY AmpsFacts
<1>2. ASSUME Attempted("fallback")
      PROVE  [FallbackAttempts!Next]_(FallbackAttempts!restoreVars)
    <2>1. CASE Still("fallback")
        BY <2>1 DEF Still, FallbackAttempts!restoreVars
    <2>2. CASE Seen("fallback")
        BY <1>1, <2>2, LimitsAre
        DEF Seen, Concluded, Valid, Invalid, Judged, FallbackAttempts!Next,
            FallbackAttempts!SeenValid, FallbackAttempts!BeginRestore,
            FallbackAttempts!SeenAgain, FallbackAttempts!SeenUnjudged,
            FallbackAttempts!Valid, FallbackAttempts!Invalid, FallbackAttempts!Judged
    <2>3. CASE Answered("fallback")
        BY <2>3 DEF Answered, FallbackAttempts!Next, FallbackAttempts!Accepted,
                    FallbackAttempts!Refused
    <2>4. CASE Forgotten("fallback")
        BY <2>4 DEF Forgotten, FallbackAttempts!Next, FallbackAttempts!Forget
    <2> QED BY <1>2, <2>1, <2>2, <2>3, <2>4 DEF Attempted, Promised
<1>3. ASSUME Attempted("current")
      PROVE  [CurrentAttempts!Next]_(CurrentAttempts!restoreVars)
    <2>1. CASE Still("current")
        BY <2>1 DEF Still, CurrentAttempts!restoreVars
    <2>2. CASE Seen("current")
        BY <1>1, <2>2, LimitsAre
        DEF Seen, Concluded, Valid, Invalid, Judged, CurrentAttempts!Next,
            CurrentAttempts!SeenValid, CurrentAttempts!BeginRestore,
            CurrentAttempts!SeenAgain, CurrentAttempts!SeenUnjudged,
            CurrentAttempts!Valid, CurrentAttempts!Invalid, CurrentAttempts!Judged
    <2>3. CASE Answered("current")
        BY <2>3 DEF Answered, CurrentAttempts!Next, CurrentAttempts!Accepted,
                    CurrentAttempts!Refused
    <2>4. CASE Forgotten("current")
        BY <2>4 DEF Forgotten, CurrentAttempts!Next, CurrentAttempts!Forget
    <2> QED BY <1>3, <2>1, <2>2, <2>3, <2>4 DEF Attempted, Promised
<1> QED BY <1>2, <1>3

\* Whatever calls and old polls do beside the polls, the coordinator takes each limit through
\* the steps of LimitRestore only: one restore per loss of validity, to the value last seen
\* valid or the maximum, no second one before a poll has shown the limit valid, and nothing
\* forgotten but with the data.
THEOREM RepairIsAllowedDuringCalls == LSpec => FallbackAttempts!Safe /\ CurrentAttempts!Safe
<1>1. ASSUME LInit
      PROVE  /\ RepairInv(FALSE) /\ FallbackAttempts!Init /\ CurrentAttempts!Init
             /\ UnreadInv("fallback") /\ UnreadInv("current")
    <2>1. RepairInv(FALSE)
        BY <1>1, LimitsAre DEF LInit, CInit, Init, RepairInv, Published
    <2>2. \A l \in Limits : /\ Amps(l) = None /\ MaxSeen(l) = None /\ Stage(l) = "trusted"
                            /\ repair[l].lastValid = None
        BY <1>1, NothingRead DEF LInit, CInit, Init
    <2> QED BY <2>1, <2>2, LimitsAre DEF FallbackAttempts!Init, CurrentAttempts!Init, UnreadInv
<1>2. ASSUME TypeOK, CallsInv, RepairInv(FALSE), UnreadInv("fallback"), UnreadInv("current"),
             [LNext]_lifecycleVars
      PROVE  /\ [FallbackAttempts!Next]_(FallbackAttempts!restoreVars)
             /\ [CurrentAttempts!Next]_(CurrentAttempts!restoreVars)
             /\ RepairInv(FALSE)' /\ UnreadInv("fallback")' /\ UnreadInv("current")'
    <2>1. Attempted("fallback") /\ Attempted("current")
        BY <1>2, LifecyclePromiseStep
    <2> QED BY <1>2, <2>1, AttemptedIsAllowed, LifecycleRepairStep, UnreadStep, LimitsAre
<1> QED BY <1>1, <1>2, CallsInvHolds, PTL
    DEF LSpec, FallbackAttempts!Safe, CurrentAttempts!Safe

-------------------------------------------------------------------------------
\* The issues, which an old poll tells of too.

\* What the coordinator itself has said last of its issues is true.
TellsTrue == RepairInv(TRUE) /\ ScanInv
IssueInv == touched \in BOOLEAN /\ (~touched => TellsTrue)

\* A good read makes it true whatever was said before.
LEMMA ReadTellsTrue == TypeOK /\ ReadSucceeds => TellsTrue'
BY JudgeFallbackSettled, ReadScan DEF ReadSucceeds, TypeOK, TellsTrue

\* So does an unload.
LEMMA UnloadTellsTrue == TypeOK /\ UnloadEntry => TellsTrue'
BY LimitsAre DEF UnloadEntry, ShutDown, NewCoordinator, TellsTrue, RepairInv, ScanInv, Published

\* Nobody else but an old poll makes it untrue.
LEMMA OthersKeepTrue ==
    ASSUME TypeOK, CallsInv, TellsTrue, [LNext]_lifecycleVars, ~OldPollTells
    PROVE  TellsTrue'
<1>1. CASE [Next]_vars \/ ShutDown
    BY <1>1, RepairStep, ScanStep DEF TellsTrue, Next
<1>2. CASE CallEffect
    <2>1. RepairInv(TRUE)'
        BY <1>2, LimitsAre
        DEF CallEffect, TellsTrue, RepairInv, Published, Settled, Valid, Invalid, Judged,
            Reading, UserMax
    <2>2. ScanInv'
        BY <1>2, LimitsAre DEF CallEffect, TellsTrue, ScanInv, Published
    <2> QED BY <2>1, <2>2 DEF TellsTrue
<1>3. CASE OldPollMoves
    <2>1. UNCHANGED <<entry, poll, polled, data, repair, scanIssue>>
        BY <1>3, OldPollEffect DEF OldPollTells
    <2> QED BY <2>1
        DEF TellsTrue, RepairInv, ScanInv, Published, Settled, Valid, Invalid, Judged,
            Reading, UserMax
<1> QED BY <1>1, <1>2, <1>3, StepKinds

LEMMA IssueStep ==
    ASSUME TypeOK, CallsInv, IssueInv, [INext]_issueVars PROVE IssueInv'
<1>1. CASE INext /\ (ReadSucceeds \/ UnloadEntry)
    <2>1. touched' \in BOOLEAN
        BY <1>1 DEF INext, IssueInv
    <2> QED BY <1>1, <2>1, ReadTellsTrue, UnloadTellsTrue DEF IssueInv
<1>2. CASE INext /\ ~ReadSucceeds /\ ~UnloadEntry /\ OldPollTells
    BY <1>2 DEF INext, IssueInv
<1>3. CASE INext /\ ~ReadSucceeds /\ ~UnloadEntry /\ ~OldPollTells
    <2>1. touched' = touched /\ LNext
        BY <1>3 DEF INext
    <2> QED BY <1>3, <2>1, OthersKeepTrue DEF IssueInv
<1>4. CASE UNCHANGED issueVars
    <2>1. UNCHANGED lifecycleVars /\ UNCHANGED touched
        BY <1>4 DEF issueVars
    <2>2. ~OldPollTells
        BY <2>1 DEF OldPollTells, lifecycleVars, allVars, vars
    <2> QED BY <2>1, <2>2, OthersKeepTrue DEF IssueInv
<1> QED BY <1>1, <1>2, <1>3, <1>4

LEMMA IssueInvHolds == ISpec => [](TypeOK /\ CallsInv /\ IssueInv)
<1>1. IInit => TypeOK /\ CallsInv
    BY CallsInit DEF IInit
<1>2. IInit => IssueInv
    BY LimitsAre
    DEF IInit, LInit, CInit, Init, IssueInv, TellsTrue, RepairInv, ScanInv, Published
<1>3. [INext]_issueVars => [LNext]_lifecycleVars
    BY DEF INext, issueVars
<1>4. TypeOK /\ CallsInv /\ IssueInv /\ [INext]_issueVars => (TypeOK /\ CallsInv /\ IssueInv)'
    BY <1>3, CallsStep, IssueStep
<1> QED BY <1>1, <1>2, <1>4, PTL DEF ISpec

\* An open limit issue tells the truth about the published data, through every reload, with
\* calls and an old poll beside the polls: but for what such an old poll has said of it
\* since the last good read, which the next one corrects.
THEOREM IssueMeansInvalidHolds == ISpec => []IssueMeansInvalid
<1>1. IssueInv => IssueMeansInvalid
    BY DEF IssueInv, TellsTrue, RepairInv, IssueMeansInvalid, Settled
<1> QED BY <1>1, IssueInvHolds, PTL

\* The scan interval issue is open exactly while the loaded entry polls too slowly for
\* the timeout last read, and goes with the entry: but for what a poll of the coordinator
\* before says of it later, which the next good read corrects.
THEOREM ScanIssueTracksTimeoutHolds == ISpec => []ScanIssueTracksTimeout
<1>1. IssueInv => ScanIssueTracksTimeout
    BY DEF IssueInv, TellsTrue, ScanInv, ScanIssueTracksTimeout
<1> QED BY <1>1, IssueInvHolds, PTL

-------------------------------------------------------------------------------
\* What is shown.

\* Entities agree on what they read of one register, show their options only, and tell
\* errors reported together apart, whatever calls and old polls do beside the polls.
THEOREM ShownDuringCalls == LSpec => [](EntitiesAgree /\ ShownAreOptions /\ ErrorsAreSplit)
<1>1. TypeOK /\ CallsInv => EntitiesAgree /\ ShownAreOptions /\ ErrorsAreSplit
    BY EntitiesAgreeOnData, OptionsOnData, ErrorsSplitInData
<1> QED BY <1>1, CallsInvHolds, PTL

-------------------------------------------------------------------------------
\* The session, with the log of all that the coordinator has been told.

LEMMA LifecycleSessionStep ==
    ASSUME TypeOK, CallsInv, SessionInv, [LHNext]_historyVars PROVE SessionInv'
<1>1. ASSUME Loaded(PollAnswered) /\ LogAnswer PROVE SessionInv'
    <2>1. CASE (ReadSucceeds \/ RestoreEnds) /\ LogPoll
        BY <2>1, AnswerRemembered
    <2>2. ASSUME NEW kind \in FailureKinds, ReadFails(kind), UNCHANGED log PROVE SessionInv'
        BY <2>2, SameSession DEF ReadFails
    <2>3. ASSUME NEW kind \in FailureKinds, SetUpFails(kind), log' = <<>> PROVE SessionInv'
        BY <2>3, SessionForgotten DEF SetUpFails
    <2> QED BY <1>1, <2>1, <2>2, <2>3 DEF LogAnswer
<1>2. ASSUME NEW t \in Tasks, NEW call \in Calls, Loaded(Begin(t, call)), LogCall(call)
      PROVE  SessionInv'
    <2>1. CASE call.kind \in LastCommands
        <3>1. call.kind \in {"start", "stop"}
            BY <2>1, CallsAssumption DEF LastCommands, CallKinds
        <3>2. Press(call.kind) /\ log' = Append(log, Pressed(call.kind))
            BY <1>2, <2>1 DEF Loaded, Begin, LogCall
        <3> QED BY <3>1, <3>2, PressRemembered
    <2>2. CASE call.kind \notin LastCommands
        BY <1>2, <2>2, SameSession DEF Loaded, Begin, LogCall, vars
    <2> QED BY <2>1, <2>2
<1>3. CASE UnloadEntry /\ log' = <<>>
    BY <1>3, SessionForgotten DEF UnloadEntry, ShutDown
\* The other steps leave the session alone.
<1>4. ASSUME UNCHANGED log,
             \/ Loaded(FirstRefresh) \/ Loaded(ScheduleFires) \/ Loaded(CooldownEnds)
             \/ Loaded(ChargerChanges /\ UNCHANGED <<calling, wire, debouncer>>)
             \/ Loaded(TimePasses) \/ OldPollMoves
      PROVE  SessionInv'
    <2>1. UNCHANGED session
        BY <1>4 DEF Loaded, FirstRefresh, SetUp, ScheduleFires, CooldownEnds, Refresh,
                    ChargerChanges, TimePasses, OldPollMoves, vars
    <2> QED BY <1>4, <2>1, SameSession
<1>5. ASSUME UNCHANGED log, NEW t \in Tasks, Loaded(CurrentCallSteps(t)) \/ OldCallSteps(t)
      PROVE  SessionInv'
    <2>1. UNCHANGED session
        BY <1>5 DEF Loaded, CurrentCallSteps, CallSteps, OldCallSteps, WriteFails, WriteSucceeds,
                    Resume, OldWriteSucceeds, OldResume, vars
    <2> QED BY <1>5, <2>1, SameSession
<1>6. CASE UNCHANGED historyVars
    BY <1>6, SameSession DEF historyVars, lifecycleVars, allVars, vars
<1> QED BY <1>1, <1>2, <1>3, <1>4, <1>5, <1>6 DEF LHNext

LEMMA LHNextIsLNext == [LHNext]_historyVars => [LNext]_lifecycleVars
BY DEF LHNext, LNext, historyVars

LEMMA LifecycleSessionInvHolds == LHSpec => [](TypeOK /\ CallsInv /\ SessionInv)
<1>1. LHInit => TypeOK /\ CallsInv
    BY CallsInit DEF LHInit
<1>2. LHInit => SessionInv
    <2>1. LHInit => HInit
        BY DEF LHInit, LInit, CInit, HInit
    <2> QED BY <2>1, SessionInit
<1>3. TypeOK /\ CallsInv /\ SessionInv /\ [LHNext]_historyVars =>
         (TypeOK /\ CallsInv /\ SessionInv)'
    BY LHNextIsLNext, CallsStep, LifecycleSessionStep
<1> QED BY <1>1, <1>2, <1>3, PTL DEF LHSpec

\* The session state is the one that the whole log of polls and presses calls for when the
\* buttons are pressed by real calls: their second attempts and refreshes, the calls and
\* the poll of a coordinator before, and any number of reloads change nothing about that.
THEOREM SessionIsEarnedDuringCalls ==
    LHSpec => [](/\ PausedByCommandIsEarned /\ PausedByCurrentIsEarned
                 /\ ActiveIsEarned /\ StartIsRemembered)
<1>1. TypeOK /\ CallsInv /\ SessionInv =>
         /\ PausedByCommandIsEarned /\ PausedByCurrentIsEarned
         /\ ActiveIsEarned /\ StartIsRemembered
    BY PausedByCommandByLog, PausedByCurrentByLog, ActiveByLog, StartByLog
<1> QED BY <1>1, LifecycleSessionInvHolds, PTL
===============================================================================
