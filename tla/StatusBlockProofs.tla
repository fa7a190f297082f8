------------------------- MODULE StatusBlockProofs -------------------------
(***************************************************************************)
(* What the coordinator may rely on of decoded blocks and written limits,  *)
(* and that what it restores can be written, for all contents of the       *)
(* registers.                                                              *)
(***************************************************************************)
EXTENDS RepairProofs

LEMMA WordIsNat == ASSUME NEW w \in Word PROVE w \in Nat /\ w <= 65535
BY DEF Word

LEMMA NatIsWord == ASSUME NEW n \in Nat, n <= 65535 PROVE n \in Word
BY DEF Word

\* The limits of a status are those a charger's registers can hold.
Fits(d) == d.fallback \in Word /\ FitsRegisters(d.current)

LEMMA PairIsNat ==
    ASSUME NEW high \in Word, NEW low \in Word
    PROVE  /\ decode_32bit_value(high, low) \in Nat
           /\ FitsRegisters(decode_32bit_value(high, low))
<1>1. high \in Nat /\ high <= 65535 /\ low \in Nat /\ low <= 65535
    BY WordIsNat
<1>2. 65536 * high + low \in Nat /\ (65536 * high + low) \div 65536 = high
    BY <1>1
<1> QED BY <1>1, <1>2 DEF decode_32bit_value, FitsRegisters

LEMMA LowSevenBits == ASSUME NEW w \in Word PROVE (w \div 256) % 128 \in 0..127
<1>1. w \in Nat
    BY WordIsNat
<1>2. w \div 256 \in Nat
    BY <1>1
<1> QED BY <1>2

\* Whatever 37 words the charger answers with, the decoded block is a status as the
\* coordinator expects it: bit 7 of the state byte never reaches the state
\* (device.py:104-117), and its limits are those the registers can hold.
THEOREM DecodedBlockIsStatus ==
    ASSUME NEW r \in Block
    PROVE  decode_status_block(r) \in Status /\ Fits(decode_status_block(r))
<1>1. \A i \in 0..36 : r[i] \in Word
    BY DEF Block
<1>2. high_byte(r) % 128 \in 0..127
    BY <1>1, LowSevenBits DEF high_byte
<1>3. \A i \in 0..35 : Pair(r, i) \in Nat
    <2> SUFFICES ASSUME NEW i \in 0..35 PROVE Pair(r, i) \in Nat
        OBVIOUS
    <2>1. i \in 0..36 /\ i + 1 \in 0..36
        OBVIOUS
    <2> QED BY <1>1, <2>1, PairIsNat DEF Pair
<1>4. /\ Pair(r, 6) \in Nat /\ Pair(r, 8) \in Nat /\ Pair(r, 10) \in Nat /\ Pair(r, 34) \in Nat
      /\ Pair(r, 16) \in Nat /\ Pair(r, 18) \in Nat /\ Pair(r, 20) \in Nat
    BY <1>3
<1>5. Largest(Pair(r, 16), Largest(Pair(r, 18), Pair(r, 20))) \in Nat
    BY <1>4 DEF Largest
<1>6. r[32] \in Nat /\ r[36] \in Nat
    BY <1>1, WordIsNat
<1>7. r[36] \in Word /\ FitsRegisters(Pair(r, 34))
    <2>1. 34 \in 0..36 /\ 34 + 1 \in 0..36 /\ 36 \in 0..36
        OBVIOUS
    <2> QED BY <1>1, <2>1, PairIsNat DEF Pair
<1> QED BY <1>2, <1>4, <1>5, <1>6, <1>7 DEF decode_status_block, Status, Fits

\* A limit that a register pair can hold is written as the two words that read back as
\* that limit; any other limit is not written, never wrapped (device.py:193-203).
THEOREM WrittenLimitReadsBack ==
    ASSUME NEW mA \in Nat
    PROVE  LET words == CurrentLimitWords(mA)
           IN  IF FitsRegisters(mA)
               THEN /\ words \in Word \X Word
                    /\ decode_32bit_value(words[1], words[2]) = mA
               ELSE words = <<>>
<1>1. CASE FitsRegisters(mA)
    <2> DEFINE high == mA \div 65536
               low == mA % 65536
    <2>1. CurrentLimitWords(mA) = <<high, low>>
        BY <1>1 DEF CurrentLimitWords
    <2>2. high \in Nat /\ high <= 65535
        BY <1>1 DEF FitsRegisters
    <2>3. low \in Nat /\ low <= 65535
        OBVIOUS
    <2>4. high \in Word /\ low \in Word
        <3> HIDE DEF high, low
        <3> QED BY <2>2, <2>3, NatIsWord
    <2>5. 65536 * high + low = mA
        OBVIOUS
    <2> QED BY <1>1, <2>1, <2>4, <2>5 DEF decode_32bit_value
<1>2. CASE ~FitsRegisters(mA)
    BY <1>2 DEF CurrentLimitWords
<1> QED BY <1>1, <1>2

-------------------------------------------------------------------------------
\* What is restored.

\* The charger's registers hold what a status shows of them.
RegistersFit == \A s \in Statuses : Fits(s)

LimitFits(l, n) == IF l = "fallback" THEN n \in Word ELSE FitsRegisters(1000 * n)

\* All that the coordinator has read or remembers has been in the limit's registers.
RepairFits(rep) == \A l \in Limits : rep[l].lastValid # None => LimitFits(l, rep[l].lastValid)

FitsInv ==
    /\ Fits(charger)
    /\ poll \in Limits => Fits(polled)
    /\ RepairFits(repair)

LEMMA ReadingFits ==
    ASSUME NEW d \in Status, NEW l \in Limits, Fits(d) PROVE LimitFits(l, Reading(l, d))
<1>1. d.current \in Nat
    BY DEF Status
<1>2. \A c \in Nat : c \div 65536 <= 65535 => (1000 * (c \div 1000)) \div 65536 <= 65535
    <2> SUFFICES ASSUME NEW c \in Nat, c \div 65536 <= 65535
                 PROVE  (1000 * (c \div 1000)) \div 65536 <= 65535
        OBVIOUS
    <2>1. 1000 * (c \div 1000) \in Nat /\ 1000 * (c \div 1000) <= c
        OBVIOUS
    <2>2. \A m \in Nat : m <= c => m \div 65536 <= 65535
        OBVIOUS
    <2> QED BY <2>1, <2>2
<1> QED BY <1>1, <1>2, LimitsAre DEF Fits, LimitFits, Reading, FitsRegisters

LEMMA LowerFits ==
    ASSUME NEW l \in Limits, NEW n \in Nat, NEW m \in Nat, m <= n, LimitFits(l, n)
    PROVE  LimitFits(l, m)
<1>1. n \in Word => m \in Word
    <2>1. n \in Word => m <= 65535
        BY WordIsNat
    <2> QED BY <2>1, NatIsWord
<1>2. (1000 * n) \div 65536 <= 65535 => (1000 * m) \div 65536 <= 65535
    OBVIOUS
<1> QED BY <1>1, <1>2 DEF LimitFits, FitsRegisters

LEMMA WritingFits ==
    ASSUME NEW d \in Status, NEW l \in Limits, NEW n \in Nat, Fits(d), LimitFits(l, n)
    PROVE  Fits(WithReading(l, d, n))
BY DEF Fits, LimitFits, WithReading, Status

\* A restore writes what has been read before, or a maximum below what was read now.
LEMMA RestoredFits ==
    ASSUME NEW d \in Status, NEW l \in Limits, NEW r \in Repair, Fits(d), Invalid(l, d),
           r.lastValid # None => LimitFits(l, r.lastValid)
    PROVE  LimitFits(l, RestoreValue(d, r))
<1>1. UserMax(d) \in Nat /\ Reading(l, d) \in Nat /\ UserMax(d) <= Reading(l, d)
    BY StatusFacts DEF Invalid
<1>2. LimitFits(l, UserMax(d))
    BY <1>1, ReadingFits, LowerFits
<1> QED BY <1>2 DEF RestoreValue

LEMMA RememberedFits ==
    ASSUME NEW d \in Status, NEW l \in Limits, NEW rep \in [Limits -> Repair],
           Fits(d), RepairFits(rep)
    PROVE  RepairFits([rep EXCEPT ![l] = Remembered(l, d, rep[l])])
<1>1. Remembered(l, d, rep[l]).lastValid \in {rep[l].lastValid, Reading(l, d)}
    <2>1. rep[l] \in Repair
        OBVIOUS
    <2>2. CASE Valid(l, d)
        BY <2>2 DEF Remembered
    <2>3. CASE ~Valid(l, d)
        BY <2>1, <2>3 DEF Remembered, Repair
    <2> QED BY <2>2, <2>3
<1> QED BY <1>1, ReadingFits DEF RepairFits

\* A stretch of the handler that judges d keeps FitsInv.
FitsKept(d) ==
    /\ poll' \in Limits => polled' = d
    /\ RepairFits(repair')

LEMMA JudgedFits ==
    ASSUME NEW d \in Status, NEW rep \in [Limits -> Repair], Fits(d), RepairFits(rep)
    PROVE  /\ FinishPoll(d, rep) => FitsKept(d)
           /\ JudgeCurrent(d, rep) => FitsKept(d)
           /\ JudgeFallback(d, rep) => FitsKept(d)
<1>1. ASSUME NEW r, RepairFits(r), FinishPoll(d, r) PROVE FitsKept(d)
    BY <1>1, LimitsAre DEF FinishPoll, FitsKept
<1>2. ASSUME NEW r, RepairFits(r), NEW l \in Limits, AwaitRestore(l, d, r) PROVE FitsKept(d)
    BY <1>2 DEF AwaitRestore, FitsKept
<1>3. ASSUME NEW r \in [Limits -> Repair], RepairFits(r), JudgeCurrent(d, r) PROVE FitsKept(d)
    BY <1>1, <1>2, <1>3, LimitsAre, RememberedFits DEF JudgeCurrent
<1>4. ASSUME JudgeFallback(d, rep) PROVE FitsKept(d)
    <2> DEFINE judged == [rep EXCEPT !["fallback"] = Remembered("fallback", d, rep["fallback"])]
    <2>1. judged \in [Limits -> Repair] /\ RepairFits(judged)
        BY LimitsAre, RememberedType, RememberedFits
    <2>2. AwaitRestore("fallback", d, judged) \/ JudgeCurrent(d, judged)
        BY <1>4 DEF JudgeFallback
    <2> QED BY <2>1, <2>2, <1>2, <1>3, LimitsAre
<1> QED BY <1>1, <1>3, <1>4

LEMMA FitsStep ==
    ASSUME NEW CONSTANT told, RegistersFit, TypeOK, RepairInv(told), FitsInv, [Next]_vars
    PROVE  FitsInv'
<1>a. ASSUME UNCHANGED <<polled, repair>>, Fits(charger'), poll' \in Limits => poll' = poll
      PROVE  FitsInv'
    BY <1>a DEF FitsInv, Fits, RepairFits
<1>b. ASSUME NEW d \in Status, Fits(d), FitsKept(d), Fits(charger') PROVE FitsInv'
    BY <1>b DEF FitsInv, FitsKept, Fits, RepairFits
<1>c. ASSUME NewCoordinator, Fits(charger') PROVE FitsInv'
    <2>1. ASSUME NEW l \in Limits PROVE repair'[l].lastValid = None
        <3>1. repair[l] \in Repair
            BY DEF TypeOK
        <3>2. repair'[l] = [repair[l] EXCEPT !.lastValid = None, !.fixAttempted = FALSE]
            BY <1>c, Zenon DEF NewCoordinator
        <3>3. repair'[l] = [lastValid |-> None, fixAttempted |-> FALSE, issue |-> repair[l].issue]
            BY <3>1, <3>2 DEF Repair
        <3> QED BY <3>3
    <2>2. poll' \notin Limits
        BY <1>c, LimitsAre DEF NewCoordinator
    <2> QED BY <1>c, <2>1, <2>2 DEF FitsInv, Fits, RepairFits
\* The charger, when a restore of l may have been applied.
<1>d. ASSUME NEW l \in Limits, poll = l
      PROVE  LET value == RestoreValue(polled, repair[l])
             IN  /\ polled \in Status /\ WithReading(l, polled, value) \in Status
                 /\ Fits(polled) /\ Fits(WithReading(l, charger, value))
                 /\ Fits(WithReading(l, polled, value))
    <2> DEFINE value == RestoreValue(polled, repair[l])
    <2>1. /\ polled \in Status /\ value \in Nat /\ WithReading(l, polled, value) \in Status
          /\ charger \in Status /\ repair[l] \in Repair
        BY <1>d, WrittenType DEF TypeOK
    <2>2. Fits(polled) /\ Fits(charger) /\ LimitFits(l, value)
        BY <1>d, <2>1, RestoredFits DEF FitsInv, RepairFits, RepairInv
    <2> QED BY <2>1, <2>2, WritingFits
<1>1. CASE SetUp \/ ScheduledRefresh \/ RequestedRefresh
    BY <1>1, <1>a, LimitsAre DEF SetUp, ScheduledRefresh, RequestedRefresh, BeginRead, FitsInv
<1>2. CASE ReadSucceeds
    BY <1>2, <1>b, JudgedFits DEF ReadSucceeds, TypeOK, FitsInv
<1>3. ASSUME NEW kind \in FailureKinds, ReadFails(kind) PROVE FitsInv'
    BY <1>3, <1>a, LimitsAre DEF ReadFails, FitsInv
<1>4. ASSUME NEW kind \in FailureKinds, SetUpFails(kind) PROVE FitsInv'
    BY <1>4, <1>c DEF SetUpFails, FitsInv
<1>5. ASSUME NEW l \in Limits, RestoreSucceeds(l) \/ RestoreFails(l) PROVE FitsInv'
    <2>1. poll = l /\ Fits(charger')
        BY <1>5, <1>d DEF RestoreSucceeds, RestoreFails, FitsInv
    <2>2. PICK d \in {polled, WithReading(l, polled, RestoreValue(polled, repair[l]))},
               b \in BOOLEAN : AfterRestore(l, d, [repair EXCEPT ![l].issue = b])
        BY <1>5 DEF RestoreSucceeds, RestoreFails
    <2> DEFINE rep == [repair EXCEPT ![l].issue = b]
    <2>3. rep \in [Limits -> Repair] /\ \A k \in Limits : rep[k].lastValid = repair[k].lastValid
        BY DEF TypeOK, Repair
    <2>4. d \in Status /\ Fits(d)
        BY <1>d, <2>1, <2>2
    <2> HIDE DEF rep
    <2>5. RepairFits(rep)
        BY <2>3 DEF FitsInv, RepairFits
    <2>6. FitsKept(d)
        BY <2>2, <2>3, <2>4, <2>5, JudgedFits DEF AfterRestore, rep
    <2> QED BY <1>b, <2>1, <2>4, <2>6
<1>6. CASE \E button \in Buttons : Press(button)
    BY <1>6, <1>a DEF Press, link, FitsInv
<1>7. CASE ChargerChanges
    BY <1>7, <1>a DEF ChargerChanges, link, RegistersFit
<1>8. CASE ShutDown
    BY <1>8, <1>c, <1>d DEF ShutDown, FitsInv
<1>9. CASE Tick
    BY <1>9, <1>a DEF Tick, FitsInv
<1>10. CASE UNCHANGED vars
    BY <1>10, <1>a DEF vars, link, FitsInv
<1> QED BY <1>1, <1>2, <1>3, <1>4, <1>5, <1>6, <1>7, <1>8, <1>9, <1>10
    DEF Next, ReadEnds, RestoreEnds

\* What fits is read back as itself.
LEMMA FittingReadsBack ==
    ASSUME NEW l \in Limits, NEW n \in Nat, LimitFits(l, n) PROVE ReadsBack(l, n)
<1>1. CASE l = "fallback"
    BY <1>1 DEF ReadsBack, LimitFits
<1>2. CASE l # "fallback"
    <2> DEFINE mA == 1000 * n
    <2>1. mA \in Nat /\ FitsRegisters(mA)
        BY <1>2 DEF LimitFits
    <2> HIDE DEF mA
    <2>2. /\ CurrentLimitWords(mA) \in Word \X Word
          /\ decode_32bit_value(CurrentLimitWords(mA)[1], CurrentLimitWords(mA)[2]) = mA
        BY <2>1, WrittenLimitReadsBack
    <2>3. CurrentLimitWords(mA) # <<>>
        BY <2>1 DEF CurrentLimitWords
    <2> QED BY <1>2, <2>2, <2>3 DEF ReadsBack, mA
<1> QED BY <1>1, <1>2

LEMMA FitsReadsBack ==
    ASSUME NEW CONSTANT told, TypeOK, RepairInv(told), FitsInv PROVE RestoreReadsBack
<1> SUFFICES ASSUME poll \in Limits PROVE ReadsBack(poll, RestoreValue(polled, repair[poll]))
    BY DEF RestoreReadsBack
<1>1. polled \in Status /\ repair[poll] \in Repair
    BY WrittenType DEF TypeOK
<1>2. /\ RestoreValue(polled, repair[poll]) \in Nat
      /\ LimitFits(poll, RestoreValue(polled, repair[poll]))
    BY <1>1, RestoreValueType, RestoredFits DEF FitsInv, RepairFits, RepairInv
<1> QED BY <1>2, FittingReadsBack

\* Every value the repair writes fits the limit's registers and is read back as itself,
\* also when it is remembered from a maximum that has changed since: the repair never
\* asks the device library for a write that it refuses.
THEOREM RestoreReadsBackHolds == ASSUME RegistersFit PROVE Spec => []RestoreReadsBack
<1>1. Init => FitsInv
    BY LimitsAre DEF Init, FitsInv, RepairFits, RegistersFit
<1>2. ASSUME TypeOK, RepairInv(TRUE), FitsInv, [Next]_vars PROVE FitsInv'
    BY <1>2, FitsStep
<1>3. ASSUME TypeOK, RepairInv(TRUE), FitsInv PROVE RestoreReadsBack
    BY <1>3, FitsReadsBack
<1> QED BY <1>1, <1>2, <1>3, RepairInvHolds, TypeInit, TypeStep, PTL DEF Spec
=============================================================================
