---------------------------- MODULE EnergyProofs ----------------------------
(***************************************************************************)
(* The recorder's total is right for every poll interval and every bound,  *)
(* as long as no session ends before it has delivered more than the reset  *)
(* threshold and twice what an interval may deliver, and the entry is      *)
(* reloaded only before a session has delivered anything.                  *)
(***************************************************************************)
EXTENDS EnergyProperties, TLAPS

\* One interval delivers at most r; sessions are long and reloads quiet.
LongSessions(r) ==
    /\ r \in Nat /\ \A amount \in Steps : amount <= r
    /\ MinSession > RESET_THRESHOLD + 2 * r
    /\ ReloadValues = {0}

EnergyTypeOK ==
    /\ energy \in Nat /\ shown \in Nat /\ lastEnergyValue \in Nat
    /\ charged \in BOOLEAN /\ fresh \in BOOLEAN
    /\ lastReset \in {0, 1} /\ cycleReset \in {0, 1}
    /\ total \in Nat /\ cycleStart \in Nat /\ sessions \in Nat /\ delivered \in Nat

\* The register is at most one interval ahead of what is shown, or in a new session
\* and far below it.  The recorder's cycle is the sensor's, and holds the sessions so far.
EnergyInv(r) ==
    /\ EnergyTypeOK
    /\ lastEnergyValue = shown
    /\ ~fresh => energy >= shown /\ energy <= shown + r
    /\ ~fresh /\ ~charged => energy = shown
    /\ fresh => energy <= r /\ shown + r >= MinSession
    /\ fresh /\ ~charged => energy = 0
    /\ cycleReset = lastReset /\ cycleStart = 0 /\ total = sessions

LEMMA TotalAfterReset ==
    ASSUME NEW a \in Nat, NEW b \in Nat
    PROVE  a + b \in Nat /\ (a + b) - 0 = a + b
OBVIOUS

LEMMA EnergyStep ==
    ASSUME NEW r, LongSessions(r), EnergyInv(r), [EnergyNext]_energyVars
    PROVE  EnergyInv(r)'
<1>r. /\ r \in Nat /\ MinSession \in Nat /\ MinSession > 100 + 2 * r /\ 0 \in Nat
      /\ energy \in Nat /\ shown \in Nat /\ total \in Nat /\ sessions \in Nat /\ delivered \in Nat
    BY EnergyAssumption DEF LongSessions, EnergyInv, EnergyTypeOK, RESET_THRESHOLD
<1>1. CASE Deliver
    <2>1. PICK amount \in Steps : energy' = energy + amount /\ delivered' = delivered + amount
        BY <1>1 DEF Deliver
    <2>2. /\ ~charged /\ charged'
          /\ UNCHANGED <<fresh, shown, lastEnergyValue, lastReset, total, cycleStart,
                         cycleReset, sessions>>
        BY <1>1 DEF Deliver, sensor, recorder
    <2>3. amount \in Nat /\ amount <= r
        BY EnergyAssumption DEF LongSessions
    <2>4. energy' \in Nat /\ delivered' \in Nat
        BY <2>1, <2>3, <1>r
    <2>5. ~fresh => energy' >= shown /\ energy' <= shown + r
        BY <2>1, <2>2, <2>3, <1>r DEF EnergyInv
    <2>6. fresh => energy' <= r
        BY <2>1, <2>2, <2>3, <1>r DEF EnergyInv
    <2> QED BY <2>2, <2>4, <2>5, <2>6 DEF EnergyInv, EnergyTypeOK
<1>2. CASE StartSession
    <2>1. /\ energy >= MinSession /\ energy' = 0 /\ fresh'
          /\ UNCHANGED <<charged, shown, lastEnergyValue, lastReset, total, cycleStart,
                         cycleReset, sessions, delivered>>
        BY <1>2 DEF StartSession, sensor, recorder
    <2>2. ~fresh
        BY <2>1, <1>r DEF EnergyInv
    <2>3. shown + r >= MinSession /\ 0 <= r
        BY <2>1, <2>2, <1>r DEF EnergyInv
    <2> QED BY <2>1, <2>3, <1>r DEF EnergyInv, EnergyTypeOK
\* What a poll leaves, whoever made it.
<1>p. ASSUME Reads, lastReset' \in {0, 1}, lastEnergyValue' = energy, cycleReset' = lastReset',
             cycleStart' = 0, total' = sessions', sessions' \in Nat
      PROVE  EnergyInv(r)'
    <2>1. /\ shown' = energy /\ energy' = energy /\ charged' = FALSE /\ fresh' = FALSE
          /\ delivered' = delivered
        BY <1>p DEF Reads
    <2>2. energy >= energy /\ energy <= energy + r
        BY <1>r
    <2>3. energy' >= shown' /\ energy' <= shown' + r
        BY <2>1, <2>2, Zenon
    <2>4. EnergyTypeOK'
        BY <1>p, <2>1, <1>r DEF EnergyTypeOK
    <2> QED BY <1>p, <2>1, <2>3, <2>4, Zenon DEF EnergyInv
<1>3. CASE HandleUpdate
    <2>1. Reads /\ lastEnergyValue' = energy /\ Record(lastReset')
        BY <1>3 DEF HandleUpdate
    <2>2. CASE fresh
        <3>1. shown > energy + 100
            BY <2>2, <1>r DEF EnergyInv
        <3>2. lastReset' = 1 - lastReset
            BY <1>3, <3>1 DEF HandleUpdate, EnergyInv, RESET_THRESHOLD, NewTime
        <3>3. lastReset' # cycleReset /\ lastReset' \in {0, 1}
            BY <3>2 DEF EnergyInv, EnergyTypeOK
        <3>4. total' = (total + shown) - 0 /\ cycleStart' = 0 /\ cycleReset' = lastReset'
            BY <2>1, <3>3 DEF Record, EnergyInv
        <3>5. sessions' = sessions + shown /\ total = sessions
            BY <2>1, <2>2 DEF Reads, EnergyInv
        <3>6. sessions + shown \in Nat /\ (sessions + shown) - 0 = sessions + shown
            BY TotalAfterReset, <1>r
        <3> QED BY <1>p, <2>1, <3>3, <3>4, <3>5, <3>6
    <2>3. CASE ~fresh
        <3>1. ~(shown > energy + 100)
            BY <2>3, <1>r DEF EnergyInv
        <3>2. lastReset' = lastReset
            BY <1>3, <3>1 DEF HandleUpdate, EnergyInv, RESET_THRESHOLD
        <3>3. UNCHANGED recorder /\ sessions' = sessions
            BY <2>1, <2>3, <3>2 DEF Record, EnergyInv, Reads
        <3> QED BY <1>p, <2>1, <3>2, <3>3, <1>r DEF EnergyInv, EnergyTypeOK, recorder
    <2> QED BY <2>2, <2>3
<1>4. CASE Reload
    <2>1. /\ Reads /\ energy = 0 /\ lastReset' = 1 - lastReset /\ lastEnergyValue' = 0
          /\ Record(lastReset')
        BY <1>4 DEF Reload, LongSessions, NewTime
    <2>2. lastReset' # cycleReset /\ lastReset' \in {0, 1}
        BY <2>1 DEF EnergyInv, EnergyTypeOK
    <2>3. total' = (sessions + shown) - 0 /\ cycleStart' = 0 /\ cycleReset' = lastReset'
        BY <2>1, <2>2 DEF Record, EnergyInv
    <2>4. sessions + shown \in Nat /\ (sessions + shown) - 0 = sessions + shown
        BY TotalAfterReset, <1>r
    <2>5. sessions' = sessions + shown
        <3>1. CASE fresh
            BY <2>1, <3>1 DEF Reads
        <3>2. CASE ~fresh
            <4>1. shown = 0 /\ sessions' = sessions
                BY <2>1, <3>2, <1>r DEF Reads, EnergyInv
            <4> QED BY <4>1, <1>r
        <3> QED BY <3>1, <3>2
    <2> QED BY <1>p, <2>1, <2>2, <2>3, <2>4, <2>5
<1>5. CASE UNCHANGED energyVars
    BY <1>5 DEF energyVars, sensor, recorder, EnergyInv, EnergyTypeOK
<1> QED BY <1>1, <1>2, <1>3, <1>4, <1>5 DEF EnergyNext

\* No session's energy is lost or counted twice, wherever the polls fall, when sessions
\* are long and reloads quiet.
THEOREM RecordsEachSessionHolds ==
    ASSUME NEW r, LongSessions(r)
    PROVE  EnergySpec => []RecordsEachSession
<1>1. EnergyInit => EnergyInv(r)
    <2>1. 0 \in Nat /\ 0 >= 0 /\ 0 <= 0 + r
        BY DEF LongSessions
    <2> QED BY <2>1, Zenon DEF EnergyInit, EnergyInv, EnergyTypeOK
<1>2. ASSUME EnergyInv(r), [EnergyNext]_energyVars PROVE EnergyInv(r)'
    BY <1>2, EnergyStep
<1>3. ASSUME EnergyInv(r) PROVE RecordsEachSession
    <2>1. total = sessions /\ cycleStart = 0 /\ sessions \in Nat /\ shown \in Nat
        BY <1>3 DEF EnergyInv, EnergyTypeOK
    <2>2. (sessions + shown) - 0 = sessions + shown
        BY TotalAfterReset, <2>1
    <2> QED BY <2>1, <2>2 DEF RecordsEachSession, Recorded
<1> QED BY <1>1, <1>2, <1>3, PTL DEF EnergySpec
=============================================================================
