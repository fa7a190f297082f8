---------------------------- MODULE CommandsProofs ----------------------------
(***************************************************************************)
(* Proofs about service calls, for every number of them, of any kinds, and *)
(* with the entry unloaded at any time.                                    *)
(***************************************************************************)
EXTENDS CommandsProperties, RepairProofs, SequenceTheorems, FiniteSetTheorems

\* What the end of a poll and a new coordinator make of the last command: none, or what
\* it was.
LEMMA PollsOnlyClear ==
    ASSUME NEW d, NEW rep
    PROVE  /\ FinishPoll(d, rep) => lastCommand' \in {lastCommand, "none"}
           /\ JudgeCurrent(d, rep) => lastCommand' \in {lastCommand, "none"}
           /\ JudgeFallback(d, rep) => lastCommand' \in {lastCommand, "none"}
<1>1. ASSUME NEW r, FinishPoll(d, r) PROVE lastCommand' \in {lastCommand, "none"}
    BY <1>1 DEF FinishPoll, SyncedCommand
<1>2. ASSUME NEW l, NEW r, AwaitRestore(l, d, r) PROVE lastCommand' \in {lastCommand, "none"}
    BY <1>2 DEF AwaitRestore, session
<1>3. ASSUME NEW r, JudgeCurrent(d, r) PROVE lastCommand' \in {lastCommand, "none"}
    BY <1>1, <1>2, <1>3 DEF JudgeCurrent
<1>4. ASSUME JudgeFallback(d, rep) PROVE lastCommand' \in {lastCommand, "none"}
    BY <1>2, <1>3, <1>4 DEF JudgeFallback
<1> QED BY <1>1, <1>3, <1>4

LEMMA AnswersOnlyClear ==
    ASSUME ReadEnds \/ RestoreEnds PROVE lastCommand' \in {lastCommand, "none"}
<1>1. CASE ReadSucceeds
    BY <1>1, PollsOnlyClear DEF ReadSucceeds
<1>2. ASSUME NEW kind \in FailureKinds, ReadFails(kind) \/ SetUpFails(kind)
      PROVE  lastCommand' \in {lastCommand, "none"}
    BY <1>2 DEF ReadFails, SetUpFails, NewCoordinator, session
<1>3. ASSUME NEW l \in Limits, RestoreSucceeds(l) \/ RestoreFails(l)
      PROVE  lastCommand' \in {lastCommand, "none"}
    BY <1>3, PollsOnlyClear DEF RestoreSucceeds, RestoreFails, AfterRestore
<1> QED BY <1>1, <1>2, <1>3 DEF ReadEnds, RestoreEnds

\* A call that goes on writes a start again, or nothing.
LEMMA GoOnIssues ==
    ASSUME NEW t, NEW queue, NEW d, GoOn(t, queue, d)
    PROVE  lastIssued' \in {lastIssued, "start"}
BY DEF GoOn, TriesAgain, Issue, LastCommands

LEMMA StartStep ==
    ASSUME StartIsLastIssued, [LNext]_lifecycleVars PROVE StartIsLastIssued'
\* Most steps leave both alone, clear the last command, or write a start again.
<1>a. ASSUME lastCommand' \in {lastCommand, "none"}, lastIssued' \in {lastIssued, "start"}
      PROVE  StartIsLastIssued'
    BY <1>a DEF StartIsLastIssued
<1>1. CASE Loaded(FirstRefresh)
    BY <1>1, <1>a DEF Loaded, FirstRefresh, SetUp, session, calling
<1>2. CASE Loaded(PollAnswered)
    BY <1>2, <1>a, AnswersOnlyClear DEF Loaded, PollAnswered, PollMoves, calling
<1>3. CASE Loaded(ScheduleFires) \/ Loaded(CooldownEnds)
    BY <1>3, <1>a DEF Loaded, ScheduleFires, CooldownEnds, Refresh, session, calling, vars
<1>4. ASSUME NEW t \in Tasks, NEW call \in Calls, Begin(t, call) PROVE StartIsLastIssued'
    <2>1. CASE call.kind \in LastCommands
        BY <1>4, <2>1 DEF Begin, Press, Issue, StartIsLastIssued
    <2>2. CASE call.kind \notin LastCommands
        BY <1>4, <2>2, <1>a DEF Begin, Issue, vars, session
    <2> QED BY <2>1, <2>2
<1>5. ASSUME NEW t \in Tasks, CallSteps(t) \/ OldCallSteps(t) PROVE StartIsLastIssued'
    <2>1. CASE WriteFails(t)
        BY <2>1, <1>a DEF WriteFails, session
    <2>2. CASE WriteSucceeds(t)
        BY <2>2, <1>a, GoOnIssues DEF WriteSucceeds, session
    <2>3. CASE Resume(t) \/ OldResume(t)
        BY <2>3, <1>a, GoOnIssues DEF Resume, OldResume, vars, session
    <2>4. CASE OldWriteSucceeds(t)
        BY <2>4, <1>a, GoOnIssues DEF OldWriteSucceeds, session
    <2> QED BY <1>5, <2>1, <2>2, <2>3, <2>4 DEF CallSteps, OldCallSteps
<1>6. CASE Loaded(ChargerChanges /\ UNCHANGED <<calling, wire, debouncer>>)
    BY <1>6, <1>a DEF Loaded, ChargerChanges, session, calling
<1>7. CASE UnloadEntry
    BY <1>7, <1>a DEF UnloadEntry, ShutDown, NewCoordinator, calling
<1>8. CASE OldPollMoves
    BY <1>8, <1>a DEF OldPollMoves, session, calling
<1>9. CASE UNCHANGED lifecycleVars
    BY <1>9, <1>a DEF lifecycleVars, allVars, vars, session
<1>10. CASE Loaded(TimePasses)
    BY <1>10, <1>a DEF Loaded, TimePasses, session, calling
<1> QED BY <1>1, <1>2, <1>3, <1>4, <1>5, <1>6, <1>7, <1>8, <1>9, <1>10
    DEF LNext, Loaded, CurrentCallSteps

\* Shown as last command, a start is the session command written last, whatever calls
\* overlap and whenever the entry is reloaded under them.
THEOREM StartIsLastIssuedHolds == LSpec => []StartIsLastIssued
<1>1. LInit => StartIsLastIssued
    BY DEF LInit, CInit, Init, StartIsLastIssued
<1> QED BY <1>1, StartStep, PTL DEF LSpec

-------------------------------------------------------------------------------
\* The wire.

\* Someone waits in a queue; nobody waits twice.
On(who, queue) == \E i \in DOMAIN queue : queue[i] = who
Once(queue) == \A i, j \in DOMAIN queue : queue[i] = queue[j] => i = j

\* The first has been served.
LEMMA Served ==
    ASSUME NEW S, NEW q \in Seq(S), q # <<>>, Once(q)
    PROVE  /\ Head(q) \in S /\ On(Head(q), q)
           /\ Tail(q) \in Seq(S) /\ Once(Tail(q))
           /\ \A who : On(who, Tail(q)) <=> On(who, q) /\ who # Head(q)
<1>1. /\ Len(q) \in Nat /\ Len(q) > 0 /\ DOMAIN q = 1..Len(q)
      /\ Head(q) = q[1] /\ Head(q) \in S
      /\ Tail(q) \in Seq(S) /\ Len(Tail(q)) = Len(q) - 1
      /\ DOMAIN Tail(q) = 1..(Len(q) - 1)
      /\ \A i \in 1..(Len(q) - 1) : Tail(q)[i] = q[i + 1]
    BY HeadTailProperties, EmptySeq, LenProperties
<1>2. Once(Tail(q))
    BY <1>1 DEF Once
<1>3. ASSUME NEW who, On(who, Tail(q)) PROVE On(who, q) /\ who # Head(q)
    <2>1. PICK i \in 1..(Len(q) - 1) : q[i + 1] = who
        BY <1>1, <1>3 DEF On
    <2>2. i + 1 \in DOMAIN q /\ 1 \in DOMAIN q /\ i + 1 # 1
        BY <1>1
    <2> QED BY <1>1, <2>1, <2>2 DEF On, Once
<1>4. ASSUME NEW who, On(who, q), who # Head(q) PROVE On(who, Tail(q))
    <2>1. PICK i \in 1..Len(q) : q[i] = who
        BY <1>1, <1>4 DEF On
    <2>2. i - 1 \in 1..(Len(q) - 1) /\ (i - 1) + 1 = i
        BY <1>1, <1>4, <2>1
    <2>3. Tail(q)[i - 1] = q[(i - 1) + 1]
        BY <1>1, <2>2
    <2>4. Tail(q)[i - 1] = who
        BY <2>1, <2>2, <2>3
    <2> QED BY <1>1, <2>2, <2>4 DEF On
<1>5. On(Head(q), q)
    BY <1>1 DEF On
<1> QED BY <1>1, <1>2, <1>3, <1>4, <1>5

\* Someone new queues up.
LEMMA Queued ==
    ASSUME NEW S, NEW q \in Seq(S), Once(q), NEW e \in S, ~On(e, q)
    PROVE  /\ Append(q, e) \in Seq(S) /\ Once(Append(q, e))
           /\ \A who : On(who, Append(q, e)) <=> On(who, q) \/ who = e
<1>1. /\ Len(q) \in Nat /\ DOMAIN q = 1..Len(q)
      /\ Append(q, e) \in Seq(S) /\ DOMAIN Append(q, e) = 1..(Len(q) + 1)
      /\ \A i \in 1..Len(q) : Append(q, e)[i] = q[i]
      /\ Append(q, e)[Len(q) + 1] = e
    BY AppendProperties, LenProperties
<1>2. \A i \in 1..(Len(q) + 1) : i \in 1..Len(q) \/ i = Len(q) + 1
    BY <1>1
<1>3. \A i \in 1..Len(q) : q[i] # e
    BY <1>1 DEF On
<1>4. Once(Append(q, e))
    BY <1>1, <1>2, <1>3 DEF Once
<1>5. Len(q) + 1 \in 1..(Len(q) + 1) /\ \A i \in 1..Len(q) : i \in 1..(Len(q) + 1)
    BY <1>1
<1>6. \A who : On(who, Append(q, e)) <=> On(who, q) \/ who = e
    BY <1>1, <1>2, <1>5 DEF On
<1> QED BY <1>1, <1>4, <1>6

\* Someone leaves the middle of the queue.
LEMMA Withdrawn ==
    ASSUME NEW S, NEW q \in Seq(S), Once(q), NEW k \in DOMAIN q
    PROVE  /\ RemoveAt(q, k) \in Seq(S) /\ Once(RemoveAt(q, k))
           /\ \A who : On(who, RemoveAt(q, k)) <=> On(who, q) /\ who # q[k]
<1> DEFINE n == Len(q)
           rest == RemoveAt(q, k)
<1>1. n \in Nat /\ DOMAIN q = 1..n /\ k \in 1..n /\ \A i \in 1..n : q[i] \in S
    BY LenProperties, ElementOfSeq
<1>2. /\ SubSeq(q, 1, k - 1) \in Seq(S) /\ Len(SubSeq(q, 1, k - 1)) = k - 1
      /\ \A i \in 1..(k - 1) : SubSeq(q, 1, k - 1)[i] = q[i]
    <2>1. 1 \in Int /\ k - 1 \in Int /\ \A i \in 1..(k - 1) : q[i] \in S
        BY <1>1
    <2> QED BY <1>1, <2>1, SubSeqProperties
<1>3. /\ SubSeq(q, k + 1, n) \in Seq(S) /\ Len(SubSeq(q, k + 1, n)) = n - k
      /\ \A i \in 1..(n - k) : SubSeq(q, k + 1, n)[i] = q[k + i]
    <2>1. k + 1 \in Int /\ n \in Int /\ \A i \in (k + 1)..n : q[i] \in S
        BY <1>1
    <2>2. /\ SubSeq(q, k + 1, n) \in Seq(S)
          /\ Len(SubSeq(q, k + 1, n)) = IF k + 1 <= n THEN n - (k + 1) + 1 ELSE 0
          /\ \A i \in 1..(n - (k + 1) + 1) : SubSeq(q, k + 1, n)[i] = q[(k + 1) + i - 1]
        BY <2>1, SubSeqProperties
    <2>3. n - (k + 1) + 1 = n - k /\ ((k + 1 <= n) \/ n - k = 0)
        BY <1>1
    <2>4. \A i \in 1..(n - k) : (k + 1) + i - 1 = k + i
        BY <1>1
    <2> QED BY <2>2, <2>3, <2>4
<1>4. /\ rest \in Seq(S) /\ DOMAIN rest = 1..(n - 1)
      /\ \A i \in 1..(n - 1) : rest[i] = IF i < k THEN q[i] ELSE q[i + 1]
    <2>1. rest = SubSeq(q, 1, k - 1) \o SubSeq(q, k + 1, n)
        BY DEF RemoveAt
    <2>2. rest \in Seq(S) /\ Len(rest) = (k - 1) + (n - k)
        BY <1>1, <1>2, <1>3, <2>1, ConcatProperties
    <2>3. ASSUME NEW i \in 1..(n - 1) PROVE rest[i] = IF i < k THEN q[i] ELSE q[i + 1]
        <3>1. CASE i < k
            BY <1>1, <1>2, <1>3, <2>1, <3>1, ConcatProperties
        <3>2. CASE ~(i < k)
            <4>1. /\ i - (k - 1) \in 1..(n - k) /\ k + (i - (k - 1)) = i + 1
                  /\ i \in 1..((k - 1) + (n - k)) /\ ~(i <= k - 1)
                BY <1>1, <2>3, <3>2
            <4>2. rest[i] = SubSeq(q, k + 1, n)[i - (k - 1)]
                <5> DEFINE front == SubSeq(q, 1, k - 1)
                           back == SubSeq(q, k + 1, n)
                <5>1. /\ front \in Seq(S) /\ back \in Seq(S) /\ Len(front) = k - 1
                      /\ Len(back) = n - k /\ rest = front \o back
                    BY <1>2, <1>3, <2>1
                <5> HIDE DEF front, back, rest
                <5>2. (front \o back)[i] = back[i - Len(front)]
                    <6>1. \A j \in 1..(Len(front) + Len(back)) :
                            (front \o back)[j] = IF j <= Len(front) THEN front[j]
                                                                   ELSE back[j - Len(front)]
                        BY <5>1, ConcatProperties
                    <6> QED BY <4>1, <5>1, <6>1
                <5> QED BY <5>1, <5>2 DEF back
            <4> QED BY <1>3, <3>2, <4>1, <4>2
        <3> QED BY <3>1, <3>2
    <2>4. DOMAIN rest = 1..(n - 1)
        BY <1>1, <2>2, LenProperties
    <2> QED BY <2>2, <2>3, <2>4
<1> HIDE DEF rest, n
<1>a. ASSUME NEW i \in 1..(n - 1)
      PROVE  \E j \in 1..n : rest[i] = q[j] /\ j # k /\ ((j = i /\ i < k) \/ (j = i + 1 /\ j > k))
    <2>1. CASE i < k
        <3>1. i \in 1..n /\ i # k
            BY <1>1, <2>1
        <3>2. rest[i] = q[i]
            BY <1>4, <2>1
        <3> QED BY <2>1, <3>1, <3>2
    <2>2. CASE ~(i < k)
        <3>1. i + 1 \in 1..n /\ i + 1 # k /\ i + 1 > k
            BY <1>1, <2>2
        <3>2. rest[i] = q[i + 1]
            BY <1>4, <2>2
        <3> QED BY <3>1, <3>2
    <2> QED BY <2>1, <2>2
<1>5. Once(rest)
    <2> SUFFICES ASSUME NEW i \in 1..(n - 1), NEW j \in 1..(n - 1), rest[i] = rest[j] PROVE i = j
        BY <1>4 DEF Once
    <2>1. PICK a \in 1..n : rest[i] = q[a] /\ ((a = i /\ i < k) \/ (a = i + 1 /\ a > k))
        BY <1>a
    <2>2. PICK b \in 1..n : rest[j] = q[b] /\ ((b = j /\ j < k) \/ (b = j + 1 /\ b > k))
        BY <1>a
    <2>3. a = b
        BY <1>1, <2>1, <2>2 DEF Once
    <2> QED BY <1>1, <2>1, <2>2, <2>3
<1>6. ASSUME NEW who, On(who, rest) PROVE On(who, q) /\ who # q[k]
    <2>1. PICK i \in 1..(n - 1) : rest[i] = who
        BY <1>4, <1>6 DEF On
    <2>2. PICK j \in 1..n : q[j] = who /\ j # k
        BY <1>a, <2>1
    <2> QED BY <1>1, <2>2 DEF On, Once
<1>7. ASSUME NEW who, On(who, q), who # q[k] PROVE On(who, rest)
    <2>1. PICK i \in 1..n : q[i] = who /\ i # k
        BY <1>1, <1>7 DEF On
    <2>2. CASE i < k
        <3>1. i \in 1..(n - 1) /\ rest[i] = who
            BY <1>1, <1>4, <2>1, <2>2
        <3> QED BY <1>4, <3>1 DEF On
    <2>3. CASE i > k
        <3>1. i - 1 \in 1..(n - 1) /\ ~(i - 1 < k) /\ (i - 1) + 1 = i
            BY <1>1, <2>1, <2>3
        <3>2. rest[i - 1] = who
            BY <1>4, <2>1, <3>1
        <3> QED BY <1>4, <3>1, <3>2 DEF On
    <2> QED BY <1>1, <2>1, <2>2, <2>3
<1> QED BY <1>4, <1>5, <1>6, <1>7 DEF rest

\* Someone waits on under another name.
LEMMA Renamed ==
    ASSUME NEW S, NEW q \in Seq(S), Once(q), NEW x \in S, NEW y \in S, ~On(y, q), On(x, q)
    PROVE  LET r == [i \in DOMAIN q |-> IF q[i] = x THEN y ELSE q[i]]
           IN  /\ r \in Seq(S) /\ Once(r)
               /\ \A who : On(who, r) <=> (On(who, q) /\ who # x) \/ who = y
<1> DEFINE r == [i \in DOMAIN q |-> IF q[i] = x THEN y ELSE q[i]]
<1>1. Len(q) \in Nat /\ DOMAIN q = 1..Len(q) /\ \A i \in 1..Len(q) : q[i] \in S
    BY LenProperties, ElementOfSeq
<1>2. r \in Seq(S)
    BY <1>1, IsASeq
<1>3. Once(r)
    BY DEF Once, On
<1>4. \A who : On(who, r) <=> (On(who, q) /\ who # x) \/ who = y
    BY DEF On
<1> QED BY <1>2, <1>3, <1>4

\* Counting the places of who waits at most once.
LEMMA PlacesCounted ==
    ASSUME NEW who, NEW b \in BOOLEAN, Once(wire), On(who, wire) <=> b
    PROVE  OnWireOnce(who, b)
<1>1. CASE b
    <2>1. PICK i \in DOMAIN wire : wire[i] = who
        BY <1>1 DEF On
    <2>2. Places(who) = {i}
        BY <2>1 DEF Places, Once
    <2>3. Cardinality({i}) = 1
        BY FS_Singleton
    <2> QED BY <1>1, <2>2, <2>3 DEF OnWireOnce
<1>2. CASE ~b
    <2>1. Places(who) = {}
        BY <1>2 DEF Places, On
    <2>2. Cardinality({}) = 0
        BY FS_EmptySet
    <2> QED BY <1>2, <2>1, <2>2 DEF OnWireOnce
<1> QED BY <1>1, <1>2

-------------------------------------------------------------------------------
\* The invariant.

Parties == Tasks \cup {"poll", "old"}
Job == {Idle} \cup [call : Calls, at : {"writing", "refreshing"}, attempt : {1, 2}]
Left == [calls : SUBSET Tasks, poll : {"idle", "reading"} \cup Limits,
         polled : Status \cup {None}, memory : [Limits -> Repair], data : Status \cup {None}]

LifecycleTypeOK ==
    /\ task \in [Tasks -> Job]
    /\ wire \in Seq(Parties)
    /\ refresher \in Tasks \cup {None, "schedule", "cooldown"}
    /\ cooling \in BOOLEAN /\ pending \in BOOLEAN
    /\ lastIssued \in LastCommands
    /\ old \in Left /\ (old.polled # None <=> old.poll \in Limits)

\* The wire holds exactly those who wait for an answer, each once.
WireInv ==
    /\ Once(wire)
    /\ On("poll", wire) <=> poll # "idle"
    /\ On("old", wire) <=> old.poll # "idle"
    /\ \A t \in Tasks : On(t, wire) <=> task[t].at = "writing"

\* Who holds the debouncer's lock is at a refresh of the coordinator that is loaded, or
\* about to return from one; while none is loaded, all calls are the old one's.
LockInv ==
    /\ poll # "idle" => refresher # None
    /\ refresher \in {"schedule", "cooldown"} => poll # "idle"
    /\ \A t \in Tasks : refresher = t <=> task[t].at = "refreshing" /\ t \notin old.calls
    /\ \A t \in old.calls : task[t] # Idle
    /\ cooling => refresher = None
    /\ pending => cooling
    /\ entry # "loaded" => ~cooling /\ \A t \in Tasks : task[t] # Idle => t \in old.calls
    /\ entry = "not_loaded" => refresher = None
    /\ entry = "setting_up" => refresher = "schedule"

CallsInv == LifecycleTypeOK /\ WireInv /\ LockInv

\* No two parties have the same name.
LEMMA Names ==
    /\ None \notin Tasks /\ "poll" \notin Tasks /\ "old" \notin Tasks
    /\ "schedule" \notin Tasks /\ "cooldown" \notin Tasks
    /\ None # "schedule" /\ None # "cooldown"
    /\ "poll" \in Parties /\ "old" \in Parties /\ Tasks \subseteq Parties
BY CallsAssumption, OldAssumption DEF Parties

LEMMA JobFacts ==
    ASSUME NEW j \in Job
    PROVE  /\ j = Idle <=> j.at = "idle"
           /\ j.at \in {"idle", "writing", "refreshing"}
           /\ j # Idle => j.call \in Calls /\ j.attempt \in {1, 2}
BY DEF Job, Idle

\* What a call leaves of itself and of the wire when it goes on behind a queue without it.
GoesOn(t, queue) ==
    \E j \in Job :
        /\ j.at \in {"idle", "writing"}
        /\ task' = [task EXCEPT ![t] = j]
        /\ wire' \in Seq(Parties) /\ Once(wire')
        /\ \A who : On(who, wire') <=> On(who, queue) \/ (who = t /\ j.at = "writing")
        /\ lastIssued' \in LastCommands

LEMMA GoOnOutcome ==
    ASSUME LifecycleTypeOK, NEW t \in Tasks, task[t] # Idle,
           NEW queue \in Seq(Parties), Once(queue), ~On(t, queue),
           NEW d, GoOn(t, queue, d)
    PROVE  GoesOn(t, queue)
<1>1. t \in Parties /\ task[t] \in Job
    BY Names DEF LifecycleTypeOK
<1>2. CASE TriesAgain(t, d)
    <2> DEFINE j == [call |-> task[t].call, at |-> "writing", attempt |-> 2]
    <2>1. j \in Job /\ j.at = "writing"
        BY <1>1, JobFacts DEF Job
    <2>2. task' = [task EXCEPT ![t] = j] /\ wire' = Append(queue, t)
        BY <1>2 DEF GoOn, Issue
    <2>3. lastIssued' \in LastCommands
        BY <1>2 DEF GoOn, Issue, LifecycleTypeOK
    <2> QED BY <1>1, <2>1, <2>2, <2>3, Queued DEF GoesOn
<1>3. CASE ~TriesAgain(t, d)
    <2>1. Idle \in Job /\ Idle.at = "idle"
        BY DEF Job, Idle
    <2> QED BY <1>3, <2>1 DEF GoOn, GoesOn, LifecycleTypeOK
<1> QED BY <1>2, <1>3

\* An answer ends the poll that waits for it, or makes it wait for the next.
LEMMA AnswerOutcome ==
    ASSUME ReadEnds \/ RestoreEnds
    PROVE  /\ poll # "idle"
           /\ \/ poll' \in Limits /\ entry' = entry
              \/ poll' = "idle" /\ entry' = "loaded"
              \/ poll' = "idle" /\ entry = "setting_up" /\ entry' = "not_loaded"
<1>1. CASE ReadSucceeds
    BY <1>1, LimitsAre, JudgeOutcome DEF ReadSucceeds, Awaits, Publishes
<1>2. ASSUME NEW kind \in FailureKinds, ReadFails(kind) \/ SetUpFails(kind)
      PROVE  /\ poll = "reading" /\ poll' = "idle"
             /\ entry' = "loaded" \/ (entry = "setting_up" /\ entry' = "not_loaded")
    BY <1>2 DEF ReadFails, SetUpFails, NewCoordinator
<1>3. ASSUME NEW l \in Limits, RestoreSucceeds(l) \/ RestoreFails(l)
      PROVE  /\ poll = l
             /\ Awaits("current") \/ Publishes
    BY <1>3, LimitsAre, JudgeOutcome DEF RestoreSucceeds, RestoreFails
<1> QED BY <1>1, <1>2, <1>3, LimitsAre DEF ReadEnds, RestoreEnds, Awaits, Publishes

-------------------------------------------------------------------------------
\* The steps of the coordinator that is loaded.

\* The steps that change neither calls nor what an unload has left.
LEMMA PollQueued ==
    ASSUME TypeOK, CallsInv, NEW owner \in {"schedule", "cooldown"},
           poll = "idle", poll' = "reading", refresher = None, refresher' = owner,
           wire' = Append(wire, "poll"), cooling' = FALSE, pending' = FALSE,
           UNCHANGED <<calling, old>>,
           \/ entry = "loaded" /\ entry' = "loaded"
           \/ entry = "not_loaded" /\ entry' = "setting_up" /\ owner = "schedule"
    PROVE  CallsInv'
<1>1. ~On("poll", wire)
    BY DEF CallsInv, WireInv
<1>2. /\ wire' \in Seq(Parties) /\ Once(wire')
      /\ \A who : On(who, wire') <=> On(who, wire) \/ who = "poll"
    BY <1>1, Names, Queued DEF CallsInv, LifecycleTypeOK, WireInv
<1>3. LifecycleTypeOK'
    BY <1>2 DEF CallsInv, LifecycleTypeOK, calling
<1>4. WireInv'
    BY <1>2, Names DEF CallsInv, WireInv, calling
<1>5. LockInv'
    BY Names DEF CallsInv, LockInv, calling
<1> QED BY <1>3, <1>4, <1>5 DEF CallsInv

LEMMA FirstRefreshCalls ==
    ASSUME TypeOK, CallsInv, Loaded(FirstRefresh) PROVE CallsInv'
<1>1. /\ entry = "not_loaded" /\ entry' = "setting_up" /\ poll = "idle" /\ poll' = "reading"
      /\ wire' = Append(wire, "poll") /\ refresher' = "schedule"
      /\ UNCHANGED <<cooling, pending, calling, old>>
    BY DEF Loaded, FirstRefresh, SetUp, BeginRead, TypeOK
<1>2. refresher = None /\ ~cooling /\ ~pending
    BY <1>1 DEF CallsInv, LockInv
<1>3. cooling' = FALSE /\ pending' = FALSE
    BY <1>1, <1>2 DEF CallsInv, LifecycleTypeOK
<1> QED BY <1>1, <1>2, <1>3, PollQueued

LEMMA RefreshCalls ==
    ASSUME TypeOK, CallsInv, Loaded(ScheduleFires) \/ Loaded(CooldownEnds) PROVE CallsInv'
<1>1. CASE Loaded(ScheduleFires) \/ (pending /\ Loaded(CooldownEnds))
    <2>1. PICK owner \in {"schedule", "cooldown"} : Refresh(owner) /\ UNCHANGED <<calling, old>>
        BY <1>1 DEF Loaded, ScheduleFires, CooldownEnds
    <2>2. /\ entry = "loaded" /\ entry' = "loaded" /\ poll = "idle" /\ poll' = "reading"
          /\ refresher = None /\ refresher' = owner /\ wire' = Append(wire, "poll")
          /\ cooling' = FALSE /\ pending' = FALSE
        BY <2>1 DEF Refresh, BeginRead
    <2> QED BY <2>1, <2>2, PollQueued
<1>2. CASE ~pending /\ Loaded(CooldownEnds)
    <2>1. /\ UNCHANGED <<task, lastIssued, wire, refresher, pending, entry, poll, old>>
          /\ cooling' = FALSE
        BY <1>2 DEF Loaded, CooldownEnds, calling, vars, link
    <2> QED BY <2>1, <1>2 DEF CallsInv, LifecycleTypeOK, WireInv, LockInv
<1> QED BY <1>1, <1>2

LEMMA PollAnsweredCalls ==
    ASSUME TypeOK, CallsInv, Loaded(PollAnswered) PROVE CallsInv'
<1>1. /\ wire # <<>> /\ Head(wire) = "poll" /\ PollMoves
      /\ UNCHANGED <<task, lastIssued, pending, old>>
    BY DEF Loaded, PollAnswered, PollMoves, calling
<1>2. /\ poll # "idle"
      /\ \/ poll' \in Limits /\ poll' # "idle" /\ entry' = entry
         \/ poll' = "idle" /\ entry' = "loaded"
         \/ poll' = "idle" /\ entry = "setting_up" /\ entry' = "not_loaded"
    BY AnswerOutcome, LimitsAre DEF Loaded, PollAnswered
<1>3. /\ Tail(wire) \in Seq(Parties) /\ Once(Tail(wire))
      /\ \A who : On(who, Tail(wire)) <=> On(who, wire) /\ who # "poll"
    BY <1>1, Served DEF CallsInv, LifecycleTypeOK, WireInv
<1>4. CASE poll' = "idle"
    <2>1. wire' = Tail(wire)
        BY <1>1, <1>4 DEF PollMoves
    <2>2. refresher' = (IF refresher \notin Tasks THEN None ELSE refresher)
        BY <1>1, <1>4 DEF PollMoves
    <2>3. cooling' = (cooling \/ refresher = "cooldown")
        BY <1>1, <1>4 DEF PollMoves
    <2>4. refresher # None /\ ~cooling /\ ~pending
        BY <1>2 DEF CallsInv, LockInv
    <2>5. LifecycleTypeOK'
        BY <1>1, <1>3, <2>1, <2>2, <2>3 DEF CallsInv, LifecycleTypeOK
    <2>6. WireInv'
        BY <1>1, <1>3, <1>4, <2>1, Names DEF CallsInv, WireInv
    <2>7. LockInv'
        BY <1>1, <1>2, <1>4, <2>2, <2>3, <2>4, Names DEF CallsInv, LockInv
    <2> QED BY <2>5, <2>6, <2>7 DEF CallsInv
<1>5. CASE poll' # "idle"
    <2>1. /\ wire' = Append(Tail(wire), "poll") /\ refresher' = refresher
          /\ cooling' = cooling /\ entry' = entry
        BY <1>1, <1>2, <1>5 DEF PollMoves, CallsInv, LifecycleTypeOK
    <2>2. /\ wire' \in Seq(Parties) /\ Once(wire')
          /\ \A who : On(who, wire') <=> On(who, Tail(wire)) \/ who = "poll"
        BY <1>3, <2>1, Names, Queued
    <2>3. LifecycleTypeOK'
        BY <1>1, <2>1, <2>2 DEF CallsInv, LifecycleTypeOK
    <2>4. WireInv'
        BY <1>1, <1>2, <1>3, <1>5, <2>2, Names DEF CallsInv, WireInv
    <2>5. LockInv'
        BY <1>1, <1>2, <1>5, <2>1 DEF CallsInv, LockInv
    <2> QED BY <2>3, <2>4, <2>5 DEF CallsInv
<1> QED BY <1>4, <1>5

\* A call moves, and the coordinator does not.
LEMMA BeginCalls ==
    ASSUME TypeOK, CallsInv, NEW t \in Tasks, NEW call \in Calls, Loaded(Begin(t, call))
    PROVE  CallsInv'
<1> DEFINE j == [call |-> call, at |-> "writing", attempt |-> 1]
<1>1. /\ task[t] = Idle /\ entry = "loaded" /\ task' = [task EXCEPT ![t] = j]
      /\ wire' = Append(wire, t) /\ UNCHANGED <<entry, poll, refresher, cooling, pending, old>>
    BY DEF Loaded, Begin, Press, Issue, debouncer, vars, link
<1>2. lastIssued' \in LastCommands
    BY DEF Loaded, Begin, Issue, CallsInv, LifecycleTypeOK
<1>3. j \in Job /\ j.at = "writing" /\ Idle.at = "idle" /\ j # Idle
    BY DEF Job, Idle
<1>4. ~On(t, wire) /\ t \notin old.calls
    BY <1>1, <1>3 DEF CallsInv, WireInv, LockInv
<1>5. /\ wire' \in Seq(Parties) /\ Once(wire')
      /\ \A who : On(who, wire') <=> On(who, wire) \/ who = t
    BY <1>1, <1>4, Names, Queued DEF CallsInv, LifecycleTypeOK, WireInv
<1> HIDE DEF j
<1>6. task[t] \in Job /\ \A u \in Tasks : task'[u] = IF u = t THEN j ELSE task[u]
    BY <1>1 DEF CallsInv, LifecycleTypeOK
<1>7. LifecycleTypeOK'
    BY <1>1, <1>2, <1>3, <1>5 DEF CallsInv, LifecycleTypeOK
<1>8. WireInv'
    BY <1>1, <1>3, <1>5, <1>6, Names DEF CallsInv, WireInv
<1>9. LockInv'
    BY <1>1, <1>3, <1>4, <1>6 DEF CallsInv, LockInv
<1> QED BY <1>7, <1>8, <1>9 DEF CallsInv

\* What a call that goes on leaves: its place on the wire, and nobody else's.
LEMMA CallWentOn ==
    ASSUME CallsInv, NEW t \in Tasks, NEW queue, GoesOn(t, queue),
           \A who : On(who, queue) <=> On(who, wire) /\ who # t
    PROVE  /\ task' \in [Tasks -> Job] /\ task'[t].at \in {"idle", "writing"}
           /\ \A u \in Tasks \ {t} : task'[u] = task[u]
           /\ wire' \in Seq(Parties) /\ Once(wire') /\ lastIssued' \in LastCommands
           /\ On("poll", wire') <=> On("poll", wire)
           /\ On("old", wire') <=> On("old", wire)
           /\ \A u \in Tasks : On(u, wire') <=> task'[u].at = "writing"
<1>1. PICK j \in Job : /\ j.at \in {"idle", "writing"}
                       /\ task' = [task EXCEPT ![t] = j]
                       /\ wire' \in Seq(Parties) /\ Once(wire')
                       /\ \A who : On(who, wire') <=> On(who, queue) \/ (who = t /\ j.at = "writing")
                       /\ lastIssued' \in LastCommands
    BY DEF GoesOn
<1>2. /\ task' \in [Tasks -> Job] /\ task'[t] = j
      /\ \A u \in Tasks \ {t} : task'[u] = task[u]
    BY <1>1 DEF CallsInv, LifecycleTypeOK
<1>3. \A u \in Tasks : On(u, wire') <=> task'[u].at = "writing"
    BY <1>1, <1>2 DEF CallsInv, WireInv
<1> QED BY <1>1, <1>2, <1>3, Names

\* A call whose request is answered leaves the wire.
LEMMA CallServed ==
    ASSUME CallsInv, NEW t \in Tasks, wire # <<>>, Head(wire) = t
    PROVE  /\ task[t].at = "writing" /\ task[t] # Idle
           /\ Tail(wire) \in Seq(Parties) /\ Once(Tail(wire)) /\ ~On(t, Tail(wire))
           /\ \A who : On(who, Tail(wire)) <=> On(who, wire) /\ who # t
<1>1. /\ On(t, wire) /\ Tail(wire) \in Seq(Parties) /\ Once(Tail(wire))
      /\ \A who : On(who, Tail(wire)) <=> On(who, wire) /\ who # t
    BY Served DEF CallsInv, LifecycleTypeOK, WireInv
<1>2. task[t].at = "writing"
    BY <1>1 DEF CallsInv, WireInv
<1> QED BY <1>1, <1>2 DEF Idle

\* A call of the coordinator moves on, and its requests for a refresh change no more than
\* `pending`.
LEMMA CallMovedOn ==
    ASSUME CallsInv, NEW t \in Tasks, t \notin old.calls, task[t].at = "writing",
           task[t] # Idle, NEW queue, GoesOn(t, queue),
           \A who : On(who, queue) <=> On(who, wire) /\ who # t,
           UNCHANGED <<entry, poll, refresher, cooling, old>>,
           pending' \in {pending, pending \/ cooling}
    PROVE  CallsInv'
<1>1. LifecycleTypeOK'
    BY CallWentOn DEF CallsInv, LifecycleTypeOK
<1>2. WireInv'
    BY CallWentOn DEF CallsInv, WireInv
<1>3. LockInv'
    <2>1. /\ task'[t].at # "refreshing" /\ task[t].at # "refreshing"
          /\ \A u \in Tasks \ {t} : task'[u] = task[u]
        BY CallWentOn
    <2>2. entry = "loaded" /\ (pending' => pending \/ cooling) /\ old.calls \subseteq Tasks
        BY DEF CallsInv, LockInv, LifecycleTypeOK, Left
    <2> QED BY <2>1, <2>2 DEF CallsInv, LockInv
<1> QED BY <1>1, <1>2, <1>3 DEF CallsInv

\* The end of a failed write, as a call that goes on to its end.
LEMMA FailedOutcome ==
    ASSUME CallsInv, NEW t \in Tasks, WriteFails(t) PROVE GoesOn(t, Tail(wire))
<1>1. Idle \in Job /\ Idle.at = "idle"
    BY DEF Job, Idle
<1>2. /\ wire # <<>> /\ Head(wire) = t /\ wire' = Tail(wire)
      /\ task' = [task EXCEPT ![t] = Idle] /\ lastIssued' = lastIssued
    BY DEF WriteFails
<1>3. lastIssued \in LastCommands
    BY DEF CallsInv, LifecycleTypeOK
<1> QED BY <1>1, <1>2, <1>3, CallServed DEF GoesOn

LEMMA CallStepsCalls ==
    ASSUME TypeOK, CallsInv, NEW t \in Tasks, Loaded(CurrentCallSteps(t)) PROVE CallsInv'
<1>0. t \notin old.calls /\ old' = old
    BY DEF Loaded, CurrentCallSteps
<1>1. CASE WriteFails(t)
    <2>1. UNCHANGED <<entry, poll, refresher, cooling, pending>>
        BY <1>1 DEF WriteFails, link, debouncer
    <2>2. wire # <<>> /\ Head(wire) = t
        BY <1>1 DEF WriteFails
    <2> QED BY <1>0, <1>1, <2>1, <2>2, FailedOutcome, CallServed, CallMovedOn
<1>2. CASE WriteSucceeds(t) /\ (cooling \/ refresher # None)
    <2>1. /\ wire # <<>> /\ Head(wire) = t /\ GoOn(t, Tail(wire), data)
          /\ pending' = (pending \/ cooling)
          /\ UNCHANGED <<entry, poll, refresher, cooling>>
        BY <1>2 DEF WriteSucceeds, link
    <2>2. GoesOn(t, Tail(wire))
        BY <2>1, CallServed, GoOnOutcome DEF CallsInv
    <2> QED BY <1>0, <2>1, <2>2, CallServed, CallMovedOn
<1>3. CASE WriteSucceeds(t) /\ ~(cooling \/ refresher # None)
    <2>1. /\ wire # <<>> /\ Head(wire) = t /\ wire' = Append(Tail(wire), "poll")
          /\ ~cooling /\ refresher = None /\ refresher' = t /\ poll' = "reading"
          /\ task' = [task EXCEPT ![t].at = "refreshing"]
          /\ UNCHANGED <<entry, cooling, pending, lastIssued>>
        BY <1>3 DEF WriteSucceeds, BeginRead
    <2>2. /\ task[t].at = "writing" /\ task[t] # Idle /\ poll = "idle" /\ entry = "loaded"
        BY <1>0, <2>1, CallServed DEF CallsInv, LockInv, TypeOK
    <2>3. ~On("poll", Tail(wire))
        BY <2>1, <2>2, CallServed DEF CallsInv, WireInv
    <2>4. /\ wire' \in Seq(Parties) /\ Once(wire')
          /\ \A who : On(who, wire') <=> (On(who, wire) /\ who # t) \/ who = "poll"
        BY <2>1, <2>3, CallServed, Names, Queued
    <2>5. /\ task' \in [Tasks -> Job] /\ task'[t].at = "refreshing" /\ task'[t] # Idle
          /\ \A u \in Tasks \ {t} : task'[u] = task[u]
        <3>1. task[t] \in Job \ {Idle}
            BY <2>2 DEF CallsInv, LifecycleTypeOK
        <3>2. [task[t] EXCEPT !.at = "refreshing"] \in Job
            BY <3>1 DEF Job
        <3>3. [task[t] EXCEPT !.at = "refreshing"].at = "refreshing"
            BY <3>1 DEF Job
        <3> QED BY <2>1, <3>2, <3>3 DEF CallsInv, LifecycleTypeOK, Idle
    <2>6. LifecycleTypeOK'
        BY <1>0, <2>1, <2>4, <2>5 DEF CallsInv, LifecycleTypeOK
    <2>7. WireInv'
        BY <1>0, <2>1, <2>2, <2>4, <2>5, Names DEF CallsInv, WireInv
    <2>8. LockInv'
        BY <1>0, <2>1, <2>2, <2>5, Names DEF CallsInv, LockInv
    <2> QED BY <2>6, <2>7, <2>8 DEF CallsInv
<1>4. CASE Resume(t)
    <2>1. /\ task[t].at = "refreshing" /\ poll = "idle" /\ refresher' = None /\ cooling' = TRUE
          /\ GoOn(t, wire, data) /\ UNCHANGED <<entry, poll, pending>>
        BY <1>4 DEF Resume, vars, link
    <2>2. task[t] # Idle /\ ~On(t, wire) /\ refresher = t /\ ~pending /\ entry = "loaded"
        BY <1>0, <2>1, Names DEF CallsInv, WireInv, LockInv, Idle, TypeOK
    <2>3. GoesOn(t, wire)
        BY <2>1, <2>2, GoOnOutcome DEF CallsInv, LifecycleTypeOK, WireInv
    <2>4. \A who : On(who, wire) <=> On(who, wire) /\ who # t
        BY <2>2
    <2>5. LifecycleTypeOK'
        BY <1>0, <2>1, <2>3, <2>4, CallWentOn DEF CallsInv, LifecycleTypeOK
    <2>6. WireInv'
        BY <1>0, <2>1, <2>3, <2>4, CallWentOn DEF CallsInv, WireInv
    <2>7. LockInv'
        <3>1. /\ task'[t].at # "refreshing" /\ \A u \in Tasks \ {t} : task'[u] = task[u]
            BY <2>3, <2>4, CallWentOn
        <3>2. old.calls \subseteq Tasks
            BY DEF CallsInv, LifecycleTypeOK, Left
        <3> QED BY <1>0, <2>1, <2>2, <3>1, <3>2, Names DEF CallsInv, LockInv
    <2> QED BY <2>5, <2>6, <2>7 DEF CallsInv
<1> QED BY <1>1, <1>2, <1>3, <1>4 DEF Loaded, CurrentCallSteps, CallSteps

-------------------------------------------------------------------------------
\* What an unload leaves, and its steps.

\* Letting go of an old coordinator loses nobody who still waits.
LEMMA KeptFacts ==
    ASSUME NEW o \in Left, o.polled # None <=> o.poll \in Limits
    PROVE  /\ Kept(o) \in Left /\ (Kept(o).polled # None <=> Kept(o).poll \in Limits)
           /\ Kept(o).calls = o.calls /\ Kept(o).poll = o.poll
<1>1. /\ Gone \in Left /\ Gone.calls = {} /\ Gone.poll = "idle" /\ Gone.polled = None
    BY DEF Gone, Left, NoMemory, Repair
<1>2. Gone.poll \notin Limits
    BY <1>1, LimitsAre
<1> QED BY <1>1, <1>2 DEF Kept

\* Without a coordinator of its own, the entry leaves its calls to the old one.
LEMMA LeftBehind ==
    ASSUME LifecycleTypeOK', WireInv', entry' = "not_loaded", poll' = "idle",
           refresher' = None, cooling' = FALSE, pending' = FALSE,
           \A t \in Tasks : task'[t] # Idle <=> t \in old'.calls
    PROVE  CallsInv'
<1>1. old'.calls \subseteq Tasks
    BY DEF LifecycleTypeOK, Left
<1>2. \A t \in Tasks : task'[t].at = "refreshing" => task'[t] # Idle
    BY DEF Idle
<1>3. LockInv'
    BY <1>1, <1>2, Names DEF LockInv
<1> QED BY <1>3 DEF CallsInv

LEMMA UnloadCalls ==
    ASSUME TypeOK, CallsInv, UnloadEntry PROVE CallsInv'
<1> DEFINE left == [Gone EXCEPT !.calls = {t \in Tasks : task[t] # Idle}, !.data = data]
           live == [left EXCEPT !.poll = poll, !.polled = polled, !.memory = repair]
<1>1. /\ entry' = "not_loaded" /\ poll' = "idle" /\ refresher' = None
      /\ cooling' = FALSE /\ pending' = FALSE /\ UNCHANGED <<task, lastIssued>>
    BY DEF UnloadEntry, ShutDown, NewCoordinator, calling
<1>2. old.poll = "idle" /\ ~On("old", wire)
    BY DEF UnloadEntry, Gone, CallsInv, WireInv
<1>3. /\ left \in Left /\ left.poll = "idle" /\ (left.polled # None <=> left.poll \in Limits)
      /\ left.calls = {t \in Tasks : task[t] # Idle}
    <2>1. Gone \in Left /\ Gone.poll = "idle" /\ Gone.polled = None
        BY DEF Gone, Left, NoMemory, Repair
    <2>2. data \in Status \cup {None} /\ {t \in Tasks : task[t] # Idle} \in SUBSET Tasks
        BY DEF TypeOK
    <2> QED BY <2>1, <2>2, LimitsAre DEF Left
<1>4. CASE Outlives
    <2>1. old' = live /\ wire' = [i \in DOMAIN wire |-> IF wire[i] = "poll" THEN "old" ELSE wire[i]]
        BY <1>4 DEF UnloadEntry
    <2>2. /\ live \in Left /\ live.poll = poll /\ live.calls = left.calls
          /\ (live.polled # None <=> live.poll \in Limits) /\ poll # "idle"
        <3> HIDE DEF left
        <3>1. /\ poll \in {"idle", "reading"} \cup Limits /\ polled \in Status \cup {None}
              /\ repair \in [Limits -> Repair] /\ (polled # None <=> poll \in Limits)
              /\ poll # "idle"
            BY <1>4 DEF TypeOK, Outlives
        <3> QED BY <1>3, <3>1 DEF Left
    <2> HIDE DEF live, left
    <2>3. On("poll", wire)
        BY <2>2 DEF CallsInv, WireInv
    <2>4. /\ wire' \in Seq(Parties) /\ Once(wire')
          /\ \A who : On(who, wire') <=> (On(who, wire) /\ who # "poll") \/ who = "old"
        BY <1>2, <2>1, <2>3, Names, Renamed DEF CallsInv, LifecycleTypeOK, WireInv
    <2>5. LifecycleTypeOK'
        BY <1>1, <2>1, <2>2, <2>4 DEF CallsInv, LifecycleTypeOK
    <2>6. WireInv'
        BY <1>1, <2>1, <2>2, <2>4, Names DEF CallsInv, WireInv
    <2> QED BY <1>1, <1>3, <2>1, <2>2, <2>5, <2>6, LeftBehind
<1>5. CASE ~Outlives
    <2>1. /\ old' = Kept(left)
          /\ IF poll = "idle" THEN wire' = wire
             ELSE \E i \in DOMAIN wire : wire[i] = "poll" /\ wire' = RemoveAt(wire, i)
        BY <1>5 DEF UnloadEntry
    <2> HIDE DEF left
    <2>2. /\ old' \in Left /\ (old'.polled # None <=> old'.poll \in Limits)
          /\ old'.calls = left.calls /\ old'.poll = "idle"
        BY <1>3, <2>1, KeptFacts
    <2>3. /\ wire' \in Seq(Parties) /\ Once(wire')
          /\ \A who : On(who, wire') <=> On(who, wire) /\ who # "poll"
        <3>1. CASE poll = "idle"
            BY <2>1, <3>1 DEF CallsInv, LifecycleTypeOK, WireInv
        <3>2. CASE poll # "idle"
            BY <2>1, <3>2, Withdrawn DEF CallsInv, LifecycleTypeOK, WireInv
        <3> QED BY <3>1, <3>2
    <2>4. LifecycleTypeOK'
        BY <1>1, <2>2, <2>3 DEF CallsInv, LifecycleTypeOK
    <2>5. WireInv'
        BY <1>1, <1>2, <2>2, <2>3, Names DEF CallsInv, WireInv
    <2> QED BY <1>1, <1>3, <2>2, <2>4, <2>5, LeftBehind
<1> QED BY <1>4, <1>5

\* An old call moves on, and leaves when it ends.
LEMMA OldCallMovedOn ==
    ASSUME CallsInv, NEW t \in old.calls, NEW queue, GoesOn(t, queue),
           \A who : On(who, queue) <=> On(who, wire) /\ who # t,
           UNCHANGED <<entry, poll, debouncer>>, OldCallMoves(t)
    PROVE  CallsInv'
<1>1. t \in Tasks /\ old \in Left /\ (old.polled # None <=> old.poll \in Limits)
      /\ old.calls \subseteq Tasks
    BY DEF CallsInv, LifecycleTypeOK, Left
<1>2. UNCHANGED <<refresher, cooling, pending>>
    BY DEF debouncer
<1> DEFINE rest == [old EXCEPT !.calls = @ \ {t}]
<1>3. /\ rest \in Left /\ rest.calls = old.calls \ {t} /\ rest.poll = old.poll
      /\ (rest.polled # None <=> rest.poll \in Limits)
    BY <1>1 DEF Left
<1>4. old' = IF task'[t] = Idle THEN Kept(rest) ELSE old
    BY DEF OldCallMoves
<1> HIDE DEF rest
<1>5. /\ old' \in Left /\ (old'.polled # None <=> old'.poll \in Limits)
      /\ old'.poll = old.poll
      /\ old'.calls = IF task'[t] = Idle THEN old.calls \ {t} ELSE old.calls
    BY <1>1, <1>3, <1>4, KeptFacts
<1>6. LifecycleTypeOK'
    BY <1>1, <1>2, <1>5, CallWentOn DEF CallsInv, LifecycleTypeOK
<1>7. WireInv'
    BY <1>1, <1>2, <1>5, CallWentOn DEF CallsInv, WireInv
<1>8. LockInv'
    <2>1. /\ task'[t].at # "refreshing" /\ \A u \in Tasks \ {t} : task'[u] = task[u]
        BY <1>1, CallWentOn
    <2>2. refresher # t
        BY <1>1 DEF CallsInv, LockInv
    <2> QED BY <1>1, <1>2, <1>5, <2>1, <2>2 DEF CallsInv, LockInv
<1> QED BY <1>6, <1>7, <1>8 DEF CallsInv

LEMMA OldCallStepsCalls ==
    ASSUME TypeOK, CallsInv, NEW t \in Tasks, OldCallSteps(t) PROVE CallsInv'
<1>0. t \in old.calls /\ OldCallMoves(t) /\ task[t] # Idle
    BY DEF OldCallSteps, CallsInv, LockInv
<1>1. CASE WriteFails(t)
    <2>1. /\ UNCHANGED <<entry, poll, debouncer>> /\ wire # <<>> /\ Head(wire) = t
        BY <1>1 DEF WriteFails, link
    <2> QED BY <1>0, <1>1, <2>1, FailedOutcome, CallServed, OldCallMovedOn
<1>2. CASE OldWriteSucceeds(t)
    <2>1. /\ UNCHANGED <<entry, poll, debouncer>> /\ wire # <<>> /\ Head(wire) = t
          /\ GoOn(t, Tail(wire), old.data)
        BY <1>2 DEF OldWriteSucceeds, link
    <2>2. GoesOn(t, Tail(wire))
        BY <2>1, CallServed, GoOnOutcome DEF CallsInv
    <2> QED BY <1>0, <2>1, <2>2, CallServed, OldCallMovedOn
<1>3. CASE OldResume(t)
    <2>1. /\ UNCHANGED <<entry, poll, debouncer>> /\ task[t].at = "refreshing"
          /\ GoOn(t, wire, old.data)
        BY <1>3 DEF OldResume, vars, link
    <2>2. ~On(t, wire) /\ \A who : On(who, wire) <=> On(who, wire) /\ who # t
        BY <2>1 DEF CallsInv, WireInv
    <2>3. GoesOn(t, wire)
        BY <1>0, <2>1, <2>2, GoOnOutcome DEF CallsInv, LifecycleTypeOK, WireInv
    <2> QED BY <1>0, <2>1, <2>2, <2>3, OldCallMovedOn
<1> QED BY <1>1, <1>2, <1>3 DEF OldCallSteps

-------------------------------------------------------------------------------
\* The old poll.

\* What a stretch of the old poll that judges d leaves: it waits for a restore, or it is
\* gone; and of the new coordinator's memory it has touched only the issues.
OldPollWentOn(d, rep) ==
    /\ repair' \in [Limits -> Repair] /\ scanIssue' \in BOOLEAN
    /\ \A l \in Limits : /\ repair'[l].lastValid = repair[l].lastValid
                        /\ repair'[l].fixAttempted = repair[l].fixAttempted
    /\ old' \in Left /\ old'.calls = old.calls
    /\ \/ old'.poll \in Limits /\ old'.polled = d /\ wire' = Append(Tail(wire), "old")
       \/ old'.poll = "idle" /\ old'.polled = None /\ wire' = Tail(wire)
    /\ old'.poll \in Limits => Invalid(old'.poll, d)
    /\ \A l \in Limits : Known(old'.memory[l].lastValid, l, d, rep[l].lastValid)

\* Nothing valid is remembered of an old coordinator whose poll has ended.
LEMMA OldPollEnded ==
    ASSUME NEW o \in Left, o.poll = "idle", o.polled = None, o.memory = NoMemory
    PROVE  /\ Kept(o) \in Left /\ Kept(o).calls = o.calls /\ Kept(o).poll = "idle"
           /\ Kept(o).polled = None /\ \A l \in Limits : Kept(o).memory[l].lastValid = None
<1>1. /\ Gone \in Left /\ Gone.calls = {} /\ Gone.poll = "idle" /\ Gone.polled = None
      /\ Gone.memory = NoMemory
    BY DEF Gone, Left, NoMemory, Repair
<1>2. \A l \in Limits : NoMemory[l].lastValid = None
    BY DEF NoMemory
<1> QED BY <1>1, <1>2 DEF Kept

LEMMA OldJudgesOutcome ==
    ASSUME TypeOK, LifecycleTypeOK, NEW limits \in SUBSET Limits, NEW d \in Status,
           NEW rep \in [Limits -> Repair], OldJudges(limits, d, rep)
    PROVE  OldPollWentOn(d, rep)
<1> DEFINE needed == {l \in limits : NeedsRestore(l, d, rep[l])}
           next == IF "fallback" \in needed THEN "fallback" ELSE "current"
           seen == IF next = "fallback" THEN {next} ELSE limits
           judged == [l \in Limits |-> IF l \in seen THEN Remembered(l, d, rep[l]) ELSE rep[l]]
           awaiting == [old EXCEPT !.poll = next, !.polled = d, !.memory = judged]
           ended == [old EXCEPT !.poll = "idle", !.polled = None, !.memory = NoMemory, !.data = d]
<1>1. /\ repair' = [l \in Limits |-> [repair[l] EXCEPT !.issue = judged[l].issue]]
      /\ IF needed # {}
         THEN old' = awaiting /\ wire' = Append(Tail(wire), "old") /\ scanIssue' = scanIssue
         ELSE /\ old' = Kept(ended) /\ wire' = Tail(wire)
              /\ scanIssue' = (d.timeout > 0 /\ ScanInterval >= d.timeout)
    BY DEF OldJudges
<1>2. judged \in [Limits -> Repair]
    BY RememberedType
<1>3. /\ \A l \in Limits : Known(judged[l].lastValid, l, d, rep[l].lastValid)
      /\ needed # {} => Invalid(next, d)
    BY RememberedKnown, LimitsAre DEF Known, NeedsRestore
<1>4. next \in Limits /\ old \in Left /\ repair \in [Limits -> Repair] /\ scanIssue \in BOOLEAN
    BY LimitsAre DEF LifecycleTypeOK, TypeOK
<1> HIDE DEF needed, next, judged
<1>5. /\ repair' \in [Limits -> Repair]
      /\ \A l \in Limits : /\ repair'[l].lastValid = repair[l].lastValid
                          /\ repair'[l].fixAttempted = repair[l].fixAttempted
    <2>1. repair' = [l \in Limits |-> [repair[l] EXCEPT !.issue = judged[l].issue]]
        BY <1>1
    <2>2. \A l \in Limits : repair[l] \in Repair /\ judged[l].issue \in BOOLEAN
        BY <1>2, <1>4 DEF Repair
    <2>3. \A r \in Repair, b \in BOOLEAN :
             /\ [r EXCEPT !.issue = b] \in Repair
             /\ [r EXCEPT !.issue = b].lastValid = r.lastValid
             /\ [r EXCEPT !.issue = b].fixAttempted = r.fixAttempted
        BY DEF Repair
    <2> QED BY <2>1, <2>2, <2>3
<1>6. CASE needed # {}
    <2>1. /\ awaiting \in Left /\ awaiting.calls = old.calls /\ awaiting.poll = next
          /\ awaiting.polled = d /\ awaiting.memory = judged
        BY <1>2, <1>4 DEF Left
    <2> HIDE DEF awaiting
    <2> QED BY <1>1, <1>3, <1>4, <1>5, <1>6, <2>1 DEF OldPollWentOn
<1>7. CASE needed = {}
    <2>1. NoMemory \in [Limits -> Repair]
        BY DEF NoMemory, Repair
    <2>2. /\ ended \in Left /\ ended.calls = old.calls /\ ended.poll = "idle"
          /\ ended.polled = None /\ ended.memory = NoMemory
        BY <1>4, <2>1 DEF Left
    <2> HIDE DEF ended
    <2>3. scanIssue' \in BOOLEAN
        BY <1>1, <1>7
    <2> QED BY <1>1, <1>5, <1>7, <2>2, <2>3, OldPollEnded, LimitsAre DEF OldPollWentOn, Known
<1> QED BY <1>6, <1>7

\* The value the old poll's restore writes is a number.
LEMMA OldWrittenType ==
    ASSUME TypeOK, LifecycleTypeOK, NEW l \in Limits, old.poll = l
    PROVE  LET value == RestoreValue(old.polled, old.memory[l])
           IN  /\ old.polled \in Status /\ value \in Nat
               /\ WithReading(l, charger, value) \in Status
               /\ WithReading(l, old.polled, value) \in Status
<1>1. old.polled \in Status /\ old.memory[l] \in Repair
    BY DEF LifecycleTypeOK, Left
<1> QED BY <1>1, RestoreValueType, StatusFacts DEF TypeOK

\* The memory the old poll goes on with.
LEMMA OldRepairType ==
    ASSUME TypeOK, LifecycleTypeOK, NEW l \in Limits, NEW b \in BOOLEAN
    PROVE  /\ OldRepair \in [Limits -> Repair]
           /\ [OldRepair EXCEPT ![l].issue = b] \in [Limits -> Repair]
           /\ \A k \in Limits :
                /\ OldRepair[k].lastValid = old.memory[k].lastValid
                /\ [OldRepair EXCEPT ![l].issue = b][k].lastValid = old.memory[k].lastValid
<1>1. old.memory \in [Limits -> Repair] /\ repair \in [Limits -> Repair]
    BY DEF TypeOK, LifecycleTypeOK, Left
<1>2. /\ OldRepair \in [Limits -> Repair]
      /\ \A k \in Limits : OldRepair[k].lastValid = old.memory[k].lastValid
    BY <1>1 DEF OldRepair, Repair
<1> QED BY <1>2 DEF Repair

\* The old poll moves: from its read or a restore, to a restore or its end.
LEMMA OldPollOutcome ==
    ASSUME TypeOK, CallsInv, OldPollMoves
    PROVE  /\ old.poll # "idle" /\ charger' \in Status
           /\ \/ /\ old' \in Left /\ old'.calls = old.calls /\ old'.poll = "idle"
                 /\ old'.polled = None /\ wire' = Tail(wire)
                 /\ UNCHANGED <<charger, repair, scanIssue>>
              \/ \E d \in Status, rep \in [Limits -> Repair] :
                   /\ OldPollWentOn(d, rep)
                   /\ \A k \in Limits : rep[k].lastValid = old.memory[k].lastValid
                   /\ \/ old.poll = "reading" /\ d = charger /\ charger' = charger
                      \/ \E l \in Limits, n \in Nat :
                           /\ old.poll = l /\ n = RestoreValue(old.polled, old.memory[l])
                           /\ d \in {old.polled, WithReading(l, old.polled, n)}
                           /\ charger' \in {charger, WithReading(l, charger, n)}
<1>0. LifecycleTypeOK /\ old \in Left /\ charger \in Status
    BY DEF CallsInv, LifecycleTypeOK, TypeOK
<1>1. CASE OldReadSucceeds
    <2>1. /\ old.poll = "reading" /\ charger' = charger
          /\ OldJudges(Limits, charger, OldRepair)
        BY <1>1 DEF OldReadSucceeds
    <2>2. OldPollWentOn(charger, OldRepair) /\ OldRepair \in [Limits -> Repair]
        BY <1>0, <2>1, LimitsAre, OldRepairType, OldJudgesOutcome
    <2> QED BY <1>0, <2>1, <2>2, LimitsAre, OldRepairType
<1>2. CASE OldReadFails
    <2> DEFINE ended == [old EXCEPT !.poll = "idle", !.memory = NoMemory]
    <2>1. /\ old.poll = "reading" /\ old' = Kept(ended) /\ wire' = Tail(wire)
          /\ UNCHANGED <<charger, repair, scanIssue>>
        BY <1>2 DEF OldReadFails
    <2>2. old.polled = None
        BY <1>0, <2>1, LimitsAre DEF LifecycleTypeOK
    <2>3. NoMemory \in [Limits -> Repair]
        BY DEF NoMemory, Repair
    <2>4. /\ ended \in Left /\ ended.calls = old.calls /\ ended.poll = "idle"
          /\ ended.polled = None /\ ended.memory = NoMemory
        BY <1>0, <2>2, <2>3 DEF Left
    <2> HIDE DEF ended
    <2> QED BY <1>0, <2>1, <2>4, OldPollEnded
<1>3. ASSUME NEW l \in Limits, OldRestoreSucceeds(l) \/ OldRestoreFails(l)
      PROVE  \E d \in Status, rep \in [Limits -> Repair] :
                /\ OldPollWentOn(d, rep)
                /\ \A k \in Limits : rep[k].lastValid = old.memory[k].lastValid
                /\ \E n \in Nat : /\ n = RestoreValue(old.polled, old.memory[l])
                                  /\ d \in {old.polled, WithReading(l, old.polled, n)}
                                  /\ charger' \in {charger, WithReading(l, charger, n)}
    <2> DEFINE n == RestoreValue(old.polled, old.memory[l])
    <2>0. old.poll = l
        BY <1>3 DEF OldRestoreSucceeds, OldRestoreFails
    <2>1. n \in Nat /\ old.polled \in Status /\ WithReading(l, old.polled, n) \in Status
        BY <1>0, <2>0, OldWrittenType
    <2>2. PICK d \in {old.polled, WithReading(l, old.polled, n)}, b \in BOOLEAN :
             /\ OldJudges(After(l), d, [OldRepair EXCEPT ![l].issue = b])
             /\ charger' \in {charger, WithReading(l, charger, n)}
        BY <1>3 DEF OldRestoreSucceeds, OldRestoreFails
    <2> DEFINE rep == [OldRepair EXCEPT ![l].issue = b]
    <2> HIDE DEF n
    <2>3. /\ rep \in [Limits -> Repair]
          /\ \A k \in Limits : rep[k].lastValid = old.memory[k].lastValid
        BY <1>0, OldRepairType
    <2>4. d \in Status /\ After(l) \in SUBSET Limits
        BY <2>1, LimitsAre DEF After
    <2> HIDE DEF rep
    <2>5. OldPollWentOn(d, rep)
        BY <1>0, <2>2, <2>3, <2>4, OldJudgesOutcome DEF rep
    <2> QED BY <2>1, <2>2, <2>3, <2>4, <2>5 DEF n
<1>4. ASSUME NEW l \in Limits, OldRestoreSucceeds(l) \/ OldRestoreFails(l)
      PROVE  old.poll = l /\ charger' \in Status
    BY <1>0, <1>4, OldWrittenType DEF OldRestoreSucceeds, OldRestoreFails
<1> QED BY <1>1, <1>2, <1>3, <1>4, <1>0, LimitsAre DEF OldPollMoves, OldReadSucceeds, OldReadFails

\* The old poll has moved, and nobody else.
LEMMA OldPollCalls ==
    ASSUME TypeOK, CallsInv, OldPollMoves PROVE TypeOK' /\ CallsInv'
<1>1. /\ wire # <<>> /\ Head(wire) = "old"
      /\ UNCHANGED <<entry, poll, polled, timer, availability, data, session, task, lastIssued,
                     refresher, cooling, pending>>
    BY DEF OldPollMoves, OldPollAnswered, link, calling, debouncer
<1>2. /\ Tail(wire) \in Seq(Parties) /\ Once(Tail(wire)) /\ ~On("old", Tail(wire))
      /\ \A who : On(who, Tail(wire)) <=> On(who, wire) /\ who # "old"
    BY <1>1, Served DEF CallsInv, LifecycleTypeOK, WireInv
<1>3. /\ charger' \in Status /\ repair' \in [Limits -> Repair] /\ scanIssue' \in BOOLEAN
      /\ old' \in Left /\ old'.calls = old.calls /\ (old'.polled # None <=> old'.poll \in Limits)
      /\ \/ old'.poll \in Limits /\ wire' = Append(Tail(wire), "old")
         \/ old'.poll = "idle" /\ wire' = Tail(wire)
    BY OldPollOutcome, LimitsAre, NoneAssumption DEF OldPollWentOn, TypeOK
<1>4. TypeOK'
    BY <1>1, <1>3 DEF TypeOK, availability, session
<1>5. /\ wire' \in Seq(Parties) /\ Once(wire')
      /\ \A who : who # "old" => (On(who, wire') <=> On(who, wire))
      /\ On("old", wire') <=> old'.poll # "idle"
    <2>1. CASE old'.poll = "idle"
        BY <1>2, <1>3, <2>1, LimitsAre
    <2>2. CASE old'.poll \in Limits
        <3>1. wire' = Append(Tail(wire), "old")
            BY <1>3, <2>2, LimitsAre
        <3>2. /\ wire' \in Seq(Parties) /\ Once(wire')
              /\ \A who : On(who, wire') <=> On(who, Tail(wire)) \/ who = "old"
            <4>1. "old" \in Parties /\ Tail(wire) \in Seq(Parties) /\ Once(Tail(wire))
                  /\ ~On("old", Tail(wire))
                BY <1>2, Names
            <4> QED BY <3>1, <4>1, Queued
        <3> QED BY <1>2, <2>2, <3>2, LimitsAre
    <2> QED BY <1>3, <2>1, <2>2
<1>6. LifecycleTypeOK'
    BY <1>1, <1>3, <1>5 DEF CallsInv, LifecycleTypeOK
<1>7. WireInv'
    BY <1>1, <1>5, Names DEF CallsInv, WireInv
<1>8. LockInv'
    BY <1>1, <1>3 DEF CallsInv, LockInv
<1> QED BY <1>4, <1>6, <1>7, <1>8 DEF CallsInv

-------------------------------------------------------------------------------
\* Every step.

LEMMA ObeyedFacts ==
    ASSUME NEW c \in Status, NEW call \in Calls
    PROVE  Obeyed(call, c) \in Status /\ Obeyed(call, c).userMax = c.userMax
<1>1. call.kind \in CallKinds /\ call.value \in Nat
    BY CallsAssumption
<1>2. \A l \in Limits : /\ WithReading(l, c, call.value) \in Status
                        /\ WithReading(l, c, call.value).userMax = c.userMax
    BY <1>1, StatusFacts, WritingKeepsMax
<1>3. /\ [c EXCEPT !.state = 4] \in Status /\ [c EXCEPT !.state = 4].userMax = c.userMax
    BY DEF Status
<1>c. /\ [c EXCEPT !.state = 5, !.current = 0] \in Status
      /\ [c EXCEPT !.state = 5, !.current = 0].userMax = c.userMax
    <2>1. 5 \in 0..127 /\ 0 \in Nat
        OBVIOUS
    <2>2. \A s \in 0..127, n \in Nat : /\ [c EXCEPT !.state = s, !.current = n] \in Status
                                     /\ [c EXCEPT !.state = s, !.current = n].userMax = c.userMax
        BY DEF Status
    <2> QED BY <2>1, <2>2
<1>b. \A n \in Nat : /\ [c EXCEPT !.timeout = n] \in Status
                     /\ [c EXCEPT !.timeout = n].userMax = c.userMax
                     /\ [c EXCEPT !.lock = n] \in Status
                     /\ [c EXCEPT !.lock = n].userMax = c.userMax
    BY DEF Status
<1>4. CASE call.kind \in {"start", "stop", "timeout"}
    BY <1>1, <1>3, <1>b, <1>c, <1>4 DEF Obeyed
<1>5. CASE call.kind \in {"limit", "fallback"}
    BY <1>2, <1>5, LimitsAre DEF Obeyed
<1>6. CASE call.kind = "lock"
    <2>1. (IF call.value = 1 THEN 17 ELSE 1) \in Nat
        OBVIOUS
    <2>2. Obeyed(call, c) \in {c, [c EXCEPT !.lock = IF call.value = 1 THEN 17 ELSE 1]}
        BY <1>6 DEF Obeyed
    <2> QED BY <1>b, <2>1, <2>2
<1> QED BY <1>1, <1>4, <1>5, <1>6 DEF CallKinds

\* What the step of a call, or of time, changes of the charger and the coordinator.
CallEffect ==
    /\ charger' \in {charger} \cup {Obeyed(call, charger) : call \in Calls}
    /\ charger' \in Status /\ charger'.userMax = charger.userMax
    /\ lastCommand' \in LastCommands
    /\ \/ poll' = poll
       \/ poll = "idle" /\ poll' = "reading" /\ entry = "loaded"
    /\ timer' \in Nat
    /\ age' \in age..MaxAge
    /\ UNCHANGED <<entry, polled, failedPolls, lastUpdateSuccess, isAvailable, data,
                   state5Polls, sessionWasActive, repair, scanIssue>>

\* What the step of a call changes of the coordinator before: it is one call shorter.
OldStays ==
    /\ old'.poll = old.poll
    /\ old.poll # "idle" => old'.polled = old.polled /\ old'.memory = old.memory

LEMMA CallEffects ==
    ASSUME TypeOK, CallsInv, NEW t \in Tasks,
           \/ Loaded(CurrentCallSteps(t)) \/ OldCallSteps(t)
           \/ \E call \in Calls : Loaded(Begin(t, call))
    PROVE  CallEffect /\ OldStays
<1>1. /\ charger \in Status /\ timer \in Nat /\ RequestTimeout \in Nat
      /\ lastCommand \in LastCommands /\ age \in age..MaxAge
    BY TimeAssumption DEF TypeOK
<1>2. ASSUME wire # <<>>, Head(wire) = t, charger' \in {charger, Obeyed(task[t].call, charger)}
      PROVE  /\ charger' \in Status /\ charger'.userMax = charger.userMax
             /\ charger' \in {charger} \cup {Obeyed(call, charger) : call \in Calls}
    <2>1. task[t].call \in Calls
        BY <1>2, CallServed, JobFacts DEF CallsInv, LifecycleTypeOK
    <2> QED BY <1>1, <1>2, <2>1, ObeyedFacts
\* Nothing but the charger, perhaps.
<1>a. ASSUME UNCHANGED <<entry, link, availability, data, session, repair, scanIssue>>,
             charger' \in Status, charger'.userMax = charger.userMax,
             charger' \in {charger} \cup {Obeyed(call, charger) : call \in Calls}
      PROVE  CallEffect
    <2>1. UNCHANGED <<poll, polled, timer, lastCommand, state5Polls, sessionWasActive>>
        BY <1>a DEF link, session
    <2> QED BY <1>1, <1>a, <2>1 DEF CallEffect, availability
<1>3. ASSUME WriteFails(t) \/ OldWriteSucceeds(t) PROVE CallEffect
    <2>1. /\ wire # <<>> /\ Head(wire) = t
          /\ charger' \in {charger, Obeyed(task[t].call, charger)}
          /\ UNCHANGED <<entry, link, availability, data, session, repair, scanIssue>>
        BY <1>3 DEF WriteFails, OldWriteSucceeds
    <2> QED BY <1>2, <1>a, <2>1
<1>4. ASSUME WriteSucceeds(t), t \notin old.calls PROVE CallEffect
    <2>1. refresher = None => poll = "idle" /\ entry = "loaded"
        BY <1>4, CallServed DEF WriteSucceeds, CallsInv, LockInv, TypeOK
    <2>2. /\ charger' \in Status /\ charger'.userMax = charger.userMax
          /\ charger' \in {charger} \cup {Obeyed(call, charger) : call \in Calls}
        BY <1>2, <1>4 DEF WriteSucceeds
    <2>3. UNCHANGED <<entry, availability, data, session, repair, scanIssue>>
        BY <1>4 DEF WriteSucceeds
    <2>4. CASE UNCHANGED link
        BY <1>a, <2>2, <2>3, <2>4
    <2>5. CASE refresher = None /\ BeginRead /\ UNCHANGED polled
        BY <1>1, <2>1, <2>2, <2>3, <2>5 DEF CallEffect, BeginRead, session, availability
    <2> QED BY <1>4, <2>4, <2>5 DEF WriteSucceeds
<1>5. ASSUME Resume(t) \/ OldResume(t) PROVE CallEffect
    <2>1. UNCHANGED vars
        BY <1>5 DEF Resume, OldResume
    <2> QED BY <1>1, <1>a, <2>1 DEF vars
<1>6. ASSUME NEW call \in Calls, Begin(t, call) PROVE CallEffect
    <2>1. CASE UNCHANGED vars
        BY <1>1, <1>a, <2>1 DEF vars
    <2>2. CASE call.kind \in LastCommands /\ Press(call.kind)
        BY <1>1, <2>2 DEF Press, CallEffect, link, availability
    <2> QED BY <1>6, <2>1, <2>2 DEF Begin
<1>7. ASSUME OldCallMoves(t) PROVE OldStays
    <2> DEFINE rest == [old EXCEPT !.calls = @ \ {t}]
    <2>1. /\ rest.poll = old.poll /\ rest.polled = old.polled /\ rest.memory = old.memory
        BY DEF CallsInv, LifecycleTypeOK, Left
    <2>2. old' = old \/ old' = Kept(rest)
        BY <1>7 DEF OldCallMoves
    <2> HIDE DEF rest
    <2>3. Kept(rest) = rest \/ (rest.poll = "idle" /\ Kept(rest).poll = "idle")
        BY DEF Kept, Gone
    <2> QED BY <2>1, <2>2, <2>3, LimitsAre DEF OldStays
<1>8. old' = old => OldStays
    BY DEF OldStays
<1> QED BY <1>3, <1>4, <1>5, <1>6, <1>7, <1>8
    DEF Loaded, CurrentCallSteps, CallSteps, OldCallSteps

LEMMA CallEffectType == ASSUME TypeOK, CallEffect PROVE TypeOK'
<1>1. age' \in 0..MaxAge
    BY TimeAssumption DEF TypeOK, CallEffect
<1> QED BY <1>1, LimitsAre DEF TypeOK, CallEffect

\* A step is one of Coordinator's, an unload among them, or the effect of a call, or of
\* time, on what it shares with the coordinators, or a move of the old poll.
LEMMA StepKinds ==
    ASSUME TypeOK, CallsInv, [LNext]_lifecycleVars
    PROVE  \/ [Next]_vars /\ old' = old
           \/ ShutDown /\ UnloadEntry
           \/ CallEffect /\ OldStays
           \/ OldPollMoves
<1>1. CASE Loaded(FirstRefresh)
    BY <1>1 DEF Loaded, FirstRefresh, Next
<1>2. CASE Loaded(PollAnswered)
    BY <1>2 DEF Loaded, PollAnswered, Next
<1>3. CASE Loaded(ScheduleFires) \/ Loaded(CooldownEnds)
    <2>1. \A owner : Refresh(owner) => RequestedRefresh
        BY DEF Refresh, RequestedRefresh
    <2> QED BY <1>3, <2>1 DEF Loaded, ScheduleFires, CooldownEnds, Next
<1>4. CASE Loaded(ChargerChanges /\ UNCHANGED <<calling, wire, debouncer>>)
    BY <1>4 DEF Loaded, Next
<1>5. CASE UNCHANGED lifecycleVars
    BY <1>5 DEF lifecycleVars, allVars
<1>6. CASE UnloadEntry
    BY <1>6 DEF UnloadEntry
<1>7. CASE Loaded(TimePasses)
    <2>1. /\ charger \in Status /\ timer \in Nat /\ lastCommand \in LastCommands
          /\ age + 1 \in age..MaxAge
        BY <1>7, TimeAssumption DEF TypeOK, Loaded, TimePasses
    <2> QED BY <1>7, <2>1 DEF Loaded, TimePasses, CallEffect, OldStays, link, session
<1> QED BY <1>1, <1>2, <1>3, <1>4, <1>5, <1>6, <1>7, CallEffects DEF LNext

LEMMA CallsStep ==
    ASSUME TypeOK, CallsInv, [LNext]_lifecycleVars PROVE TypeOK' /\ CallsInv'
<1>1. TypeOK'
    <2>1. ShutDown => Next
        BY DEF Next
    <2> QED BY <2>1, StepKinds, TypeStep, CallEffectType, OldPollCalls
<1>2. CASE UNCHANGED <<entry, poll, calling, wire, debouncer, old>>
    <2>1. UNCHANGED <<entry, poll, task, lastIssued, wire, refresher, cooling, pending, old>>
        BY <1>2 DEF calling, debouncer
    <2>2. LifecycleTypeOK'
        BY <2>1 DEF CallsInv, LifecycleTypeOK
    <2>3. WireInv'
        BY <2>1 DEF CallsInv, WireInv
    <2>4. LockInv'
        BY <2>1 DEF CallsInv, LockInv
    <2> QED BY <1>1, <2>2, <2>3, <2>4 DEF CallsInv
<1>3. CASE Loaded(ChargerChanges /\ UNCHANGED <<calling, wire, debouncer>>)
    BY <1>2, <1>3 DEF Loaded, ChargerChanges, link
<1>4. CASE UNCHANGED lifecycleVars
    BY <1>2, <1>4 DEF lifecycleVars, allVars, vars, link, calling, debouncer
<1>5. CASE Loaded(FirstRefresh) \/ Loaded(PollAnswered)
    BY <1>1, <1>5, FirstRefreshCalls, PollAnsweredCalls
<1>6. CASE Loaded(ScheduleFires) \/ Loaded(CooldownEnds)
    BY <1>1, <1>6, RefreshCalls
<1>7. CASE \E t \in Tasks, call \in Calls : Loaded(Begin(t, call))
    BY <1>1, <1>7, BeginCalls
<1>8. CASE \E t \in Tasks : Loaded(CurrentCallSteps(t)) \/ OldCallSteps(t)
    BY <1>1, <1>8, CallStepsCalls, OldCallStepsCalls
<1>9. CASE UnloadEntry \/ OldPollMoves
    BY <1>1, <1>9, UnloadCalls, OldPollCalls
<1>10. CASE Loaded(TimePasses)
    BY <1>2, <1>10 DEF Loaded, TimePasses, link
<1> QED BY <1>1, <1>3, <1>4, <1>5, <1>6, <1>7, <1>8, <1>9, <1>10 DEF LNext

LEMMA CallsInit == LInit => TypeOK /\ CallsInv
<1> SUFFICES ASSUME LInit PROVE TypeOK /\ CallsInv
    OBVIOUS
<1>1. /\ TypeOK /\ poll = "idle" /\ entry = "not_loaded" /\ old = Gone /\ wire = <<>>
      /\ task = [t \in Tasks |-> Idle] /\ refresher = None /\ cooling = FALSE
      /\ pending = FALSE /\ lastIssued = "none"
    BY TypeInit DEF LInit, CInit, Init
<1>2. /\ Gone \in Left /\ Gone.calls = {} /\ Gone.poll = "idle" /\ Gone.polled = None
    BY DEF Gone, Left, NoMemory, Repair
<1>3. wire \in Seq(Parties) /\ Once(wire) /\ \A who : ~On(who, wire)
    BY <1>1 DEF Once, On
<1>4. \A t \in Tasks : task[t] = Idle /\ task[t].at = "idle"
    BY <1>1 DEF Idle
<1>5. LifecycleTypeOK
    BY <1>1, <1>2, <1>3, LimitsAre DEF LifecycleTypeOK, Job, LastCommands
<1>6. WireInv
    BY <1>1, <1>2, <1>3, <1>4 DEF WireInv
<1>7. LockInv
    BY <1>1, <1>2, <1>4, Names DEF LockInv
<1> QED BY <1>1, <1>5, <1>6, <1>7 DEF CallsInv

LEMMA CallsInvHolds == LSpec => [](TypeOK /\ CallsInv)
BY CallsInit, CallsStep, PTL DEF LSpec

\* Every variable of the calls, the wire, the debouncer and the old coordinator has its
\* type, with those of the coordinator, however calls, polls and unloads interleave.
THEOREM LifecycleTypeCorrect == LSpec => [](TypeOK /\ LifecycleTypeOK)
<1>1. TypeOK /\ CallsInv => TypeOK /\ LifecycleTypeOK
    BY DEF CallsInv
<1> QED BY <1>1, CallsInvHolds, PTL

\* For any number of calls of any kinds, through every unload: one poll per coordinator,
\* one request per waiting party, and the debouncer's lock with whoever's refresh runs,
\* never with a call of the coordinator before.
THEOREM RefreshesAreExclusiveHolds == LSpec => []RefreshesAreExclusive
<1>1. ASSUME CallsInv PROVE RefreshesAreExclusive
    <2>1. Once(wire)
        BY <1>1 DEF CallsInv, WireInv
    <2>2. OnWireOnce("poll", poll # "idle") /\ OnWireOnce("old", old.poll # "idle")
        BY <1>1, <2>1, PlacesCounted DEF CallsInv, WireInv
    <2>3. \A t \in Tasks : OnWireOnce(t, task[t].at = "writing")
        BY <1>1, <2>1, PlacesCounted DEF CallsInv, WireInv
    <2>4. old.calls \subseteq {t \in Tasks : task[t] # Idle}
        BY <1>1 DEF CallsInv, LockInv, LifecycleTypeOK, Left
    <2> QED BY <1>1, <2>2, <2>3, <2>4 DEF CallsInv, LockInv, RefreshesAreExclusive
<1> QED BY <1>1, CallsInvHolds, PTL
===============================================================================
