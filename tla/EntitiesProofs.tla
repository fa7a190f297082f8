---------------------------- MODULE EntitiesProofs ----------------------------
(***************************************************************************)
(* Proofs about what the entities show.  The session state first: the      *)
(* coordinator's three variables of the session say what the whole log of  *)
(* polls and presses says, for every length of it and every set of         *)
(* statuses.  Then the other entities, for every value of the registers.   *)
(***************************************************************************)
EXTENDS CoordinatorProofs, SessionHistory, EntitiesProperties, FiniteSetTheorems

Events == [kind : {"poll"}, status : Status] \cup [kind : {"press"}, button : {"start", "stop"}]

-------------------------------------------------------------------------------
\* What one more event does to the questions asked of the log.

\* The log with event e at its end.
LEMMA Appended ==
    ASSUME NEW s \in Seq(Events), NEW e \in Events
    PROVE  LET t == Append(s, e)
           IN  /\ t \in Seq(Events) /\ Len(t) = Len(s) + 1 /\ Len(s) \in Nat
               /\ DOMAIN s = 1..Len(s) /\ DOMAIN t = 1..(Len(s) + 1)
               /\ t[Len(s) + 1] = e /\ \A i \in DOMAIN s : t[i] = s[i]
OBVIOUS

LEMMA EventKinds ==
    /\ \A d \in Status : Polled(d) \in Events /\ Polled(d).kind = "poll" /\ Polled(d).status = d
    /\ \A b \in {"start", "stop"} : Pressed(b) \in Events /\ Pressed(b).kind = "press" /\ Pressed(b).button = b
BY DEF Events, Polled, Pressed

LEMMA EventAppended ==
    ASSUME log \in Seq(Events), NEW e \in Events, log' = Append(log, e),
           NEW n, n = Len(log) + 1
    PROVE  /\ n \in Nat /\ DOMAIN log = 1..(n - 1) /\ DOMAIN log' = (DOMAIN log) \cup {n}
           /\ \A i \in DOMAIN log : i \in Nat /\ i < n /\ log'[i] = log[i]
           /\ log'[n] = e
<1> DEFINE t == Append(log, e)
<1>1. /\ Len(log) \in Nat
      /\ DOMAIN log = 1..Len(log) /\ DOMAIN t = 1..(Len(log) + 1)
      /\ t[Len(log) + 1] = e /\ \A i \in DOMAIN log : t[i] = log[i]
    BY Appended
<1>2. log' = t
    OBVIOUS
<1> HIDE DEF t
<1> QED BY <1>1, <1>2

\* The polls of the log after one more poll ...
LEMMA PollAppended ==
    ASSUME log \in Seq(Events), NEW d \in Status, log' = Append(log, Polled(d)),
           NEW n, n = Len(log) + 1
    PROVE  /\ n \notin PollsIn /\ PollsIn' = PollsIn \cup {n}
           /\ \A i \in PollsIn : StatusAt(i)' = StatusAt(i)
           /\ StatusAt(n)' = d
           /\ \A i \in DOMAIN log : PollsAfter(i)' = PollsAfter(i) \cup {n}
           /\ PollsAfter(n)' = {}
<1>1. /\ n \in Nat /\ DOMAIN log = 1..(n - 1) /\ DOMAIN log' = (DOMAIN log) \cup {n}
      /\ \A i \in DOMAIN log : i \in Nat /\ i < n /\ log'[i] = log[i]
      /\ log'[n] = Polled(d) /\ Polled(d).kind = "poll" /\ Polled(d).status = d
    BY EventKinds, EventAppended
<1>2. PollsIn' = PollsIn \cup {n} /\ n \notin PollsIn
    BY <1>1 DEF PollsIn
<1>3. (\A i \in PollsIn : StatusAt(i)' = StatusAt(i)) /\ StatusAt(n)' = d
    BY <1>1 DEF PollsIn, StatusAt
<1>4. \A i \in DOMAIN log : PollsAfter(i)' = PollsAfter(i) \cup {n}
    BY <1>1, <1>2 DEF PollsAfter
<1>5. PollsAfter(n)' = {}
    BY <1>1, <1>2 DEF PollsAfter, PollsIn
<1> QED BY <1>2, <1>3, <1>4, <1>5

\* ... and after one more press.
LEMMA PressAppended ==
    ASSUME log \in Seq(Events), NEW b \in {"start", "stop"}, log' = Append(log, Pressed(b))
    PROVE  /\ PollsIn' = PollsIn
           /\ \A i \in PollsIn : StatusAt(i)' = StatusAt(i) /\ PollsAfter(i)' = PollsAfter(i)
<1>0. PICK n : n = Len(log) + 1
    OBVIOUS
<1>1. /\ n \in Nat /\ DOMAIN log = 1..(n - 1) /\ DOMAIN log' = (DOMAIN log) \cup {n}
      /\ \A i \in DOMAIN log : i \in Nat /\ i < n /\ log'[i] = log[i]
      /\ log'[n] = Pressed(b) /\ Pressed(b).kind = "press"
    BY <1>0, EventKinds, EventAppended
<1>2. PollsIn' = PollsIn
    BY <1>1 DEF PollsIn
<1> QED BY <1>1, <1>2 DEF PollsIn, PollsAfter, StatusAt

\* A poll of d lets the command of a button stand.
Confirms(button, d) == d.lock # 0 /\ IF button = "start" THEN d.state < 2 ELSE d.state \notin Plugged

LEMMA StandsAfterPoll ==
    ASSUME log \in Seq(Events), NEW d \in Status, log' = Append(log, Polled(d)), NEW button
    PROVE  Stands(button)' <=> Stands(button) /\ Confirms(button, d)
<1>0. PICK n : n = Len(log) + 1
    OBVIOUS
<1>1. /\ n \in Nat /\ DOMAIN log = 1..(n - 1) /\ DOMAIN log' = (DOMAIN log) \cup {n}
      /\ \A i \in DOMAIN log : i \in Nat /\ i < n /\ log'[i] = log[i]
      /\ log'[n] = Polled(d) /\ Polled(d).kind = "poll"
    BY <1>0, EventKinds, EventAppended
<1>2. /\ \A i \in PollsIn : StatusAt(i)' = StatusAt(i)
      /\ StatusAt(n)' = d
      /\ \A i \in DOMAIN log : PollsAfter(i)' = PollsAfter(i) \cup {n}
    BY <1>0, PollAppended
<1>3. Pressed(button).kind = "press"
    BY DEF Pressed
<1>4. ASSUME Stands(button)' PROVE Stands(button) /\ Confirms(button, d)
    <2>1. PICK i \in DOMAIN log' :
            /\ log'[i] = Pressed(button)
            /\ \A j \in DOMAIN log' : j > i => log'[j].kind = "poll"
            /\ \A j \in PollsAfter(i)' :
                 StatusAt(j)'.lock # 0 /\ IF button = "start" THEN StatusAt(j)'.state < 2
                                                             ELSE StatusAt(j)'.state \notin Plugged
        BY <1>4 DEF Stands
    <2>2. i # n /\ i \in DOMAIN log
        BY <1>1, <1>3, <2>1
    <2>3. \A j \in PollsAfter(i) : j \in PollsIn
        BY DEF PollsAfter
    <2>4. Stands(button)
        BY <1>1, <1>2, <2>1, <2>2, <2>3 DEF Stands
    <2>5. Confirms(button, d)
        BY <1>2, <2>1, <2>2 DEF Confirms
    <2> QED BY <2>4, <2>5
<1>5. ASSUME Stands(button), Confirms(button, d) PROVE Stands(button)'
    <2>1. PICK i \in DOMAIN log :
            /\ log[i] = Pressed(button)
            /\ \A j \in DOMAIN log : j > i => log[j].kind = "poll"
            /\ \A j \in PollsAfter(i) :
                 StatusAt(j).lock # 0 /\ IF button = "start" THEN StatusAt(j).state < 2
                                                            ELSE StatusAt(j).state \notin Plugged
        BY <1>5 DEF Stands
    <2>2. i \in DOMAIN log' /\ log'[i] = Pressed(button)
        BY <1>1, <2>1
    <2>3. \A j \in DOMAIN log' : j > i => log'[j].kind = "poll"
        BY <1>1, <2>1
    <2>4. \A j \in PollsAfter(i)' :
            StatusAt(j)'.lock # 0 /\ IF button = "start" THEN StatusAt(j)'.state < 2
                                                        ELSE StatusAt(j)'.state \notin Plugged
        BY <1>2, <1>5, <2>1 DEF Confirms, PollsAfter
    <2> QED BY <2>2, <2>3, <2>4 DEF Stands
<1> QED BY <1>4, <1>5

LEMMA StandsAfterPress ==
    ASSUME log \in Seq(Events), NEW b \in {"start", "stop"}, log' = Append(log, Pressed(b)), NEW button
    PROVE  Stands(button)' <=> button = b
<1>0. PICK n : n = Len(log) + 1
    OBVIOUS
<1>1. /\ n \in Nat /\ DOMAIN log' = (DOMAIN log) \cup {n}
      /\ \A i \in DOMAIN log : i \in Nat /\ i < n
      /\ log'[n] = Pressed(b) /\ Pressed(b).kind = "press" /\ Pressed(b).button = b
    BY <1>0, EventKinds, EventAppended
<1>2. Pressed(button).button = button
    BY DEF Pressed
<1>3. ASSUME Stands(button)' PROVE button = b
    <2>1. PICK i \in DOMAIN log' : /\ log'[i] = Pressed(button)
                                   /\ \A j \in DOMAIN log' : j > i => log'[j].kind = "poll"
        BY <1>3 DEF Stands
    <2>2. i = n
        BY <1>1, <2>1
    <2> QED BY <1>1, <1>2, <2>1, <2>2
<1>4. ASSUME button = b PROVE Stands(button)'
    <2>1. \A j \in DOMAIN log' : ~(j > n)
        BY <1>1
    <2>2. PollsAfter(n)' = {}
        BY <2>1 DEF PollsAfter, PollsIn
    <2> QED BY <1>1, <1>4, <2>1, <2>2 DEF Stands
<1> QED BY <1>3, <1>4

LEMMA ActiveAfterPoll ==
    ASSUME log \in Seq(Events), NEW d \in Status, log' = Append(log, Polled(d))
    PROVE  ActiveSince' <=> \/ d.state \in Charging \cup {5}
                            \/ ActiveSince /\ d.state \notin {0, 2} /\ d.lock # 0
<1>0. PICK n : n = Len(log) + 1
    OBVIOUS
<1>1. /\ n \notin PollsIn /\ PollsIn' = PollsIn \cup {n}
      /\ \A i \in PollsIn : StatusAt(i)' = StatusAt(i)
      /\ StatusAt(n)' = d
      /\ \A i \in DOMAIN log : PollsAfter(i)' = PollsAfter(i) \cup {n}
      /\ PollsAfter(n)' = {}
    BY <1>0, PollAppended
<1>2. \A i \in PollsIn : i \in DOMAIN log /\ PollsAfter(i) \subseteq PollsIn
    BY DEF PollsIn, PollsAfter
<1> DEFINE Goes(c) == c.state \in {3, 4, 5}
           On(c) == Goes(c) \/ (c.state \notin {0, 2} /\ c.lock # 0)
<1>3. ActiveSince <=> \E i \in PollsIn : /\ Goes(StatusAt(i))
                                         /\ \A j \in PollsAfter(i) : On(StatusAt(j))
    BY DEF ActiveSince
<1>4. ActiveSince' <=> \E i \in PollsIn' : /\ Goes(StatusAt(i)')
                                           /\ \A j \in PollsAfter(i)' : On(StatusAt(j)')
    BY DEF ActiveSince
<1>5. ASSUME Goes(d) PROVE ActiveSince'
    BY <1>1, <1>4, <1>5
<1>6. ASSUME ActiveSince, On(d) PROVE ActiveSince'
    <2>1. PICK i \in PollsIn : Goes(StatusAt(i)) /\ \A j \in PollsAfter(i) : On(StatusAt(j))
        BY <1>3, <1>6
    <2> HIDE DEF Goes, On
    <2>2. i \in PollsIn' /\ Goes(StatusAt(i)') /\ \A j \in PollsAfter(i)' : On(StatusAt(j)')
        BY <1>1, <1>2, <1>6, <2>1
    <2> QED BY <1>4, <2>2
<1>7. ASSUME ActiveSince', ~Goes(d) PROVE ActiveSince /\ On(d)
    <2> HIDE DEF Goes, On
    <2>1. PICK i \in PollsIn' : Goes(StatusAt(i)') /\ \A j \in PollsAfter(i)' : On(StatusAt(j)')
        BY <1>4, <1>7
    <2>2. i \in PollsIn
        BY <1>1, <1>7, <2>1
    <2> QED BY <1>1, <1>2, <1>3, <2>1, <2>2
<1> QED BY <1>5, <1>6, <1>7 DEF Charging

\* The polls up to the last that all showed state 5.
Fives == {i \in PollsIn : \A j \in PollsAfter(i) \cup {i} : StatusAt(j).state = 5}

LEMMA FivesAfterPoll ==
    ASSUME log \in Seq(Events), NEW d \in Status, log' = Append(log, Polled(d))
    PROVE  /\ FivesInARow \in Nat
           /\ FivesInARow' = IF d.state = 5 THEN FivesInARow + 1 ELSE 0
<1>0. PICK n : n = Len(log) + 1
    OBVIOUS
<1>1. /\ n \notin PollsIn /\ PollsIn' = PollsIn \cup {n}
      /\ \A i \in PollsIn : StatusAt(i)' = StatusAt(i)
      /\ StatusAt(n)' = d
      /\ \A i \in DOMAIN log : PollsAfter(i)' = PollsAfter(i) \cup {n}
      /\ PollsAfter(n)' = {}
    BY <1>0, PollAppended
<1>2. \A i \in PollsIn : i \in DOMAIN log /\ PollsAfter(i) \subseteq PollsIn
    BY DEF PollsIn, PollsAfter
<1>3. IsFiniteSet(Fives)
    <2>1. 1 \in Int /\ Len(log) \in Int /\ Fives \in SUBSET (1..Len(log))
        BY DEF Fives, PollsIn
    <2>2. IsFiniteSet(1..Len(log))
        BY <2>1, FS_Interval
    <2> QED BY <2>1, <2>2, FS_Subset
<1>4. FivesInARow = Cardinality(Fives) /\ FivesInARow' = Cardinality(Fives')
    BY DEF FivesInARow, Fives
<1>5. Fives' = {i \in PollsIn' : \A j \in PollsAfter(i)' \cup {i} : StatusAt(j)'.state = 5}
    BY DEF Fives
<1>6. CASE d.state = 5
    <2>1. Fives' = Fives \cup {n}
        BY <1>1, <1>2, <1>5, <1>6 DEF Fives
    <2>2. n \notin Fives
        BY <1>1 DEF Fives
    <2>3. Cardinality(Fives \cup {n}) = Cardinality(Fives) + 1
        BY <1>3, <2>2, FS_AddElement
    <2>4. Cardinality(Fives') = Cardinality(Fives) + 1
        BY <2>1, <2>3
    <2>5. Cardinality(Fives) \in Nat
        BY <1>3, FS_CardinalityType
    <2> QED BY <1>4, <1>6, <2>4, <2>5
<1>7. CASE d.state # 5
    <2>1. Fives' = {}
        BY <1>1, <1>2, <1>5, <1>7
    <2> QED BY <1>3, <1>4, <1>7, <2>1, FS_EmptySet, FS_CardinalityType
<1> QED BY <1>6, <1>7

\* A press leaves what the polls have shown.
LEMMA PollsAfterPress ==
    ASSUME log \in Seq(Events), NEW b \in {"start", "stop"}, log' = Append(log, Pressed(b))
    PROVE  ActiveSince' = ActiveSince /\ FivesInARow' = FivesInARow
<1>1. /\ PollsIn' = PollsIn
      /\ \A i \in PollsIn : StatusAt(i)' = StatusAt(i) /\ PollsAfter(i)' = PollsAfter(i)
    BY PressAppended
<1>2. \A i \in PollsIn : PollsAfter(i) \subseteq PollsIn
    BY DEF PollsAfter
<1>3. ActiveSince' = ActiveSince
    BY <1>1, <1>2 DEF ActiveSince
<1>4. {i \in PollsIn' : \A j \in PollsAfter(i)' \cup {i} : StatusAt(j)'.state = 5} = Fives
    BY <1>1, <1>2 DEF Fives
<1>5. FivesInARow' = Cardinality(Fives) /\ FivesInARow = Cardinality(Fives)
    BY <1>4 DEF FivesInARow, Fives
<1> QED BY <1>3, <1>5

-------------------------------------------------------------------------------
\* The invariant.

\* Each of the coordinator's variables answers a question asked of the log.
SessionInv ==
    /\ log \in Seq(Events)
    /\ lastCommand = "start" <=> Stands("start")
    /\ lastCommand = "stop" <=> Stands("stop")
    /\ sessionWasActive <=> ActiveSince
    /\ FivesInARow \in Nat
    /\ state5Polls = AtMost(FivesInARow, STATE_5_TRANSITION_POLLS + 1)

\* With an empty log there is nothing to remember.
LEMMA NothingLogged ==
    ASSUME log = <<>>
    PROVE  /\ log \in Seq(Events) /\ ~Stands("start") /\ ~Stands("stop") /\ ~ActiveSince
           /\ FivesInARow = 0
<1>1. DOMAIN log = {} /\ PollsIn = {} /\ log \in Seq(Events)
    BY DEF PollsIn
<1>2. {i \in PollsIn : \A j \in PollsAfter(i) \cup {i} : StatusAt(j).state = 5} = {}
    BY <1>1
<1>3. FivesInARow = 0
    BY <1>2, FS_EmptySet DEF FivesInARow
<1> QED BY <1>1, <1>3 DEF Stands, ActiveSince

LEMMA SameSession ==
    ASSUME SessionInv, UNCHANGED <<log, session>> PROVE SessionInv'
<1>1. PollsIn' = PollsIn /\ \A i : PollsAfter(i)' = PollsAfter(i) /\ StatusAt(i)' = StatusAt(i)
    BY DEF PollsIn, PollsAfter, StatusAt
<1>2. ActiveSince' = ActiveSince /\ FivesInARow' = FivesInARow
    BY <1>1 DEF ActiveSince, FivesInARow
<1>3. Stands("start")' = Stands("start") /\ Stands("stop")' = Stands("stop")
    BY <1>1 DEF Stands
<1> QED BY <1>2, <1>3 DEF SessionInv, session

\* What the end of a poll of d makes of the session's memory.
Remembers(d) ==
    /\ data' = d
    /\ lastCommand' = SyncedCommand(d)
    /\ state5Polls' = IF d.state = 5
                      THEN AtMost(state5Polls + 1, STATE_5_TRANSITION_POLLS + 1)
                      ELSE 0
    /\ sessionWasActive' = ActivitySeen(d)

\* A stretch of the handler that judges d remembers it, or leaves the session alone.
Judges(d) == \/ poll' = "idle" /\ Remembers(d)
             \/ poll' # "idle" /\ UNCHANGED session

LEMMA HandlerJudges ==
    ASSUME NEW d, NEW rep
    PROVE  /\ FinishPoll(d, rep) => Judges(d)
           /\ JudgeCurrent(d, rep) => Judges(d)
           /\ JudgeFallback(d, rep) => Judges(d)
<1>1. ASSUME NEW r, FinishPoll(d, r) PROVE Judges(d)
    BY <1>1 DEF FinishPoll, Judges, Remembers
<1>2. ASSUME NEW l \in Limits, NEW r, AwaitRestore(l, d, r) PROVE Judges(d)
    BY <1>2 DEF AwaitRestore, Judges, Limits
<1>3. ASSUME NEW r, JudgeCurrent(d, r) PROVE Judges(d)
    BY <1>1, <1>2, <1>3 DEF JudgeCurrent, Limits
<1>4. ASSUME JudgeFallback(d, rep) PROVE Judges(d)
    BY <1>2, <1>3, <1>4 DEF JudgeFallback, Limits
<1> QED BY <1>1, <1>3, <1>4

LEMMA PollRemembered ==
    ASSUME TypeOK, SessionInv, NEW d \in Status, Judges(d), LogPoll
    PROVE  SessionInv'
<1>1. CASE poll' # "idle"
    BY <1>1, SameSession DEF Judges, LogPoll
<1>2. CASE poll' = "idle"
    <2>1. Remembers(d) /\ log' = Append(log, Polled(d))
        BY <1>2 DEF Judges, LogPoll, Remembers
    <2>2. log \in Seq(Events) /\ Polled(d) \in Events
        BY EventKinds DEF SessionInv
    <2>3. log' \in Seq(Events)
        BY <2>1, <2>2
    <2>4. d.state \in Nat /\ lastCommand \in LastCommands
        BY DEF Status, TypeOK
    <2>5. /\ SyncedCommand(d) = "start" <=> lastCommand = "start" /\ Confirms("start", d)
          /\ SyncedCommand(d) = "stop" <=> lastCommand = "stop" /\ Confirms("stop", d)
        BY <2>4 DEF SyncedCommand, Confirms, LastCommands, Plugged
    <2>6. /\ Stands("start")' <=> Stands("start") /\ Confirms("start", d)
          /\ Stands("stop")' <=> Stands("stop") /\ Confirms("stop", d)
        BY <2>1, <2>2, StandsAfterPoll
    <2>7. ActiveSince' <=> \/ d.state \in Charging \cup {5}
                           \/ ActiveSince /\ d.state \notin {0, 2} /\ d.lock # 0
        BY <2>1, <2>2, ActiveAfterPoll
    <2>8. ActiveSince' <=> ActivitySeen(d)
        <3>1. sessionWasActive <=> ActiveSince
            BY DEF SessionInv
        <3> QED BY <2>7, <3>1, Zenon DEF ActivitySeen
    <2>9. /\ FivesInARow \in Nat
          /\ FivesInARow' = IF d.state = 5 THEN FivesInARow + 1 ELSE 0
        BY <2>1, <2>2, FivesAfterPoll
    <2>10. FivesInARow' \in Nat
        BY <2>9
    <2>11. \A n \in Nat : AtMost(AtMost(n, STATE_5_TRANSITION_POLLS + 1) + 1, STATE_5_TRANSITION_POLLS + 1)
                            = AtMost(n + 1, STATE_5_TRANSITION_POLLS + 1)
        BY DEF AtMost, STATE_5_TRANSITION_POLLS
    <2>12. AtMost(0, STATE_5_TRANSITION_POLLS + 1) = 0
        BY DEF AtMost, STATE_5_TRANSITION_POLLS
    <2>13. state5Polls' = AtMost(FivesInARow', STATE_5_TRANSITION_POLLS + 1)
        <3> DEFINE f == FivesInARow  s == state5Polls
        <3>1. f \in Nat /\ s = AtMost(f, STATE_5_TRANSITION_POLLS + 1)
            BY DEF SessionInv
        <3>2. FivesInARow' = IF d.state = 5 THEN f + 1 ELSE 0
            BY <2>9
        <3>3. state5Polls' = IF d.state = 5 THEN AtMost(s + 1, STATE_5_TRANSITION_POLLS + 1) ELSE 0
            BY <2>1 DEF Remembers
        <3> HIDE DEF f, s
        <3> QED BY <2>11, <2>12, <3>1, <3>2, <3>3
    <2> QED BY <2>1, <2>3, <2>5, <2>6, <2>8, <2>10, <2>13 DEF SessionInv, Remembers, AtMost
<1> QED BY <1>1, <1>2

\* An answer of the charger that is good, or of a restore.
LEMMA AnswerRemembered ==
    ASSUME TypeOK, SessionInv, ReadSucceeds \/ RestoreEnds, LogPoll PROVE SessionInv'
<1>1. CASE ReadSucceeds
    BY <1>1, HandlerJudges, PollRemembered DEF ReadSucceeds, TypeOK
<1>2. CASE RestoreEnds
    <2>1. PICK l \in Limits : RestoreSucceeds(l) \/ RestoreFails(l)
        BY <1>2 DEF RestoreEnds
    <2>2. poll = l
        BY <2>1 DEF RestoreSucceeds, RestoreFails
    <2>3. PICK d \in Status, r \in {[repair EXCEPT ![l].issue = b] : b \in BOOLEAN} :
            AfterRestore(l, d, r)
        BY <2>1, <2>2, WrittenType DEF RestoreSucceeds, RestoreFails
    <2>4. Judges(d)
        BY <2>3, HandlerJudges DEF AfterRestore
    <2> QED BY <2>4, PollRemembered
<1> QED BY <1>1, <1>2

LEMMA PressRemembered ==
    ASSUME SessionInv, NEW b \in {"start", "stop"}, Press(b), log' = Append(log, Pressed(b))
    PROVE  SessionInv'
<1>1. log \in Seq(Events) /\ Pressed(b) \in Events
    BY EventKinds DEF SessionInv
<1>2. log' \in Seq(Events)
    BY <1>1
<1>3. lastCommand' = b /\ UNCHANGED <<state5Polls, sessionWasActive>>
    BY DEF Press
<1>4. /\ Stands("start")' <=> "start" = b
      /\ Stands("stop")' <=> "stop" = b
    BY <1>1, StandsAfterPress
<1>5. ActiveSince' = ActiveSince /\ FivesInARow' = FivesInARow
    BY <1>1, PollsAfterPress
<1> QED BY <1>2, <1>3, <1>4, <1>5 DEF SessionInv

LEMMA SessionForgotten ==
    ASSUME NewCoordinator, log' = <<>> PROVE SessionInv'
<1>1. /\ log' \in Seq(Events) /\ ~Stands("start")' /\ ~Stands("stop")' /\ ~ActiveSince'
      /\ FivesInARow' = 0
    <2>1. DOMAIN log' = {} /\ PollsIn' = {} /\ log' \in Seq(Events)
        BY DEF PollsIn
    <2>2. {i \in PollsIn' : \A j \in PollsAfter(i)' \cup {i} : StatusAt(j)'.state = 5} = {}
        BY <2>1
    <2>3. FivesInARow' = 0
        BY <2>2, FS_EmptySet DEF FivesInARow
    <2> QED BY <2>1, <2>3 DEF Stands, ActiveSince
<1>2. lastCommand' = "none" /\ state5Polls' = 0 /\ sessionWasActive' = FALSE
    BY DEF NewCoordinator
<1>3. 0 = AtMost(0, STATE_5_TRANSITION_POLLS + 1)
    BY DEF AtMost, STATE_5_TRANSITION_POLLS
<1>4. state5Polls' = AtMost(FivesInARow', STATE_5_TRANSITION_POLLS + 1)
    BY <1>1, <1>2, <1>3
<1> QED BY <1>1, <1>2, <1>4 DEF SessionInv, AtMost

LEMMA SessionStep ==
    ASSUME TypeOK, SessionInv, [HNext]_<<vars, log>> PROVE SessionInv'
<1>1. CASE (ReadSucceeds \/ RestoreEnds) /\ LogPoll
    BY <1>1, AnswerRemembered
<1>2. ASSUME NEW b \in Buttons, Press(b), log' = Append(log, Pressed(b)) PROVE SessionInv'
    BY <1>2, ButtonsAssumption, PressRemembered
<1>3. CASE (ShutDown \/ \E kind \in FailureKinds : SetUpFails(kind)) /\ log' = <<>>
    BY <1>3, SessionForgotten DEF ShutDown, SetUpFails
<1>4. CASE /\ \/ SetUp \/ RequestedRefresh \/ ChargerChanges
              \/ \E kind \in FailureKinds : ReadFails(kind)
           /\ UNCHANGED log
    BY <1>4, SameSession DEF SetUp, RequestedRefresh, ChargerChanges, ReadFails
<1>5. CASE UNCHANGED <<vars, log>>
    BY <1>5, SameSession DEF vars
<1> QED BY <1>1, <1>2, <1>3, <1>4, <1>5 DEF HNext

LEMMA HNextIsNext == [HNext]_<<vars, log>> => [Next]_vars
BY DEF HNext, Next, ReadEnds

LEMMA SessionInit == ASSUME HInit PROVE SessionInv
<1>1. /\ log \in Seq(Events) /\ ~Stands("start") /\ ~Stands("stop") /\ ~ActiveSince
      /\ FivesInARow = 0
    BY NothingLogged DEF HInit
<1>2. lastCommand = "none" /\ state5Polls = 0 /\ sessionWasActive = FALSE
    BY DEF HInit, Init
<1> QED BY <1>1, <1>2 DEF SessionInv, AtMost, STATE_5_TRANSITION_POLLS

LEMMA SessionInvHolds == HSpec => [](TypeOK /\ SessionInv)
<1>1. HInit => TypeOK
    BY TypeInit DEF HInit
<1>2. TypeOK /\ SessionInv /\ [HNext]_<<vars, log>> => (TypeOK /\ SessionInv)'
    BY HNextIsNext, TypeStep, SessionStep
<1> QED BY <1>1, <1>2, SessionInit, PTL DEF HSpec

-------------------------------------------------------------------------------
\* What is shown.

\* The session state of a paused charger, and of any.
LEMMA Paused ==
    ASSUME NEW limit \in Nat, NEW command, NEW phase \in Nat, NEW n \in Nat
    PROVE  LET p == PausedState(limit, command, phase, n)
           IN  /\ command = "stop" => p = "paused_by_command"
               /\ command # "stop" /\ limit < PAUSE_CURRENT_THRESHOLD => p = "paused_by_current"
               /\ command # "stop" /\ ~(limit < PAUSE_CURRENT_THRESHOLD) =>
                    p = IF phase <= PAUSE_CURRENT_THRESHOLD /\ n <= STATE_5_TRANSITION_POLLS
                        THEN "active" ELSE "unknown"
<1>1. limit >= PAUSE_CURRENT_THRESHOLD <=> ~(limit < PAUSE_CURRENT_THRESHOLD)
    BY DEF PAUSE_CURRENT_THRESHOLD
<1> QED BY <1>1 DEF PausedState

LEMMA Derived ==
    ASSUME NEW raw \in Nat, NEW limit, NEW command, NEW phase, NEW n, NEW was
    PROVE  LET state == derive_session_state(raw, limit, command, phase, n, was)
           IN  /\ raw = 5 => state = PausedState(limit, command, phase, n)
               /\ raw \in Charging => state = "active"
               /\ raw = 1 => state = IF was /\ limit < PAUSE_CURRENT_THRESHOLD
                                     THEN "paused_by_current" ELSE "idle"
               /\ raw \notin Charging \cup {1, 5} => state \in {"idle", "completed", "unknown"}
BY DEF derive_session_state, Charging

\* What the data and the memory are when there is data.
LEMMA Shown ==
    ASSUME TypeOK, data # None
    PROVE  /\ data.state \in Nat /\ data.current \in Nat /\ data.phase \in Nat
           /\ state5Polls \in Nat
           /\ session_state = derive_session_state(data.state, data.current, lastCommand,
                                data.phase, state5Polls, sessionWasActive)
<1>1. data \in Status /\ state5Polls \in Nat
    BY DEF TypeOK, STATE_5_TRANSITION_POLLS
<1> QED BY <1>1 DEF Status, session_state

LEMMA ShownWithoutData == data = None => session_state = "unknown"
BY DEF session_state

LEMMA PausedByCommandByLog ==
    ASSUME TypeOK, SessionInv PROVE PausedByCommandIsEarned
<1>1. Stands("stop") <=> lastCommand = "stop"
    BY DEF SessionInv
<1>2. CASE data = None
    BY <1>2, ShownWithoutData DEF PausedByCommandIsEarned, InState
<1>3. CASE data # None
    <2>1. CASE data.state = 5
        BY <1>1, <1>3, <2>1, Shown, Derived, Paused DEF PausedByCommandIsEarned, InState
    <2>2. CASE data.state # 5
        BY <1>3, <2>2, Shown, Derived DEF PausedByCommandIsEarned, InState
    <2> QED BY <2>1, <2>2
<1> QED BY <1>2, <1>3

LEMMA PausedByCurrentByLog ==
    ASSUME TypeOK, SessionInv PROVE PausedByCurrentIsEarned
<1>1. (Stands("stop") <=> lastCommand = "stop") /\ (ActiveSince <=> sessionWasActive)
    BY DEF SessionInv
<1>2. CASE data = None
    BY <1>2, ShownWithoutData DEF PausedByCurrentIsEarned
<1>3. CASE data # None
    <2>1. CASE data.state = 5
        BY <1>1, <1>3, <2>1, Shown, Derived, Paused
        DEF PausedByCurrentIsEarned, InState, TooLowToCharge
    <2>2. CASE data.state = 1
        BY <1>1, <1>3, <2>2, Shown, Derived
        DEF PausedByCurrentIsEarned, InState, TooLowToCharge
    <2>3. CASE data.state \notin {1, 5}
        BY <1>3, <2>3, Shown, Derived DEF PausedByCurrentIsEarned, InState
    <2> QED BY <2>1, <2>2, <2>3
<1> QED BY <1>2, <1>3

LEMMA ActiveByLog ==
    ASSUME TypeOK, SessionInv PROVE ActiveIsEarned
<1>1. /\ Stands("stop") <=> lastCommand = "stop"
      /\ state5Polls = AtMost(FivesInARow, STATE_5_TRANSITION_POLLS + 1)
      /\ FivesInARow \in Nat
    BY DEF SessionInv
<1>2. \A n \in Nat : AtMost(n, STATE_5_TRANSITION_POLLS + 1) <= STATE_5_TRANSITION_POLLS
                      <=> n <= STATE_5_TRANSITION_POLLS
    BY DEF AtMost, STATE_5_TRANSITION_POLLS
<1>3. state5Polls <= STATE_5_TRANSITION_POLLS <=> FivesInARow <= STATE_5_TRANSITION_POLLS
    BY <1>1, <1>2
<1>4. CASE data = None
    BY <1>4, ShownWithoutData DEF ActiveIsEarned, InState
<1>5. CASE data # None
    <2>1. CASE data.state = 5
        <3>1. session_state = PausedState(data.current, lastCommand, data.phase, state5Polls)
            BY <1>5, <2>1, Shown, Derived
        <3>2. session_state = "active" <=>
                /\ lastCommand # "stop" /\ ~TooLowToCharge
                /\ data.phase <= PAUSE_CURRENT_THRESHOLD /\ state5Polls <= STATE_5_TRANSITION_POLLS
            BY <1>5, <3>1, Shown, Paused DEF TooLowToCharge
        <3> QED BY <1>1, <1>3, <1>5, <2>1, <3>2 DEF ActiveIsEarned, InState
    <2>2. CASE data.state # 5
        BY <1>5, <2>2, Shown, Derived DEF ActiveIsEarned, InState, Charging
    <2> QED BY <2>1, <2>2
<1> QED BY <1>4, <1>5

LEMMA StartByLog == SessionInv => StartIsRemembered
BY DEF SessionInv, StartIsRemembered

\* A start pressed while the vehicle waits is known as the last command for as long as
\* no later poll or press has superseded it, however long that is.
THEOREM StartIsRememberedHolds == HSpec => []StartIsRemembered
BY StartByLog, SessionInvHolds, PTL

\* "Paused by command" is shown exactly when the charger is paused and a stop pressed
\* here has not been superseded, by any number of polls and presses.
THEOREM PausedByCommandIsEarnedHolds == HSpec => []PausedByCommandIsEarned
BY PausedByCommandByLog, SessionInvHolds, PTL

\* "Paused by current" is shown exactly when the limit is too low to charge and the
\* charger is paused without a standing stop, or fell back to B1 in an active session.
THEOREM PausedByCurrentIsEarnedHolds == HSpec => []PausedByCurrentIsEarned
BY PausedByCurrentByLog, SessionInvHolds, PTL

\* State 5 passes for active in its first polls only, counted in the whole log.
THEOREM ActiveIsEarnedHolds == HSpec => []ActiveIsEarned
BY ActiveByLog, SessionInvHolds, PTL

-------------------------------------------------------------------------------
\* The entities of one register.

\* The lock sensor, by the register.
LEMMA LockShown ==
    ASSUME NEW d
    PROVE  /\ socket_lock_state(d) \in Locked <=> d.lock \in {17, 273}
           /\ socket_lock_state(d) = "no_cable_plugged" <=> d.lock = 0
<1>1. CASE d.lock \in {0, 1, 17, 257, 273}
    <2>1. socket_lock_state(d) = SOCKET_LOCK_STATES[d.lock]
        BY <1>1 DEF socket_lock_state, SOCKET_LOCK_STATES
    <2>2. /\ SOCKET_LOCK_STATES[0] = "no_cable_plugged"
          /\ SOCKET_LOCK_STATES[1] = "cable_connected_unlocked"
          /\ SOCKET_LOCK_STATES[17] = "cable_connected_locked"
          /\ SOCKET_LOCK_STATES[257] = "cable_ev_connected_unlocked"
          /\ SOCKET_LOCK_STATES[273] = "cable_ev_connected_locked"
        BY DEF SOCKET_LOCK_STATES
    <2> QED BY <1>1, <2>1, <2>2 DEF Locked
<1>2. CASE d.lock \notin {0, 1, 17, 257, 273}
    <2>1. socket_lock_state(d) = "unknown"
        BY <1>2 DEF socket_lock_state, SOCKET_LOCK_STATES
    <2> QED BY <1>2, <2>1 DEF Locked
<1> QED BY <1>1, <1>2

\* The charging state, by the register.
LEMMA ChargingShown ==
    ASSUME NEW d, d.state \in Nat
    PROVE  /\ d.state = 4 => charging_state(d) = "C2"
           /\ charging_state(d) = "B2" <=> d.state = 2
           /\ charging_state(d) = "Unknown" <=> d.state > 5
<1>1. Len(CHARGING_STATES) = 6
    BY DEF CHARGING_STATES
<1>2. CASE d.state > 5
    <2>1. charging_state(d) = "Unknown"
        BY <1>1, <1>2 DEF charging_state
    <2> QED BY <1>2, <2>1
<1>3. CASE d.state \in {0, 1, 2, 3, 4, 5}
    <2>1. charging_state(d) = CHARGING_STATES[d.state + 1]
        BY <1>1, <1>3 DEF charging_state
    <2>2. /\ CHARGING_STATES[1] = "A" /\ CHARGING_STATES[2] = "B1" /\ CHARGING_STATES[3] = "B2"
          /\ CHARGING_STATES[4] = "C1" /\ CHARGING_STATES[5] = "C2" /\ CHARGING_STATES[6] = "D/F"
        BY DEF CHARGING_STATES
    <2> QED BY <1>3, <2>1, <2>2
<1> QED BY <1>2, <1>3

\* The session state, by the register.
LEMMA SessionShown ==
    ASSUME TypeOK, data # None
    PROVE  /\ data.state = 4 => session_state = "active"
           /\ session_state = "completed" <=> data.state = 2
           /\ data.state > 5 => session_state = "unknown"
<1>1. /\ data.state \in Nat /\ data.current \in Nat /\ data.phase \in Nat
      /\ state5Polls \in Nat
      /\ session_state = derive_session_state(data.state, data.current, lastCommand,
                           data.phase, state5Polls, sessionWasActive)
    BY Shown
<1>2. CASE data.state = 5
    <2>1. session_state = PausedState(data.current, lastCommand, data.phase, state5Polls)
        BY <1>1, <1>2, Derived
    <2>2. session_state # "completed"
        BY <1>1, <2>1, Paused
    <2> QED BY <1>2, <2>2
<1>3. CASE data.state # 5
    BY <1>1, <1>3 DEF derive_session_state, Charging
<1> QED BY <1>2, <1>3

LEMMA EntitiesAgreeOnData == ASSUME TypeOK PROVE EntitiesAgree
<1> SUFFICES ASSUME data # None
             PROVE  /\ lock_is_on(data) <=> socket_lock_state(data) \in Locked
                    /\ vehicle_connected(data) <=> socket_lock_state(data) # "no_cable_plugged"
                    /\ is_charging(data) => charging_state(data) = "C2" /\ session_state = "active"
                    /\ charging_state(data) = "B2" <=> session_state = "completed"
                    /\ charging_state(data) = "Unknown" => session_state = "unknown"
    BY DEF EntitiesAgree
<1>1. data.state \in Nat
    BY Shown
<1>2. /\ lock_is_on(data) <=> socket_lock_state(data) \in Locked
      /\ vehicle_connected(data) <=> socket_lock_state(data) # "no_cable_plugged"
    BY LockShown DEF lock_is_on, vehicle_connected
<1>3. /\ is_charging(data) => charging_state(data) = "C2" /\ session_state = "active"
      /\ charging_state(data) = "B2" <=> session_state = "completed"
      /\ charging_state(data) = "Unknown" => session_state = "unknown"
    BY <1>1, ChargingShown, SessionShown DEF is_charging
<1> QED BY <1>2, <1>3

\* Entities that read one register through tables of their own agree, for every value.
THEOREM EntitiesAgreeHolds == Spec => []EntitiesAgree
BY EntitiesAgreeOnData, TypeCorrect, PTL

\* There is a lowest bit among those that are set.
LEMMA LowestBit ==
    ASSUME NEW S \in SUBSET ERROR_BITS, S # {} PROVE Min(S) \in S
<1>1. \E x \in S : \A y \in S : x <= y
    <2>1. CASE 2 \in S \/ 4 \in S \/ 8 \in S \/ 16 \in S
        BY <2>1 DEF ERROR_BITS
    <2>2. CASE S \subseteq {32, 64, 128, 1024, 2048, 4096, 8192, 16384}
        <3>1. CASE 32 \in S \/ 64 \in S \/ 128 \in S \/ 1024 \in S
            BY <2>2, <3>1
        <3>2. CASE S \subseteq {2048, 4096, 8192, 16384} /\ (2048 \in S \/ 4096 \in S)
            BY <3>2
        <3>3. CASE S \subseteq {8192, 16384}
            <4>1. CASE 8192 \in S
                BY <3>3, <4>1
            <4>2. CASE 8192 \notin S
                <5>1. PICK x : x \in S
                    OBVIOUS
                <5>2. x = 16384 /\ \A y \in S : y = 16384
                    BY <3>3, <4>2, <5>1
                <5> QED BY <5>1, <5>2
            <4> QED BY <4>1, <4>2
        <3> QED BY <2>2, <3>1, <3>2, <3>3
    <2> QED BY <2>1, <2>2 DEF ERROR_BITS
<1> QED BY <1>1 DEF Min

LEMMA OptionsOnData == ASSUME TypeOK PROVE ShownAreOptions
<1>1. ASSUME data # None PROVE charging_state(data) \in ToSet(CHARGING_STATES) \cup {"Unknown"}
    <2>1. data.state \in Nat
        BY <1>1, Shown
    <2>2. Len(CHARGING_STATES) = 6 /\ DOMAIN CHARGING_STATES = 1..6
        BY DEF CHARGING_STATES
    <2>3. data.state < 6 => data.state + 1 \in 1..6
        BY <2>1
    <2> QED BY <2>2, <2>3 DEF charging_state, ToSet
<1>2. socket_lock_state(data) \in Range(SOCKET_LOCK_STATES) \cup {"unknown"}
    BY DEF socket_lock_state, Range
<1>3. error_code(data) \in ERROR_BITS \cup {0, None}
    <2> DEFINE keys == decode_error_bits(data.error).keys
    <2>1. keys \in SUBSET ERROR_BITS
        BY DEF decode_error_bits
    <2>2. keys # {} => Min(keys) \in ERROR_BITS
        BY <2>1, LowestBit
    <2> HIDE DEF keys
    <2>3. error_code(data) \in {0, None} \/ (keys # {} /\ error_code(data) = Min(keys))
        BY DEF error_code, keys
    <2> QED BY <2>2, <2>3
<1>4. ASSUME data # None PROVE session_state \in SessionStates
    <2>1. PausedState(data.current, lastCommand, data.phase, state5Polls) \in SessionStates
        BY DEF PausedState, SessionStates
    <2>2. session_state = derive_session_state(data.state, data.current, lastCommand,
                            data.phase, state5Polls, sessionWasActive)
        BY <1>4, Shown
    <2> QED BY <2>1, <2>2 DEF derive_session_state, SessionStates
<1> QED BY <1>1, <1>2, <1>3, <1>4 DEF ShownAreOptions

\* Every entity of a table shows one of its options, for every value of the registers.
THEOREM ShownAreOptionsHolds == Spec => []ShownAreOptions
BY OptionsOnData, TypeCorrect, PTL

-------------------------------------------------------------------------------
\* Errors.

\* Clearing a bit that is set leaves every other documented bit as it is.
LEMMA ClearDocumented ==
    ASSUME NEW n \in Nat, NEW w \in ERROR_BITS
    PROVE  /\ BitSet(n, 2) => n - 2 \in Nat /\ (BitSet(n - 2, w) <=> w # 2 /\ BitSet(n, w))
           /\ BitSet(n, 4) => n - 4 \in Nat /\ (BitSet(n - 4, w) <=> w # 4 /\ BitSet(n, w))
           /\ BitSet(n, 8) => n - 8 \in Nat /\ (BitSet(n - 8, w) <=> w # 8 /\ BitSet(n, w))
           /\ BitSet(n, 16) => n - 16 \in Nat /\ (BitSet(n - 16, w) <=> w # 16 /\ BitSet(n, w))
           /\ BitSet(n, 32) => n - 32 \in Nat /\ (BitSet(n - 32, w) <=> w # 32 /\ BitSet(n, w))
           /\ BitSet(n, 64) => n - 64 \in Nat /\ (BitSet(n - 64, w) <=> w # 64 /\ BitSet(n, w))
           /\ BitSet(n, 128) => n - 128 \in Nat /\ (BitSet(n - 128, w) <=> w # 128 /\ BitSet(n, w))
           /\ BitSet(n, 1024) => n - 1024 \in Nat /\ (BitSet(n - 1024, w) <=> w # 1024 /\ BitSet(n, w))
           /\ BitSet(n, 2048) => n - 2048 \in Nat /\ (BitSet(n - 2048, w) <=> w # 2048 /\ BitSet(n, w))
           /\ BitSet(n, 4096) => n - 4096 \in Nat /\ (BitSet(n - 4096, w) <=> w # 4096 /\ BitSet(n, w))
           /\ BitSet(n, 8192) => n - 8192 \in Nat /\ (BitSet(n - 8192, w) <=> w # 8192 /\ BitSet(n, w))
           /\ BitSet(n, 16384) => n - 16384 \in Nat /\ (BitSet(n - 16384, w) <=> w # 16384 /\ BitSet(n, w))
<1>1. BitSet(n, 2) => n - 2 \in Nat /\ (BitSet(n - 2, w) <=> w # 2 /\ BitSet(n, w))
    BY DEF BitSet, ERROR_BITS
<1>2. BitSet(n, 4) => n - 4 \in Nat /\ (BitSet(n - 4, w) <=> w # 4 /\ BitSet(n, w))
    BY DEF BitSet, ERROR_BITS
<1>3. BitSet(n, 8) => n - 8 \in Nat /\ (BitSet(n - 8, w) <=> w # 8 /\ BitSet(n, w))
    BY DEF BitSet, ERROR_BITS
<1>4. BitSet(n, 16) => n - 16 \in Nat /\ (BitSet(n - 16, w) <=> w # 16 /\ BitSet(n, w))
    BY DEF BitSet, ERROR_BITS
<1>5. BitSet(n, 32) => n - 32 \in Nat /\ (BitSet(n - 32, w) <=> w # 32 /\ BitSet(n, w))
    BY DEF BitSet, ERROR_BITS
<1>6. BitSet(n, 64) => n - 64 \in Nat /\ (BitSet(n - 64, w) <=> w # 64 /\ BitSet(n, w))
    BY DEF BitSet, ERROR_BITS
<1>7. BitSet(n, 128) => n - 128 \in Nat /\ (BitSet(n - 128, w) <=> w # 128 /\ BitSet(n, w))
    BY DEF BitSet, ERROR_BITS
<1>8. BitSet(n, 1024) => n - 1024 \in Nat /\ (BitSet(n - 1024, w) <=> w # 1024 /\ BitSet(n, w))
    BY DEF BitSet, ERROR_BITS
<1>9. BitSet(n, 2048) => n - 2048 \in Nat /\ (BitSet(n - 2048, w) <=> w # 2048 /\ BitSet(n, w))
    BY DEF BitSet, ERROR_BITS
<1>10. BitSet(n, 4096) => n - 4096 \in Nat /\ (BitSet(n - 4096, w) <=> w # 4096 /\ BitSet(n, w))
    BY DEF BitSet, ERROR_BITS
<1>11. BitSet(n, 8192) => n - 8192 \in Nat /\ (BitSet(n - 8192, w) <=> w # 8192 /\ BitSet(n, w))
    BY DEF BitSet, ERROR_BITS
<1>12. BitSet(n, 16384) => n - 16384 \in Nat /\ (BitSet(n - 16384, w) <=> w # 16384 /\ BitSet(n, w))
    BY DEF BitSet, ERROR_BITS
<1> QED BY <1>1, <1>2, <1>3, <1>4, <1>5, <1>6, <1>7, <1>8, <1>9, <1>10, <1>11, <1>12

LEMMA ClearBit ==
    ASSUME NEW n \in Nat, NEW value \in ERROR_BITS, BitSet(n, value), NEW w \in ERROR_BITS
    PROVE  n - value \in Nat /\ (BitSet(n - value, w) <=> w # value /\ BitSet(n, w))
<1>1. value \in {2, 4, 8, 16, 32, 64, 128, 1024, 2048, 4096, 8192, 16384}
    BY DEF ERROR_BITS
<1> QED BY <1>1, ClearDocumented

\* What is left of the code when these bits are cleared.
Cleared(code, n, done) ==
    /\ n \in Nat
    /\ \A w \in ERROR_BITS : BitSet(n, w) <=> w \notin done /\ BitSet(code, w)

Keys(code) == {value \in ERROR_BITS : BitSet(code, value)}

\* What the loop over the table adds to the mask for one entry of it.
Bit(code, value) == IF value \in Keys(code) THEN value ELSE 0

LEMMA ClearNext ==
    ASSUME NEW code, NEW n, NEW done, Cleared(code, n, done), NEW value \in ERROR_BITS \ done
    PROVE  Cleared(code, n - Bit(code, value), done \cup {value})
<1>0. n \in Nat
    BY DEF Cleared
<1>1. CASE BitSet(code, value)
    <2>1. BitSet(n, value) /\ Bit(code, value) = value
        BY <1>1 DEF Cleared, Bit, Keys
    <2> QED BY <1>0, <2>1, ClearBit DEF Cleared
<1>2. CASE ~BitSet(code, value)
    <2>1. n - Bit(code, value) = n
        BY <1>2 DEF Cleared, Bit, Keys
    <2> QED BY <1>2, <2>1 DEF Cleared
<1> QED BY <1>1, <1>2

\* What is left over has no documented bit.
LEMMA MaskCleared ==
    ASSUME NEW code \in Nat
    PROVE  Cleared(code, code - known_mask(Keys(code)), ERROR_BITS)
<1> DEFINE n0 == code
           n1 == n0 - Bit(code, 2)
           n2 == n1 - Bit(code, 4)
           n3 == n2 - Bit(code, 8)
           n4 == n3 - Bit(code, 16)
           n5 == n4 - Bit(code, 32)
           n6 == n5 - Bit(code, 64)
           n7 == n6 - Bit(code, 128)
           n8 == n7 - Bit(code, 1024)
           n9 == n8 - Bit(code, 2048)
           n10 == n9 - Bit(code, 4096)
           n11 == n10 - Bit(code, 8192)
           n12 == n11 - Bit(code, 16384)
<1>0. Cleared(code, n0, {})
    BY DEF Cleared
<1>1. Cleared(code, n1, {2})
    BY <1>0, ClearNext DEF ERROR_BITS
<1>2. Cleared(code, n2, {2, 4})
    BY <1>1, ClearNext DEF ERROR_BITS
<1>3. Cleared(code, n3, {2, 4, 8})
    BY <1>2, ClearNext DEF ERROR_BITS
<1>4. Cleared(code, n4, {2, 4, 8, 16})
    BY <1>3, ClearNext DEF ERROR_BITS
<1>5. Cleared(code, n5, {2, 4, 8, 16, 32})
    BY <1>4, ClearNext DEF ERROR_BITS
<1>6. Cleared(code, n6, {2, 4, 8, 16, 32, 64})
    BY <1>5, ClearNext DEF ERROR_BITS
<1>7. Cleared(code, n7, {2, 4, 8, 16, 32, 64, 128})
    BY <1>6, ClearNext DEF ERROR_BITS
<1>8. Cleared(code, n8, {2, 4, 8, 16, 32, 64, 128, 1024})
    BY <1>7, ClearNext DEF ERROR_BITS
<1>9. Cleared(code, n9, {2, 4, 8, 16, 32, 64, 128, 1024, 2048})
    BY <1>8, ClearNext DEF ERROR_BITS
<1>10. Cleared(code, n10, {2, 4, 8, 16, 32, 64, 128, 1024, 2048, 4096})
    BY <1>9, ClearNext DEF ERROR_BITS
<1>11. Cleared(code, n11, {2, 4, 8, 16, 32, 64, 128, 1024, 2048, 4096, 8192})
    BY <1>10, ClearNext DEF ERROR_BITS
<1>12. Cleared(code, n12, {2, 4, 8, 16, 32, 64, 128, 1024, 2048, 4096, 8192, 16384})
    BY <1>11, ClearNext DEF ERROR_BITS
<1>13. code - known_mask(Keys(code)) = n12
    <2>1. \A value \in ERROR_BITS : Bit(code, value) \in Nat
        BY DEF Bit, ERROR_BITS
    <2> QED BY <2>1 DEF known_mask, Bit, ERROR_BITS
<1> QED BY <1>12, <1>13 DEF ERROR_BITS

LEMMA ErrorsSplitInData == ASSUME TypeOK PROVE ErrorsAreSplit
<1> SUFFICES ASSUME data # None, NEW value \in ERROR_BITS
             PROVE  /\ BitSet(data.error, value) <=> value \in decode_error_bits(data.error).keys
                    /\ ~BitSet(decode_error_bits(data.error).unknown, value)
    BY DEF ErrorsAreSplit
<1>1. data.error \in Nat
    BY DEF TypeOK, Status
<1>2. decode_error_bits(data.error) =
          [keys |-> Keys(data.error), unknown |-> data.error - known_mask(Keys(data.error))]
    BY DEF decode_error_bits, Keys
<1> QED BY <1>1, <1>2, MaskCleared DEF Cleared, Keys

\* However many errors are reported at once, each documented one is listed and what is
\* left over has no documented bit, for every value of the register.
THEOREM ErrorsAreSplitHolds == Spec => []ErrorsAreSplit
BY ErrorsSplitInData, TypeCorrect, PTL
===============================================================================
