------------------------------ MODULE AgeHistory ------------------------------
(***************************************************************************)
(* The coordinator with the age of what it shows.  Its own clock, `age`,   *)
(* is set back when a poll is answered (__init__.py:264), while the        *)
(* entities go on showing the data of the poll before until the restores   *)
(* of the new one have ended, up to two requests later.                    *)
(***************************************************************************)
EXTENDS CoordinatorProperties

VARIABLE dataAge  \* history: ticks since coordinator.data was read from the charger

ageVars == <<vars, dataAge>>

AInit == Init /\ dataAge = 0

\* Data is as old as its read when it is published, and a failed poll makes it no younger.
ANext ==
    \/ Tick /\ dataAge' = AtMost(dataAge + 1, MaxAge)
    \/ (ReadSucceeds \/ RestoreEnds) /\ dataAge' = IF poll' = "idle" THEN age' ELSE dataAge
    \/ (ShutDown \/ \E kind \in FailureKinds : SetUpFails(kind)) /\ dataAge' = 0
    \/ /\ \/ SetUp \/ ScheduledRefresh \/ RequestedRefresh
          \/ \E kind \in FailureKinds : ReadFails(kind)
          \/ \E button \in Buttons : Press(button)
          \/ ChargerChanges
       /\ UNCHANGED dataAge

ASpec == AInit /\ [][ANext]_ageVars /\ Fairness

-------------------------------------------------------------------------------
Larger(m, n) == IF m > n THEN m ELSE n

\* The longest a poll may take to replace the data of the one before: a scan interval, its
\* own request and two restores.
PollCycle == ScanInterval + 3 * RequestTimeout

\* How old the data may be when a failure is tolerated: below the tolerance, or, for the
\* first failure, whatever age a poll cycle has brought it to.
StaleBound == Larger(TOLERATED_FAILURE_SECONDS - 1, PollCycle) + PollCycle

\* Entities never show data as available for longer than until the poll after the last
\* failure that may be tolerated has replaced it, that poll's restores included
\* (__init__.py:237-265), when reads fail by timeouts and lost links.  With a scan interval
\* above the tolerance this is more than the tolerance allows: a first failure is tolerated
\* at any age.
FreshWhenAvailable == entry = "loaded" /\ lastUpdateSuccess => dataAge <= StaleBound
===============================================================================
