------------------------ MODULE CoordinatorProperties ------------------------
(***************************************************************************)
(* What the coordinator must guarantee, whatever the charger, the user and *)
(* the event loop do.                                                      *)
(***************************************************************************)
EXTENDS Coordinator, StatusBlock

Repair == [lastValid : Nat \cup {None}, fixAttempted : BOOLEAN, issue : BOOLEAN]

\* Every variable has its type; a poll holds a status exactly while it waits for a
\* restore to be answered; there is data exactly while the entry is loaded, and no
\* poll while it is not.
TypeOK ==
    /\ charger \in Status
    /\ entry \in {"not_loaded", "setting_up", "loaded"}
    /\ poll \in {"idle", "reading"} \cup Limits /\ (entry = "not_loaded" => poll = "idle")
    /\ polled \in Status \cup {None} /\ (polled # None <=> poll \in Limits)
    /\ timer \in Nat
    /\ age \in 0..MaxAge
    /\ failedPolls \in 0..2
    /\ data \in Status \cup {None} /\ (data # None <=> entry = "loaded")
    /\ lastUpdateSuccess \in BOOLEAN /\ isAvailable \in BOOLEAN
    /\ lastCommand \in LastCommands
    /\ state5Polls \in 0..(STATE_5_TRANSITION_POLLS + 1)
    /\ sessionWasActive \in BOOLEAN
    /\ repair \in [Limits -> Repair]
    /\ scanIssue \in BOOLEAN

\* The published data is that of the last finished poll, with no poll half done.
Published == entry = "loaded" /\ poll \notin Limits

-------------------------------------------------------------------------------
\* Availability.

\* _is_available, which decides what is logged, agrees with what the entities
\* show: there is a "became unavailable" line for each outage the user sees.
AvailabilityAgrees == entry = "loaded" => isAvailable = lastUpdateSuccess

\* Entities that became unavailable come back only with a poll that succeeded,
\* never with a failure that is tolerated again (__init__.py:238-252).
ComesBack == /\ entry = "loaded" /\ ~lastUpdateSuccess
             /\ entry' = "loaded" /\ lastUpdateSuccess'

OutageEndsWithGoodPoll == [][ComesBack => failedPolls' = 0]_vars

\* No failed poll is tolerated once the last good one is as old as the tolerance
\* (README: "keep the previous values for up to 90 s").
KeptOnlyWithinTolerance ==
    [][entry = "loaded" /\ poll = "reading" /\ poll' = "idle" /\ failedPolls' # 0
       /\ entry' = "loaded" /\ lastUpdateSuccess' => age < TOLERATED_FAILURE_SECONDS]_vars

\* A charger that never answers again ends up unavailable, and stays so: the
\* tolerance of failures does not renew itself.
SilenceGoesUnavailable ==
    <>[](entry = "loaded" /\ failedPolls > 0) => <>[](~lastUpdateSuccess)

-------------------------------------------------------------------------------
\* Limits and issues.

\* What a restore writes is itself valid.  True as long as the user's maximum does
\* not change under the coordinator.
RestoreWithinMax ==
    poll \in Limits => RestoreValue(polled, repair[poll]) <= UserMax(polled)

\* A limit of this many amperes fits its registers, and a poll reads it back as the same.
ReadsBack(l, amps) ==
    IF l = "fallback" THEN amps \in Word
    ELSE LET words == CurrentLimitWords(1000 * amps)
         IN  words # <<>> /\ decode_32bit_value(words[1], words[2]) = 1000 * amps

\* What a restore writes fits the limit's registers, and a poll reads it back as the same
\* limit: it is neither refused by the device library nor written with its words in the
\* wrong order (device.py:193-207), also when it is remembered from a maximum that has
\* changed since.
RestoreReadsBack == poll \in Limits => ReadsBack(poll, RestoreValue(polled, repair[poll]))

\* An invalid limit that was not restored has its issue (__init__.py:182).
InvalidIsReported ==
    \A l \in Limits : Published /\ Invalid(l, data) => repair[l].issue

\* Each limit is repaired as LimitRepair promises, its notice included: restored once per
\* loss of validity, and the user told exactly when that was not accepted (__init__.py:325-386).
\* The notice is that of a coordinator with no poll of an earlier one beside it.

\* Where the coordinator last saw limit l: in the data, or in what the poll in flight has
\* read, once the poll has come to that limit.
SeenIn(l) == IF poll = l \/ poll = "current" THEN polled ELSE data
Amps(l) == IF SeenIn(l) = None THEN None ELSE Reading(l, SeenIn(l))
MaxSeen(l) == IF SeenIn(l) = None THEN None ELSE UserMax(SeenIn(l))

Stage(l) == CASE poll = l -> "restoring"
              [] poll # l /\ repair[l].fixAttempted -> "spent"
              [] OTHER -> "trusted"

FallbackRepair == INSTANCE LimitRepair
                  WITH JudgedAlways <- TRUE,
                       amps <- Amps("fallback"), max <- MaxSeen("fallback"),
                       good <- repair["fallback"].lastValid, stage <- Stage("fallback"),
                       issue <- repair["fallback"].issue
CurrentRepair == INSTANCE LimitRepair
                 WITH JudgedAlways <- FALSE,
                      amps <- Amps("current"), max <- MaxSeen("current"),
                      good <- repair["current"].lastValid, stage <- Stage("current"),
                      issue <- repair["current"].issue

FallbackRepairSpec == FallbackRepair!RepairSpec
CurrentRepairSpec == CurrentRepair!RepairSpec

-------------------------------------------------------------------------------
\* The session.

\* A session that never leaves state 5 with a usable limit is not shown as active
\* for ever (session_state.py:41-43), while polls keep succeeding.
StuckInTransition ==
    /\ entry = "loaded" /\ lastCommand # "stop"
    /\ charger.state = 5 /\ charger.current >= PAUSE_CURRENT_THRESHOLD

StuckStateFiveSurfaces ==
    <>[]StuckInTransition /\ []<>(age = 0) => <>[](session_state # "active")
===============================================================================
