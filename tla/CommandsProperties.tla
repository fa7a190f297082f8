-------------------------- MODULE CommandsProperties --------------------------
(***************************************************************************)
(* What concurrent service calls and polls must guarantee together.        *)
(***************************************************************************)
EXTENDS EntryLifecycle, EntitiesProperties, FiniteSets

Places(who) == {i \in DOMAIN wire : wire[i] = who}

OnWireOnce(who, waits) == Cardinality(Places(who)) = IF waits THEN 1 ELSE 0

\* A coordinator has at most one poll under way, and whoever waits for an answer has
\* exactly one request on the wire, through unloads too; the debouncer's lock is held by
\* the one whose refresh runs, never by a call of the coordinator before; it cools down
\* only with the lock free, and puts off a refresh only while it does.
RefreshesAreExclusive ==
    /\ OnWireOnce("poll", poll # "idle") /\ OnWireOnce("old", old.poll # "idle")
    /\ poll # "idle" => refresher # None
    /\ \A t \in Tasks :
         /\ OnWireOnce(t, task[t].at = "writing")
         /\ refresher = t <=> task[t].at = "refreshing" /\ t \notin old.calls
    /\ old.calls \subseteq {t \in Tasks : task[t] # Idle}
    /\ cooling => refresher = None
    /\ pending => cooling

\* Shown as last command, a start is the session command written last: no stop was
\* sent after it (button.py:66, 90).
StartIsLastIssued == lastCommand = "start" => lastIssued = "start"

\* The last command shown is the session command written last, "none" aside
\* (sensor.py:157: "Last start/stop command issued from Home Assistant").
LastCommandIsLastIssued == lastCommand # "none" => lastCommand = lastIssued

\* Neither the coordinator nor the poll that one before it has left behind writes a limit
\* above the maximum, each by a memory of its own, while users set the limits too.  True as
\* long as the maximum does not change.
RestoresWithinMax ==
    /\ RestoreWithinMax
    /\ old.poll \in Limits =>
         RestoreValue(old.polled, old.memory[old.poll]) <= UserMax(old.polled)

\* What either of them restores fits the limit's registers and is read back as itself,
\* although users set limits beside it and it may be remembered from another maximum.
RestoresReadBack ==
    /\ RestoreReadsBack
    /\ old.poll \in Limits =>
         ReadsBack(old.poll, RestoreValue(old.polled, old.memory[old.poll]))

\* However users set the limits meanwhile, the coordinator still restores a limit once per
\* loss of validity, to the same value, and every restore is answered: the steps of
\* LimitRestore.  The notices are left out of it, which a poll of the coordinator before may
\* open and close too.
FallbackAttempts == INSTANCE LimitRestore
                    WITH JudgedAlways <- TRUE,
                         amps <- Amps("fallback"), max <- MaxSeen("fallback"),
                         good <- repair["fallback"].lastValid, stage <- Stage("fallback")
CurrentAttempts == INSTANCE LimitRestore
                   WITH JudgedAlways <- FALSE,
                        amps <- Amps("current"), max <- MaxSeen("current"),
                        good <- repair["current"].lastValid, stage <- Stage("current")
CurrentAttemptsSpec == CurrentAttempts!Spec

\* Every call returns: no call waits for ever for an answer, for the debouncer, or
\* for a poll that nobody runs; not those either whose entry was unloaded meanwhile.
EveryCallReturns == \A t \in Tasks : (task[t] # Idle) ~> (task[t] = Idle)

\* Once the charger's registers stay as they are and no read fails any more, what is
\* shown is what the charger holds: although refreshes are put off and dropped, a poll
\* may have read before a write that its call then asks no other poll for, and a restore
\* may have overwritten what the user set meanwhile.  So do the issues tell the truth,
\* which a poll of the coordinator before may have opened or closed again on what it had
\* read, after the unload or beside the new coordinator's polls.
ShownConverges ==
    <>[][charger' = charger]_lifecycleVars /\ <>[](entry = "loaded" /\ lastUpdateSuccess)
        => <>[](/\ data = charger
                /\ scanIssue <=> charger.timeout \in 1..ScanInterval
                /\ \A l \in Limits : repair[l].issue => Invalid(l, charger))

\* The scan interval issue "is removed when the entry unloads" (tests/test_init.py:308).
IssueGoesWithEntry == entry = "not_loaded" => ~scanIssue
===============================================================================
