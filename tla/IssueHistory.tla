----------------------------- MODULE IssueHistory -----------------------------
(***************************************************************************)
(* The entry's life with a note of who spoke last about its issues.  A     *)
(* poll that an unload has left behind makes and deletes the same issues,  *)
(* on what it has read: what they say is the coordinator's own word only   *)
(* from its next good read on, or from the next unload.                    *)
(***************************************************************************)
EXTENDS CommandsProperties

VARIABLE touched  \* history: an earlier coordinator's poll has changed an issue since then

issueVars == <<lifecycleVars, touched>>

OldPollTells == OldPollMoves /\ <<repair, scanIssue>>' # <<repair, scanIssue>>

IInit == LInit /\ touched = FALSE

INext ==
    /\ LNext
    /\ touched' = CASE ReadSucceeds \/ UnloadEntry -> FALSE
                    [] OldPollTells -> TRUE
                    [] OTHER -> touched

ISpec == IInit /\ [][INext]_issueVars /\ LFairness

-------------------------------------------------------------------------------
\* An open limit issue tells the truth about the published data: the limit is
\* still invalid, or it is the charging current limit with no maximum to judge it
\* by.  Issues survive reloads, restores race with calls that set the same limit, and what
\* an earlier coordinator's poll has said is corrected by the first good read after it.
IssueMeansInvalid ==
    ~touched => \A l \in Limits : Published /\ repair[l].issue => ~Valid(l, data)

\* The scan interval issue is open exactly while the loaded entry polls too slowly
\* for the communication timeout last read, and goes with the entry: unless a poll left of
\* an earlier coordinator opens or deletes it afterwards (the run late_issue).
ScanIssueTracksTimeout ==
    ~touched =>
        /\ Published => (scanIssue <=> data.timeout \in 1..ScanInterval)
        /\ entry = "not_loaded" => ~scanIssue
===============================================================================
