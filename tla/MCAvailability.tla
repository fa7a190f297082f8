---------------------------- MODULE MCAvailability ----------------------------
(***************************************************************************)
(* The coordinator against a charger that stops answering, with the real   *)
(* defaults at one tick for 3 s: a poll every 15 s, answered within 3 s,   *)
(* failures tolerated for 90 s.                                            *)
(***************************************************************************)
EXTENDS AgeHistory

Healthy == [state |-> 5, reduced |-> FALSE, lock |-> 1, error |-> 0, userMax |-> 16000,
            current |-> 16000, fallback |-> 10, timeout |-> 0, phase |-> 0]

\* One charger whose limits are fine and one that was reset by its firmware: its
\* restores stretch the poll.  Both are stuck where a session starts.
MCStatuses == {Healthy, [Healthy EXCEPT !.current = 32000, !.fallback = 255]}
===============================================================================
