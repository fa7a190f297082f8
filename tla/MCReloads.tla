------------------------------- MODULE MCReloads -------------------------------
(***************************************************************************)
(* Service calls, one at a time, against a charger whose firmware resets   *)
(* its limits, with the entry unloaded and set up again meanwhile.         *)
(***************************************************************************)
EXTENDS IssueHistory

Good == [state |-> 1, reduced |-> FALSE, lock |-> 1, error |-> 0, userMax |-> 16000,
         current |-> 16000, fallback |-> 10, timeout |-> 0, phase |-> 0]

\* The reset loses both limits, so that a poll restores one after the other.  The reset has
\* no communication timeout; the charger that kept its limits has one as long as the scan
\* interval, or a longer one.
GoodOrReset ==
    {[Good EXCEPT !.timeout = 1], [Good EXCEPT !.timeout = 2],
     [Good EXCEPT !.current = 32000, !.fallback = 255]}

LimitOnly == {[kind |-> "limit", value |-> 10]}
===============================================================================
