------------------------------- MODULE MCLimits -------------------------------
(***************************************************************************)
(* The coordinator against a charger whose firmware resets limits, whose   *)
(* maximum may be lowered or unknown, and whose communication timeout      *)
(* changes.  Time is coarse: one scan interval is two ticks.               *)
(***************************************************************************)
EXTENDS EntitiesProperties

Good == [state |-> 1, reduced |-> FALSE, lock |-> 1, error |-> 0, userMax |-> 16000,
         current |-> 16000, fallback |-> 10, timeout |-> 0, phase |-> 0]

Reset == [Good EXCEPT !.current = 32000, !.fallback = 255]

\* The same maximum throughout: resets, singly and together.
FixedMaxStatuses == {Good, Reset, [Good EXCEPT !.current = 32000],
                     [Good EXCEPT !.fallback = 255]}

\* The maximum lowered below the limits, or reported as 0; a timeout set.  Errors come
\* together, and with bits that no error has.
VaryingStatuses == {Good, [Reset EXCEPT !.error = 6],
                    [Good EXCEPT !.userMax = 8000, !.timeout = 2, !.error = 26838],
                    [Good EXCEPT !.current = 32000, !.userMax = 0, !.error = 65535]}
===============================================================================
