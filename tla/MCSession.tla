------------------------------- MODULE MCSession -------------------------------
(***************************************************************************)
(* Sessions of a vehicle as the polls may sample them, with the buttons    *)
(* pressed in between.  Time is as coarse as it can be.                    *)
(***************************************************************************)
EXTENDS SessionHistory, EntitiesProperties

At(state, lock, current, phase) ==
    [state |-> state, reduced |-> FALSE, lock |-> lock, error |-> 0, userMax |-> 16000,
     current |-> current, fallback |-> 10, timeout |-> 0, phase |-> phase]

\* Idle; B1 with a pausing limit, and unplugged already; complete, with the firmware's
\* reset limit, whose restore stretches the poll; charging; paused with either limit, or
\* with current flowing; a state that is not documented.  The lock takes each of its
\* values, and one that is not documented, as the errors do.
MCStatuses ==
    {At(0, 1, 16000, 0), At(1, 273, 0, 0), At(1, 0, 0, 0),
     [At(2, 257, 32000, 0) EXCEPT !.error = 65535], At(4, 273, 16000, 16000),
     [At(5, 17, 16000, 0) EXCEPT !.error = 6], [At(5, 273, 0, 0) EXCEPT !.error = 32769],
     [At(5, 256, 16000, 7000) EXCEPT !.error = 256],
     At(6, 273, 16000, 0)}
===============================================================================
