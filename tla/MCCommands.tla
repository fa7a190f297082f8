------------------------------ MODULE MCCommands ------------------------------
(***************************************************************************)
(* Two service calls at a time against a charger with a vehicle that waits *)
(* (B1) or charges, with the entry unloaded and set up again meanwhile.    *)
(***************************************************************************)
EXTENDS CommandsProperties

Waiting == [state |-> 1, reduced |-> FALSE, lock |-> 1, error |-> 0, userMax |-> 16000,
            current |-> 16000, fallback |-> 10, timeout |-> 0, phase |-> 0]

WaitingOrCharging == {Waiting, [Waiting EXCEPT !.state = 4]}

StartStop == {[kind |-> "start", value |-> 0], [kind |-> "stop", value |-> 0]}
===============================================================================
