------------------------------- MODULE Entities -------------------------------
(***************************************************************************)
(* What the entities show of the coordinator's data (sensor.py,            *)
(* binary_sensor.py, switch.py, number.py, const.py).  An entity has no    *)
(* state of its own: its value is computed from the data whenever the      *)
(* coordinator publishes.  Several read the same register, each with a     *)
(* table or a comparison of its own.  A text stands for its translation    *)
(* key; a status is that of coordinator.data.                              *)
(***************************************************************************)
EXTENDS Coordinator, SequencesExt

CHARGING_STATES == <<"A", "B1", "B2", "C1", "C2", "D/F">>

\* Mutant: a state that is not documented is named as the lock's is.
charging_state_Lower(d) ==
    IF d.state < Len(CHARGING_STATES) THEN CHARGING_STATES[d.state + 1] ELSE "unknown"

charging_state(d) ==
    IF d.state < Len(CHARGING_STATES) THEN CHARGING_STATES[d.state + 1] ELSE "Unknown"

SOCKET_LOCK_STATES ==
    [value \in {0, 1, 17, 257, 273} |->
        CASE value = 0   -> "no_cable_plugged"
          [] value = 1   -> "cable_connected_unlocked"
          [] value = 17  -> "cable_connected_locked"
          [] value = 257 -> "cable_ev_connected_unlocked"
          [] value = 273 -> "cable_ev_connected_locked"]

socket_lock_state(d) ==
    IF d.lock \in DOMAIN SOCKET_LOCK_STATES THEN SOCKET_LOCK_STATES[d.lock] ELSE "unknown"

vehicle_connected(d) == d.lock # 0

is_charging(d) == d.state = 4

\* Mutant: only the first of the two locked states counts.
lock_is_on_OneState(d) == d.lock = 17

lock_is_on(d) == d.lock \in {17, 273}

-------------------------------------------------------------------------------
\* Numbers: the two limits have the same range.

native_max_value(d) == IF d.userMax = 0 THEN 32 ELSE UserMax(d)
OutOfRange(l, d) == Reading(l, d) > native_max_value(d)

-------------------------------------------------------------------------------
\* Errors.  A documented error is known by its value, one bit of the register.

ERROR_BITS == {2, 4, 8, 16, 32, 64, 128, 1024, 2048, 4096, 8192, 16384}

BitSet(code, value) == (code \div value) % 2 = 1

\* The mask of documented bits, which the code collects while it reads the table.
known_mask(keys) ==
    LET bit(value) == IF value \in keys THEN value ELSE 0
    IN  bit(2) + bit(4) + bit(8) + bit(16) + bit(32) + bit(64) + bit(128)
        + bit(1024) + bit(2048) + bit(4096) + bit(8192) + bit(16384)

\* Mutant: an error is recognised only when it is alone.
decode_error_bits_Exact(code) ==
    LET keys == {value \in ERROR_BITS : code = value}
    IN  [keys |-> keys, unknown |-> code - known_mask(keys)]

\* The documented bits that are set, and a mask of the others.
decode_error_bits(code) ==
    LET keys == {value \in ERROR_BITS : BitSet(code, value)}
    IN  [keys |-> keys, unknown |-> code - known_mask(keys)]

\* The error shown, the lowest bit: 0 stands for "no_error", None for "unknown".
error_code(d) ==
    LET keys == decode_error_bits(d.error).keys
    IN  CASE d.error = 0 -> 0
          [] d.error # 0 /\ keys # {} -> Min(keys)
          [] OTHER -> None
===============================================================================
