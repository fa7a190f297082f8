------------------------- MODULE EntitiesProperties -------------------------
(***************************************************************************)
(* What the entities must show together, whatever the registers hold.      *)
(***************************************************************************)
EXTENDS Entities, CoordinatorProperties

\* An enum sensor never computes a value that is not one of its options, which Home
\* Assistant would refuse in the middle of the update (sensor.py:101, 212, 257), also
\* for register values that no table documents.
ShownAreOptions ==
    data # None =>
        /\ charging_state(data) \in ToSet(CHARGING_STATES) \cup {"Unknown"}
        /\ socket_lock_state(data) \in Range(SOCKET_LOCK_STATES) \cup {"unknown"}
        /\ error_code(data) \in ERROR_BITS \cup {0, None}
        /\ session_state \in SessionStates

Locked == {"cable_connected_locked", "cable_ev_connected_locked"}

\* Entities that read one register through tables of their own agree: the lock switch
\* with the lock sensor (switch.py:63-72, const.py:46-52), the cable the session state
\* goes by with the cable shown (session_state.py:46-48), and the charging sensors and
\* the session state with the charging state (binary_sensor.py:54-57).
EntitiesAgree ==
    data # None =>
        /\ lock_is_on(data) <=> socket_lock_state(data) \in Locked
        /\ vehicle_connected(data) <=> socket_lock_state(data) # "no_cable_plugged"
        /\ is_charging(data) => charging_state(data) = "C2" /\ session_state = "active"
        /\ charging_state(data) = "B2" <=> session_state = "completed"
        /\ charging_state(data) = "Unknown" => session_state = "unknown"

\* A limit beyond the range of its number entity has been restored or given up on,
\* although the range and the repair compute the maximum separately (number.py:76,
\* __init__.py:315).  With one exception, where they do differ: while the maximum reads
\* below 1 A the charging current limit is not judged (__init__.py:358, 362), so that a
\* limit of 40 A stays as it is beside a range that ends at 32 A for a maximum of 0, or at
\* 0 A for one of less than 1 A.
OutOfRangeIsAttempted ==
    \A l \in Limits :
        Published /\ OutOfRange(l, data) /\ (l = "current" => UserMax(data) > 0)
            => repair[l].fixAttempted

\* However many errors are reported at once, each documented one is listed and what is
\* left over has no documented bit (const.py:72-90).
ErrorsAreSplit ==
    data # None =>
        LET split == decode_error_bits(data.error)
        IN  \A value \in ERROR_BITS :
              /\ BitSet(data.error, value) <=> value \in split.keys
              /\ ~BitSet(split.unknown, value)
===============================================================================
