---------------------------- MODULE StatusBlock ----------------------------
(***************************************************************************)
(* The registers of the charger and what the device library (api/device.py)*)
(* makes of them: the 37 registers of the status block, of which the       *)
(* coordinator's part is decoded here, and the words written.              *)
(***************************************************************************)
EXTENDS Naturals

Word == {n \in Nat : n < 65536}
Block == [0..36 -> Word]

\* Two registers, the high word first.
decode_32bit_value(high, low) == 65536 * high + low

Pair(registers, i) == decode_32bit_value(registers[i], registers[i + 1])

Largest(a, b) == IF a < b THEN b ELSE a

\* Byte 1 of the state is the high byte of register 13; its bit 7, a flag of its own, is
\* no part of the state.
high_byte(registers) == registers[13] \div 256

\* What the coordinator and the entities read of a block, in the registers' units; of the
\* three phase currents the session state uses the largest.
decode_status_block(registers) ==
    [state    |-> high_byte(registers) % 128,
     reduced  |-> high_byte(registers) >= 128,
     error    |-> Pair(registers, 8),
     lock     |-> Pair(registers, 10),
     userMax  |-> Pair(registers, 6),
     current  |-> Pair(registers, 34),
     fallback |-> registers[36],
     timeout  |-> registers[32],
     phase    |-> Largest(Pair(registers, 16), Largest(Pair(registers, 18), Pair(registers, 20)))]

\* mA <= MAX_CURRENT_LIMIT_MA, without that number of 32 bits.
FitsRegisters(mA) == mA \div 65536 <= 65535

\* Mutant: the words are swapped.
CurrentLimitWords_Swapped(mA) ==
    IF FitsRegisters(mA) THEN <<mA % 65536, mA \div 65536>> ELSE <<>>

\* async_set_current_limit: the words written to 4100h, or none when it raises ValueError.
CurrentLimitWords(mA) ==
    IF FitsRegisters(mA) THEN <<mA \div 65536, mA % 65536>> ELSE <<>>
=============================================================================
