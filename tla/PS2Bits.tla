------------------------------ MODULE PS2Bits ------------------------------
(***************************************************************************)
(* The bytes of ps2_connector.c and the operations on them, bit by bit.    *)
(* A uint8_t is the function from bit number (0 is the least significant)  *)
(* to bit, so that shifting keeps the width of the register.               *)
(***************************************************************************)
EXTENDS Integers

Bit == {0, 1}
Byte == [0..7 -> Bit]

\* The byte with the given value.
ToByte(n) == [k \in 0..7 |-> (n \div 2^k) % 2]

\* incoming_data <<= 1; incoming_data &= 0b11111110; incoming_data |= current_bit
ShiftIn(b, current_bit) == [k \in 0..7 |-> IF k = 0 THEN current_bit ELSE b[k-1]]

\* byte ^= byte >> n
XorShift(b, n) == [k \in 0..7 |-> (b[k] + (IF k + n <= 7 THEN b[k+n] ELSE 0)) % 2]

\* The folded byte's lowest bit: (-byte & 1) is the lowest bit of byte.
odd_parity_check(b) == XorShift(XorShift(XorShift(b, 4), 2), 1)[0]

\* What bit_reverse_table holds; ByteTables checks the table entry by entry.
reverse(b) == [k \in 0..7 |-> b[7-k]]

\* 1 when the byte has an odd number of ones: what a parity fold computes.
OnesParity(b) == (b[0] + b[1] + b[2] + b[3] + b[4] + b[5] + b[6] + b[7]) % 2

-----------------------------------------------------------------------------
(***************************************************************************)
(* The frame a keyboard clocks out for a byte: a low start bit, the byte   *)
(* with its lowest bit first, a parity bit that makes the number of ones   *)
(* odd, a high stop bit.                                                   *)
(***************************************************************************)
FrameLen == 11

FrameBit(b, p) ==
  CASE p = 0 -> 0
    [] p \in 1..8 -> b[p-1]
    [] p = 9 -> 1 - OnesParity(b)
    [] OTHER -> 1

=============================================================================
