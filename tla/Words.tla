-------------------------------- MODULE Words --------------------------------
(***************************************************************************)
(* Machine words of the IR and of RV64, with a byte of BYTE bits.  The     *)
(* program runs with BYTE = 8; the ratios between the types (a doubleword  *)
(* of eight bytes, a word of four) are kept for every BYTE, so BYTE = 1    *)
(* gives a machine of 8-bit registers and 4-bit ints with the same shape.  *)
(*                                                                         *)
(* An integer word is held as its signed value.  A floating point word is  *)
(* sign and magnitude: its top bit is the sign, the rest an integer        *)
(* magnitude that saturates, which keeps the sign-bit and width mistakes   *)
(* visible while the arithmetic stays exact.                               *)
(***************************************************************************)
EXTENDS Integers, Bitwise

CONSTANT BYTE       \* bits of a byte
ASSUME ByteAssumption == BYTE \in Nat \ {0}

XLEN == 8 * BYTE    \* a register, int64_t, double, a pointer
WLEN == 4 * BYTE    \* int32_t, float

Unsigned(v, w) == v % 2^w

\* The signed reading of the low w bits of v: what a store into an intN_t keeps.
Wrap(v, w) ==
    LET m == v % 2^w IN IF m >= 2^(w - 1) THEN m - 2^w ELSE m

MinSigned(w) == -(2^(w - 1))
MaxSigned(w) == 2^(w - 1) - 1
Signed(w) == MinSigned(w) .. MaxSigned(w)

Abs(v) == IF v < 0 THEN -v ELSE v

\* C++ division truncates towards zero, TLA+ division rounds down.
Quotient(a, b) ==
    LET q == Abs(a) \div Abs(b) IN IF (a < 0) = (b < 0) THEN q ELSE -q
Remainder(a, b) == a - b * Quotient(a, b)

BitAnd(a, b, w) == Wrap(Unsigned(a, w) & Unsigned(b, w), w)
BitOr(a, b, w)  == Wrap(Unsigned(a, w) | Unsigned(b, w), w)
BitXor(a, b, w) == Wrap(Unsigned(a, w) ^^ Unsigned(b, w), w)

ShiftLeft(a, n, w)         == Wrap(a * 2^n, w)
ShiftRightLogical(a, n, w) == Wrap(Unsigned(a, w) \div 2^n, w)
ShiftRightArith(a, n)      == a \div 2^n

Bool(b) == IF b THEN 1 ELSE 0

\* Floating point words: the value of a bit pattern, and the pattern of a value.
Magnitude(w) == 2^(w - 1) - 1
Saturate(v, w) ==
    IF v > Magnitude(w) THEN Magnitude(w)
    ELSE IF v < -Magnitude(w) THEN -Magnitude(w) ELSE v
FloatValue(bits, w) ==
    IF bits >= 2^(w - 1) THEN -(bits - 2^(w - 1)) ELSE bits
FloatBits(v, w) ==
    LET s == Saturate(v, w) IN IF s < 0 THEN 2^(w - 1) - s ELSE s

\* Little-endian bytes of an unsigned value, and back: the memory of both machines.
BytesOf(v, n) == [k \in 0 .. n - 1 |-> (v \div 2^(BYTE * k)) % 2^BYTE]
FromBytes(mem, addr, n) ==
    LET sum[k \in 0 .. n] ==
            IF k = 0 THEN 0
            ELSE sum[k - 1] + mem[addr + k - 1] * 2^(BYTE * (k - 1))
    IN  sum[n]
PutBytes(mem, addr, v, n) ==
    [a \in DOMAIN mem |-> IF a \in addr .. addr + n - 1
                          THEN BytesOf(v, n)[a - addr] ELSE mem[a]]
=============================================================================
