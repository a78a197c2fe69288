-------------------------------- MODULE Words --------------------------------
(***************************************************************************)
(* Numbers of a fixed width, as the generated code and the runtime keep    *)
(* them.  A byte has ByteBits bits, an int 4 bytes and a register 8, so    *)
(* that a small byte scales everything down.                               *)
(***************************************************************************)
EXTENDS Integers

CONSTANT ByteBits   \* 8 in the program

ASSUME ByteAssumption == ByteBits \in Nat \ {0}

Pow2[n \in Nat] == IF n = 0 THEN 1 ELSE 2 * Pow2[n - 1]

Moduli == [n \in 0 .. 8 |-> Pow2[ByteBits * n]]

Modulus(n) == Moduli[n]

(* What n bytes that hold x say, read as an unsigned or a signed number. *)
Unsigned(x, n) == x % Modulus(n)
Signed(x, n) ==
  LET u == Unsigned(x, n) IN IF 2 * u < Modulus(n) THEN u ELSE u - Modulus(n)

IntMax == (Modulus(4) \div 2) - 1

(* idivq's quotient is rounded towards zero. *)
Quotient(x, y) ==
  LET q == (IF x < 0 THEN 0 - x ELSE x) \div (IF y < 0 THEN 0 - y ELSE y)
  IN IF (x < 0) = (y < 0) THEN q ELSE 0 - q

(* A bit of a number, and of the result of an operation on two bits. *)
Bit(x, i) == (x \div Pow2[i]) % 2

BitOf(op, a, b) ==
  CASE op = "and" -> IF a = 1 /\ b = 1 THEN 1 ELSE 0
    [] op = "or"  -> IF a = 1 \/ b = 1 THEN 1 ELSE 0
    [] op = "xor" -> IF a # b THEN 1 ELSE 0

(* The operation on the lowest bits of two numbers. *)
Bitwise(op, x, y, bits) ==
  LET low[n \in 0 .. bits] ==
        IF n = 0 THEN 0 ELSE low[n - 1] + Pow2[n - 1] * BitOf(op, Bit(x, n - 1), Bit(y, n - 1))
  IN low[bits]

BitwiseOps == {"and", "or", "xor"}

(* A two-operand instruction on registers of n bytes. *)
Computed(op, x, y, n) ==
  CASE op = "add" -> Signed(x + y, n)
    [] op = "sub" -> Signed(x - y, n)
    [] op = "mul" -> Signed(x * y, n)
    [] op \in BitwiseOps -> Signed(Bitwise(op, x, y, ByteBits * n), n)

=============================================================================
