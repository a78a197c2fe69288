------------------------------ MODULE MCRuntime ------------------------------
(***************************************************************************)
(* Runtime for TLC: bytes of two bits, so ints of 8 and registers of 16.   *)
(***************************************************************************)
EXTENDS Runtime

(* 64 and 2 overflow an int when multiplied, and then a size of 16 bits.   *)
IntConstants == {-1, 2, 64}

(* The least long and -1 overflow when divided. *)
LongConstants == {-32768, -1, 3}

=============================================================================
