--------------------------- MODULE MCVirtualStack ---------------------------
(* VirtualStack on two values: operations that tell their operands apart. *)
EXTENDS VirtualStack

MCResult(op, a, b) ==
  CASE op = "add" -> (a + b) % 2
    [] op = "shl" -> IF b = 0 THEN a ELSE 0

MCNegated(a) == 1 - a

=============================================================================
