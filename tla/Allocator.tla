----------------------------- MODULE Allocator -----------------------------
(***************************************************************************)
(* What a heap allocator promises its clients, without saying how: memory  *)
(* once taken from the operating system is kept, each allocation is a      *)
(* region of it that nobody else holds, and only the free of a region      *)
(* takes it from its holder.                                               *)
(***************************************************************************)
EXTENDS Integers

VARIABLES
  owned,   \* the words taken from the operating system
  regions  \* the allocations: records with a first word ptr and a length len

Words(r) == r.ptr .. r.ptr + r.len - 1

Disjoint(r, s) == Words(r) \cap Words(s) = {}

Init == owned # {} /\ regions = {}

Allocate ==
  /\ \E r \in regions' \ regions :
       /\ regions' = regions \cup {r}
       /\ Words(r) \subseteq owned
       /\ \A s \in regions : Disjoint(r, s)
  /\ owned' = owned

Release ==
  /\ \E r \in regions : regions' = regions \ {r}
  /\ owned' = owned

Extend == owned \subseteq owned' /\ regions' = regions

Next == Allocate \/ Release \/ Extend

Spec == Init /\ [][Next]_<<owned, regions>>

=============================================================================
