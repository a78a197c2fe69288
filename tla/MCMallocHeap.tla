---------------------------- MODULE MCMallocHeap ----------------------------
(***************************************************************************)
(* MallocHeap for TLC: the property no proof reaches, that calls return.   *)
(***************************************************************************)
EXTENDS MallocHeap

(***************************************************************************)
(* Every call returns (or the process stops): the search ends and the loop *)
(* that takes chunk after chunk from sbrk ends, also when a request needs  *)
(* several chunks or can never be met.                                     *)
(***************************************************************************)
EveryCallReturns ==
  \A t \in Threads : (pc[t] # "idle") ~> (pc[t] = "idle" \/ ~Running)

=============================================================================
