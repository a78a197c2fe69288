--------------------------- MODULE FreelistVerify ---------------------------
(***************************************************************************)
(* verify_freelist: over every list, detect_cycles (Floyd's tortoise and   *)
(* hare, where the hare may jump over the sentinel it is to stop at), then *)
(* verify_pointers.  The links are any links: the function is there for    *)
(* heaps its client has damaged.                                           *)
(***************************************************************************)
EXTENDS Integers

CONSTANTS
  NLists,  \* how many lists there are
  NULL,
  Blocks   \* the blocks that may be linked

Heads == 0 .. NLists - 1   \* &freelistSentinels[i]
Nodes == Heads \cup Blocks

ASSUME BlocksAssumption ==
  NLists \in Nat \ {0} /\ NULL \notin Nodes /\ Blocks \cap Heads = {}

VARIABLES
  next, prev,  \* the links
  phase,       \* "cycles", "pointers" or "done"
  i,           \* the list under scrutiny
  slow, fast,  \* detect_cycles
  cur,         \* verify_pointers
  result       \* what verify_freelist returned

vars == <<next, prev, phase, i, slow, fast, cur, result>>

Init ==
  /\ next \in [Nodes -> Nodes]
  /\ prev \in [Nodes -> Nodes]
  /\ phase = "cycles" /\ i = 0
  /\ slow = next[0] /\ fast = next[next[0]]
  /\ cur = NULL /\ result = NULL

Return(b) ==
  /\ phase' = "done" /\ result' = b
  /\ UNCHANGED <<next, prev, i, slow, fast, cur>>

(* Mutated form: the hare takes one step. *)
HareStepsOne ==
  /\ phase = "cycles" /\ fast # i /\ slow # fast
  /\ slow' = next[slow]
  /\ fast' = next[fast]
  /\ UNCHANGED <<next, prev, phase, i, cur, result>>

HareStep ==
  /\ phase = "cycles" /\ fast # i /\ slow # fast
  /\ slow' = next[slow]
  /\ fast' = next[next[fast]]
  /\ UNCHANGED <<next, prev, phase, i, cur, result>>

CycleFound == phase = "cycles" /\ fast # i /\ slow = fast /\ Return(FALSE)

(* The hare is at the sentinel: the next list, or the second pass. *)
NextCycleList ==
  /\ phase = "cycles" /\ fast = i
  /\ IF i + 1 < NLists
     THEN /\ i' = i + 1
          /\ slow' = next[i + 1] /\ fast' = next[next[i + 1]]
          /\ UNCHANGED <<phase, cur>>
     ELSE /\ phase' = "pointers" /\ i' = 0 /\ cur' = next[0]
          /\ UNCHANGED <<slow, fast>>
  /\ UNCHANGED <<next, prev, result>>

(* Mutated form: only the link back from the next node is tested. *)
AgreesForward(n) == prev[next[n]] = n

Agrees(n) == prev[next[n]] = n /\ next[prev[n]] = n

PointerStep ==
  /\ phase = "pointers" /\ cur # i /\ Agrees(cur)
  /\ cur' = next[cur]
  /\ UNCHANGED <<next, prev, phase, i, slow, fast, result>>

PointerWrong == phase = "pointers" /\ cur # i /\ ~Agrees(cur) /\ Return(FALSE)

NextPointerList ==
  /\ phase = "pointers" /\ cur = i
  /\ IF i + 1 < NLists
     THEN /\ i' = i + 1 /\ cur' = next[i + 1]
          /\ UNCHANGED <<next, prev, phase, slow, fast, result>>
     ELSE Return(TRUE)

Next ==
  \/ HareStep \/ CycleFound \/ NextCycleList
  \/ PointerStep \/ PointerWrong \/ NextPointerList
  \/ phase = "done" /\ UNCHANGED vars

Spec == Init /\ [][Next]_vars /\ WF_vars(Next)

-----------------------------------------------------------------------------
(* The nodes met from a node on, itself included: the least set that holds *)
(* it and, with a node, the next one.                                      *)
Closed(S) == \A n \in S : next[n] \in S

Met(a) == {n \in Nodes : \A S \in SUBSET Nodes : a \in S /\ Closed(S) => n \in S}

Returns(h) == h \in Met(next[h])

WellLinked ==
  \A h \in Heads :
    Returns(h) /\ \A n \in Met(h) \ {h} : prev[next[n]] = n /\ next[prev[n]] = n

(***************************************************************************)
(* verify_freelist answers exactly whether the lists are sound: each walk  *)
(* from a sentinel comes back to it, and the links of every block on it    *)
(* agree in both directions.  No sound list is called a cycle although the *)
(* hare runs past the sentinel, and no damaged one is accepted.            *)
(***************************************************************************)
VerdictExact == phase = "done" => result = WellLinked

(***************************************************************************)
(* Whatever the links are, verify_freelist returns: neither pass walks a   *)
(* cycle for ever.                                                         *)
(***************************************************************************)
Terminates == <>(phase = "done")

=============================================================================
