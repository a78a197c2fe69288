---------------------------- MODULE ClassParser ----------------------------
(***************************************************************************)
(* ClassParser::parse reads a class file from front to back: the constant  *)
(* pool into slots, then the fields, each of which takes the next constant *)
(* pool index of a Fieldref as the key of its storage, then the methods.   *)
(*                                                                         *)
(* A class file is a record:                                               *)
(*   magic   - whether it can be read and begins with 0xCAFEBABE;          *)
(*   pool    - the constant pool's entries, one for each tag in the file;  *)
(*   fields  - the fields the class declares;                              *)
(*   methods - its methods (see Driver).                                   *)
(* An entry has a tag: "Fieldref", "Wide" for the longs and doubles that   *)
(* take two slots, "unknown" for a tag the parser has no case for, "other".*)
(* Of a Fieldref the class and the name it leads to are kept.              *)
(***************************************************************************)
EXTENDS Integers, Sequences, FiniteSets

CONSTANTS
  Images, \* the class files
  NULL    \* no entry

ASSUME PoolAssumption ==
  \A img \in Images :
    /\ Len(img.pool) \in Nat /\ DOMAIN img.pool = 1 .. Len(img.pool)
    /\ \A n \in DOMAIN img.pool : img.pool[n] # NULL
    /\ Len(img.fields) \in Nat /\ DOMAIN img.fields = 1 .. Len(img.fields)

VARIABLES
  image,        \* the class file
  stage,        \* how far the program has come
  next,         \* the entry of the file at the reading position _u
  slot,         \* i of parseConstantPool
  pool,         \* _constantPoolInfoArray
  fieldCPIs,    \* indices of Fieldrefs, in the order of the pool
  turn,         \* i of the loops of parseFields
  limit,        \* limit of parseFields
  staticVars,   \* _staticVars: the field whose storage an index leads to
  instanceVars  \* _instanceVars

parserVars == <<image, stage, next, slot, pool, fieldCPIs, turn, limit, staticVars, instanceVars>>

Wide(e) == e.tag = "Wide"

(* The slot the class file means for its n-th entry. *)
SlotOf(img, n) == n + Cardinality({k \in 1 .. n - 1 : Wide(img.pool[k])})

(* constant_pool_count, one more than the last slot. *)
PoolCount == SlotOf(image, Len(image.pool) + 1)

(* The next entry; past the last one the rest of the file is taken for one. *)
Entry == IF next \in DOMAIN image.pool THEN image.pool[next] ELSE [tag |-> "unknown"]

ParserInit ==
  /\ image \in Images
  /\ stage = "start"
  /\ next = 1 /\ slot = 1
  /\ pool = [s \in 1 .. PoolCount - 1 |-> NULL]
  /\ fieldCPIs = <<>>
  /\ turn = 0 /\ limit = 0
  /\ staticVars = <<>> /\ instanceVars = <<>>

-----------------------------------------------------------------------------
(* A file that cannot be read, or is none: parse returns NULL. *)
NotAClass ==
  /\ stage = "start" /\ ~image.magic
  /\ stage' = "noClass"
  /\ UNCHANGED <<image, next, slot, pool, fieldCPIs, turn, limit, staticVars, instanceVars>>

Open ==
  /\ stage = "start" /\ image.magic
  /\ stage' = "pool"
  /\ UNCHANGED <<image, next, slot, pool, fieldCPIs, turn, limit, staticVars, instanceVars>>

(* Mutated form: a long takes one slot. *)
OneSlot(e) == 1

SlotsTaken(e) == IF Wide(e) THEN 2 ELSE 1

ReadEntry ==
  /\ stage = "pool" /\ slot < PoolCount /\ Entry.tag # "unknown"
  /\ pool' = [pool EXCEPT ![slot] = Entry]
  /\ fieldCPIs' = IF Entry.tag = "Fieldref" THEN Append(fieldCPIs, slot) ELSE fieldCPIs
  /\ slot' = slot + SlotsTaken(Entry)
  /\ next' = next + 1
  /\ UNCHANGED <<image, stage, turn, limit, staticVars, instanceVars>>

TagNotFound ==
  /\ stage = "pool" /\ slot < PoolCount /\ Entry.tag = "unknown"
  /\ stage' = "exited"
  /\ UNCHANGED <<image, next, slot, pool, fieldCPIs, turn, limit, staticVars, instanceVars>>

EndPool ==
  /\ stage = "pool" /\ slot >= PoolCount
  /\ stage' = "filter"
  /\ turn' = 0 /\ limit' = Len(fieldCPIs)
  /\ UNCHANGED <<image, next, slot, pool, fieldCPIs, staticVars, instanceVars>>

(* Mutated form: the loop asks for the size the list has by then. *)
MoreToFilterNow == turn < Len(fieldCPIs)

MoreToFilter == turn < limit

FilterOne ==
  /\ stage = "filter" /\ MoreToFilter
  /\ LET index == Head(fieldCPIs)
     IN fieldCPIs' = Tail(fieldCPIs) \o (IF pool[index].class = "java" THEN <<>> ELSE <<index>>)
  /\ turn' = turn + 1
  /\ UNCHANGED <<image, stage, next, slot, pool, limit, staticVars, instanceVars>>

EndFilter ==
  /\ stage = "filter" /\ ~MoreToFilter
  /\ stage' = "fields" /\ turn' = 1
  /\ UNCHANGED <<image, next, slot, pool, fieldCPIs, limit, staticVars, instanceVars>>

(* front() of an empty list, undefined behaviour, reads its size in the    *)
(* libraries the program is built with: 0.                                 *)
FrontIndex == IF fieldCPIs = <<>> THEN 0 ELSE Head(fieldCPIs)

Bind(vars, index, field) ==
  [i \in DOMAIN vars \cup {index} |-> IF i = index THEN field ELSE vars[i]]

ReadField ==
  /\ stage = "fields" /\ turn <= Len(image.fields)
  /\ LET field == image.fields[turn]
     IN IF field.static
        THEN /\ staticVars' = Bind(staticVars, FrontIndex, field.name)
             /\ UNCHANGED instanceVars
        ELSE /\ instanceVars' = Bind(instanceVars, FrontIndex, field.name)
             /\ UNCHANGED staticVars
  /\ fieldCPIs' = IF fieldCPIs = <<>> THEN <<>> ELSE Tail(fieldCPIs)
  /\ turn' = turn + 1
  /\ UNCHANGED <<image, stage, next, slot, pool, limit>>

(* parseMethods copies the methods as they are. *)
EndFields ==
  /\ stage = "fields" /\ turn > Len(image.fields)
  /\ stage' = "parsed"
  /\ UNCHANGED <<image, next, slot, pool, fieldCPIs, turn, limit, staticVars, instanceVars>>

Parse ==
  \/ NotAClass \/ Open \/ ReadEntry \/ TagNotFound \/ EndPool
  \/ FilterOne \/ EndFilter \/ ReadField \/ EndFields

-----------------------------------------------------------------------------
(***************************************************************************)
(* Every entry read so far lies in the slot the class file means, so that  *)
(* the indices in the bytecode and in other entries lead to it; and the    *)
(* indices collected are those of Fieldrefs, which the casts of            *)
(* parseFields take for granted.                                           *)
(***************************************************************************)
PoolAsTheFileMeans ==
  /\ \A n \in 1 .. next - 1 : n \in DOMAIN image.pool /\ pool[SlotOf(image, n)] = image.pool[n]
  /\ \A j \in DOMAIN fieldCPIs : pool[fieldCPIs[j]] # NULL /\ pool[fieldCPIs[j]].tag = "Fieldref"

Ascending(s) == \A i, j \in DOMAIN s : i < j => s[i] < s[j]

(* The entries that survive the filter, in the order of the file. *)
Kept == {n \in DOMAIN image.pool : image.pool[n].tag = "Fieldref" /\ image.pool[n].class # "java"}

KeptRefs == CHOOSE s \in [1 .. Cardinality(Kept) -> Kept] : Ascending(s)

(* The class refers to each of its fields, and first in their order. *)
RefersInOrder ==
  \A f \in DOMAIN image.fields :
    /\ f \in DOMAIN KeptRefs
    /\ LET e == image.pool[KeptRefs[f]]
       IN e.class = "this" /\ e.name = image.fields[f].name

FieldsRead == image.magic /\ stage \notin {"start", "noClass", "exited", "pool", "filter", "fields"}

(***************************************************************************)
(* parseFields binds a field to the Fieldref at its own position among     *)
(* those of the pool.  In a class that refers to its fields in the order   *)
(* it declares them, whatever entries lie between, each static or instance *)
(* field's storage is then found under its Fieldref, and nothing else is.  *)
(***************************************************************************)
FieldsBoundToTheirRefs ==
  FieldsRead /\ RefersInOrder =>
    LET Index(f)  == SlotOf(image, KeptRefs[f])
        Static    == {f \in DOMAIN image.fields : image.fields[f].static}
        Instance  == DOMAIN image.fields \ Static
        Bound(vars, fs) ==
          /\ DOMAIN vars = {Index(f) : f \in fs}
          /\ \A f \in fs : vars[Index(f)] = image.fields[f].name
    IN Bound(staticVars, Static) /\ Bound(instanceVars, Instance)

=============================================================================
