------------------------------ MODULE MCDriver ------------------------------
(***************************************************************************)
(* Driver for TLC: the class files, bounds that name how far they go.      *)
(***************************************************************************)
EXTENDS Driver, SequencesExt

CONSTANTS MaxPool, MaxFields, MaxMethods

Ref(c, n)  == [tag |-> "Fieldref", class |-> c, name |-> n]
FieldNames == {"a", "b"}

Entries ==
  {Ref("this", n) : n \in FieldNames}
    \cup {Ref("java", "out"), Ref("other", "a"), [tag |-> "Wide"], [tag |-> "other"], [tag |-> "unknown"]}

FieldLists ==
  {fs \in SeqOf([name : FieldNames, static : BOOLEAN], MaxFields) :
     \A f, g \in DOMAIN fs : f # g => fs[f].name # fs[g].name}

Method(name, ops, size) == [name |-> name, code |-> ops, size |-> size]

Main == Method("main", <<"iload", "goto", "return">>, 2)

(* Bodies of every size up to what is more than a map, and none. *)
SomeMethods ==
  {Method(name, <<"return">>, size) : name \in {"<clinit>", "main", "f"}, size \in {0, 1, 2}}
    \cup {Method("f", <<"goto", "iload", "return">>, 5), Method("main", <<>>, 0)}

Classes(pools, fields, methods) ==
  {[magic |-> TRUE, pool |-> p, fields |-> f, methods |-> ms] : p \in pools, f \in fields, ms \in methods}

(* A switch at each alignment, and wide, with and without a wide form      *)
(* before it.                                                              *)
MethodsWithFormless ==
  {Method("main", before \o <<op, "goto", "return">>, 2) :
     before \in {<<>>, <<"return">>, <<"iload">>, <<"goto">>, <<"goto", "return", "return">>},
     op \in Formless}

(* Code that the listing does not leave at once behind an instruction with *)
(* a wide form, 66 bytes on: it gets to an operand, or an instruction.     *)
LongMethods ==
  {Method("main", before \o [n \in 1 .. 22 |-> "goto"] \o <<"return">>, 2) :
     before \in {<<"iload">>, <<"iload", "return">>}}

(* Every pool with every list of fields, every list of methods, and each   *)
(* method with a switch or wide and each long one.                         *)
ClassFiles ==
  {[magic |-> FALSE, pool |-> <<>>, fields |-> <<>>, methods |-> <<>>]}
    \cup Classes(SeqOf(Entries, MaxPool), FieldLists, {<<Main>>})
    \cup Classes({<<>>}, {<<>>}, SeqOf(SomeMethods, MaxMethods) \cup {<<m>> : m \in MethodsWithFormless \cup LongMethods})

=============================================================================
