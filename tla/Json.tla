-------------------------------- MODULE Json --------------------------------
(***************************************************************************)
(* JSON documents and the dap values decoded from them, as trees of        *)
(* records of one shape.  A node's leaf is the class of scalar the         *)
(* serializers tell apart: an integer fits 32 bits ("int32"), needs 64     *)
(* ("int64"), exceeds the signed 64 bits ("uint64") or is the negative     *)
(* number such an integer becomes in an int64_t ("wrapped"); a double is   *)
(* "whole" or a "fraction"; a string is plain "text" or has a NUL          *)
(* character inside ("nul").  A struct has one item, which holds the       *)
(* members that are none of its fields.                                    *)
(*                                                                         *)
(* A deserialize() call is modelled by the set of values it may leave in   *)
(* its argument: no element when it returns false, one when it returns     *)
(* true, and Undefined when it breaks a precondition of the JSON library.  *)
(***************************************************************************)
EXTENDS Integers, Sequences, TLC

NoMembers == [n \in {} |-> {}]
Node(kind, leaf, items, members) ==
    [kind |-> kind, leaf |-> leaf, items |-> items, members |-> members]
Scalar(kind, leaf) == Node(kind, leaf, <<>>, NoMembers)
List(items) == Node("array", "", items, NoMembers)
Dict(kind, members) == Node(kind, "", <<>>, members)

NullNode == Scalar("null", "")
None == Scalar("none", "")           \* an optional without a value
Missing == Scalar("missing", "")     \* what NullDeserializer stands for
Undefined == Scalar("undefined", "")
Garbage == Scalar("garbage", "")     \* text that is not JSON

\* What a check followed by an assignment returns.
When(test, v) == IF test THEN {v} ELSE {}

\* The conversions to int64_t and double.
AsInt64(leaf) == IF leaf = "uint64" THEN "wrapped" ELSE leaf
AsDouble(j) == IF j.kind = "integer" THEN "whole" ELSE j.leaf

\* The parts of a value are the results of several deserialize() calls, and
\* the first false or undefined one ends the call that makes them.  Members
\* have no order here; no document has a false one beside an undefined one.
Failed(r) == r \in {{}, {Undefined}}
Gather(results, whole) ==
    IF \E n \in DOMAIN results : Failed(results[n])
      THEN CHOOSE r \in {results[n] : n \in DOMAIN results} : Failed(r)
      ELSE {whole}
Parts(results) == [i \in DOMAIN results |-> CHOOSE v \in results[i] : TRUE]
ListOf(results) ==
    LET failed == {i \in DOMAIN results : Failed(results[i])}
    IN IF failed = {} THEN {List(Parts(results))}
       ELSE results[CHOOSE i \in failed : \A k \in failed : i <= k]
ObjectOf(results) == Gather(results, Dict("object", Parts(results)))

\* A struct with its fields, as their deserialize() calls leave them.  The
\* other members have their initial value, which is none: those there are,
\* are optional.
StructNode(fields, others) ==
    Node("struct", "", <<Dict("others", [m \in others |-> None])>>, fields)
StructOf(results, others) == Gather(results, StructNode(Parts(results), others))

\* serialize(optional): remove() is called for an optional without a value.
Removed(v) == v.kind = "none"

\* serializeFields(): the fields that are not removed.
Kept(v) == {n \in DOMAIN v.members : ~Removed(v.members[n])}
=============================================================================
