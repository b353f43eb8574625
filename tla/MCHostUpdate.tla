---------------------------- MODULE MCHostUpdate ----------------------------
(* Reporters, names and tags for the run of HostUpdate. *)
EXTENDS HostUpdate, TLC

CONSTANTS puptoo, rhsm, yupana, satellite, f1, f2, m1, n1, n2, a, b

Reporters   == {puptoo, rhsm, yupana, satellite}
RhsmOnes    == {rhsm}
PriorityOne == {puptoo}
OldOf       == [r \in {satellite} |-> yupana]
Names       == {m1}
Fqdns       == {f1, f2}
Namespaces  == {n1, n2}
Tags        == {a, b}

(* Two tags, fewer, another namespace, a deletion, and one among others. *)
SomeTags == {[n \in {n1} |-> {a, b}], [n \in {n1} |-> {a}], [n \in {n1} |-> {}],
             [n \in {n1, n2} |-> IF n = n1 THEN {} ELSE {b}]}

Message(r, name, f, t, d) ==
  [reporter |-> r, name |-> name, fqdn |-> f, tags |-> t, deferred |-> d]

SomeReports ==
  {Message(r, name, f, <<>>, Unset) :
     r \in {puptoo, rhsm}, name \in Names \union {Unset}, f \in Fqdns \union {Unset}}
  \union {Message(satellite, Unset, Unset, t, Unset) : t \in SomeTags}
  \union {Message(yupana, Unset, Unset, <<>>, Unset), Message(rhsm, Unset, Unset, <<>>, puptoo),
          Message(rhsm, Unset, Unset, <<>>, yupana), Message(satellite, Unset, Unset, <<>>, puptoo)}
=============================================================================
