---------------------------- MODULE Groups_proofs ----------------------------
(***************************************************************************)
(* Invariants of Groups, for any hosts, groups, requests and numbers of    *)
(* them; and of WorkspaceWait, for any number of waiters and workspaces,   *)
(* any sharing of workspaces and any batch size.                           *)
(***************************************************************************)
EXTENDS Groups, WorkspaceWait, SequenceTheorems, TLAPS

-----------------------------------------------------------------------------
(* Programs of statements: order, and what they consist of.                *)

(* After the first load only loads follow; an attempt begins a program and *)
(* a removal is one by itself.                                             *)
Ordered(s) ==
  \A i, j \in DOMAIN s : i < j =>
    /\ s[i].do \in {"load", "store", "ungroup"} => s[j].do = "load"
    /\ s[j].do \notin {"gather", "try"}
    /\ s[i].do # "leave" /\ s[j].do # "leave"

(* The group is deleted after the attempts to empty it. *)
Closed(s) ==
  \A i \in DOMAIN s : s[i].do \in {"gather", "try", "release"} =>
    \E j \in DOMAIN s : i < j /\ s[j].do = "ungroup"

Plain(s) == \A x \in ToSet(s) : x.do \in {"check", "detach", "attach", "drop", "erase", "touch"}

LEMMA ConcatParts ==
  ASSUME NEW a \in Seq(Statement), NEW b \in Seq(Statement)
  PROVE  /\ a \o b \in Seq(Statement) /\ Len(a \o b) = Len(a) + Len(b)
         /\ ToSet(a \o b) = ToSet(a) \union ToSet(b)
         /\ \A i \in DOMAIN (a \o b) :
              \/ i \in DOMAIN a /\ (a \o b)[i] = a[i]
              \/ i > Len(a) /\ i - Len(a) \in DOMAIN b /\ (a \o b)[i] = b[i - Len(a)]
         /\ \A i \in DOMAIN a : i \in DOMAIN (a \o b) /\ (a \o b)[i] = a[i]
         /\ \A i \in DOMAIN b : Len(a) + i \in DOMAIN (a \o b) /\ (a \o b)[Len(a) + i] = b[i]
<1>1. /\ DOMAIN a = 1..Len(a) /\ DOMAIN b = 1..Len(b) /\ Len(a) \in Nat /\ Len(b) \in Nat
      /\ a \o b \in Seq(Statement) /\ Len(a \o b) = Len(a) + Len(b)
      /\ DOMAIN (a \o b) = 1..(Len(a) + Len(b))
      /\ \A i \in 1..(Len(a) + Len(b)) : (a \o b)[i] = IF i <= Len(a) THEN a[i] ELSE b[i - Len(a)]
  OBVIOUS
<1>2. \A i \in DOMAIN (a \o b) :
        \/ i \in DOMAIN a /\ (a \o b)[i] = a[i]
        \/ i > Len(a) /\ i - Len(a) \in DOMAIN b /\ (a \o b)[i] = b[i - Len(a)]
  BY <1>1
<1>3. /\ \A i \in DOMAIN a : i \in DOMAIN (a \o b) /\ (a \o b)[i] = a[i]
      /\ \A i \in DOMAIN b : Len(a) + i \in DOMAIN (a \o b) /\ (a \o b)[Len(a) + i] = b[i]
  BY <1>1
<1>4. ToSet(a \o b) = ToSet(a) \union ToSet(b)
  <2>1. ASSUME NEW i \in DOMAIN (a \o b) PROVE (a \o b)[i] \in ToSet(a) \union ToSet(b)
    BY <1>2 DEF ToSet
  <2>2. ASSUME NEW i \in DOMAIN a PROVE a[i] \in ToSet(a \o b)
    <3>1. i \in DOMAIN (a \o b) /\ (a \o b)[i] = a[i] BY <1>3
    <3>. QED BY <3>1 DEF ToSet
  <2>3. ASSUME NEW i \in DOMAIN b PROVE b[i] \in ToSet(a \o b)
    <3>1. Len(a) + i \in DOMAIN (a \o b) /\ (a \o b)[Len(a) + i] = b[i] BY <1>3
    <3>. QED BY <3>1 DEF ToSet
  <2>. QED BY <2>1, <2>2, <2>3 DEF ToSet
<1>. QED BY <1>1, <1>2, <1>3, <1>4

LEMMA TailParts ==
  ASSUME NEW s \in Seq(Statement), s # <<>>
  PROVE  /\ Head(s) \in Statement /\ Tail(s) \in Seq(Statement)
         /\ ToSet(s) = {Head(s)} \union ToSet(Tail(s))
         /\ Head(s) = s[1] /\ 1 \in DOMAIN s
         /\ \A i \in DOMAIN Tail(s) : i + 1 \in DOMAIN s /\ Tail(s)[i] = s[i + 1]
         /\ \A i \in DOMAIN s : i > 1 => i - 1 \in DOMAIN Tail(s) /\ s[i] = Tail(s)[i - 1]
<1>1. /\ Len(s) \in Nat /\ Len(s) > 0 /\ DOMAIN s = 1..Len(s)
      /\ Head(s) = s[1] /\ Head(s) \in Statement
      /\ Tail(s) \in Seq(Statement) /\ Len(Tail(s)) = Len(s) - 1 /\ DOMAIN Tail(s) = 1..(Len(s) - 1)
      /\ \A i \in 1..(Len(s) - 1) : Tail(s)[i] = s[i + 1]
  OBVIOUS
<1>2. /\ \A i \in DOMAIN Tail(s) : i + 1 \in DOMAIN s /\ Tail(s)[i] = s[i + 1]
      /\ \A i \in DOMAIN s : i > 1 => i - 1 \in DOMAIN Tail(s) /\ s[i] = Tail(s)[i - 1]
  BY <1>1
<1>3. \A i \in DOMAIN s : i = 1 \/ i > 1 BY <1>1
<1>4. ToSet(s) = {Head(s)} \union ToSet(Tail(s)) BY <1>1, <1>2, <1>3 DEF ToSet
<1>. QED BY <1>1, <1>2, <1>4

LEMMA OneParts ==
  ASSUME NEW x
  PROVE  ToSet(<<x>>) = {x} /\ ToSet(<<>>) = {} /\ Ordered(<<x>>) /\ Ordered(<<>>) /\ Closed(<<>>)
BY DEF ToSet, Ordered, Closed

LEMMA OrderedConcat ==
  ASSUME NEW a \in Seq(Statement), NEW b \in Seq(Statement), Ordered(a), Ordered(b),
         \A x \in ToSet(a), y \in ToSet(b) :
           /\ x.do \in {"load", "store", "ungroup"} => y.do = "load"
           /\ y.do \notin {"gather", "try", "leave"} /\ x.do # "leave"
  PROVE  Ordered(a \o b)
<1> SUFFICES ASSUME NEW i \in DOMAIN (a \o b), NEW j \in DOMAIN (a \o b), i < j
             PROVE  /\ (a \o b)[i].do \in {"load", "store", "ungroup"} => (a \o b)[j].do = "load"
                    /\ (a \o b)[j].do \notin {"gather", "try"}
                    /\ (a \o b)[i].do # "leave" /\ (a \o b)[j].do # "leave"
  BY DEF Ordered
<1>0. i \in Nat /\ j \in Nat /\ Len(a) \in Nat /\ DOMAIN a = 1..Len(a) BY ConcatParts
<1>1. CASE i \in DOMAIN a /\ j \in DOMAIN a BY <1>1, ConcatParts DEF Ordered
<1>2. CASE i \in DOMAIN a /\ j > Len(a)
  <2>1. (a \o b)[i] \in ToSet(a) /\ (a \o b)[j] \in ToSet(b)
    BY <1>0, <1>2, ConcatParts DEF ToSet
  <2>. QED BY <2>1
<1>3. CASE i > Len(a) /\ j > Len(a)
  <2>1. /\ i - Len(a) \in DOMAIN b /\ j - Len(a) \in DOMAIN b /\ i - Len(a) < j - Len(a)
        /\ (a \o b)[i] = b[i - Len(a)] /\ (a \o b)[j] = b[j - Len(a)]
    BY <1>0, <1>3, ConcatParts
  <2>. QED BY <2>1 DEF Ordered
<1>. QED BY <1>0, <1>1, <1>2, <1>3, ConcatParts

LEMMA ClosedConcat ==
  ASSUME NEW a \in Seq(Statement), NEW b \in Seq(Statement), Closed(b),
         Closed(a) \/ \E y \in ToSet(b) : y.do = "ungroup"
  PROVE  Closed(a \o b)
<1> SUFFICES ASSUME NEW i \in DOMAIN (a \o b), (a \o b)[i].do \in {"gather", "try", "release"}
             PROVE  \E j \in DOMAIN (a \o b) : i < j /\ (a \o b)[j].do = "ungroup"
  BY DEF Closed
<1>0. i \in Nat /\ Len(a) \in Nat /\ DOMAIN a = 1..Len(a) /\ DOMAIN b = 1..Len(b) /\ Len(b) \in Nat
  BY ConcatParts
<1>1. CASE i \in DOMAIN a /\ Closed(a) BY <1>1, ConcatParts DEF Closed
<1>2. CASE i \in DOMAIN a /\ ~Closed(a)
  <2>1. PICK k \in DOMAIN b : b[k].do = "ungroup" BY <1>2 DEF ToSet
  <2>2. Len(a) + k \in DOMAIN (a \o b) /\ (a \o b)[Len(a) + k] = b[k] /\ i < Len(a) + k
    BY <1>0, <1>2, ConcatParts
  <2>. QED BY <2>1, <2>2
<1>3. CASE i > Len(a)
  <2>1. i - Len(a) \in DOMAIN b /\ (a \o b)[i] = b[i - Len(a)] BY <1>0, <1>3, ConcatParts
  <2>2. PICK k \in DOMAIN b : i - Len(a) < k /\ b[k].do = "ungroup" BY <2>1 DEF Closed
  <2>3. Len(a) + k \in DOMAIN (a \o b) /\ (a \o b)[Len(a) + k] = b[k] /\ i < Len(a) + k
    BY <1>0, <2>2, ConcatParts
  <2>. QED BY <2>2, <2>3
<1>. QED BY <1>0, <1>1, <1>2, <1>3, ConcatParts

LEMMA ShapedTail ==
  ASSUME NEW s \in Seq(Statement), s # <<>>, Ordered(s), Closed(s)
  PROVE  /\ Ordered(Tail(s)) /\ Closed(Tail(s))
         /\ \A y \in ToSet(Tail(s)) :
              /\ y.do \notin {"gather", "try", "leave"}
              /\ Head(s).do \in {"load", "store", "ungroup"} => y.do = "load"
         /\ Head(s).do = "leave" => Tail(s) = <<>>
         /\ Head(s).do \in {"gather", "try", "release"} => \E y \in ToSet(Tail(s)) : y.do = "ungroup"
<1>0. DOMAIN s \subseteq Nat /\ DOMAIN Tail(s) \subseteq Nat BY TailParts
<1>1. Ordered(Tail(s)) BY <1>0, TailParts DEF Ordered
<1>2. Closed(Tail(s))
  <2>1. ASSUME NEW i \in DOMAIN Tail(s), Tail(s)[i].do \in {"gather", "try", "release"}
        PROVE  \E j \in DOMAIN Tail(s) : i < j /\ Tail(s)[j].do = "ungroup"
    <3>1. i + 1 \in DOMAIN s /\ s[i + 1].do \in {"gather", "try", "release"} BY <2>1, TailParts
    <3>2. PICK k \in DOMAIN s : i + 1 < k /\ s[k].do = "ungroup" BY <3>1 DEF Closed
    <3>3. k - 1 \in DOMAIN Tail(s) /\ Tail(s)[k - 1] = s[k] /\ i < k - 1 BY <1>0, <3>2, TailParts
    <3>. QED BY <3>2, <3>3
  <2>. QED BY <2>1 DEF Closed
<1>3. ASSUME NEW y \in ToSet(Tail(s))
      PROVE  /\ y.do \notin {"gather", "try", "leave"}
             /\ Head(s).do \in {"load", "store", "ungroup"} => y.do = "load"
             /\ Head(s).do # "leave"
  <2>1. PICK i \in DOMAIN Tail(s) : y = Tail(s)[i] BY DEF ToSet
  <2>2. i + 1 \in DOMAIN s /\ y = s[i + 1] /\ 1 \in DOMAIN s /\ 1 < i + 1 /\ Head(s) = s[1]
    BY <1>0, <2>1, TailParts
  <2>. QED BY <2>2 DEF Ordered
<1>4. Head(s).do = "leave" => Tail(s) = <<>>
  <2>1. Tail(s) # <<>> => Tail(s)[1] \in ToSet(Tail(s)) BY TailParts DEF ToSet
  <2>. QED BY <1>3, <2>1
<1>5. ASSUME Head(s).do \in {"gather", "try", "release"}
      PROVE  \E y \in ToSet(Tail(s)) : y.do = "ungroup"
  <2>1. PICK k \in DOMAIN s : 1 < k /\ s[k].do = "ungroup" BY <1>5, TailParts DEF Closed
  <2>2. Tail(s)[k - 1] \in ToSet(Tail(s)) /\ Tail(s)[k - 1] = s[k] BY <1>0, <2>1, TailParts DEF ToSet
  <2>. QED BY <2>1, <2>2
<1>. QED BY <1>1, <1>2, <1>3, <1>4, <1>5

LEMMA PlainShaped ==
  ASSUME NEW s \in Seq(Statement), Plain(s)
  PROVE  Ordered(s) /\ Closed(s)
<1>1. \A i \in DOMAIN s : s[i] \in ToSet(s) BY DEF ToSet
<1>. QED BY <1>1 DEF Plain, Ordered, Closed

LEMMA StatementFacts ==
  /\ \A x \in Statement : /\ x.group \in Group
                          /\ x.do # "erase" => x.on \in SUBSET Host
                          /\ x.do = "erase" => x.on \in SUBSET Assoc
  /\ \A g \in Group, hs \in SUBSET Host,
        what \in {"check", "detach", "attach", "drop", "leave", "touch", "load", "store",
                  "gather", "try", "release", "ungroup"} :
       /\ S(what, g, hs) \in Statement
       /\ S(what, g, hs).do = what /\ S(what, g, hs).group = g /\ S(what, g, hs).on = hs
  /\ \A g \in Group, picked \in SUBSET Assoc :
       /\ S("erase", g, picked) \in Statement
       /\ S("erase", g, picked).do = "erase" /\ S("erase", g, picked).on = picked
       /\ S("erase", g, picked).group = g
BY DEF Statement, S

LEMMA TimestampParts ==
  ASSUME NEW g \in Group
  PROVE  /\ Timestamp(g) \in Seq(Statement)
         /\ ToSet(Timestamp(g)) \subseteq {S("touch", g, {})} /\ Plain(Timestamp(g))
<1>1. S("touch", g, {}) \in Statement /\ S("touch", g, {}).do = "touch" BY StatementFacts
<1>. QED BY <1>1, OneParts DEF Timestamp, Plain

LEMMA StepParts ==
  ASSUME NEW what \in {"check", "drop"}, NEW g \in Group, NEW hs \in SUBSET Host
  PROVE  LET s == <<S(what, g, hs)>> \o Timestamp(g) IN
           /\ s \in Seq(Statement) /\ Plain(s)
           /\ S(what, g, hs) \in ToSet(s)
           /\ ToSet(s) \subseteq {S(what, g, hs), S("touch", g, {})}
<1>1. S(what, g, hs) \in Statement /\ S(what, g, hs).do = what BY StatementFacts
<1>2. <<S(what, g, hs)>> \in Seq(Statement) BY <1>1
<1>3. S("touch", g, {}).do = "touch" BY StatementFacts
<1>4. Timestamp(g) \in Seq(Statement) /\ ToSet(Timestamp(g)) \subseteq {S("touch", g, {})}
  BY TimestampParts
<1>5. ToSet(<<S(what, g, hs)>>) = {S(what, g, hs)} BY OneParts
<1> DEFINE s == <<S(what, g, hs)>> \o Timestamp(g)
<1>6. s \in Seq(Statement) /\ ToSet(s) = {S(what, g, hs)} \union ToSet(Timestamp(g))
  BY <1>2, <1>4, <1>5, ConcatParts
<1>7. Plain(s) BY <1>1, <1>3, <1>4, <1>6 DEF Plain
<1>. QED BY <1>4, <1>6, <1>7

LEMMA ProgramParts ==
  ASSUME NEW g \in Group, NEW hs \in SUBSET Host
  PROVE  /\ AddHosts(g, hs) \in Seq(Statement) /\ Plain(AddHosts(g, hs))
         /\ S("check", g, hs) \in ToSet(AddHosts(g, hs))
         /\ ToSet(AddHosts(g, hs)) \subseteq {S("check", g, hs), S("touch", g, {})}
         /\ DropHosts(g, hs) \in Seq(Statement) /\ Plain(DropHosts(g, hs))
         /\ S("drop", g, hs) \in ToSet(DropHosts(g, hs))
         /\ ToSet(DropHosts(g, hs)) \subseteq {S("drop", g, hs), S("touch", g, {})}
         /\ UpdateHosts(g, hs) \in Seq(Statement)
         /\ ToSet(UpdateHosts(g, hs)) = IF hs = {} THEN {} ELSE {S("load", g, hs)}
         /\ Ordered(UpdateHosts(g, hs)) /\ Closed(UpdateHosts(g, hs))
<1>1. S("load", g, hs) \in Statement /\ S("load", g, hs).do = "load" BY StatementFacts
<1>2. Closed(<<S("load", g, hs)>>) BY <1>1 DEF Closed
<1>3. <<S("load", g, hs)>> \in Seq(Statement) BY <1>1
<1>4. /\ UpdateHosts(g, hs) \in Seq(Statement)
      /\ ToSet(UpdateHosts(g, hs)) = IF hs = {} THEN {} ELSE {S("load", g, hs)}
      /\ Ordered(UpdateHosts(g, hs)) /\ Closed(UpdateHosts(g, hs))
  <2>1. CASE hs = {}
    <3>1. UpdateHosts(g, hs) = <<>> BY <2>1 DEF UpdateHosts
    <3>2. Ordered(<<>>) /\ Closed(<<>>) /\ ToSet(<<>>) = {} BY OneParts
    <3>3. <<>> \in Seq(Statement) OBVIOUS
    <3>. QED BY <2>1, <3>1, <3>2, <3>3, Zenon
  <2>2. CASE hs # {}
    <3>1. UpdateHosts(g, hs) = <<S("load", g, hs)>> BY <2>2 DEF UpdateHosts
    <3>2. ToSet(<<S("load", g, hs)>>) = {S("load", g, hs)} /\ Ordered(<<S("load", g, hs)>>)
      BY OneParts
    <3>. QED BY <1>2, <1>3, <2>2, <3>1, <3>2
  <2>. QED BY <2>1, <2>2
<1>. QED BY <1>4, StepParts DEF AddHosts, DropHosts

-----------------------------------------------------------------------------
(* Types. Attempts are counted while there is one to make or to release.   *)
Has(p, what)        == \E s \in ToSet(todo[p]) : s.do = what
Pending(p, what, h) == \E s \in ToSet(todo[p]) : s.do = what /\ h \in s.on

Shape(p) ==
  /\ Ordered(todo[p]) /\ Closed(todo[p])
  /\ Has(p, "gather") => tries[p] = 0
  /\ Has(p, "try") => tries[p] \in 0..2
  /\ tries[p] # 0 => Has(p, "try") \/ Has(p, "release")
  /\ request[p] = "idle" => todo[p] = <<>>

TypeInv == TypeOK /\ \A p \in Proc : Shape(p)

(* What a statement leaves: those it has led to, and the rest. *)
LEMMA ThenParts ==
  ASSUME TypeInv, NEW p \in Proc, todo[p] # <<>>, NEW next \in Seq(Statement), Then(p, next)
  PROVE  /\ todo' \in [Proc -> Seq(Statement)]
         /\ todo'[p] = next \o Tail(todo[p])
         /\ \A q \in Others(p) : todo'[q] = todo[q]
         /\ Head(todo[p]) \in Statement /\ Tail(todo[p]) \in Seq(Statement)
         /\ ToSet(todo[p]) = {Head(todo[p])} \union ToSet(Tail(todo[p]))
         /\ ToSet(todo'[p]) = ToSet(next) \union ToSet(Tail(todo[p]))
         /\ next # <<>> => todo'[p] # <<>> /\ Head(todo'[p]) = Head(next)
         /\ Ordered(todo[p]) /\ Closed(todo[p])
         /\ Ordered(Tail(todo[p])) /\ Closed(Tail(todo[p]))
         /\ \A y \in ToSet(Tail(todo[p])) :
              /\ y.do \notin {"gather", "try", "leave"}
              /\ Head(todo[p]).do \in {"load", "store", "ungroup"} => y.do = "load"
         /\ Head(todo[p]).do = "leave" => Tail(todo[p]) = <<>>
         /\ Head(todo[p]).do \in {"gather", "try", "release"} =>
              \E y \in ToSet(Tail(todo[p])) : y.do = "ungroup"
<1>1. todo \in [Proc -> Seq(Statement)] /\ todo[p] \in Seq(Statement) BY DEF TypeInv, TypeOK
<1>2. Tail(todo[p]) \in Seq(Statement) /\ next \o Tail(todo[p]) \in Seq(Statement)
  BY <1>1, TailParts, ConcatParts
<1>3. todo' = [todo EXCEPT ![p] = next \o Tail(todo[p])] BY DEF Then
<1>4. next # <<>> => /\ next \o Tail(todo[p]) # <<>>
                     /\ Head(next \o Tail(todo[p])) = Head(next)
  BY <1>2
<1>5. todo'[p] = next \o Tail(todo[p]) BY <1>1, <1>3
<1>6. Ordered(todo[p]) /\ Closed(todo[p]) BY DEF TypeInv, Shape
<1>7. ToSet(todo'[p]) = ToSet(next) \union ToSet(Tail(todo[p]))
  <2>1. ToSet(next \o Tail(todo[p])) = ToSet(next) \union ToSet(Tail(todo[p]))
    BY <1>2, ConcatParts
  <2>. QED BY <1>5, <2>1
<1>. QED BY <1>1, <1>2, <1>3, <1>4, <1>5, <1>6, <1>7, TailParts, ShapedTail DEF Others

LEMMA ThenShape ==
  ASSUME TypeInv, NEW p \in Proc, todo[p] # <<>>, NEW next \in Seq(Statement), Then(p, next),
         UNCHANGED <<tries, request>>, Head(todo[p]).do \notin {"try", "release"},
         \/ Plain(next)
         \/ Head(todo[p]).do = "load" /\ \E s \in Statement : s.do = "store" /\ next = <<s>>
         \/ Head(todo[p]).do = "gather" /\ \E s \in Statement : s.do = "try" /\ next = <<s>>
         \/ /\ Head(todo[p]).do = "leave" /\ Ordered(next) /\ Closed(next)
            /\ \A x \in ToSet(next) : x.do \notin {"gather", "try"}
  PROVE  Shape(p)'
<1> DEFINE t == Tail(todo[p])
<1>0. /\ t \in Seq(Statement) /\ Ordered(t) /\ Closed(t)
      /\ todo'[p] = next \o t /\ ToSet(todo'[p]) = ToSet(next) \union ToSet(t)
      /\ ToSet(todo[p]) = {Head(todo[p])} \union ToSet(t)
      /\ \A y \in ToSet(t) : /\ y.do \notin {"gather", "try", "leave"}
                             /\ Head(todo[p]).do = "load" => y.do = "load"
  BY ThenParts
<1>1. Ordered(todo'[p]) /\ Closed(todo'[p]) /\ (Head(todo[p]).do # "gather" => ~Has(p, "try")')
  <2>1. CASE Plain(next)
    <3>1. Ordered(next) /\ Closed(next) BY <2>1, PlainShaped
    <3>2. \A x \in ToSet(next) : x.do \notin {"load", "store", "ungroup", "leave", "try"} BY <2>1 DEF Plain
    <3>. QED BY <1>0, <3>1, <3>2, OrderedConcat, ClosedConcat DEF Has
  <2>2. CASE Head(todo[p]).do = "load" /\ \E s \in Statement : s.do = "store" /\ next = <<s>>
    <3>1. PICK s \in Statement : s.do = "store" /\ next = <<s>> BY <2>2
    <3>2. ToSet(next) = {s} /\ Ordered(next) BY <3>1, OneParts
    <3>3. Closed(next) BY <3>1 DEF Closed
    <3>. QED BY <1>0, <2>2, <3>1, <3>2, <3>3, OrderedConcat, ClosedConcat DEF Has
  <2>3. CASE Head(todo[p]).do = "gather" /\ \E s \in Statement : s.do = "try" /\ next = <<s>>
    <3>1. PICK s \in Statement : s.do = "try" /\ next = <<s>> BY <2>3
    <3>2. ToSet(next) = {s} /\ Ordered(next) BY <3>1, OneParts
    <3>3. \E y \in ToSet(t) : y.do = "ungroup" BY <2>3, ThenParts
    <3>. QED BY <1>0, <2>3, <3>1, <3>2, <3>3, OrderedConcat, ClosedConcat DEF Has
  <2>4. CASE /\ Head(todo[p]).do = "leave" /\ Ordered(next) /\ Closed(next)
             /\ \A x \in ToSet(next) : x.do \notin {"gather", "try"}
    <3>1. t = <<>> /\ ToSet(t) = {} BY <2>4, ThenParts, OneParts
    <3>. QED BY <1>0, <2>4, <3>1, OrderedConcat, ClosedConcat DEF Has
  <2>. QED BY <2>1, <2>2, <2>3, <2>4
<1>2. ~Has(p, "gather")'
  <2>1. \A x \in ToSet(next) : x.do # "gather" BY OneParts DEF Plain
  <2>. QED BY <1>0, <2>1 DEF Has
<1>3. /\ tries[p] # 0 => Has(p, "try") \/ Has(p, "release")
      /\ Has(p, "gather") => tries[p] = 0
      /\ request[p] # "idle"
  BY DEF TypeInv, Shape
<1>4. tries[p] # 0 => Has(p, "release")'
  <2>1. ASSUME tries[p] # 0 PROVE \E y \in ToSet(t) : y.do = "release"
    BY <1>0, <1>3, <2>1 DEF Has
  <2>. QED BY <1>0, <2>1 DEF Has
<1>5. Has(p, "try")' => tries[p] = 0
  <2>1. CASE Head(todo[p]).do = "gather" BY <1>0, <1>3, <2>1 DEF Has
  <2>. QED BY <1>1, <2>1
<1>6. tries'[p] = tries[p] /\ request'[p] = request[p] OBVIOUS
<1>. QED BY <1>1, <1>2, <1>3, <1>4, <1>5, <1>6 DEF Shape

LEMMA ShapeFrame ==
  ASSUME NEW q \in Proc, Shape(q), todo'[q] = todo[q], tries'[q] = tries[q],
         request'[q] = request[q]
  PROVE  Shape(q)'
BY DEF Shape, Has

-----------------------------------------------------------------------------
(* Programs that load at their end only. *)
Loads(s) == \A x \in ToSet(s) : x.do = "load"

Easy(s) ==
  /\ s \in Seq(Statement) /\ Ordered(s)
  /\ \A x \in ToSet(s) : x.do \in {"check", "detach", "attach", "drop", "erase", "touch", "load"}

LEMMA EasyParts ==
  /\ \A s \in Seq(Statement) : Plain(s) => Easy(s)
  /\ \A s : Easy(s) => Closed(s)
  /\ \A a, b \in Seq(Statement) : Plain(a) /\ Plain(b) => Plain(a \o b)
  /\ \A a, b \in Seq(Statement) : Easy(a) /\ Loads(b) => Easy(a \o b)
<1>1. ASSUME NEW s \in Seq(Statement), Plain(s) PROVE Easy(s)
  BY <1>1, PlainShaped DEF Easy, Plain
<1>2. ASSUME NEW s, Easy(s) PROVE Closed(s)
  <2>1. \A i \in DOMAIN s : s[i] \in ToSet(s) BY DEF ToSet
  <2>. QED BY <1>2, <2>1 DEF Easy, Closed
<1>3. ASSUME NEW a \in Seq(Statement), NEW b \in Seq(Statement), Plain(a), Plain(b)
      PROVE  Plain(a \o b)
  BY <1>3, ConcatParts DEF Plain
<1>4. ASSUME NEW a \in Seq(Statement), NEW b \in Seq(Statement), Easy(a), Loads(b)
      PROVE  Easy(a \o b)
  <2>1. \A i \in DOMAIN b : b[i] \in ToSet(b) BY DEF ToSet
  <2>2. \A i \in DOMAIN b : b[i].do = "load" BY <1>4, <2>1 DEF Loads
  <2>3. Ordered(b) BY <2>2 DEF Ordered
  <2>4. \A x \in ToSet(a), y \in ToSet(b) : /\ x.do \in {"load", "store", "ungroup"} => y.do = "load"
                                           /\ y.do \notin {"gather", "try", "leave"}
                                           /\ x.do # "leave"
    BY <1>4 DEF Easy, Loads
  <2>5. Ordered(a \o b) BY <1>4, <2>3, <2>4, OrderedConcat DEF Easy
  <2>6. a \o b \in Seq(Statement) /\ ToSet(a \o b) = ToSet(a) \union ToSet(b) BY ConcatParts
  <2>. QED BY <1>4, <2>5, <2>6 DEF Easy, Loads
<1>. QED BY <1>1, <1>2, <1>3, <1>4

LEMMA UpdateLoads ==
  ASSUME NEW g \in Group, NEW hs \in SUBSET Host
  PROVE  Loads(UpdateHosts(g, hs)) /\ UpdateHosts(g, hs) \in Seq(Statement)
<1>1. S("load", g, hs).do = "load" BY StatementFacts
<1>. QED BY <1>1, ProgramParts DEF Loads

LEMMA PatchParts ==
  ASSUME NEW g \in Group, NEW joined \in SUBSET Host, NEW removed \in SUBSET Host,
         NEW new \in SUBSET Host
  PROVE  LET s == AddHosts(g, joined) \o DropHosts(g, removed) \o AddHosts(Ungrouped, removed)
                    \o <<S("touch", g, {})>> \o UpdateHosts(Ungrouped, removed) \o UpdateHosts(g, new)
         IN /\ Easy(s)
            /\ ToSet(s) = ToSet(AddHosts(g, joined)) \union ToSet(DropHosts(g, removed))
                            \union ToSet(AddHosts(Ungrouped, removed)) \union {S("touch", g, {})}
                            \union ToSet(UpdateHosts(Ungrouped, removed))
                            \union ToSet(UpdateHosts(g, new))
<1> DEFINE a == AddHosts(g, joined)
           b == DropHosts(g, removed)
           c == AddHosts(Ungrouped, removed)
           d == <<S("touch", g, {})>>
           e == UpdateHosts(Ungrouped, removed)
           f == UpdateHosts(g, new)
<1>1. /\ a \in Seq(Statement) /\ Plain(a) /\ b \in Seq(Statement) /\ Plain(b)
      /\ c \in Seq(Statement) /\ Plain(c)
  BY ProgramParts, GroupsAssumption
<1>2. d \in Seq(Statement) /\ Plain(d) /\ ToSet(d) = {S("touch", g, {})}
  <2>1. S("touch", g, {}) \in Statement /\ S("touch", g, {}).do = "touch" BY StatementFacts
  <2>2. d \in Seq(Statement) BY <2>1
  <2>3. ToSet(d) = {S("touch", g, {})} BY OneParts
  <2>. QED BY <2>1, <2>2, <2>3 DEF Plain
<1>3. e \in Seq(Statement) /\ Loads(e) /\ f \in Seq(Statement) /\ Loads(f)
  BY UpdateLoads, GroupsAssumption
<1>. HIDE DEF a, b, c, d, e, f
<1>4. a \o b \in Seq(Statement) /\ Plain(a \o b) /\ ToSet(a \o b) = ToSet(a) \union ToSet(b)
  BY <1>1, EasyParts, ConcatParts
<1>5. /\ a \o b \o c \in Seq(Statement) /\ Plain(a \o b \o c)
      /\ ToSet(a \o b \o c) = ToSet(a) \union ToSet(b) \union ToSet(c)
  BY <1>1, <1>4, EasyParts, ConcatParts
<1>6. /\ a \o b \o c \o d \in Seq(Statement) /\ Plain(a \o b \o c \o d)
      /\ ToSet(a \o b \o c \o d) = ToSet(a) \union ToSet(b) \union ToSet(c) \union ToSet(d)
  BY <1>2, <1>5, EasyParts, ConcatParts
<1>7. /\ a \o b \o c \o d \o e \in Seq(Statement) /\ Easy(a \o b \o c \o d \o e)
      /\ ToSet(a \o b \o c \o d \o e) = ToSet(a) \union ToSet(b) \union ToSet(c) \union ToSet(d) \union ToSet(e)
  BY <1>3, <1>6, EasyParts, ConcatParts
<1>8. /\ Easy(a \o b \o c \o d \o e \o f)
      /\ ToSet(a \o b \o c \o d \o e \o f)
           = ToSet(a) \union ToSet(b) \union ToSet(c) \union ToSet(d) \union ToSet(e) \union ToSet(f)
  BY <1>3, <1>7, EasyParts, ConcatParts
<1>. QED BY <1>2, <1>8 DEF a, b, c, d, e, f

(* What a removal comes to. *)
LEMMA LeaveParts ==
  ASSUME NEW g \in Group, NEW picked \in SUBSET Assoc, NEW removed \in SUBSET Host
  PROVE  LET s == <<S("erase", g, picked)>> \o Timestamp(g)
                    \o AddHosts(Ungrouped, removed) \o UpdateHosts(Ungrouped, removed)
         IN /\ Easy(s) /\ s # <<>> /\ Head(s) = S("erase", g, picked)
            /\ S("erase", g, picked) \in ToSet(s)
            /\ ToSet(AddHosts(Ungrouped, removed)) \subseteq ToSet(s)
            /\ ToSet(UpdateHosts(Ungrouped, removed)) \subseteq ToSet(s)
            /\ ToSet(s) \subseteq {S("erase", g, picked), S("touch", g, {})}
                 \union ToSet(AddHosts(Ungrouped, removed)) \union ToSet(UpdateHosts(Ungrouped, removed))
<1> DEFINE a == <<S("erase", g, picked)>>
           b == Timestamp(g)
           c == AddHosts(Ungrouped, removed)
           d == UpdateHosts(Ungrouped, removed)
<1>1. a \in Seq(Statement) /\ Plain(a) /\ ToSet(a) = {S("erase", g, picked)} /\ a # <<>>
      /\ Head(a) = S("erase", g, picked)
  <2>1. S("erase", g, picked) \in Statement /\ S("erase", g, picked).do = "erase" BY StatementFacts
  <2>2. a \in Seq(Statement) BY <2>1
  <2>3. ToSet(a) = {S("erase", g, picked)} BY OneParts
  <2>. QED BY <2>1, <2>2, <2>3 DEF Plain
<1>2. b \in Seq(Statement) /\ Plain(b) /\ ToSet(b) \subseteq {S("touch", g, {})} BY TimestampParts
<1>3. c \in Seq(Statement) /\ Plain(c) BY ProgramParts, GroupsAssumption
<1>4. d \in Seq(Statement) /\ Loads(d) BY UpdateLoads, GroupsAssumption
<1>. HIDE DEF a, b, c, d
<1>5. a \o b \in Seq(Statement) /\ Plain(a \o b) /\ ToSet(a \o b) = ToSet(a) \union ToSet(b)
  BY <1>1, <1>2, EasyParts, ConcatParts
<1>6. /\ a \o b \o c \in Seq(Statement) /\ Plain(a \o b \o c)
      /\ ToSet(a \o b \o c) = ToSet(a) \union ToSet(b) \union ToSet(c)
  BY <1>3, <1>5, EasyParts, ConcatParts
<1>7. /\ Easy(a \o b \o c \o d)
      /\ ToSet(a \o b \o c \o d) = ToSet(a) \union ToSet(b) \union ToSet(c) \union ToSet(d)
  BY <1>4, <1>6, EasyParts, ConcatParts
<1>8. a \o b \o c \o d # <<>> /\ Head(a \o b \o c \o d) = Head(a)
  <2>1. a \o b # <<>> /\ Head(a \o b) = Head(a) BY <1>1, <1>2
  <2>2. a \o b \o c # <<>> /\ Head(a \o b \o c) = Head(a \o b) BY <1>3, <1>5, <2>1
  <2>3. a \o b \o c \o d # <<>> /\ Head(a \o b \o c \o d) = Head(a \o b \o c)
    BY <1>4, <1>6, <2>2
  <2>. QED BY <2>1, <2>2, <2>3
<1>. QED BY <1>1, <1>2, <1>7, <1>8 DEF a, b, c, d

(* What an attempt to empty a group comes to. *)
LEMMA TryParts ==
  ASSUME NEW g \in Group, NEW existing \in SUBSET Host, NEW all \in SUBSET Host
  PROVE  LET s == DropHosts(g, existing) \o AddHosts(Ungrouped, existing)
                    \o <<S("release", g, all)>>
         IN /\ s \in Seq(Statement) /\ Ordered(s)
            /\ S("release", g, all) \in ToSet(s) /\ S("check", Ungrouped, existing) \in ToSet(s)
            /\ ToSet(s) \subseteq {S("drop", g, existing), S("touch", g, {}),
                                   S("check", Ungrouped, existing), S("touch", Ungrouped, {}),
                                   S("release", g, all)}
<1> DEFINE a == DropHosts(g, existing)
           b == AddHosts(Ungrouped, existing)
           c == <<S("release", g, all)>>
<1>1. /\ a \in Seq(Statement) /\ Plain(a) /\ ToSet(a) \subseteq {S("drop", g, existing), S("touch", g, {})}
      /\ b \in Seq(Statement) /\ Plain(b) /\ S("check", Ungrouped, existing) \in ToSet(b)
      /\ ToSet(b) \subseteq {S("check", Ungrouped, existing), S("touch", Ungrouped, {})}
  BY ProgramParts, GroupsAssumption
<1>2. c \in Seq(Statement) /\ ToSet(c) = {S("release", g, all)} /\ Ordered(c)
      /\ S("release", g, all).do = "release"
  <2>1. S("release", g, all) \in Statement /\ S("release", g, all).do = "release" BY StatementFacts
  <2>2. c \in Seq(Statement) BY <2>1
  <2>. QED BY <2>1, <2>2, OneParts
<1>. HIDE DEF a, b, c
<1>3. a \o b \in Seq(Statement) /\ Plain(a \o b) /\ ToSet(a \o b) = ToSet(a) \union ToSet(b)
  BY <1>1, EasyParts, ConcatParts
<1>4. a \o b \o c \in Seq(Statement) /\ ToSet(a \o b \o c) = ToSet(a) \union ToSet(b) \union ToSet(c)
  BY <1>2, <1>3, ConcatParts
<1>5. Ordered(a \o b) BY <1>3, PlainShaped
<1>6. \A x \in ToSet(a \o b), y \in ToSet(c) :
        /\ x.do \in {"load", "store", "ungroup"} => y.do = "load"
        /\ y.do \notin {"gather", "try", "leave"} /\ x.do # "leave"
  BY <1>2, <1>3 DEF Plain
<1>7. Ordered(a \o b \o c) BY <1>2, <1>3, <1>5, <1>6, OrderedConcat
<1>. QED BY <1>1, <1>2, <1>4, <1>7 DEF a, b, c

LEMMA EmptyParts == <<>> \in Seq(Statement) /\ ToSet(<<>>) = {} /\ Plain(<<>>)
<1>1. ToSet(<<>>) = {} BY OneParts
<1>2. <<>> \in Seq(Statement) OBVIOUS
<1>. QED BY <1>1, <1>2 DEF Plain

LEMMA SingleParts ==
  ASSUME NEW x \in Statement
  PROVE  /\ <<x>> \in Seq(Statement) /\ ToSet(<<x>>) = {x} /\ Head(<<x>>) = x /\ <<x>> # <<>>
         /\ Ordered(<<x>>)
         /\ x.do \notin {"gather", "try", "release"} => Closed(<<x>>)
<1>1. <<x>> \in Seq(Statement) /\ DOMAIN <<x>> = {1} /\ <<x>>[1] = x /\ Head(<<x>>) = x /\ <<x>> # <<>>
  OBVIOUS
<1>. QED BY <1>1, OneParts DEF Closed

LEMMA PairParts ==
  ASSUME NEW x \in Statement, NEW y \in Statement
  PROVE  <<x, y>> \in Seq(Statement) /\ ToSet(<<x, y>>) = {x, y} /\ Head(<<x, y>>) = x
<1>1. <<x, y>> \in Seq(Statement) /\ DOMAIN <<x, y>> = {1, 2} OBVIOUS
<1>. QED BY <1>1 DEF ToSet

LEMMA AddParts ==
  ASSUME NEW g \in Group, NEW hs \in SUBSET Host
  PROVE  LET s == AddHosts(g, hs) \o UpdateHosts(g, hs)
         IN Easy(s) /\ ToSet(s) = ToSet(AddHosts(g, hs)) \union ToSet(UpdateHosts(g, hs))
BY ProgramParts, UpdateLoads, EasyParts, ConcatParts

LEMMA RenameParts ==
  ASSUME NEW g \in Group, NEW hs \in SUBSET Host
  PROVE  LET s == <<S("touch", g, {})>> \o UpdateHosts(g, hs)
         IN Easy(s) /\ ToSet(s) = {S("touch", g, {})} \union ToSet(UpdateHosts(g, hs))
<1>1. S("touch", g, {}) \in Statement /\ S("touch", g, {}).do = "touch" BY StatementFacts
<1>2. <<S("touch", g, {})>> \in Seq(Statement) BY <1>1
<1>3. ToSet(<<S("touch", g, {})>>) = {S("touch", g, {})} BY OneParts
<1>4. Plain(<<S("touch", g, {})>>) BY <1>1, <1>3 DEF Plain
<1>. QED BY <1>2, <1>3, <1>4, UpdateLoads, EasyParts, ConcatParts

LEMMA DeleteParts ==
  ASSUME NEW g \in Group, NEW hs \in SUBSET Host
  PROVE  LET s == <<S("gather", g, {}), S("ungroup", g, {})>> \o UpdateHosts(Ungrouped, hs)
         IN /\ s \in Seq(Statement) /\ Ordered(s) /\ Closed(s)
            /\ ToSet(s) = {S("gather", g, {}), S("ungroup", g, {})} \union ToSet(UpdateHosts(Ungrouped, hs))
<1> DEFINE x == S("gather", g, {})
           y == S("ungroup", g, {})
           b == UpdateHosts(Ungrouped, hs)
<1>1. x \in Statement /\ x.do = "gather" /\ y \in Statement /\ y.do = "ungroup" BY StatementFacts
<1>2. b \in Seq(Statement) /\ Loads(b) /\ Ordered(b) /\ Closed(b)
  BY UpdateLoads, ProgramParts, GroupsAssumption
<1>. HIDE DEF x, y, b
<1>3. <<x, y>> \in Seq(Statement) /\ ToSet(<<x, y>>) = {x, y} BY <1>1, PairParts
<1>4. Ordered(<<x, y>>) /\ Closed(<<x, y>>)
  <2>1. DOMAIN <<x, y>> = {1, 2} /\ <<x, y>>[1] = x /\ <<x, y>>[2] = y OBVIOUS
  <2>. QED BY <1>1, <2>1 DEF Ordered, Closed
<1>5. Ordered(<<x, y>> \o b)
  <2>1. \A u \in ToSet(<<x, y>>), v \in ToSet(b) :
          /\ u.do \in {"load", "store", "ungroup"} => v.do = "load"
          /\ v.do \notin {"gather", "try", "leave"} /\ u.do # "leave"
    BY <1>1, <1>2, <1>3 DEF Loads
  <2>. QED BY <1>2, <1>3, <1>4, <2>1, OrderedConcat
<1>6. Closed(<<x, y>> \o b) BY <1>2, <1>3, <1>4, ClosedConcat
<1>. QED BY <1>2, <1>3, <1>5, <1>6, ConcatParts DEF x, y, b

LEMMA BeginShape ==
  ASSUME TypeInv, NEW p \in Proc, NEW kind \in Kinds, NEW g \in Group, NEW hs \in SUBSET Host,
         Begin(p, kind, g, hs)
  PROVE  /\ todo' \in [Proc -> Seq(Statement)] /\ request' \in [Proc -> Kinds \union {"idle"}]
         /\ Shape(p)' /\ \A q \in Others(p) : todo'[q] = todo[q] /\ request'[q] = request[q]
<1> DEFINE plan ==
       CASE kind = "add"    -> AddHosts(g, hs) \o UpdateHosts(g, hs)
         [] kind = "remove" -> <<S("leave", g, hs)>>
         [] kind = "patch"  -> Patch(p, g, hs)
         [] kind \in {"rename", "update"} -> Rename(p, g)
         [] kind = "delete" -> DeleteGroup(p, g)
<1>0. /\ todo \in [Proc -> Seq(Statement)] /\ request \in [Proc -> Kinds \union {"idle"}]
      /\ todo' = [todo EXCEPT ![p] = plan] /\ request' = [request EXCEPT ![p] = kind]
      /\ UNCHANGED tries /\ request[p] = "idle" /\ kind # "idle"
  BY GroupsAssumption DEF TypeInv, TypeOK, Begin
<1>1. Members(p, g) \in SUBSET Host BY DEF Members
<1>2. plan \in Seq(Statement) /\ Ordered(plan) /\ Closed(plan) /\ \A x \in ToSet(plan) : x.do # "try"
  <2>1. CASE kind = "add"
    <3>1. plan = AddHosts(g, hs) \o UpdateHosts(g, hs) BY <2>1
    <3>2. Easy(plan) BY <3>1, AddParts
    <3>. QED BY <3>2, EasyParts DEF Easy
  <2>2. CASE kind = "remove"
    <3>1. plan = <<S("leave", g, hs)>> BY <2>2
    <3>2. S("leave", g, hs) \in Statement /\ S("leave", g, hs).do = "leave" BY StatementFacts
    <3>. HIDE DEF plan
    <3>. QED BY <3>1, <3>2, SingleParts
  <2>3. CASE kind = "patch"
    <3> DEFINE removed == Members(p, g) \ hs
               joined  == hs \ Members(p, g)
    <3>1. plan = AddHosts(g, joined) \o DropHosts(g, removed) \o AddHosts(Ungrouped, removed)
                   \o <<S("touch", g, {})>> \o UpdateHosts(Ungrouped, removed) \o UpdateHosts(g, hs)
      BY <2>3 DEF Patch
    <3>. HIDE DEF plan
    <3>2. Easy(plan) BY <1>1, <3>1, PatchParts
    <3>. QED BY <3>2, EasyParts DEF Easy
  <2>4. CASE kind \in {"rename", "update"}
    <3>1. plan = Rename(p, g) BY <2>4
    <3>2. Easy(plan) BY <1>1, <3>1, RenameParts DEF Rename
    <3>. QED BY <3>2, EasyParts DEF Easy
  <2>5. CASE kind = "delete"
    <3>1. plan = DeleteGroup(p, g) BY <2>5
    <3>2. /\ plan \in Seq(Statement) /\ Ordered(plan) /\ Closed(plan)
          /\ ToSet(plan) = {S("gather", g, {}), S("ungroup", g, {})}
                             \union ToSet(UpdateHosts(Ungrouped, Members(p, g)))
      BY <1>1, <3>1, DeleteParts DEF DeleteGroup
    <3>3. S("gather", g, {}).do = "gather" /\ S("ungroup", g, {}).do = "ungroup" BY StatementFacts
    <3>. QED BY <1>1, <3>2, <3>3, UpdateLoads, GroupsAssumption DEF Loads
  <2>. QED BY <2>1, <2>2, <2>3, <2>4, <2>5, GroupsAssumption
<1>. HIDE DEF plan
<1>3. todo'[p] = plan /\ request'[p] = kind /\ tries'[p] = tries[p] BY <1>0
<1>4. tries[p] = 0
  <2>1. todo[p] = <<>> BY <1>0 DEF TypeInv, Shape
  <2>2. ToSet(todo[p]) = {} BY <2>1, OneParts
  <2>. QED BY <2>2 DEF TypeInv, Shape, Has
<1>5. Shape(p)' BY <1>0, <1>2, <1>3, <1>4 DEF Shape, Has
<1>. QED BY <1>0, <1>2, <1>5 DEF Others

(* The fields of the requests, without the programs. *)
RestOK ==
  /\ groups \subseteq Group /\ assoc \subseteq Assoc
  /\ column \in [Host -> Group \union {None, Absent}]
  /\ request \in [Proc -> Kinds \union {"idle"}]
  /\ ins \in [Proc -> SUBSET Assoc] /\ del \in [Proc -> SUBSET Assoc]
  /\ cols \in [Proc -> [Host -> Group \union {None}]]
  /\ held \in [Proc -> SUBSET Group] /\ gone \in [Proc -> SUBSET Group]
  /\ tries \in [Proc -> 0..3]
  /\ news \in [Proc -> [Host -> Group \union {None}]]
  /\ late \in [Proc -> Kinds \union {"idle"}]
  /\ started \in 0..MaxRequests
  /\ rbacV2 \in BOOLEAN

LEMMA TypeSplit == TypeOK <=> RestOK /\ todo \in [Proc -> Seq(Statement)]
BY DEF TypeOK, RestOK

LEMMA HeadTyped ==
  ASSUME TypeInv, NEW p \in Proc, todo[p] # <<>>
  PROVE  LET s == Head(todo[p]) IN
           /\ s \in Statement /\ s \in ToSet(todo[p]) /\ s.group \in Group
           /\ s.do # "erase" => s.on \in SUBSET Host
           /\ s.do = "erase" => s.on \in SUBSET Assoc
           /\ Seen(p) \subseteq Assoc /\ \A g : Members(p, g) \in SUBSET Host
<1>1. todo[p] \in Seq(Statement) /\ assoc \subseteq Assoc /\ ins[p] \subseteq Assoc
  BY DEF TypeInv, TypeOK
<1>2. Seen(p) \subseteq Assoc /\ \A g : Members(p, g) \in SUBSET Host BY <1>1 DEF Seen, Members
<1>3. Head(todo[p]) \in Statement /\ Head(todo[p]) \in ToSet(todo[p]) BY <1>1, TailParts
<1>. QED BY <1>2, <1>3, StatementFacts

(* A statement that leads to others in front of the rest. *)
Leads(p) == Check(p) \/ Detach(p) \/ Drop(p) \/ Leave(p) \/ Load(p) \/ Gather(p)

(* A statement that writes. *)
Writes(p) == Erase(p) \/ Attach(p) \/ Touch(p) \/ Store(p) \/ Ungroup(p)

LEMMA LeadsShape ==
  ASSUME TypeInv, NEW p \in Proc, Leads(p)
  PROVE  /\ UNCHANGED <<tables, request, writes, tries, late, setting>> /\ todo[p] # <<>>
         /\ \E next \in Seq(Statement) : Then(p, next)
         /\ Shape(p)'
<1>1. UNCHANGED <<tables, request, writes, tries, late, setting>> /\ todo[p] # <<>>
  BY DEF Leads, Check, Detach, Drop, Leave, Load, Gather, Runs, events
<1> DEFINE s == Head(todo[p])
<1>2. /\ s \in Statement /\ s.group \in Group
      /\ s.do # "erase" => s.on \in SUBSET Host
      /\ Seen(p) \subseteq Assoc /\ \A g : Members(p, g) \in SUBSET Host
  BY <1>1, HeadTyped
<1>3. UNCHANGED <<tries, request>> BY <1>1
<1>4. CASE Check(p)
  <2> DEFINE x == S("detach", s.group, s.on)
             y == S("attach", s.group, s.on \ Members(p, s.group))
  <2>1. s.do = "check" /\ Then(p, <<x, y>>) BY <1>4 DEF Check, Runs
  <2>2. x \in Statement /\ x.do = "detach" /\ y \in Statement /\ y.do = "attach"
    BY <1>2, <2>1, StatementFacts
  <2>3. <<x, y>> \in Seq(Statement) /\ ToSet(<<x, y>>) = {x, y} BY <2>2, PairParts
  <2>4. Plain(<<x, y>>) BY <2>2, <2>3 DEF Plain
  <2>. HIDE DEF x, y
  <2>. QED BY <1>1, <1>3, <2>1, <2>3, <2>4, ThenShape
<1>5. CASE Detach(p) \/ Drop(p)
  <2>1. PICK picked \in SUBSET Assoc : Then(p, <<S("erase", s.group, picked)>>)
    <3>1. CASE Detach(p)
      <4> DEFINE picked == {a \in Seen(p) : a[1] \in s.on /\ a[2] # s.group}
      <4>1. picked \in SUBSET Assoc /\ Then(p, <<S("erase", s.group, picked)>>)
        BY <1>2, <3>1 DEF Detach
      <4>. QED BY <4>1
    <3>2. CASE Drop(p)
      <4> DEFINE picked == {a \in Seen(p) : a[1] \in s.on /\ a[2] = s.group /\ a[2] \in groups}
      <4>1. picked \in SUBSET Assoc /\ Then(p, <<S("erase", s.group, picked)>>)
        BY <1>2, <3>2 DEF Drop
      <4>. QED BY <4>1
    <3>. QED BY <1>5, <3>1, <3>2
  <2> DEFINE x == S("erase", s.group, picked)
  <2>2. x \in Statement /\ x.do = "erase" BY <1>2, StatementFacts
  <2>3. <<x>> \in Seq(Statement) /\ ToSet(<<x>>) = {x} BY <2>2, SingleParts
  <2>4. Plain(<<x>>) BY <2>2, <2>3 DEF Plain
  <2>5. s.do \notin {"try", "release"} BY <1>5 DEF Detach, Drop, Runs
  <2>. HIDE DEF x
  <2>6. Then(p, <<x>>) BY <2>1 DEF x
  <2>. QED BY <1>1, <1>3, <2>3, <2>4, <2>5, <2>6, ThenShape
<1>6. CASE Leave(p)
  <2> DEFINE picked  == {a \in Seen(p) : a[1] \in s.on /\ a[2] = s.group /\ a[2] \in groups}
             removed == {a[1] : a \in picked}
             next    == <<S("erase", s.group, picked)>> \o Timestamp(s.group)
                          \o AddHosts(Ungrouped, removed) \o UpdateHosts(Ungrouped, removed)
  <2>1. s.do = "leave" /\ Then(p, next) BY <1>6 DEF Leave, Runs
  <2>2. picked \in SUBSET Assoc /\ removed \in SUBSET Host BY <1>2 DEF Assoc
  <2>3. Easy(next) BY <1>2, <2>2, LeaveParts
  <2>. HIDE DEF next, picked, removed
  <2>4. next \in Seq(Statement) /\ Ordered(next) /\ Closed(next)
        /\ \A x \in ToSet(next) : x.do \notin {"gather", "try"}
    BY <2>3, EasyParts DEF Easy
  <2>. QED BY <1>1, <1>3, <2>1, <2>4, ThenShape
<1>7. CASE Load(p)
  <2>1. s.do = "load" BY <1>7 DEF Load, Runs
  <2>2. PICK on \in SUBSET Host : Then(p, <<S("store", s.group, on)>>)
    <3> DEFINE found  == {h \in s.on : Row(h)}
               differ == {h \in found : SeenColumn(p, h) # s.group}
    <3>1. PICK more \in SUBSET (found \ differ) : Then(p, <<S("store", s.group, differ \union more)>>)
      BY <1>7 DEF Load
    <3>2. differ \union more \in SUBSET Host BY <1>2, <2>1
    <3>. QED BY <3>1, <3>2
  <2> DEFINE x == S("store", s.group, on)
  <2>3. x \in Statement /\ x.do = "store" BY <1>2, StatementFacts
  <2>. HIDE DEF x
  <2>4. Then(p, <<x>>) /\ <<x>> \in Seq(Statement) BY <2>2, <2>3, SingleParts DEF x
  <2>. QED BY <1>1, <1>3, <2>1, <2>3, <2>4, ThenShape
<1>8. CASE Gather(p)
  <2>1. s.do = "gather" BY <1>8 DEF Gather, Runs
  <2>2. CASE Then(p, <<>>)
    <3>1. <<>> \in Seq(Statement) /\ Plain(<<>>) BY EmptyParts
    <3>. QED BY <1>1, <1>3, <2>1, <2>2, <3>1, ThenShape
  <2>3. CASE Then(p, <<S("try", s.group, Members(p, s.group))>>)
    <3> DEFINE x == S("try", s.group, Members(p, s.group))
    <3>1. x \in Statement /\ x.do = "try" BY <1>2, StatementFacts
    <3>. HIDE DEF x
    <3>2. Then(p, <<x>>) /\ <<x>> \in Seq(Statement) BY <2>3, <3>1, SingleParts DEF x
    <3>. QED BY <1>1, <1>3, <2>1, <3>1, <3>2, ThenShape
  <2>. QED BY <1>8, <2>2, <2>3 DEF Gather
<1>. QED BY <1>4, <1>5, <1>6, <1>7, <1>8 DEF Leads

(* What is loaded is to be announced. *)
LEMMA LeadsNews ==
  ASSUME TypeInv, NEW p \in Proc, Leads(p)
  PROVE  /\ news' \in [Proc -> [Host -> Group \union {None}]]
         /\ \A q \in Others(p) : news'[q] = news[q]
<1>1. news \in [Proc -> [Host -> Group \union {None}]] BY DEF TypeInv, TypeOK
<1>2. CASE Load(p)
  <2> DEFINE s == Head(todo[p])
             told == [h \in Host |-> IF h \in s.on THEN s.group ELSE news[p][h]]
  <2>1. news' = [news EXCEPT ![p] = told] /\ todo[p] # <<>> BY <1>2 DEF Load, Runs
  <2>2. told \in [Host -> Group \union {None}] BY <1>1, <2>1, HeadTyped
  <2>. QED BY <1>1, <2>1, <2>2 DEF Others
<1>3. CASE ~Load(p)
  <2>1. news' = news BY <1>3 DEF Leads, Check, Detach, Drop, Leave, Gather, events
  <2>. QED BY <1>1, <2>1
<1>. QED BY <1>2, <1>3

LEMMA WritesShape ==
  ASSUME TypeInv, NEW p \in Proc, Writes(p)
  PROVE  /\ todo[p] # <<>> /\ Then(p, <<>>) /\ UNCHANGED <<tables, request, tries, news, late, setting>>
         /\ Shape(p)' /\ RestOK'
         /\ \A q \in Others(p) : /\ ins'[q] = ins[q] /\ del'[q] = del[q] /\ cols'[q] = cols[q]
                                 /\ held'[q] = held[q] /\ gone'[q] = gone[q]
<1> DEFINE s == Head(todo[p])
<1>0. /\ todo[p] # <<>> /\ Then(p, <<>>) /\ UNCHANGED <<tables, request, tries, news, late, setting>>
      /\ s.do \notin {"try", "release"}
  BY DEF Writes, Erase, Attach, Touch, Store, Ungroup, Runs, events
<1>1. /\ s \in Statement /\ s.group \in Group
      /\ s.do # "erase" => s.on \in SUBSET Host
      /\ s.do = "erase" => s.on \in SUBSET Assoc
      /\ RestOK
  BY <1>0, HeadTyped, TypeSplit DEF TypeInv
<1>2. Shape(p)'
  <2>1. <<>> \in Seq(Statement) /\ Plain(<<>>) BY EmptyParts
  <2>2. UNCHANGED <<tries, request>> BY <1>0
  <2>. QED BY <1>0, <2>1, <2>2, ThenShape
<1>3. CASE Erase(p)
  <2>1. /\ s.on \subseteq Assoc /\ UNCHANGED <<cols, held, gone>>
        /\ del' = [del EXCEPT ![p] = @ \union (s.on \cap assoc)]
        /\ ins' = [ins EXCEPT ![p] = @ \ s.on]
    BY <1>1, <1>3 DEF Erase, Runs
  <2>. QED BY <1>0, <1>1, <1>2, <2>1 DEF RestOK, tables, setting, Others
<1>4. CASE Attach(p)
  <2> DEFINE new == {<<h, s.group>> : h \in s.on}
  <2>1. s.on \subseteq Host /\ UNCHANGED <<del, cols, held, gone>>
        /\ ins' = [ins EXCEPT ![p] = @ \union new]
    BY <1>1, <1>4 DEF Attach, Runs
  <2>2. new \subseteq Assoc BY <1>1, <2>1 DEF Assoc
  <2>. QED BY <1>0, <1>1, <1>2, <2>1, <2>2 DEF RestOK, tables, setting, Others
<1>5. CASE Touch(p)
  <2>1. /\ UNCHANGED <<ins, del, cols, gone>>
        /\ held' = [held EXCEPT ![p] = @ \union ({s.group} \cap groups)]
    BY <1>5 DEF Touch
  <2>. QED BY <1>0, <1>1, <1>2, <2>1 DEF RestOK, tables, setting, Others
<1>6. CASE Store(p)
  <2>1. /\ UNCHANGED <<ins, del, held, gone>>
        /\ cols' = [cols EXCEPT ![p] = [h \in Host |-> IF h \in s.on THEN s.group ELSE cols[p][h]]]
    BY <1>6 DEF Store
  <2>. QED BY <1>0, <1>1, <1>2, <2>1 DEF RestOK, tables, setting, Others
<1>7. CASE Ungroup(p)
  <2>1. /\ UNCHANGED <<ins, del, cols, held>>
        /\ gone' = [gone EXCEPT ![p] = @ \union ({s.group} \cap groups)]
    BY <1>7 DEF Ungroup
  <2>. QED BY <1>0, <1>1, <1>2, <2>1 DEF RestOK, tables, setting, Others
<1>. QED BY <1>3, <1>4, <1>5, <1>6, <1>7 DEF Writes

(* What is left of a program after one of its statements. *)
LEMMA SuffixParts ==
  ASSUME NEW s \in Seq(Statement), Ordered(s), Closed(s), NEW i \in DOMAIN s
  PROVE  LET t == SubSeq(s, i + 1, Len(s)) IN
           /\ t \in Seq(Statement) /\ Ordered(t) /\ Closed(t)
           /\ ToSet(t) \subseteq ToSet(s) /\ \A y \in ToSet(t) : y.do \notin {"gather", "try", "leave"}
           /\ s[i].do \in {"load", "store", "ungroup"} => \A y \in ToSet(t) : y.do = "load"
           /\ s[i].do = "release" => \E y \in ToSet(t) : y.do = "ungroup"
           /\ \A k \in DOMAIN s : k > i => s[k] \in ToSet(t)
<1> DEFINE t == SubSeq(s, i + 1, Len(s))
<1>0. /\ i \in Nat /\ Len(s) \in Nat /\ DOMAIN s = 1..Len(s) /\ t \in Seq(Statement)
      /\ Len(t) = Len(s) - i /\ DOMAIN t = 1..(Len(s) - i)
      /\ \A k \in 1..(Len(s) - i) : t[k] = s[i + k]
  OBVIOUS
<1>1. /\ \A k \in DOMAIN t : k \in Nat /\ i + k \in DOMAIN s /\ i < i + k /\ t[k] = s[i + k]
      /\ \A k \in DOMAIN s : k > i => k - i \in DOMAIN t /\ t[k - i] = s[k]
  <2>1. ASSUME NEW k \in DOMAIN t
        PROVE  k \in Nat /\ i + k \in DOMAIN s /\ i < i + k /\ t[k] = s[i + k]
    BY <1>0
  <2>2. ASSUME NEW k \in DOMAIN s, k > i PROVE k - i \in DOMAIN t /\ t[k - i] = s[k]
    <3>1. k - i \in 1..(Len(s) - i) /\ i + (k - i) = k BY <1>0, <2>2
    <3>. QED BY <1>0, <3>1
  <2>. QED BY <2>1, <2>2
<1>. HIDE DEF t
<1>2. ToSet(t) \subseteq ToSet(s) /\ \A k \in DOMAIN s : k > i => s[k] \in ToSet(t)
  BY <1>1 DEF ToSet
<1>3. ASSUME NEW y \in ToSet(t)
      PROVE  /\ y.do \notin {"gather", "try", "leave"}
             /\ s[i].do \in {"load", "store", "ungroup"} => y.do = "load"
  <2>1. PICK k \in DOMAIN t : y = t[k] BY DEF ToSet
  <2>. QED BY <1>1, <2>1 DEF Ordered
<1>4. Ordered(t)
  <2>1. ASSUME NEW k \in DOMAIN t, NEW j \in DOMAIN t, k < j
        PROVE  i + k \in DOMAIN s /\ i + j \in DOMAIN s /\ i + k < i + j /\ t[k] = s[i + k] /\ t[j] = s[i + j]
    BY <1>0, <1>1, <2>1
  <2>. QED BY <2>1 DEF Ordered
<1>5. Closed(t)
  <2>1. ASSUME NEW k \in DOMAIN t, t[k].do \in {"gather", "try", "release"}
        PROVE  \E j \in DOMAIN t : k < j /\ t[j].do = "ungroup"
    <3>1. i + k \in DOMAIN s /\ s[i + k].do \in {"gather", "try", "release"} BY <1>1, <2>1
    <3>2. PICK j \in DOMAIN s : i + k < j /\ s[j].do = "ungroup" BY <3>1 DEF Closed
    <3>3. k \in Nat /\ j \in Nat /\ j > i /\ k < j - i BY <1>0, <1>1, <2>1, <3>2
    <3>. QED BY <1>1, <3>2, <3>3
  <2>. QED BY <2>1 DEF Closed
<1>6. s[i].do = "release" => \E y \in ToSet(t) : y.do = "ungroup"
  <2>1. ASSUME s[i].do = "release" PROVE \E j \in DOMAIN s : i < j /\ s[j].do = "ungroup"
    BY <2>1 DEF Closed
  <2>2. \A j \in DOMAIN s : i < j => s[j] \in ToSet(t) BY <1>0, <1>2
  <2>. QED BY <2>1, <2>2
<1>. QED BY <1>0, <1>2, <1>3, <1>4, <1>5, <1>6 DEF t

LEMMA RetryParts ==
  ASSUME TypeInv, NEW p \in Proc, Retry(p)
  PROVE  /\ todo[p] # <<>> /\ Head(todo[p]).do \in {"check", "attach"} /\ tries[p] \in 1..2
         /\ request[p] # "idle"
         /\ \E i \in DOMAIN todo[p] :
              /\ todo[p][i].do = "release"
              /\ todo' = [todo EXCEPT ![p] = <<[todo[p][i] EXCEPT !.do = "try"]>>
                                                 \o SubSeq(todo[p], i + 1, Len(todo[p]))]
<1> DEFINE s == todo[p]
<1>1. s # <<>> /\ Head(s).do \in {"check", "attach"} /\ tries[p] \in 1..2
  BY DEF Retry, Broken, Runs
<1>2. request[p] # "idle" BY <1>1 DEF TypeInv, Shape
<1>. QED BY <1>1, <1>2 DEF Retry

LEMMA TryShape ==
  ASSUME TypeInv, NEW p \in Proc, Try(p)
  PROVE  /\ UNCHANGED <<tables, request, writes, setting>> /\ todo[p] # <<>>
         /\ \E next \in Seq(Statement) : Then(p, next)
         /\ Shape(p)' /\ tries' \in [Proc -> 0..3] /\ \A q \in Others(p) : tries'[q] = tries[q]
         /\ UNCHANGED <<news, late>>
<1> DEFINE s        == Head(todo[p])
           existing == {h \in s.on : Row(h)}
           next     == DropHosts(s.group, existing) \o AddHosts(Ungrouped, existing)
                         \o <<S("release", s.group, s.on)>>
           t        == Tail(todo[p])
<1>1. /\ todo[p] # <<>> /\ s.do = "try" /\ Then(p, next) /\ tries' = [tries EXCEPT ![p] = @ + 1]
      /\ UNCHANGED <<tables, request, writes, setting>>
  BY DEF Try, Runs
<1>2. s \in ToSet(todo[p]) /\ s.group \in Group /\ s.on \in SUBSET Host BY <1>1, HeadTyped
<1>3. existing \in SUBSET Host BY <1>2
<1>4. /\ tries \in [Proc -> 0..3] /\ tries[p] \in 0..2 /\ request[p] # "idle"
  BY <1>1, <1>2 DEF TypeInv, TypeOK, Shape, Has
<1>5. /\ next \in Seq(Statement) /\ Ordered(next) /\ S("release", s.group, s.on) \in ToSet(next)
      /\ ToSet(next) \subseteq {S("drop", s.group, existing), S("touch", s.group, {}),
                                S("check", Ungrouped, existing), S("touch", Ungrouped, {}),
                                S("release", s.group, s.on)}
  BY <1>2, <1>3, TryParts
<1>6. /\ S("drop", s.group, existing).do = "drop" /\ S("touch", s.group, {}).do = "touch"
      /\ S("check", Ungrouped, existing).do = "check" /\ S("touch", Ungrouped, {}).do = "touch"
      /\ S("release", s.group, s.on).do = "release"
  BY DEF S
<1>7. /\ \A x \in ToSet(next) : x.do \in {"drop", "check", "touch", "release"}
      /\ \E x \in ToSet(next) : x.do = "release"
  BY <1>5, <1>6
<1>. HIDE DEF next, existing
<1>8. /\ t \in Seq(Statement) /\ Ordered(t) /\ Closed(t) /\ todo'[p] = next \o t
      /\ ToSet(todo'[p]) = ToSet(next) \union ToSet(t)
      /\ \A y \in ToSet(t) : y.do \notin {"gather", "try", "leave"}
      /\ \E y \in ToSet(t) : y.do = "ungroup"
  BY <1>1, <1>5, ThenParts
<1>9. Ordered(todo'[p]) /\ Closed(todo'[p]) BY <1>5, <1>7, <1>8, OrderedConcat, ClosedConcat
<1>10. ~Has(p, "gather")' /\ ~Has(p, "try")' /\ Has(p, "release")' BY <1>7, <1>8 DEF Has
<1>11. Shape(p)' BY <1>1, <1>4, <1>9, <1>10 DEF Shape
<1>12. tries' \in [Proc -> 0..3] /\ \A q \in Others(p) : tries'[q] = tries[q]
  BY <1>1, <1>4 DEF Others
<1>13. UNCHANGED <<news, late>> BY DEF Try, events
<1>. QED BY <1>1, <1>5, <1>11, <1>12, <1>13

LEMMA ReleaseShape ==
  ASSUME TypeInv, NEW p \in Proc, Release(p)
  PROVE  /\ UNCHANGED <<tables, request, writes, setting>> /\ todo[p] # <<>>
         /\ \E next \in Seq(Statement) : Then(p, next)
         /\ Shape(p)' /\ tries' \in [Proc -> 0..3] /\ \A q \in Others(p) : tries'[q] = tries[q]
         /\ UNCHANGED <<news, late>>
<1>1. /\ todo[p] # <<>> /\ Then(p, <<>>) /\ tries' = [tries EXCEPT ![p] = 0]
      /\ UNCHANGED <<tables, request, writes, setting>>
  BY DEF Release, Runs
<1>2. <<>> \in Seq(Statement) /\ ToSet(<<>>) = {} BY EmptyParts
<1> DEFINE t == Tail(todo[p])
<1>3. /\ t \in Seq(Statement) /\ Ordered(t) /\ Closed(t) /\ todo'[p] = <<>> \o t
      /\ ToSet(todo'[p]) = ToSet(<<>>) \union ToSet(t)
      /\ \A y \in ToSet(t) : y.do \notin {"gather", "try", "leave"}
  BY <1>1, <1>2, ThenParts
<1>4. todo'[p] = t /\ tries'[p] = 0 /\ request'[p] = request[p] /\ request[p] # "idle"
  BY <1>1, <1>3 DEF TypeInv, TypeOK, Shape
<1>5. Shape(p)' BY <1>2, <1>3, <1>4 DEF Shape, Has
<1>6. tries' \in [Proc -> 0..3] /\ \A q \in Others(p) : tries'[q] = tries[q]
  BY <1>1 DEF Others, TypeInv, TypeOK
<1>7. UNCHANGED <<news, late>> BY DEF Release, events
<1>. QED BY <1>1, <1>2, <1>5, <1>6, <1>7

LEMMA RetryShape ==
  ASSUME TypeInv, NEW p \in Proc, Retry(p)
  PROVE  /\ todo' \in [Proc -> Seq(Statement)] /\ Shape(p)' /\ RestOK'
         /\ \A q \in Others(p) : todo'[q] = todo[q]
<1>1. PICK i \in DOMAIN todo[p] :
        /\ todo[p][i].do = "release"
        /\ todo' = [todo EXCEPT ![p] = <<[todo[p][i] EXCEPT !.do = "try"]>>
                                         \o SubSeq(todo[p], i + 1, Len(todo[p]))]
  BY RetryParts
<1> DEFINE s == todo[p]
           x == [s[i] EXCEPT !.do = "try"]
           t == SubSeq(s, i + 1, Len(s))
<1>2. /\ todo \in [Proc -> Seq(Statement)] /\ s \in Seq(Statement) /\ Ordered(s) /\ Closed(s)
      /\ s[i] \in Statement /\ tries[p] \in 1..2 /\ request[p] # "idle" /\ RestOK
  BY RetryParts, TypeSplit DEF TypeInv, TypeOK, Shape
<1>3. x \in Statement /\ x.do = "try" BY <1>1, <1>2 DEF Statement
<1>4. /\ t \in Seq(Statement) /\ Ordered(t) /\ Closed(t)
      /\ \A y \in ToSet(t) : y.do \notin {"gather", "try", "leave"}
      /\ \E y \in ToSet(t) : y.do = "ungroup"
  BY <1>1, <1>2, SuffixParts
<1>5. todo' = [todo EXCEPT ![p] = <<x>> \o t] BY <1>1
<1>. HIDE DEF x, t
<1>6. <<x>> \in Seq(Statement) /\ ToSet(<<x>>) = {x} /\ Ordered(<<x>>) BY <1>3, SingleParts
<1>7. /\ <<x>> \o t \in Seq(Statement) /\ ToSet(<<x>> \o t) = {x} \union ToSet(t)
      /\ Ordered(<<x>> \o t) /\ Closed(<<x>> \o t)
  <2>1. <<x>> \o t \in Seq(Statement) /\ ToSet(<<x>> \o t) = {x} \union ToSet(t)
    <3>1. /\ <<x>> \o t \in Seq(Statement)
          /\ ToSet(<<x>> \o t) = ToSet(<<x>>) \union ToSet(t)
      BY <1>4, <1>6, ConcatParts
    <3>. QED BY <1>6, <3>1
  <2>2. \A u \in ToSet(<<x>>), y \in ToSet(t) :
          /\ u.do \in {"load", "store", "ungroup"} => y.do = "load"
          /\ y.do \notin {"gather", "try", "leave"} /\ u.do # "leave"
    BY <1>3, <1>4, <1>6
  <2>3. Ordered(<<x>> \o t) BY <1>4, <1>6, <2>2, OrderedConcat
  <2>4. Closed(<<x>> \o t) BY <1>4, <1>6, ClosedConcat
  <2>. QED BY <2>1, <2>3, <2>4
<1>8. todo' \in [Proc -> Seq(Statement)] /\ todo'[p] = <<x>> \o t BY <1>2, <1>5, <1>7
<1>9. UNCHANGED <<tries, request>> BY DEF Retry
<1>10. ~Has(p, "gather")' /\ Has(p, "try")' BY <1>3, <1>4, <1>7, <1>8 DEF Has
<1>11. Shape(p)'
  <2>1. tries'[p] \in 0..2 /\ request'[p] # "idle" BY <1>2, <1>9
  <2>2. Ordered(todo'[p]) /\ Closed(todo'[p]) BY <1>7, <1>8
  <2>. QED BY <1>10, <2>1, <2>2 DEF Shape
<1>12. RestOK'
  <2>1. /\ ins' = [ins EXCEPT ![p] = {}] /\ del' = [del EXCEPT ![p] = {}]
        /\ held' = [held EXCEPT ![p] = {}]
        /\ UNCHANGED <<tables, request, cols, gone, tries, news, late, setting>>
    BY DEF Retry, events
  <2>. QED BY <1>2, <2>1 DEF RestOK, tables, setting
<1>13. \A q \in Others(p) : todo'[q] = todo[q] BY <1>2, <1>5 DEF Others
<1>. QED BY <1>8, <1>11, <1>12, <1>13

LEMMA EndShape ==
  ASSUME TypeInv, NEW p \in Proc, CommitRequest(p) \/ Fail(p)
  PROVE  /\ todo' \in [Proc -> Seq(Statement)] /\ Shape(p)' /\ RestOK'
         /\ \A q \in Others(p) : /\ todo'[q] = todo[q] /\ request'[q] = request[q]
                                 /\ tries'[q] = tries[q]
<1>1. RestOK /\ todo \in [Proc -> Seq(Statement)] BY TypeSplit DEF TypeInv
<1>2. /\ todo' = [todo EXCEPT ![p] = <<>>] /\ request' = [request EXCEPT ![p] = "idle"]
      /\ ins'  = [ins  EXCEPT ![p] = {}] /\ del' = [del EXCEPT ![p] = {}]
      /\ cols' = [cols EXCEPT ![p] = NoCols]
      /\ held' = [held EXCEPT ![p] = {}] /\ gone' = [gone EXCEPT ![p] = {}]
      /\ tries' = [tries EXCEPT ![p] = 0]
      /\ UNCHANGED <<started, rbacV2>>
      /\ (news' = news \/ news' = [news EXCEPT ![p] = NoCols])
      /\ (late' = late \/ late' = [late EXCEPT ![p] = request[p]])
  BY DEF CommitRequest, Fail, Finish, setting
<1>3. groups' \subseteq Group /\ assoc' \subseteq Assoc /\ column' \in [Host -> Group \union {None, Absent}]
  <2>1. CASE CommitRequest(p)
    <3>1. /\ groups' = groups \ gone[p] /\ assoc'  = (assoc \ del[p]) \union ins[p]
          /\ column' = [h \in Host |-> IF Row(h) THEN SeenColumn(p, h) ELSE column[h]]
      BY <2>1 DEF CommitRequest
    <3>2. \A h \in Host : SeenColumn(p, h) \in Group \union {None, Absent}
      BY <1>1 DEF RestOK, SeenColumn
    <3>. QED BY <1>1, <3>1, <3>2 DEF RestOK
  <2>2. CASE Fail(p) BY <1>1, <2>2 DEF Fail, RestOK, tables
  <2>. QED BY <2>1, <2>2
<1>4. NoCols \in [Host -> Group \union {None}] BY DEF NoCols
<1>5. RestOK'
  <2>1. /\ request' \in [Proc -> Kinds \union {"idle"}] /\ tries' \in [Proc -> 0..3]
        /\ ins' \in [Proc -> SUBSET Assoc] /\ del' \in [Proc -> SUBSET Assoc]
        /\ cols' \in [Proc -> [Host -> Group \union {None}]]
        /\ held' \in [Proc -> SUBSET Group] /\ gone' \in [Proc -> SUBSET Group]
        /\ started' \in 0..MaxRequests /\ rbacV2' \in BOOLEAN
    BY <1>1, <1>2, <1>4 DEF RestOK
  <2>2. /\ news' \in [Proc -> [Host -> Group \union {None}]]
        /\ late' \in [Proc -> Kinds \union {"idle"}]
    <3>1. /\ news \in [Proc -> [Host -> Group \union {None}]]
          /\ late \in [Proc -> Kinds \union {"idle"}] /\ request[p] \in Kinds \union {"idle"}
      BY <1>1 DEF RestOK
    <3>2. /\ [news EXCEPT ![p] = NoCols] \in [Proc -> [Host -> Group \union {None}]]
          /\ [late EXCEPT ![p] = request[p]] \in [Proc -> Kinds \union {"idle"}]
      BY <1>4, <3>1
    <3>. QED BY <1>2, <3>1, <3>2
  <2>. QED BY <1>3, <2>1, <2>2 DEF RestOK
<1>6. Ordered(<<>>) /\ Closed(<<>>) /\ ToSet(<<>>) = {} BY OneParts
<1>7. todo' \in [Proc -> Seq(Statement)] /\ todo'[p] = <<>> /\ tries'[p] = 0 BY <1>1, <1>2 DEF RestOK
<1>8. Shape(p)' BY <1>6, <1>7 DEF Shape, Has
<1>. QED BY <1>1, <1>2, <1>5, <1>7, <1>8 DEF RestOK, Others

(* What the events write is what they tell. *)
LEMMA EventsShape ==
  ASSUME TypeInv, NEW p \in Proc, CommitEvents(p) \/ EndEvents(p)
  PROVE  /\ todo' \in [Proc -> Seq(Statement)] /\ Shape(p)' /\ RestOK'
         /\ UNCHANGED <<groups, assoc, todo, request, ins, del, cols, held, gone, tries>>
         /\ \A q \in Others(p) : /\ todo'[q] = todo[q] /\ request'[q] = request[q]
                                 /\ tries'[q] = tries[q]
                                 /\ news'[q] = news[q] /\ late'[q] = late[q]
         /\ late'[p] = "idle" /\ news'[p] = NoCols
<1>1. RestOK /\ todo \in [Proc -> Seq(Statement)] BY TypeSplit DEF TypeInv
<1>2. /\ UNCHANGED <<groups, assoc, todo, request, ins, del, cols, held, gone, tries, started, rbacV2>>
      /\ news' = [news EXCEPT ![p] = NoCols] /\ late' = [late EXCEPT ![p] = "idle"]
  BY DEF CommitEvents, EndEvents, tables, writes, setting
<1>3. column' \in [Host -> Group \union {None, Absent}]
  <2>1. CASE CommitEvents(p)
    <3>1. PICK on \in SUBSET {h \in Host : news[p][h] # None /\ Row(h)} :
            column' = [h \in Host |-> IF h \in on THEN news[p][h] ELSE column[h]]
      BY <2>1 DEF CommitEvents
    <3>. QED BY <1>1, <3>1 DEF RestOK
  <2>2. CASE EndEvents(p) BY <1>1, <2>2 DEF EndEvents, tables, RestOK
  <2>. QED BY <2>1, <2>2
<1>4. NoCols \in [Host -> Group \union {None}] BY DEF NoCols
<1>5. RestOK'
  <2>1. /\ news' \in [Proc -> [Host -> Group \union {None}]]
        /\ late' \in [Proc -> Kinds \union {"idle"}]
    BY <1>1, <1>2, <1>4 DEF RestOK
  <2>. QED BY <1>1, <1>2, <1>3, <2>1 DEF RestOK
<1>6. Shape(p)' BY <1>2, ShapeFrame DEF TypeInv
<1>. QED BY <1>1, <1>2, <1>5, <1>6 DEF RestOK, Others

-----------------------------------------------------------------------------
(* The type invariant. *)
LEMMA HostsTyped ==
  ASSUME TypeInv, NEW h \in Host, CreateHost(h) \/ RemoveHost(h)
  PROVE  RestOK' /\ UNCHANGED <<todo, request, tries>>
<1>1. RestOK BY TypeSplit DEF TypeInv
<1>2. CASE CreateHost(h)
  <2>1. <<h, Ungrouped>> \in Assoc BY GroupsAssumption DEF Assoc
  <2>2. /\ column' = [column EXCEPT ![h] = Ungrouped]
        /\ assoc' = assoc \union {<<h, Ungrouped>>}
        /\ UNCHANGED <<groups, todo, request, writes, tries, news, late, setting>>
    BY <1>2 DEF CreateHost, events
  <2>. QED BY <1>1, <2>1, <2>2, GroupsAssumption DEF RestOK, writes, setting
<1>3. CASE RemoveHost(h)
  <2>1. /\ column' = [column EXCEPT ![h] = Absent]
        /\ assoc' = {a \in assoc : a[1] # h}
        /\ UNCHANGED <<groups, todo, request, writes, tries, news, late, setting>>
    BY <1>3 DEF RemoveHost, events
  <2>. QED BY <1>1, <2>1 DEF RestOK, writes, setting
<1>. QED BY <1>2, <1>3

LEMMA TypeInit == Init => TypeInv
<1> SUFFICES ASSUME Init PROVE TypeInv
  OBVIOUS
<1>1. TypeOK
  <2>1. NoCols \in [Host -> Group \union {None}] BY DEF NoCols
  <2>2. <<>> \in Seq(Statement) BY EmptyParts
  <2>3. started \in 0..MaxRequests /\ tries \in [Proc -> 0..3] BY GroupsAssumption DEF Init
  <2>. QED BY <2>1, <2>2, <2>3 DEF Init, TypeOK
<1>2. ASSUME NEW p \in Proc PROVE Shape(p)
  <2>1. todo[p] = <<>> /\ tries[p] = 0 BY DEF Init
  <2>2. Ordered(<<>>) /\ Closed(<<>>) /\ ToSet(<<>>) = {} BY OneParts
  <2>. QED BY <2>1, <2>2 DEF Shape, Has
<1>. QED BY <1>1, <1>2 DEF TypeInv

LEMMA TypeStep == TypeInv /\ [Next]_vars => TypeInv'
<1> SUFFICES ASSUME TypeInv, [Next]_vars PROVE TypeInv'
  OBVIOUS
<1>0. RestOK /\ todo \in [Proc -> Seq(Statement)] /\ \A q \in Proc : Shape(q)
  BY TypeSplit DEF TypeInv
<1>1. ASSUME NEW p \in Proc, todo' \in [Proc -> Seq(Statement)], Shape(p)', RestOK',
             \A q \in Others(p) : /\ todo'[q] = todo[q] /\ request'[q] = request[q]
                                  /\ tries'[q] = tries[q]
      PROVE  TypeInv'
  <2>1. \A q \in Proc : Shape(q)' BY <1>0, <1>1, ShapeFrame DEF Others
  <2>2. TypeOK' BY <1>1 DEF TypeOK, RestOK
  <2>. QED BY <2>1, <2>2 DEF TypeInv
<1>2. ASSUME NEW p \in Proc, NEW kind \in Kinds, NEW g \in Group, NEW hs \in SUBSET Host,
             Begin(p, kind, g, hs)
      PROVE  TypeInv'
  <2>1. started' \in 0..MaxRequests BY <1>0, <1>2, GroupsAssumption DEF Begin, RestOK
  <2>2. RestOK'
    <3>1. UNCHANGED <<tables, writes, tries, news, late, rbacV2>> BY <1>2 DEF Begin, events
    <3>. QED BY <1>0, <1>2, <2>1, <3>1, BeginShape DEF RestOK, tables, writes
  <2>3. UNCHANGED tries BY <1>2 DEF Begin
  <2>. QED BY <1>1, <1>2, <2>2, <2>3, BeginShape
<1>3. ASSUME NEW p \in Proc, Leads(p) PROVE TypeInv'
  <2>1. /\ UNCHANGED <<tables, request, writes, tries, late, setting>> /\ Shape(p)'
        /\ news' \in [Proc -> [Host -> Group \union {None}]]
    BY <1>3, LeadsShape, LeadsNews
  <2>2. RestOK' BY <1>0, <2>1 DEF RestOK, tables, writes, setting
  <2>3. todo' \in [Proc -> Seq(Statement)] /\ \A q \in Others(p) : todo'[q] = todo[q]
    BY <1>3, LeadsShape, ThenParts
  <2>. QED BY <1>1, <2>1, <2>2, <2>3
<1>4. ASSUME NEW p \in Proc, Writes(p) PROVE TypeInv'
  <2>1. <<>> \in Seq(Statement) BY EmptyParts
  <2>2. todo[p] # <<>> /\ Then(p, <<>>) /\ Shape(p)' /\ RestOK' /\ UNCHANGED <<request, tries>>
    BY <1>4, WritesShape
  <2>3. todo' \in [Proc -> Seq(Statement)] /\ \A q \in Others(p) : todo'[q] = todo[q]
    BY <2>1, <2>2, ThenParts
  <2>. QED BY <1>1, <2>2, <2>3
<1>5. ASSUME NEW p \in Proc, Try(p) \/ Release(p) PROVE TypeInv'
  <2>1. /\ UNCHANGED <<tables, request, writes, setting>> /\ todo[p] # <<>>
        /\ \E next \in Seq(Statement) : Then(p, next)
        /\ Shape(p)' /\ tries' \in [Proc -> 0..3] /\ \A q \in Others(p) : tries'[q] = tries[q]
        /\ UNCHANGED <<news, late>>
    BY <1>5, TryShape, ReleaseShape
  <2>2. RestOK' BY <1>0, <2>1 DEF RestOK, tables, writes, setting
  <2>3. todo' \in [Proc -> Seq(Statement)] /\ \A q \in Others(p) : todo'[q] = todo[q]
    BY <2>1, ThenParts
  <2>. QED BY <1>1, <2>1, <2>2, <2>3
<1>6. ASSUME NEW p \in Proc, Retry(p) PROVE TypeInv'
  <2>1. UNCHANGED <<request, tries>> BY <1>6 DEF Retry
  <2>. QED BY <1>1, <1>6, <2>1, RetryShape
<1>7. ASSUME NEW p \in Proc, CommitRequest(p) \/ Fail(p) PROVE TypeInv'
  BY <1>1, <1>7, EndShape
<1>8. ASSUME NEW h \in Host, CreateHost(h) \/ RemoveHost(h) PROVE TypeInv'
  <2>1. RestOK' /\ UNCHANGED <<todo, request, tries>> BY <1>8, HostsTyped
  <2>2. \A q \in Proc : Shape(q)' BY <1>0, <2>1, ShapeFrame
  <2>3. TypeOK' BY <1>0, <2>1 DEF TypeOK, RestOK
  <2>. QED BY <2>2, <2>3 DEF TypeInv
<1>9. CASE UNCHANGED vars
  <2>1. UNCHANGED <<groups, assoc, column, todo, request, ins, del, cols, held, gone, tries,
                    news, late, started, rbacV2>>
    BY <1>9 DEF vars, tables, writes, events, setting
  <2>2. RestOK' BY <1>0, <2>1 DEF RestOK
  <2>3. \A q \in Proc : Shape(q)' BY <1>0, <2>1, ShapeFrame
  <2>4. TypeOK' BY <1>0, <2>1, <2>2 DEF TypeOK, RestOK
  <2>. QED BY <2>3, <2>4 DEF TypeInv
<1>10. ASSUME NEW p \in Proc, Run(p) PROVE TypeInv'
  BY <1>3, <1>4, <1>5, <1>6, <1>10 DEF Run, Leads, Writes
<1>11. ASSUME NEW p \in Proc, CommitEvents(p) \/ EndEvents(p) PROVE TypeInv'
  BY <1>1, <1>11, EventsShape
<1>. QED BY <1>2, <1>7, <1>8, <1>9, <1>10, <1>11 DEF Next

LEMMA TypeInvariant == Spec => []TypeInv
BY TypeInit, TypeStep, PTL DEF Spec

(* Every table and every transaction holds what its type says, and an      *)
(* attempt to empty a group is never the fourth                            *)
(* (_remove_all_hosts_from_group).                                         *)
THEOREM TypeCorrect == Spec => []TypeOK
<1>1. TypeInv => TypeOK BY DEF TypeInv
<1>. QED BY <1>1, TypeInvariant, PTL

-----------------------------------------------------------------------------
(* The two records agree. Each request has an aim, to: the group it brings *)
(* each host it moves to. Its statements and what it has written follow    *)
(* the aim; where a host is not yet in that group alone, a statement that  *)
(* will see to it is still to run; and what another removal, renaming or   *)
(* deletion commits meanwhile disturbs none of it.                         *)
OnlyEmptying ==
  Overlapping \subseteq {{"remove"}, {"delete"}, {"rename"}, {"remove", "delete"}, {"rename", "delete"}}

To == [Host -> Group \union {None}]

(* A statement follows the aim; g is the group renamed or deleted. *)
Follows(p, to, g, s) ==
  /\ s.do \in {"check", "detach", "attach", "load", "store"} => \A h \in s.on : to[h] = s.group
  /\ s.do = "drop" => \A h \in s.on : to[h] \notin {None, s.group}
  /\ s.do = "erase" => \A a \in s.on : to[a[1]] \notin {None, a[2]}
  /\ s.do = "leave" => request[p] = "remove" /\ s.group # Ungrouped /\ to = NoCols
  /\ s.do \in {"gather", "try", "release", "ungroup"} =>
       request[p] = "delete" /\ s.group = g /\ gone[p] = {}
  /\ s.do \in {"gather", "try"} => ins[p] = {} /\ del[p] = {}
  /\ s.do = "gather" => \A h \in Host : <<h, g>> \in assoc => to[h] # None
  /\ s.do \in {"try", "release"} => \A h \in s.on : to[h] # None
  /\ s.do \in {"try", "release"} => \A h \in Host : <<h, g>> \in assoc => h \in s.on
  /\ request[p] = "rename" => s.do \in {"touch", "load", "store"} /\ s.group = g

Planned(p, to, g) == \A s \in ToSet(todo[p]) : Follows(p, to, g, s)

(* So does what is written. *)
Written(p, to, g) ==
  /\ \A a \in ins[p] : to[a[1]] = a[2] /\ Row(a[1]) /\ a[2] \in groups
  /\ \A a \in del[p] : to[a[1]] \notin {None, a[2]}
  /\ \A h \in Host : cols[p][h] \in {None, to[h]}
  /\ gone[p] \subseteq {g}
  /\ gone[p] # {} => request[p] = "delete" /\ \A a \in assoc \ del[p] : a[2] # g

Deletes(p, to, g) ==
  /\ g # Ungrouped
  /\ Has(p, "ungroup") \/ g \in gone[p] \/ g \notin groups
  /\ \A h \in Host : to[h] # None => column[h] \in {g, Ungrouped, Absent}

(* The row of the group is held from before its hosts are written. *)
Renames(p, to, g) ==
  /\ g # Ungrouped /\ ins[p] = {} /\ del[p] = {}
  /\ \A h \in Host : to[h] # None => to[h] = g /\ column[h] # None
  /\ \A h \in Host : to[h] # None /\ g \in groups /\ Row(h) => column[h] = g
  /\ Has(p, "touch") \/ g \notin groups \/ g \in held[p]
  /\ to = NoCols \/ Has(p, "load") \/ g \in groups \cap held[p]

ByKind(p, to, g) ==
  /\ request[p] = "idle" => to = NoCols
  /\ request[p] \in {"remove", "delete"} => \A h \in Host : to[h] \in {None, Ungrouped}
  /\ request[p] = "delete" => Deletes(p, to, g)
  /\ request[p] = "rename" => Renames(p, to, g)

(* The host is in group x alone, or a statement sees to it. *)
Joins(p, h, x) == <<h, x>> \in Seen(p) \/ Pending(p, "attach", h)

Alone(p, h, x) ==
  /\ Joins(p, h, x)
  /\ \A y \in Group : <<h, y>> \in Seen(p) => y = x \/ (Runs(p, "erase") /\ <<h, y>> \in Head(todo[p]).on)

Settles(p, h, x) ==
  \/ Pending(p, "check", h) \/ Has(p, "gather") \/ Pending(p, "try", h)
  \/ Runs(p, "detach") /\ h \in Head(todo[p]).on /\ Joins(p, h, x)
  \/ Alone(p, h, x)

Fills(p, h, x) == SeenColumn(p, h) = x \/ Pending(p, "load", h) \/ Pending(p, "store", h)

Reaches(p, to) ==
  \A h \in Host : to[h] # None =>
    /\ Row(h) /\ request[p] # "rename" => Settles(p, h, to[h])
    /\ Row(h) /\ request[p] # "rename" => Fills(p, h, to[h])
    /\ column[h] = None => Pending(p, "check", h) /\ Pending(p, "load", h)

Good(p, to, g) == Planned(p, to, g) /\ Written(p, to, g) /\ ByKind(p, to, g) /\ Reaches(p, to)

(* The rows refer to each other, and the requests keep apart. *)
Apart ==
  /\ \A a \in assoc : Row(a[1]) /\ a[2] \in groups
  /\ Ungrouped \in groups
  /\ \A p, q \in Proc : p # q => held[p] \cap gone[q] = {}
  /\ \A p, q \in Proc : p # q /\ request[p] # "idle" /\ request[q] # "idle" =>
       {request[p], request[q]} \in Overlapping

(* What a request will announce is its aim; *)
Tells(p, to) == request[p] # "idle" => \A h \in Host : news[p][h] \in {None, to[h]}

(* and what a committed request announces is still so when a message or    *)
(* the removal from the next group writes it once more.                    *)
Told(p) ==
  late[p] \in Lasting => \A h \in Host : news[p][h] # None =>
    /\ column[h] # None
    /\ Row(h) => column[h] = news[p][h]
    /\ late[p] # "update" => news[p][h] = Ungrouped

LateInv ==
  \A p \in Proc :
    /\ late[p] # "idle" => request[p] = "idle" /\ Told(p)
    /\ request[p] = "idle" /\ late[p] = "idle" => news[p] = NoCols
    /\ \A q \in Others(p) : late[p] # "idle" /\ request[q] # "idle" =>
         {late[p], request[q]} \in Overlapping

SyncInv ==
  /\ TypeInv /\ InSync /\ Apart /\ LateInv
  /\ \A p \in Proc : \E to \in To, g \in Group : Good(p, to, g) /\ Tells(p, to)

(* What another request does not touch. *)
LEMMA GoodFrame ==
  ASSUME NEW q \in Proc, NEW to, NEW g, Good(q, to, g), UNCHANGED tables,
         todo'[q] = todo[q], request'[q] = request[q], ins'[q] = ins[q], del'[q] = del[q],
         cols'[q] = cols[q], held'[q] = held[q], gone'[q] = gone[q]
  PROVE  Good(q, to, g)'
<1>0. groups' = groups /\ assoc' = assoc /\ column' = column BY DEF tables
<1>1. Planned(q, to, g)' BY <1>0 DEF Good, Planned, Follows
<1>2. Written(q, to, g)' BY <1>0 DEF Good, Written, Row
<1>3. ByKind(q, to, g)' BY <1>0 DEF Good, ByKind, Deletes, Renames, Has, Row
<1>4. Reaches(q, to)'
  <2>1. \A h : (Row(h)' <=> Row(h)) /\ (SeenColumn(q, h)' = SeenColumn(q, h)) BY <1>0 DEF Row, SeenColumn
  <2>2. Seen(q)' = Seen(q) BY <1>0 DEF Seen
  <2>3. \A what, h : (Pending(q, what, h)' <=> Pending(q, what, h)) BY DEF Pending
  <2>4. \A what : (Runs(q, what)' <=> Runs(q, what)) /\ (Has(q, what)' <=> Has(q, what)) BY DEF Runs, Has
  <2>5. \A h, x : Settles(q, h, x)' <=> Settles(q, h, x)
    BY <2>2, <2>3, <2>4 DEF Settles, Alone, Joins
  <2>6. \A h, x : Fills(q, h, x)' <=> Fills(q, h, x) BY <2>1, <2>3 DEF Fills
  <2>. QED BY <1>0, <2>1, <2>3, <2>5, <2>6 DEF Good, Reaches
<1>. QED BY <1>1, <1>2, <1>3, <1>4 DEF Good

LEMMA IdleParts ==
  ASSUME TypeInv, NEW p \in Proc, request[p] = "idle"
  PROVE  /\ \A to \in To, g \in Group : Good(p, to, g) =>
              /\ to = NoCols /\ todo[p] = <<>> /\ ins[p] = {} /\ del[p] = {} /\ gone[p] = {}
              /\ \A h \in Host : cols[p][h] = None
<1> SUFFICES ASSUME NEW to \in To, NEW g \in Group, Good(p, to, g)
             PROVE  /\ to = NoCols /\ todo[p] = <<>> /\ ins[p] = {} /\ del[p] = {} /\ gone[p] = {}
                    /\ \A h \in Host : cols[p][h] = None
  OBVIOUS
<1>1. to = NoCols /\ todo[p] = <<>> BY DEF Good, ByKind, TypeInv, Shape
<1>2. \A h \in Host : to[h] = None BY <1>1 DEF NoCols
<1>3. /\ ins[p] \subseteq Assoc /\ del[p] \subseteq Assoc
      /\ \A a \in Assoc : a[1] \in Host /\ a[2] \in Group
  BY DEF TypeInv, TypeOK, Assoc
<1>4. ins[p] = {} /\ del[p] = {} BY <1>2, <1>3, GroupsAssumption DEF Good, Written
<1>. QED BY <1>1, <1>2, <1>4 DEF Good, Written

LEMMA IdleGood ==
  ASSUME NEW p \in Proc, NEW g \in Group, request[p] = "idle", todo[p] = <<>>, ins[p] = {},
         del[p] = {}, gone[p] = {}, \A h \in Host : cols[p][h] = None
  PROVE  Good(p, NoCols, g)
<1>1. \A h \in Host : NoCols[h] = None BY DEF NoCols
<1>2. ToSet(todo[p]) = {} BY EmptyParts
<1>3. Planned(p, NoCols, g) BY <1>2 DEF Planned, Follows
<1>4. Written(p, NoCols, g) BY <1>1 DEF Written
<1>5. ByKind(p, NoCols, g) BY DEF ByKind
<1>. QED BY <1>1, <1>3, <1>4, <1>5 DEF Good, Reaches

LEMMA ToParts == NoCols \in To /\ \A to \in To, h \in Host : to[h] \in Group \union {None}
BY DEF NoCols, To

LEMMA SFields == \A what, g, on : S(what, g, on).do = what /\ S(what, g, on).group = g /\ S(what, g, on).on = on
BY DEF S

(* In sync, an association and the column of its host say the same. *)
LEMMA SyncParts ==
  ASSUME TypeInv, InSync, Apart
  PROVE  /\ \A h \in Host, y \in Group : <<h, y>> \in assoc => Row(h) /\ column[h] = y /\ y \in groups
         /\ \A h \in Host : Row(h) => column[h] \in Group /\ <<h, column[h]>> \in assoc
<1>1. ASSUME NEW h \in Host, NEW y \in Group, <<h, y>> \in assoc
      PROVE  Row(h) /\ column[h] = y /\ y \in groups
  <2>1. Row(<<h, y>>[1]) /\ <<h, y>>[2] \in groups BY <1>1 DEF Apart
  <2>2. Row(h) /\ y \in groups BY <2>1
  <2>3. y \in GroupsOf(h) BY <1>1 DEF GroupsOf
  <2>. QED BY <2>2, <2>3 DEF InSync
<1>2. ASSUME NEW h \in Host, Row(h) PROVE column[h] \in Group /\ <<h, column[h]>> \in assoc
  <2>1. column[h] \in GroupsOf(h) BY <1>2 DEF InSync
  <2>. QED BY <2>1 DEF GroupsOf
<1>. QED BY <1>1, <1>2

LEMMA BeginGood ==
  ASSUME SyncInv, NEW p \in Proc, NEW kind \in Kinds, NEW g \in Group, NEW hs \in SUBSET Host,
         Begin(p, kind, g, hs)
  PROVE  \E to \in To, x \in Group : Good(p, to, x)'
<1>0. /\ UNCHANGED <<groups, assoc, column, ins, del, cols, held, gone>>
      /\ request' = [request EXCEPT ![p] = kind] /\ request \in [Proc -> Kinds \union {"idle"}]
      /\ todo \in [Proc -> Seq(Statement)]
      /\ request[p] = "idle" /\ g \in groups /\ (g = Ungrouped => kind = "add")
  BY DEF Begin, tables, writes, SyncInv, TypeInv, TypeOK
<1>1. ins[p] = {} /\ del[p] = {} /\ gone[p] = {} /\ \A h \in Host : cols[p][h] = None
  BY <1>0, IdleParts DEF SyncInv
<1>2. /\ ins'[p] = {} /\ del'[p] = {} /\ gone'[p] = {} /\ \A h \in Host : cols'[p][h] = None
      /\ request'[p] = kind /\ column' = column /\ groups' = groups /\ assoc' = assoc
  BY <1>0, <1>1
<1>3. Seen(p) = assoc /\ Seen(p)' = assoc /\ (\A h : Row(h)' <=> Row(h))
  BY <1>1, <1>2 DEF Seen, Row
<1>4. \A to \in To : Written(p, to, g)' BY <1>2 DEF Written
<1>5. /\ \A h \in Host, y \in Group : <<h, y>> \in assoc => Row(h) /\ column[h] = y
      /\ \A h \in Host : Row(h) => column[h] \in Group /\ <<h, column[h]>> \in assoc
  BY SyncParts DEF SyncInv
<1>6. \A h \in Host : \A y : h \in Members(p, y) <=> <<h, y>> \in assoc BY <1>3 DEF Members
<1>7. Members(p, g) \in SUBSET Host BY DEF Members
<1>8. None \notin Group /\ Absent \notin Group /\ Ungrouped \in Group BY GroupsAssumption
<1>9. CASE kind = "add"
  <2>1. PICK to \in To : \A h \in Host : to[h] = IF h \in hs THEN g ELSE None
    <3> DEFINE f == [h \in Host |-> IF h \in hs THEN g ELSE None]
    <3>1. f \in To BY DEF To
    <3>. QED BY <3>1
  <2>2. todo'[p] = AddHosts(g, hs) \o UpdateHosts(g, hs) BY <1>0, <1>9 DEF Begin
  <2>3. /\ ToSet(todo'[p]) = ToSet(AddHosts(g, hs)) \union ToSet(UpdateHosts(g, hs))
    BY <2>2, AddParts
  <2>4. /\ ToSet(todo'[p]) \subseteq {S("check", g, hs), S("touch", g, {}), S("load", g, hs)}
        /\ S("check", g, hs) \in ToSet(todo'[p])
        /\ hs # {} => S("load", g, hs) \in ToSet(todo'[p])
    BY <2>3, ProgramParts
  <2>5. Planned(p, to, g)' BY <1>2, <1>9, <2>1, <2>4, SFields DEF Planned, Follows
  <2>6. ByKind(p, to, g)' BY <1>2, <1>9 DEF ByKind
  <2>7. ASSUME NEW h \in Host, to[h] # None
        PROVE  Pending(p, "check", h)' /\ Pending(p, "load", h)'
    BY <1>8, <2>1, <2>4, <2>7, SFields DEF Pending
  <2>8. Reaches(p, to)' BY <2>7 DEF Reaches, Settles, Fills
  <2>. QED BY <1>4, <2>5, <2>6, <2>8 DEF Good
<1>10. CASE kind = "remove"
  <2>1. todo'[p] = <<S("leave", g, hs)>> BY <1>0, <1>10 DEF Begin
  <2>2. ToSet(todo'[p]) = {S("leave", g, hs)} BY <2>1, OneParts
  <2>3. g # Ungrouped BY <1>0, <1>10
  <2>4. Planned(p, NoCols, g)' BY <1>2, <1>10, <2>2, <2>3, SFields DEF Planned, Follows, NoCols
  <2>5. \A h \in Host : NoCols[h] = None BY DEF NoCols
  <2>6. ByKind(p, NoCols, g)' BY <1>2, <1>10, <2>5 DEF ByKind, NoCols
  <2>7. Reaches(p, NoCols)' BY <2>5 DEF Reaches, NoCols
  <2>. QED BY <1>4, <2>4, <2>6, <2>7, ToParts DEF Good, NoCols
<1>11. CASE kind = "patch"
  <2> DEFINE removed == Members(p, g) \ hs
             joined  == hs \ Members(p, g)
             plan    == AddHosts(g, joined) \o DropHosts(g, removed) \o AddHosts(Ungrouped, removed)
                          \o <<S("touch", g, {})>> \o UpdateHosts(Ungrouped, removed) \o UpdateHosts(g, hs)
  <2>1. PICK to \in To : \A h \in Host :
          to[h] = IF h \in hs THEN g ELSE IF h \in removed THEN Ungrouped ELSE None
    <3> DEFINE f == [h \in Host |-> IF h \in hs THEN g ELSE IF h \in removed THEN Ungrouped ELSE None]
    <3>1. f \in To BY <1>8 DEF To
    <3>. QED BY <3>1
  <2>2. todo'[p] = plan BY <1>0, <1>11 DEF Begin, Patch
  <2>3. removed \in SUBSET Host /\ joined \in SUBSET Host BY <1>7
  <2>4. /\ ToSet(todo'[p]) = ToSet(AddHosts(g, joined)) \union ToSet(DropHosts(g, removed))
                               \union ToSet(AddHosts(Ungrouped, removed)) \union {S("touch", g, {})}
                               \union ToSet(UpdateHosts(Ungrouped, removed))
                               \union ToSet(UpdateHosts(g, hs))
    <3>1. PICK j \in SUBSET Host, q \in SUBSET Host : j = joined /\ q = removed BY <2>3
    <3>2. ToSet(AddHosts(g, j) \o DropHosts(g, q) \o AddHosts(Ungrouped, q)
                  \o <<S("touch", g, {})>> \o UpdateHosts(Ungrouped, q) \o UpdateHosts(g, hs))
            = ToSet(AddHosts(g, j)) \union ToSet(DropHosts(g, q)) \union ToSet(AddHosts(Ungrouped, q))
                \union {S("touch", g, {})} \union ToSet(UpdateHosts(Ungrouped, q))
                \union ToSet(UpdateHosts(g, hs))
      BY PatchParts
    <3>. HIDE DEF removed, joined
    <3>. QED BY <2>2, <3>1, <3>2
  <2>5. g # Ungrouped BY <1>0, <1>11
  <2>. HIDE DEF removed, joined
  <2>6. /\ ToSet(todo'[p]) \subseteq {S("check", g, joined), S("touch", g, {}), S("drop", g, removed),
                                      S("check", Ungrouped, removed), S("touch", Ungrouped, {}),
                                      S("load", Ungrouped, removed), S("load", g, hs)}
        /\ S("check", g, joined) \in ToSet(todo'[p]) /\ S("check", Ungrouped, removed) \in ToSet(todo'[p])
        /\ removed # {} => S("load", Ungrouped, removed) \in ToSet(todo'[p])
        /\ hs # {} => S("load", g, hs) \in ToSet(todo'[p])
    <3>1. /\ S("check", g, joined) \in ToSet(AddHosts(g, joined))
          /\ ToSet(AddHosts(g, joined)) \subseteq {S("check", g, joined), S("touch", g, {})}
      BY <2>3, ProgramParts
    <3>2. ToSet(DropHosts(g, removed)) \subseteq {S("drop", g, removed), S("touch", g, {})}
      BY <2>3, ProgramParts
    <3>3. /\ S("check", Ungrouped, removed) \in ToSet(AddHosts(Ungrouped, removed))
          /\ ToSet(AddHosts(Ungrouped, removed)) \subseteq {S("check", Ungrouped, removed), S("touch", Ungrouped, {})}
      BY <1>8, <2>3, ProgramParts
    <3>4. ToSet(UpdateHosts(Ungrouped, removed)) = IF removed = {} THEN {} ELSE {S("load", Ungrouped, removed)}
      BY <1>8, <2>3, ProgramParts
    <3>5. ToSet(UpdateHosts(g, hs)) = IF hs = {} THEN {} ELSE {S("load", g, hs)} BY ProgramParts
    <3>. QED BY <2>4, <3>1, <3>2, <3>3, <3>4, <3>5
  <2>7. joined \subseteq hs /\ removed \cap hs = {} BY DEF joined, removed
  <2>8. /\ \A h \in joined : to[h] = g
        /\ \A h \in removed : to[h] = Ungrouped
        /\ \A h \in hs : to[h] = g
    BY <2>1, <2>3, <2>7
  <2>9. Planned(p, to, g)'
    BY <1>2, <1>8, <1>11, <2>5, <2>6, <2>8, SFields DEF Planned, Follows
  <2>10. ByKind(p, to, g)' BY <1>2, <1>11 DEF ByKind
  <2>11. ASSUME NEW h \in Host, to[h] # None
         PROVE  /\ Row(h)' => Settles(p, h, to[h])'
                /\ Pending(p, "load", h)'
                /\ column'[h] = None => Pending(p, "check", h)'
    <3>1. h \in hs \/ h \in removed BY <2>1, <2>11
    <3>2. Pending(p, "load", h)' BY <2>6, <3>1, SFields DEF Pending
    <3>3. CASE h \in joined \/ h \in removed
      <4>1. Pending(p, "check", h)' BY <2>6, <3>3, SFields DEF Pending
      <4>. QED BY <3>2, <4>1 DEF Settles
    <3>4. CASE h \in hs /\ h \notin joined
      <4>1. <<h, g>> \in assoc BY <1>6, <3>4 DEF joined
      <4>2. Row(h) /\ column[h] = g BY <1>5, <4>1
      <4>3. to[h] = g BY <2>1, <3>4
      <4>4. \A y \in Group : <<h, y>> \in assoc => y = g BY <1>5, <4>2
      <4>5. Alone(p, h, to[h])' BY <1>3, <4>1, <4>3, <4>4 DEF Alone, Joins
      <4>. QED BY <1>2, <3>2, <4>2, <4>5 DEF Settles, Row
    <3>. QED BY <3>1, <3>3, <3>4
  <2>12. Reaches(p, to)' BY <2>11 DEF Reaches, Fills
  <2>. QED BY <1>4, <2>9, <2>10, <2>12 DEF Good
<1>12. CASE kind = "rename"
  <2> DEFINE members == Members(p, g)
  <2>1. PICK to \in To : \A h \in Host : to[h] = IF h \in members THEN g ELSE None
    <3> DEFINE f == [h \in Host |-> IF h \in members THEN g ELSE None]
    <3>1. f \in To BY DEF To
    <3>. QED BY <3>1
  <2>2. todo'[p] = <<S("touch", g, {})>> \o UpdateHosts(g, members)
    BY <1>0, <1>12 DEF Begin, Rename
  <2>3. ToSet(todo'[p]) = {S("touch", g, {})} \union ToSet(UpdateHosts(g, members))
    BY <1>7, <2>2, RenameParts
  <2>4. members \in SUBSET Host /\ \A h \in members : <<h, g>> \in assoc BY <1>6, <1>7
  <2>. HIDE DEF members
  <2>5. /\ ToSet(todo'[p]) \subseteq {S("touch", g, {}), S("load", g, members)}
        /\ S("touch", g, {}) \in ToSet(todo'[p])
    BY <2>3, <2>4, ProgramParts
  <2>6. g # Ungrouped BY <1>0, <1>12
  <2>7. Planned(p, to, g)' BY <1>2, <1>12, <2>1, <2>4, <2>5, SFields DEF Planned, Follows
  <2>8. \A h \in Host : to[h] # None => to[h] = g /\ column[h] = g /\ column[h] # None
    BY <1>5, <1>8, <2>1, <2>4
  <2>9. Has(p, "touch")' BY <2>5, SFields DEF Has
  <2>10. to = NoCols \/ Has(p, "load")'
    <3>1. CASE members = {}
      <4>1. to = NoCols BY <2>1, <3>1 DEF To, NoCols
      <4>. QED BY <4>1
    <3>2. CASE members # {}
      <4>1. S("load", g, members) \in ToSet(todo'[p]) BY <2>3, <2>4, <3>2, ProgramParts
      <4>. QED BY <4>1, SFields DEF Has
    <3>. QED BY <3>1, <3>2
  <2>11. Renames(p, to, g)' BY <1>2, <2>6, <2>8, <2>9, <2>10 DEF Renames, NoCols
  <2>12. ByKind(p, to, g)' BY <1>2, <1>12, <2>11 DEF ByKind
  <2>13. Reaches(p, to)' BY <1>2, <1>12, <2>8 DEF Reaches
  <2>. QED BY <1>4, <2>7, <2>12, <2>13 DEF Good
<1>13. CASE kind = "delete"
  <2> DEFINE members == Members(p, g)
  <2>1. PICK to \in To : \A h \in Host : to[h] = IF h \in members THEN Ungrouped ELSE None
    <3> DEFINE f == [h \in Host |-> IF h \in members THEN Ungrouped ELSE None]
    <3>1. f \in To BY <1>8 DEF To
    <3>. QED BY <3>1
  <2>2. todo'[p] = <<S("gather", g, {}), S("ungroup", g, {})>> \o UpdateHosts(Ungrouped, members)
    BY <1>0, <1>13 DEF Begin, DeleteGroup
  <2>3. ToSet(todo'[p]) = {S("gather", g, {}), S("ungroup", g, {})}
                            \union ToSet(UpdateHosts(Ungrouped, members))
    BY <1>7, <2>2, DeleteParts
  <2>4. members \in SUBSET Host /\ \A h \in Host : h \in members <=> <<h, g>> \in assoc BY <1>6, <1>7
  <2>. HIDE DEF members
  <2>5. /\ ToSet(todo'[p]) \subseteq {S("gather", g, {}), S("ungroup", g, {}), S("load", Ungrouped, members)}
        /\ S("gather", g, {}) \in ToSet(todo'[p]) /\ S("ungroup", g, {}) \in ToSet(todo'[p])
        /\ members # {} => S("load", Ungrouped, members) \in ToSet(todo'[p])
    BY <1>8, <2>3, <2>4, ProgramParts
  <2>6. g # Ungrouped BY <1>0, <1>13
  <2>7. Planned(p, to, g)'
    <3>1. \A h \in members : to[h] = Ungrouped BY <2>1, <2>4
    <3>2. \A h \in Host : <<h, g>> \in assoc => to[h] # None BY <1>8, <2>1, <2>4
    <3>. QED BY <1>2, <1>13, <2>5, <3>1, <3>2, SFields DEF Planned, Follows
  <2>8. \A h \in Host : to[h] # None => to[h] = Ungrouped /\ h \in members /\ column[h] = g
    BY <1>5, <2>1, <2>4
  <2>9. Has(p, "ungroup")' /\ Has(p, "gather")' BY <2>5, SFields DEF Has
  <2>10. Deletes(p, to, g)' BY <1>2, <2>6, <2>8, <2>9 DEF Deletes
  <2>11. ByKind(p, to, g)' BY <1>2, <1>13, <2>8, <2>10 DEF ByKind
  <2>12. ASSUME NEW h \in Host, to[h] # None PROVE Pending(p, "load", h)' /\ column'[h] # None
    BY <1>2, <1>8, <2>5, <2>8, <2>12, SFields DEF Pending
  <2>13. Reaches(p, to)' BY <2>9, <2>12 DEF Reaches, Settles, Fills
  <2>. QED BY <1>4, <2>7, <2>11, <2>13 DEF Good
<1>14. CASE kind = "update"
  <2> DEFINE members == Members(p, g)
  <2>1. PICK to \in To : \A h \in Host : to[h] = IF h \in members THEN g ELSE None
    <3> DEFINE f == [h \in Host |-> IF h \in members THEN g ELSE None]
    <3>1. f \in To BY DEF To
    <3>. QED BY <3>1
  <2>2. todo'[p] = <<S("touch", g, {})>> \o UpdateHosts(g, members)
    BY <1>0, <1>14 DEF Begin, Rename
  <2>3. ToSet(todo'[p]) = {S("touch", g, {})} \union ToSet(UpdateHosts(g, members))
    BY <1>7, <2>2, RenameParts
  <2>4. members \in SUBSET Host /\ \A h \in members : <<h, g>> \in assoc BY <1>6, <1>7
  <2>. HIDE DEF members
  <2>5. /\ ToSet(todo'[p]) \subseteq {S("touch", g, {}), S("load", g, members)}
        /\ members # {} => S("load", g, members) \in ToSet(todo'[p])
    BY <2>3, <2>4, ProgramParts
  <2>6. Planned(p, to, g)' BY <1>2, <1>14, <2>1, <2>4, <2>5, SFields DEF Planned, Follows
  <2>7. ByKind(p, to, g)' BY <1>2, <1>14 DEF ByKind
  <2>8. ASSUME NEW h \in Host, to[h] # None
        PROVE  Settles(p, h, to[h])' /\ Pending(p, "load", h)' /\ column'[h] # None
    <3>1. h \in members /\ to[h] = g /\ <<h, g>> \in assoc BY <2>1, <2>4, <2>8
    <3>2. Row(h) /\ column[h] = g /\ \A y \in Group : <<h, y>> \in assoc => y = g
      BY <1>5, <3>1
    <3>3. Alone(p, h, to[h])' BY <1>3, <3>1, <3>2 DEF Alone, Joins
    <3>4. Pending(p, "load", h)' BY <2>5, <3>1, SFields DEF Pending
    <3>. QED BY <1>2, <1>8, <3>2, <3>3, <3>4 DEF Settles
  <2>9. Reaches(p, to)' BY <2>8 DEF Reaches, Fills
  <2>. QED BY <1>4, <2>6, <2>7, <2>9 DEF Good
<1>. QED BY <1>9, <1>10, <1>11, <1>12, <1>13, <1>14, GroupsAssumption

-----------------------------------------------------------------------------
(* One statement, as the request that runs it sees it. *)
LEMMA KeepParts ==
  ASSUME TypeInv, NEW p \in Proc, todo[p] # <<>>, NEW next \in Seq(Statement), Then(p, next)
  PROVE  /\ \A what, h : what # Head(todo[p]).do /\ Pending(p, what, h) => Pending(p, what, h)'
         /\ \A what : what # Head(todo[p]).do /\ Has(p, what) => Has(p, what)'
         /\ \A s \in ToSet(next) : Has(p, s.do)' /\ \A h \in s.on : Pending(p, s.do, h)'
         /\ \A what, h : Pending(p, what, h) =>
              \/ what = Head(todo[p]).do /\ h \in Head(todo[p]).on
              \/ Pending(p, what, h)'
         /\ \A h : Head(todo[p]).do \notin {"gather", "try"} =>
              ~Has(p, "gather") /\ ~Pending(p, "try", h)
<1>1. /\ ToSet(todo[p]) = {Head(todo[p])} \union ToSet(Tail(todo[p]))
      /\ ToSet(todo'[p]) = ToSet(next) \union ToSet(Tail(todo[p]))
      /\ \A y \in ToSet(Tail(todo[p])) : y.do \notin {"gather", "try", "leave"}
  BY ThenParts
<1>. QED BY <1>1 DEF Has, Pending

LEMMA PlannedStep ==
  ASSUME TypeInv, NEW p \in Proc, todo[p] # <<>>, NEW next \in Seq(Statement), Then(p, next),
         NEW to, NEW g, Planned(p, to, g), UNCHANGED <<tables, request>>, gone'[p] = gone[p],
         \A s \in ToSet(next) : Follows(p, to, g, s)'
  PROVE  Planned(p, to, g)'
<1>1. /\ ToSet(todo[p]) = {Head(todo[p])} \union ToSet(Tail(todo[p]))
      /\ ToSet(todo'[p]) = ToSet(next) \union ToSet(Tail(todo[p]))
      /\ \A y \in ToSet(Tail(todo[p])) : y.do \notin {"gather", "try", "leave"}
  BY ThenParts
<1>2. assoc' = assoc /\ request' = request BY DEF tables
<1>3. ASSUME NEW s \in ToSet(Tail(todo[p])) PROVE Follows(p, to, g, s)'
  <2>1. Follows(p, to, g, s) /\ s.do \notin {"gather", "try", "leave"} BY <1>1 DEF Planned
  <2>. QED BY <1>2, <2>1 DEF Follows
<1>. QED BY <1>1, <1>3 DEF Planned

LEMMA KindStep ==
  ASSUME TypeInv, NEW p \in Proc, todo[p] # <<>>, NEW next \in Seq(Statement), Then(p, next),
         NEW to, NEW g, ByKind(p, to, g), UNCHANGED <<tables, request>>,
         Head(todo[p]).do \notin {"ungroup", "touch", "load"},
         gone'[p] = gone[p], held'[p] = held[p],
         request[p] = "rename" => ins'[p] = ins[p] /\ del'[p] = del[p]
  PROVE  ByKind(p, to, g)'
<1>1. groups' = groups /\ column' = column /\ request' = request /\ \A h : Row(h)' <=> Row(h)
  BY DEF tables, Row
<1>2. \A what \in {"ungroup", "touch", "load"} : Has(p, what) => Has(p, what)' BY KeepParts
<1>3. request[p] = "delete" => Deletes(p, to, g)'
  BY <1>1, <1>2 DEF ByKind, Deletes
<1>4. request[p] = "rename" => Renames(p, to, g)'
  BY <1>1, <1>2 DEF ByKind, Renames
<1>. QED BY <1>1, <1>3, <1>4 DEF ByKind

LEMMA SettlesStep ==
  ASSUME TypeInv, NEW p \in Proc, todo[p] # <<>>, NEW next \in Seq(Statement), Then(p, next),
         Seen(p)' = Seen(p),
         Head(todo[p]).do \notin {"check", "gather", "try", "detach", "attach", "erase"},
         NEW h \in Host, NEW x, Settles(p, h, x)
  PROVE  Settles(p, h, x)'
<1>1. CASE Pending(p, "check", h)
  <2>1. Pending(p, "check", h)' BY <1>1, KeepParts
  <2>. QED BY <2>1 DEF Settles
<1>2. CASE Alone(p, h, x)
  <2>1. Pending(p, "attach", h) => Pending(p, "attach", h)' BY KeepParts
  <2>2. Joins(p, h, x)' BY <1>2, <2>1 DEF Alone, Joins
  <2>3. \A y \in Group : <<h, y>> \in Seen(p)' => y = x BY <1>2 DEF Alone, Runs
  <2>4. Alone(p, h, x)' BY <2>2, <2>3 DEF Alone
  <2>. QED BY <2>4 DEF Settles
<1>3. ~Has(p, "gather") /\ ~Pending(p, "try", h) /\ ~Runs(p, "detach") BY KeepParts DEF Runs
<1>. QED BY <1>1, <1>2, <1>3 DEF Settles

LEMMA FillsStep ==
  ASSUME TypeInv, NEW p \in Proc, todo[p] # <<>>, NEW next \in Seq(Statement), Then(p, next),
         UNCHANGED tables, cols'[p] = cols[p], Head(todo[p]).do \notin {"load", "store"},
         NEW h \in Host, NEW x, Fills(p, h, x)
  PROVE  Fills(p, h, x)'
<1>1. SeenColumn(p, h)' = SeenColumn(p, h) BY DEF SeenColumn, tables
<1>2. /\ Pending(p, "load", h) => Pending(p, "load", h)'
      /\ Pending(p, "store", h) => Pending(p, "store", h)'
  BY KeepParts
<1>. QED BY <1>1, <1>2 DEF Fills

(* What one has to show of a step that leaves the tables alone. *)
LEMMA ReachesStep ==
  ASSUME TypeInv, NEW p \in Proc, todo[p] # <<>>, NEW next \in Seq(Statement), Then(p, next),
         UNCHANGED <<tables, request>>, NEW to, Reaches(p, to),
         \A h \in Host : /\ to[h] # None /\ Row(h) /\ request[p] # "rename" =>
                              Settles(p, h, to[h])' /\ Fills(p, h, to[h])'
                         /\ Head(todo[p]).do = "check" /\ h \in Head(todo[p]).on => Row(h)
  PROVE  Reaches(p, to)'
<1>1. column' = column /\ request' = request /\ \A h : Row(h)' <=> Row(h) BY DEF tables, Row
<1>2. ASSUME NEW h \in Host, to[h] # None, column[h] = None
      PROVE  Pending(p, "check", h)' /\ Pending(p, "load", h)'
  <2>1. Pending(p, "check", h) /\ Pending(p, "load", h) /\ ~Row(h) BY <1>2 DEF Reaches, Row
  <2>2. Pending(p, "check", h)' BY <2>1, KeepParts
  <2>3. Head(todo[p]).do # "load"
    <3>1. PICK s \in ToSet(todo[p]) : s.do = "check" BY <2>1 DEF Pending
    <3>. QED BY <3>1, ThenParts
  <2>. QED BY <2>1, <2>2, <2>3, KeepParts
<1>. QED BY <1>1, <1>2 DEF Reaches

LEMMA CheckGood ==
  ASSUME SyncInv, NEW p \in Proc, NEW to \in To, NEW g \in Group, Good(p, to, g), Check(p)
  PROVE  Good(p, to, g)'
<1> DEFINE s == Head(todo[p])
<1> PICK x, y : /\ x = S("detach", s.group, s.on)
                /\ y = S("attach", s.group, s.on \ Members(p, s.group))
  OBVIOUS
<1>1. /\ todo[p] # <<>> /\ s.do = "check" /\ Then(p, <<x, y>>) /\ \A h \in s.on : Row(h)
      /\ UNCHANGED <<tables, request, writes>> /\ TypeInv
  BY DEF Check, Runs, SyncInv
<1>2. s \in Statement /\ s.group \in Group /\ s.on \in SUBSET Host /\ s \in ToSet(todo[p])
      /\ Members(p, s.group) \in SUBSET Host
  BY <1>1, HeadTyped
<1>3. Follows(p, to, g, s) BY <1>2 DEF Good, Planned
<1>4. \A h \in s.on : to[h] = s.group BY <1>1, <1>3 DEF Follows
<1>5. request[p] # "rename" BY <1>1, <1>3 DEF Follows
<1>6. /\ x \in Statement /\ x.do = "detach" /\ x.group = s.group /\ x.on = s.on
      /\ y \in Statement /\ y.do = "attach" /\ y.group = s.group /\ y.on = s.on \ Members(p, s.group)
  BY <1>2, StatementFacts
<1>7. <<x, y>> \in Seq(Statement) /\ ToSet(<<x, y>>) = {x, y} /\ Head(<<x, y>>) = x /\ <<x, y>> # <<>>
  BY <1>6, PairParts
<1>8. todo'[p] # <<>> /\ Head(todo'[p]) = x BY <1>1, <1>7, ThenParts
<1>9. /\ ins' = ins /\ del' = del /\ cols' = cols /\ held' = held /\ gone' = gone
      /\ assoc' = assoc /\ request' = request /\ groups' = groups /\ column' = column
  BY <1>1 DEF tables, writes
<1>10. Seen(p)' = Seen(p) BY <1>9 DEF Seen
<1>11. Planned(p, to, g)'
  <2>1. Follows(p, to, g, x)' /\ Follows(p, to, g, y)' BY <1>4, <1>5, <1>6, <1>9 DEF Follows
  <2>2. Planned(p, to, g) BY DEF Good
  <2>3. UNCHANGED <<tables, request>> /\ gone'[p] = gone[p] BY <1>1, <1>9
  <2>4. \A z \in ToSet(<<x, y>>) : Follows(p, to, g, z)'
    <3>1. \A z \in {x, y} : Follows(p, to, g, z)' BY <2>1
    <3>. QED BY <1>7, <3>1
  <2>. QED BY <1>1, <1>7, <2>2, <2>3, <2>4, PlannedStep
<1>12. Written(p, to, g)' BY <1>9 DEF Good, Written, Row
<1>13. ByKind(p, to, g)' BY <1>1, <1>7, <1>9, KindStep DEF Good
<1>14. ASSUME NEW h \in Host, to[h] # None, Row(h) PROVE Settles(p, h, to[h])'
  <2>1. Settles(p, h, to[h]) BY <1>5, <1>14 DEF Good, Reaches
  <2>2. CASE h \in s.on
    <3>1. Runs(p, "detach")' /\ h \in Head(todo'[p]).on BY <1>6, <1>8, <2>2 DEF Runs
    <3>2. to[h] = s.group BY <1>4, <2>2
    <3>3. Joins(p, h, to[h])'
      <4>1. CASE h \in Members(p, s.group)
        <5>1. <<h, to[h]>> \in Seen(p)' BY <1>10, <3>2, <4>1 DEF Members
        <5>. QED BY <5>1 DEF Joins
      <4>2. CASE h \notin Members(p, s.group)
        <5>1. h \in y.on BY <1>6, <2>2, <4>2
        <5>2. Pending(p, y.do, h)' BY <1>1, <1>7, <5>1, KeepParts
        <5>. QED BY <1>6, <5>2 DEF Joins
      <4>. QED BY <4>1, <4>2
    <3>. QED BY <3>1, <3>3 DEF Settles
  <2>3. CASE h \notin s.on
    <3>1. CASE Pending(p, "check", h)
      <4>1. Pending(p, "check", h)' BY <1>1, <1>7, <2>3, <3>1, KeepParts
      <4>. QED BY <4>1 DEF Settles
    <3>2. CASE Alone(p, h, to[h])
      <4>1. Pending(p, "attach", h) => Pending(p, "attach", h)' BY <1>1, <1>7, KeepParts
      <4>2. Joins(p, h, to[h])' BY <1>10, <3>2, <4>1 DEF Alone, Joins
      <4>3. \A z \in Group : <<h, z>> \in Seen(p)' => z = to[h]
        BY <1>1, <1>10, <3>2 DEF Alone, Runs
      <4>4. Alone(p, h, to[h])' BY <4>2, <4>3 DEF Alone
      <4>. QED BY <4>4 DEF Settles
    <3>3. ~Has(p, "gather") /\ ~Pending(p, "try", h) /\ ~Runs(p, "detach")
      BY <1>1, <1>7, KeepParts DEF Runs
    <3>. QED BY <2>1, <3>1, <3>2, <3>3 DEF Settles
  <2>. QED BY <2>2, <2>3
<1>15. ASSUME NEW h \in Host, to[h] # None, Row(h) PROVE Fills(p, h, to[h])'
  <2>1. Fills(p, h, to[h]) BY <1>5, <1>15 DEF Good, Reaches
  <2>. QED BY <1>1, <1>7, <1>9, <2>1, FillsStep
<1>16. Reaches(p, to)' BY <1>1, <1>7, <1>14, <1>15, ReachesStep DEF Good
<1>. QED BY <1>11, <1>12, <1>13, <1>16 DEF Good

(* An erasure is next: of the associations picked from those seen. *)
LEMMA PickGood ==
  ASSUME SyncInv, NEW p \in Proc, NEW to \in To, NEW g \in Group, Good(p, to, g),
         Detach(p) \/ Drop(p)
  PROVE  Good(p, to, g)'
<1> DEFINE s == Head(todo[p])
<1>1. /\ todo[p] # <<>> /\ s.do \in {"detach", "drop"}
      /\ UNCHANGED <<tables, request, writes>> /\ TypeInv
  BY DEF Detach, Drop, Runs, SyncInv
<1>2. s \in Statement /\ s.group \in Group /\ s.on \in SUBSET Host /\ s \in ToSet(todo[p])
      /\ Seen(p) \subseteq Assoc
  BY <1>1, HeadTyped
<1>3. Follows(p, to, g, s) BY <1>2 DEF Good, Planned
<1>4. /\ s.do = "detach" => \A h \in s.on : to[h] = s.group
      /\ s.do = "drop" => \A h \in s.on : to[h] \notin {None, s.group}
      /\ request[p] # "rename"
  BY <1>1, <1>3 DEF Follows
<1>5. PICK picked \in SUBSET Assoc :
        /\ Then(p, <<S("erase", s.group, picked)>>)
        /\ s.do = "detach" => picked = {a \in Seen(p) : a[1] \in s.on /\ a[2] # s.group}
        /\ s.do = "drop" => picked \subseteq {a \in Seen(p) : a[1] \in s.on /\ a[2] = s.group}
  <2>1. CASE Detach(p)
    <3> DEFINE e == {a \in Seen(p) : a[1] \in s.on /\ a[2] # s.group}
    <3>1. Then(p, <<S("erase", s.group, e)>>) /\ e \in SUBSET Assoc /\ s.do = "detach"
      BY <1>2, <2>1 DEF Detach, Runs
    <3>. QED BY <3>1
  <2>2. CASE Drop(p)
    <3> DEFINE e == {a \in Seen(p) : a[1] \in s.on /\ a[2] = s.group /\ a[2] \in groups}
    <3>1. Then(p, <<S("erase", s.group, e)>>) /\ e \in SUBSET Assoc /\ s.do = "drop"
      BY <1>2, <2>2 DEF Drop, Runs
    <3>. QED BY <3>1
  <2>. QED BY <2>1, <2>2
<1> PICK x : x = S("erase", s.group, picked) OBVIOUS
<1>6. x \in Statement /\ x.do = "erase" /\ x.on = picked BY <1>2, StatementFacts
<1>7. Then(p, <<x>>) BY <1>5
<1>8. <<x>> \in Seq(Statement) /\ ToSet(<<x>>) = {x} /\ Head(<<x>>) = x /\ <<x>> # <<>>
  BY <1>6, SingleParts
<1>9. todo'[p] # <<>> /\ Head(todo'[p]) = x BY <1>1, <1>7, <1>8, ThenParts
<1>10. /\ ins' = ins /\ del' = del /\ cols' = cols /\ held' = held /\ gone' = gone
       /\ assoc' = assoc /\ request' = request /\ groups' = groups /\ column' = column
  BY <1>1 DEF tables, writes
<1>11. Seen(p)' = Seen(p) BY <1>10 DEF Seen
<1>12. Planned(p, to, g)'
  <2>1. ASSUME NEW a \in picked PROVE to[a[1]] \notin {None, a[2]}
    BY <1>1, <1>2, <1>4, <1>5, <2>1, GroupsAssumption
  <2>2. Follows(p, to, g, x)' BY <1>4, <1>6, <1>10, <2>1 DEF Follows
  <2>3. Planned(p, to, g) BY DEF Good
  <2>. QED BY <1>1, <1>7, <1>8, <1>10, <2>2, <2>3, PlannedStep
<1>13. Written(p, to, g)' BY <1>10 DEF Good, Written, Row
<1>14. ByKind(p, to, g)' BY <1>1, <1>7, <1>8, <1>10, KindStep DEF Good
<1>15. ASSUME NEW h \in Host, to[h] # None, Row(h) PROVE Settles(p, h, to[h])'
  <2>1. Settles(p, h, to[h]) BY <1>4, <1>15 DEF Good, Reaches
  <2>2. CASE s.do = "detach"
    <3>1. CASE Pending(p, "check", h)
      <4>1. Pending(p, "check", h)' BY <1>1, <1>7, <1>8, <2>2, <3>1, KeepParts
      <4>. QED BY <4>1 DEF Settles
    <3>2. CASE Joins(p, h, to[h]) /\ (h \in s.on \/ Alone(p, h, to[h]))
      <4>1. Pending(p, "attach", h) => Pending(p, "attach", h)' BY <1>1, <1>7, <1>8, KeepParts
      <4>2. Joins(p, h, to[h])' BY <1>11, <3>2, <4>1 DEF Joins
      <4>3. ASSUME NEW z \in Group, <<h, z>> \in Seen(p)', z # to[h]
            PROVE  Runs(p, "erase")' /\ <<h, z>> \in Head(todo'[p]).on
        <5>1. h \in s.on BY <1>11, <2>2, <3>2, <4>3 DEF Alone, Runs
        <5>2. <<h, z>> \in picked BY <1>4, <1>5, <1>11, <2>2, <4>3, <5>1
        <5>. QED BY <1>6, <1>9, <5>2 DEF Runs
      <4>4. Alone(p, h, to[h])' BY <4>2, <4>3 DEF Alone
      <4>. QED BY <4>4 DEF Settles
    <3>3. ~Has(p, "gather") /\ ~Pending(p, "try", h) BY <1>1, <1>7, <1>8, <2>2, KeepParts
    <3>. QED BY <2>1, <3>1, <3>2, <3>3 DEF Settles, Alone
  <2>3. CASE s.do = "drop" BY <1>1, <1>7, <1>8, <1>11, <2>1, <2>3, SettlesStep
  <2>. QED BY <1>1, <2>2, <2>3
<1>16. ASSUME NEW h \in Host, to[h] # None, Row(h) PROVE Fills(p, h, to[h])'
  <2>1. Fills(p, h, to[h]) BY <1>4, <1>16 DEF Good, Reaches
  <2>. QED BY <1>1, <1>7, <1>8, <1>10, <2>1, FillsStep
<1>17. Reaches(p, to)' BY <1>1, <1>7, <1>8, <1>15, <1>16, ReachesStep DEF Good
<1>. QED BY <1>12, <1>13, <1>14, <1>17 DEF Good

LEMMA LoadGood ==
  ASSUME SyncInv, NEW p \in Proc, NEW to \in To, NEW g \in Group, Good(p, to, g), Load(p)
  PROVE  Good(p, to, g)'
<1> DEFINE s == Head(todo[p])
           found  == {h \in s.on : Row(h)}
           differ == {h \in found : SeenColumn(p, h) # s.group}
<1>1. /\ todo[p] # <<>> /\ s.do = "load" /\ s.group \in groups
      /\ UNCHANGED <<tables, request, writes>> /\ TypeInv
  BY DEF Load, Runs, SyncInv
<1>2. s \in Statement /\ s.group \in Group /\ s.on \in SUBSET Host /\ s \in ToSet(todo[p])
  BY <1>1, HeadTyped
<1>3. Follows(p, to, g, s) BY <1>2 DEF Good, Planned
<1>4. /\ \A h \in s.on : to[h] = s.group
      /\ request[p] = "rename" => s.group = g
  BY <1>1, <1>3 DEF Follows
<1>5. PICK more \in SUBSET (found \ differ) : Then(p, <<S("store", s.group, differ \union more)>>)
  BY DEF Load
<1> PICK x : x = S("store", s.group, differ \union more) OBVIOUS
<1>6. x \in Statement /\ x.do = "store" /\ x.group = s.group /\ x.on = differ \union more
  BY <1>2, StatementFacts
<1>7. Then(p, <<x>>) BY <1>5
<1>8. <<x>> \in Seq(Statement) /\ ToSet(<<x>>) = {x} BY <1>6, SingleParts
<1>9. /\ ins' = ins /\ del' = del /\ cols' = cols /\ held' = held /\ gone' = gone
      /\ assoc' = assoc /\ request' = request /\ groups' = groups /\ column' = column
  BY <1>1 DEF tables, writes
<1>10. Seen(p)' = Seen(p) BY <1>9 DEF Seen
<1>11. Planned(p, to, g)'
  <2>1. x.on \subseteq s.on BY <1>6
  <2>2. Follows(p, to, g, x)' BY <1>4, <1>6, <1>9, <2>1 DEF Follows
  <2>3. Planned(p, to, g) BY DEF Good
  <2>. QED BY <1>1, <1>7, <1>8, <1>9, <2>2, <2>3, PlannedStep
<1>12. Written(p, to, g)' BY <1>9 DEF Good, Written, Row
<1>13. ByKind(p, to, g)'
  <2>1. Has(p, "ungroup") => Has(p, "ungroup")' BY <1>1, <1>7, <1>8, KeepParts
  <2>2. request[p] = "delete" => Deletes(p, to, g)' BY <1>9, <2>1 DEF Good, ByKind, Deletes
  <2>3. request[p] = "rename" => Renames(p, to, g)'
    <3>1. ~Has(p, "touch") BY <1>1, <1>7, <1>8, ThenParts DEF Has
    <3>2. ASSUME request[p] = "rename" PROVE g \in groups /\ g \in held[p]
      BY <1>1, <1>4, <3>1, <3>2 DEF Good, ByKind, Renames
    <3>. QED BY <1>9, <3>2 DEF Good, ByKind, Renames, Row
  <2>. QED BY <1>9, <2>2, <2>3 DEF Good, ByKind
<1>14. ASSUME NEW h \in Host, to[h] # None, Row(h), request[p] # "rename"
       PROVE  Settles(p, h, to[h])' /\ Fills(p, h, to[h])'
  <2>1. Settles(p, h, to[h]) /\ Fills(p, h, to[h]) BY <1>14 DEF Good, Reaches
  <2>2. Settles(p, h, to[h])' BY <1>1, <1>7, <1>8, <1>10, <2>1, SettlesStep
  <2>3. SeenColumn(p, h)' = SeenColumn(p, h) BY <1>9 DEF SeenColumn
  <2>4. CASE SeenColumn(p, h) = to[h] BY <2>2, <2>3, <2>4 DEF Fills
  <2>5. CASE h \in s.on /\ SeenColumn(p, h) # to[h]
    <3>1. h \in x.on BY <1>4, <1>6, <1>14, <2>5
    <3>2. Pending(p, "store", h)'
      <4>1. Pending(p, x.do, h)' BY <1>1, <1>7, <1>8, <3>1, KeepParts
      <4>. QED BY <1>6, <4>1
    <3>. QED BY <2>2, <3>2 DEF Fills
  <2>6. CASE h \notin s.on /\ (Pending(p, "load", h) \/ Pending(p, "store", h))
    <3>1. Pending(p, "load", h)' \/ Pending(p, "store", h)' BY <1>1, <1>7, <1>8, <2>6, KeepParts
    <3>. QED BY <2>2, <3>1 DEF Fills
  <2>7. CASE h \in s.on BY <2>4, <2>5, <2>7
  <2>. QED BY <2>1, <2>4, <2>6, <2>7 DEF Fills
<1>15. Reaches(p, to)' BY <1>1, <1>7, <1>8, <1>14, ReachesStep DEF Good
<1>. QED BY <1>11, <1>12, <1>13, <1>15 DEF Good

(* A host of a request to delete g that is not in g any more. *)
LEMMA MovedSettles ==
  ASSUME SyncInv, NEW p \in Proc, NEW to \in To, NEW g \in Group, ByKind(p, to, g),
         request[p] = "delete", NEW h \in Host, to[h] # None, Row(h), <<h, g>> \notin assoc
  PROVE  /\ to[h] = Ungrouped /\ <<h, to[h]>> \in assoc
         /\ \A y \in Group : <<h, y>> \in assoc => y = to[h]
<1>1. to[h] = Ungrouped BY DEF ByKind
<1>2. column[h] \in {g, Ungrouped} BY DEF ByKind, Deletes, Row
<1>3. /\ <<h, column[h]>> \in assoc /\ \A y \in Group : <<h, y>> \in assoc => column[h] = y
  BY SyncParts DEF SyncInv
<1>. QED BY <1>1, <1>2, <1>3

LEMMA GatherGood ==
  ASSUME SyncInv, NEW p \in Proc, NEW to \in To, NEW g \in Group, Good(p, to, g), Gather(p)
  PROVE  Good(p, to, g)'
<1> DEFINE s == Head(todo[p])
<1>1. /\ todo[p] # <<>> /\ s.do = "gather"
      /\ UNCHANGED <<tables, request, writes>> /\ TypeInv
  BY DEF Gather, Runs, SyncInv
<1>2. s \in Statement /\ s.group \in Group /\ s \in ToSet(todo[p]) /\ Members(p, s.group) \in SUBSET Host
  BY <1>1, HeadTyped
<1>3. Follows(p, to, g, s) BY <1>2 DEF Good, Planned
<1>4. /\ request[p] = "delete" /\ s.group = g /\ gone[p] = {} /\ ins[p] = {} /\ del[p] = {}
      /\ \A h \in Host : <<h, g>> \in assoc => to[h] # None
  BY <1>1, <1>3 DEF Follows
<1>5. Seen(p) = assoc BY <1>4 DEF Seen
<1>6. \A h \in Host : h \in Members(p, g) <=> <<h, g>> \in assoc BY <1>5 DEF Members
<1>7. /\ ins' = ins /\ del' = del /\ cols' = cols /\ held' = held /\ gone' = gone
      /\ assoc' = assoc /\ request' = request /\ groups' = groups /\ column' = column
  BY <1>1 DEF tables, writes
<1>8. PICK next \in Seq(Statement) :
        /\ Then(p, next)
        /\ \A x \in ToSet(next) : x.do = "try" /\ x.group = g /\ x.on = Members(p, g)
        /\ \/ \A h \in Host : <<h, g>> \notin assoc
           \/ \E x \in ToSet(next) : x.do = "try" /\ x.on = Members(p, g)
  <2>1. CASE g \in groups /\ Members(p, g) # {}
    <3> DEFINE x == S("try", g, Members(p, g))
    <3>1. x \in Statement /\ x.do = "try" /\ x.group = g /\ x.on = Members(p, g)
      BY <1>2, <1>4, StatementFacts
    <3>2. Then(p, <<x>>) BY <1>4, <2>1 DEF Gather
    <3>. HIDE DEF x
    <3>3. <<x>> \in Seq(Statement) /\ ToSet(<<x>>) = {x} BY <3>1, SingleParts
    <3>. QED BY <3>1, <3>2, <3>3
  <2>2. CASE ~(g \in groups /\ Members(p, g) # {})
    <3>1. Then(p, <<>>) BY <1>4, <2>2 DEF Gather
    <3>2. \A h \in Host : <<h, g>> \notin assoc BY <1>6, <2>2, SyncParts DEF SyncInv
    <3>. QED BY <3>1, <3>2, EmptyParts
  <2>. QED BY <2>1, <2>2
<1>9. Seen(p)' = assoc BY <1>5, <1>7 DEF Seen
<1>10. Planned(p, to, g)'
  <2>1. ASSUME NEW x \in ToSet(next) PROVE Follows(p, to, g, x)'
    <3>1. x.do = "try" /\ x.group = g /\ x.on = Members(p, g) BY <1>8
    <3>2. \A h \in x.on : h \in Host /\ to[h] # None BY <1>4, <1>6, <3>1 DEF Members
    <3>3. \A h \in Host : <<h, g>> \in assoc => h \in x.on BY <1>6, <3>1
    <3>. QED BY <1>4, <1>7, <3>1, <3>2, <3>3 DEF Follows
  <2>2. Planned(p, to, g) BY DEF Good
  <2>. QED BY <1>1, <1>7, <1>8, <2>1, <2>2, PlannedStep
<1>11. Written(p, to, g)' BY <1>7 DEF Good, Written, Row
<1>12. ByKind(p, to, g)' BY <1>1, <1>7, <1>8, KindStep DEF Good
<1>13. ASSUME NEW h \in Host, to[h] # None, Row(h) PROVE Settles(p, h, to[h])'
  <2>1. CASE <<h, g>> \in assoc
    <3>1. h \in Members(p, g) /\ \E x \in ToSet(next) : x.do = "try" /\ x.on = Members(p, g)
      BY <1>6, <1>8, <2>1
    <3>2. PICK x \in ToSet(next) : x.do = "try" /\ x.on = Members(p, g) BY <3>1
    <3>3. Pending(p, x.do, h)' BY <1>1, <1>8, <3>1, <3>2, KeepParts
    <3>. QED BY <3>2, <3>3 DEF Settles
  <2>2. CASE <<h, g>> \notin assoc
    <3>1. <<h, to[h]>> \in assoc /\ \A y \in Group : <<h, y>> \in assoc => y = to[h]
      BY <1>4, <1>13, <2>2, MovedSettles DEF Good
    <3>2. Alone(p, h, to[h])' BY <1>9, <3>1 DEF Alone, Joins
    <3>. QED BY <3>2 DEF Settles
  <2>. QED BY <2>1, <2>2
<1>14. ASSUME NEW h \in Host, to[h] # None, Row(h) PROVE Fills(p, h, to[h])'
  <2>1. Fills(p, h, to[h]) BY <1>4, <1>14 DEF Good, Reaches
  <2>. QED BY <1>1, <1>7, <1>8, <2>1, FillsStep
<1>15. Reaches(p, to)' BY <1>1, <1>8, <1>13, <1>14, ReachesStep DEF Good
<1>. QED BY <1>10, <1>11, <1>12, <1>15 DEF Good

LEMMA TryGood ==
  ASSUME SyncInv, NEW p \in Proc, NEW to \in To, NEW g \in Group, Good(p, to, g), Try(p)
  PROVE  Good(p, to, g)'
<1> DEFINE s == Head(todo[p])
<1>1. /\ todo[p] # <<>> /\ s.do = "try"
      /\ UNCHANGED <<tables, request, writes>> /\ TypeInv
  BY DEF Try, Runs, SyncInv
<1>2. s \in Statement /\ s.group \in Group /\ s \in ToSet(todo[p]) /\ s.on \in SUBSET Host
  BY <1>1, HeadTyped
<1>3. Follows(p, to, g, s) BY <1>2 DEF Good, Planned
<1>4. /\ request[p] = "delete" /\ s.group = g /\ gone[p] = {}
      /\ \A h \in s.on : to[h] # None
      /\ \A h \in Host : <<h, g>> \in assoc => h \in s.on
  BY <1>1, <1>3 DEF Follows
<1>5. /\ ins' = ins /\ del' = del /\ cols' = cols /\ held' = held /\ gone' = gone
      /\ assoc' = assoc /\ request' = request /\ groups' = groups /\ column' = column
  BY <1>1 DEF tables, writes
<1>6. PICK existing \in SUBSET Host, all \in SUBSET Host :
        existing = {h \in s.on : Row(h)} /\ all = s.on
  BY <1>2
<1>7. PICK next : next = DropHosts(g, existing) \o AddHosts(Ungrouped, existing) \o <<S("release", g, all)>>
  OBVIOUS
<1>8. Then(p, next) BY <1>4, <1>6, <1>7 DEF Try
<1>9. /\ next \in Seq(Statement) /\ S("check", Ungrouped, existing) \in ToSet(next)
      /\ ToSet(next) \subseteq {S("drop", g, existing), S("touch", g, {}),
                                S("check", Ungrouped, existing), S("touch", Ungrouped, {}),
                                S("release", g, all)}
  BY <1>7, TryParts
<1>10. g # Ungrouped /\ \A h \in s.on : to[h] = Ungrouped BY <1>2, <1>4 DEF Good, ByKind, Deletes
<1>11. Planned(p, to, g)'
  <2>1. ASSUME NEW x \in ToSet(next) PROVE Follows(p, to, g, x)'
    <3>1. Ungrouped # None BY GroupsAssumption
    <3>2. existing \subseteq s.on BY <1>6
    <3>3. CASE x = S("drop", g, existing)
      BY <1>4, <1>5, <1>10, <3>1, <3>2, <3>3, SFields DEF Follows
    <3>4. CASE x = S("check", Ungrouped, existing)
      BY <1>4, <1>5, <1>10, <3>2, <3>4, SFields DEF Follows
    <3>5. CASE x = S("release", g, all)
      BY <1>4, <1>5, <1>6, <3>5, SFields DEF Follows
    <3>6. CASE x \in {S("touch", g, {}), S("touch", Ungrouped, {})}
      BY <1>4, <1>5, <3>6, SFields DEF Follows
    <3>. QED BY <1>9, <3>3, <3>4, <3>5, <3>6
  <2>2. Planned(p, to, g) BY DEF Good
  <2>. QED BY <1>1, <1>5, <1>8, <1>9, <2>1, <2>2, PlannedStep
<1>12. Written(p, to, g)' BY <1>5 DEF Good, Written, Row
<1>13. ByKind(p, to, g)' BY <1>1, <1>5, <1>8, <1>9, KindStep DEF Good
<1>14. Seen(p)' = Seen(p) BY <1>5 DEF Seen
<1>15. ASSUME NEW h \in Host, to[h] # None, Row(h) PROVE Settles(p, h, to[h])'
  <2>1. Settles(p, h, to[h]) BY <1>4, <1>15 DEF Good, Reaches
  <2>2. CASE h \in s.on
    <3>1. h \in existing BY <1>6, <1>15, <2>2
    <3>2. Pending(p, S("check", Ungrouped, existing).do, h)'
      BY <1>1, <1>8, <1>9, <3>1, SFields, KeepParts
    <3>. QED BY <3>2, SFields DEF Settles
  <2>3. CASE Pending(p, "check", h)
    <3>1. Pending(p, "check", h)' BY <1>1, <1>8, <1>9, <2>3, KeepParts
    <3>. QED BY <3>1 DEF Settles
  <2>4. CASE Alone(p, h, to[h])
    <3>1. Pending(p, "attach", h) => Pending(p, "attach", h)' BY <1>1, <1>8, <1>9, KeepParts
    <3>2. Alone(p, h, to[h])' BY <1>1, <1>14, <2>4, <3>1 DEF Alone, Joins, Runs
    <3>. QED BY <3>2 DEF Settles
  <2>5. /\ ~Runs(p, "detach") BY <1>1 DEF Runs
  <2>6. ~Has(p, "gather") /\ (Pending(p, "try", h) => h \in s.on)
    <3>1. /\ ToSet(todo[p]) = {s} \union ToSet(Tail(todo[p]))
          /\ \A y \in ToSet(Tail(todo[p])) : y.do \notin {"gather", "try", "leave"}
      BY <1>1, <1>8, <1>9, ThenParts
    <3>. QED BY <1>1, <3>1 DEF Has, Pending
  <2>. QED BY <2>1, <2>2, <2>3, <2>4, <2>5, <2>6 DEF Settles
<1>16. ASSUME NEW h \in Host, to[h] # None, Row(h) PROVE Fills(p, h, to[h])'
  <2>1. Fills(p, h, to[h]) BY <1>4, <1>16 DEF Good, Reaches
  <2>. QED BY <1>1, <1>5, <1>8, <1>9, <2>1, FillsStep
<1>17. Reaches(p, to)' BY <1>1, <1>8, <1>9, <1>15, <1>16, ReachesStep DEF Good
<1>. QED BY <1>11, <1>12, <1>13, <1>17 DEF Good

LEMMA ReleaseGood ==
  ASSUME SyncInv, NEW p \in Proc, NEW to \in To, NEW g \in Group, Good(p, to, g), Release(p)
  PROVE  Good(p, to, g)'
<1>1. /\ todo[p] # <<>> /\ Head(todo[p]).do = "release" /\ Then(p, <<>>)
      /\ UNCHANGED <<tables, request, writes>> /\ TypeInv
  BY DEF Release, Runs, SyncInv
<1>2. <<>> \in Seq(Statement) /\ ToSet(<<>>) = {} BY EmptyParts
<1>3. /\ ins' = ins /\ del' = del /\ cols' = cols /\ held' = held /\ gone' = gone
      /\ assoc' = assoc /\ request' = request /\ groups' = groups /\ column' = column
  BY <1>1 DEF tables, writes
<1>4. Planned(p, to, g)' BY <1>1, <1>2, <1>3, PlannedStep DEF Good
<1>5. Written(p, to, g)' BY <1>3 DEF Good, Written, Row
<1>6. ByKind(p, to, g)' BY <1>1, <1>2, <1>3, KindStep DEF Good
<1>7. Seen(p)' = Seen(p) BY <1>3 DEF Seen
<1>8. ASSUME NEW h \in Host, to[h] # None, Row(h), request[p] # "rename"
      PROVE  Settles(p, h, to[h])' /\ Fills(p, h, to[h])'
  <2>1. Settles(p, h, to[h]) /\ Fills(p, h, to[h]) BY <1>8 DEF Good, Reaches
  <2>2. Settles(p, h, to[h])' BY <1>1, <1>2, <1>7, <2>1, SettlesStep
  <2>. QED BY <1>1, <1>2, <1>3, <2>1, <2>2, FillsStep
<1>9. Reaches(p, to)' BY <1>1, <1>2, <1>8, ReachesStep DEF Good
<1>. QED BY <1>4, <1>5, <1>6, <1>9 DEF Good

LEMMA LeaveGood ==
  ASSUME SyncInv, NEW p \in Proc, NEW to \in To, NEW g \in Group, Good(p, to, g), Leave(p)
  PROVE  \E new \in To : Good(p, new, g)'
<1> DEFINE s == Head(todo[p])
<1>1. /\ todo[p] # <<>> /\ s.do = "leave"
      /\ UNCHANGED <<tables, request, writes>> /\ TypeInv
  BY DEF Leave, Runs, SyncInv
<1>2. s \in Statement /\ s.group \in Group /\ s \in ToSet(todo[p]) /\ Seen(p) \subseteq Assoc
  BY <1>1, HeadTyped
<1>3. Follows(p, to, g, s) BY <1>2 DEF Good, Planned
<1>4. request[p] = "remove" /\ s.group # Ungrouped /\ to = NoCols BY <1>1, <1>3 DEF Follows
<1>5. /\ ins' = ins /\ del' = del /\ cols' = cols /\ held' = held /\ gone' = gone
      /\ assoc' = assoc /\ request' = request /\ groups' = groups /\ column' = column
  BY <1>1 DEF tables, writes
<1>6. ins[p] = {} /\ del[p] = {} /\ gone[p] = {} /\ \A h \in Host : cols[p][h] = None
  <2>1. \A h \in Host : to[h] = None BY <1>4 DEF NoCols
  <2>2. /\ ins[p] \subseteq Assoc /\ del[p] \subseteq Assoc
        /\ \A a \in Assoc : a[1] \in Host /\ a[2] \in Group
    BY DEF SyncInv, TypeInv, TypeOK, Assoc
  <2>3. ins[p] = {} /\ del[p] = {} BY <2>1, <2>2, GroupsAssumption DEF Good, Written
  <2>. QED BY <1>4, <2>1, <2>3 DEF Good, Written
<1>7. PICK f, picked, removed, next :
        /\ f \in Group /\ picked \in SUBSET Assoc /\ removed \in SUBSET Host
        /\ f = s.group /\ \A a \in picked : a[2] = f
        /\ removed = {a[1] : a \in picked}
        /\ next = <<S("erase", f, picked)>> \o Timestamp(f)
                    \o AddHosts(Ungrouped, removed) \o UpdateHosts(Ungrouped, removed)
        /\ Then(p, next)
  <2> DEFINE picked  == {a \in Seen(p) : a[1] \in s.on /\ a[2] = s.group /\ a[2] \in groups}
             removed == {a[1] : a \in picked}
             next    == <<S("erase", s.group, picked)>> \o Timestamp(s.group)
                          \o AddHosts(Ungrouped, removed) \o UpdateHosts(Ungrouped, removed)
  <2>1. Then(p, next) BY DEF Leave
  <2>2. picked \in SUBSET Assoc /\ removed \in SUBSET Host BY <1>2 DEF Assoc
  <2>3. \A a \in picked : a[2] = s.group OBVIOUS
  <2>. HIDE DEF next, picked
  <2>4. removed = {a[1] : a \in picked} OBVIOUS
  <2>5. next = <<S("erase", s.group, picked)>> \o Timestamp(s.group)
                 \o AddHosts(Ungrouped, removed) \o UpdateHosts(Ungrouped, removed)
    BY DEF next
  <2>. HIDE DEF removed
  <2>. QED BY <1>2, <2>1, <2>2, <2>3, <2>4, <2>5
<1>8. /\ next \in Seq(Statement)
      /\ ToSet(AddHosts(Ungrouped, removed)) \subseteq ToSet(next)
      /\ ToSet(UpdateHosts(Ungrouped, removed)) \subseteq ToSet(next)
      /\ ToSet(next) \subseteq {S("erase", f, picked), S("touch", f, {})}
           \union ToSet(AddHosts(Ungrouped, removed)) \union ToSet(UpdateHosts(Ungrouped, removed))
  BY <1>7, LeaveParts DEF Easy
<1>9. ToSet(todo'[p]) = ToSet(next)
  <2>1. Tail(todo[p]) = <<>> /\ ToSet(todo'[p]) = ToSet(next) \union ToSet(Tail(todo[p]))
    BY <1>1, <1>7, <1>8, ThenParts
  <2>. QED BY <2>1, EmptyParts
<1>10. /\ ToSet(todo'[p]) \subseteq {S("erase", f, picked), S("touch", f, {}),
             S("check", Ungrouped, removed), S("touch", Ungrouped, {}), S("load", Ungrouped, removed)}
       /\ S("check", Ungrouped, removed) \in ToSet(todo'[p])
       /\ removed # {} => S("load", Ungrouped, removed) \in ToSet(todo'[p])
  <2>1. /\ S("check", Ungrouped, removed) \in ToSet(AddHosts(Ungrouped, removed))
        /\ ToSet(AddHosts(Ungrouped, removed))
             \subseteq {S("check", Ungrouped, removed), S("touch", Ungrouped, {})}
    BY <1>7, ProgramParts, GroupsAssumption
  <2>2. ToSet(UpdateHosts(Ungrouped, removed)) = IF removed = {} THEN {} ELSE {S("load", Ungrouped, removed)}
    BY <1>7, ProgramParts, GroupsAssumption
  <2>. QED BY <1>8, <1>9, <2>1, <2>2
<1>11. PICK new \in To : \A h \in Host : new[h] = IF h \in removed THEN Ungrouped ELSE None
  <2> DEFINE m == [h \in Host |-> IF h \in removed THEN Ungrouped ELSE None]
  <2>1. m \in To BY GroupsAssumption DEF To
  <2>. QED BY <2>1
<1>12. None \notin Group BY GroupsAssumption
<1>13. Planned(p, new, g)'
  <2>1. ASSUME NEW a \in picked PROVE new[a[1]] \notin {None, a[2]}
    <3>1. a[1] \in removed /\ a[1] \in Host BY <1>7, <2>1
    <3>2. new[a[1]] = Ungrouped /\ a[2] # Ungrouped BY <1>4, <1>7, <1>11, <3>1
    <3>. QED BY <3>2, GroupsAssumption
  <2>2. \A h \in removed : new[h] = Ungrouped BY <1>7, <1>11
  <2>3. ASSUME NEW x \in ToSet(todo'[p]) PROVE Follows(p, new, g, x)'
    <3>1. CASE x = S("erase", f, picked)
      BY <1>4, <1>5, <2>1, <3>1, SFields DEF Follows
    <3>2. CASE x \in {S("check", Ungrouped, removed), S("load", Ungrouped, removed)}
      BY <1>4, <1>5, <2>2, <3>2, SFields DEF Follows
    <3>3. CASE x \in {S("touch", f, {}), S("touch", Ungrouped, {})}
      BY <1>4, <1>5, <3>3, SFields DEF Follows
    <3>. QED BY <1>10, <3>1, <3>2, <3>3
  <2>. QED BY <2>3 DEF Planned
<1>14. Written(p, new, g)' BY <1>5, <1>6 DEF Written
<1>15. ByKind(p, new, g)' BY <1>4, <1>5, <1>11 DEF ByKind
<1>16. ASSUME NEW h \in Host, new[h] # None
       PROVE  Pending(p, "check", h)' /\ Pending(p, "load", h)'
  BY <1>10, <1>11, <1>16, SFields DEF Pending
<1>17. Reaches(p, new)' BY <1>16 DEF Reaches, Settles, Fills
<1>. QED BY <1>13, <1>14, <1>15, <1>17 DEF Good

LEMMA RetryGood ==
  ASSUME SyncInv, NEW p \in Proc, NEW to \in To, NEW g \in Group, Good(p, to, g), Retry(p)
  PROVE  Good(p, to, g)'
<1> DEFINE s == todo[p]
<1>1. PICK i \in DOMAIN s :
        /\ s[i].do = "release"
        /\ todo' = [todo EXCEPT ![p] = <<[s[i] EXCEPT !.do = "try"]>> \o SubSeq(s, i + 1, Len(s))]
  BY RetryParts DEF SyncInv
<1>2. /\ todo \in [Proc -> Seq(Statement)] /\ s \in Seq(Statement) /\ Ordered(s) /\ Closed(s)
      /\ s[i] \in Statement /\ s[i] \in ToSet(s) /\ DOMAIN s \subseteq Nat
  BY DEF SyncInv, TypeInv, TypeOK, Shape, ToSet
<1>3. PICK x, t, old :
        x = [s[i] EXCEPT !.do = "try"] /\ t = SubSeq(s, i + 1, Len(s)) /\ old = s
  OBVIOUS
<1>4. /\ x \in Statement /\ x.do = "try" /\ x.group = s[i].group /\ x.on = s[i].on
      /\ x.on \in SUBSET Host
  <2>1. s[i].on \in SUBSET Host BY <1>1, <1>2, StatementFacts
  <2>. QED BY <1>1, <1>2, <1>3, <2>1 DEF Statement
<1>5. /\ t \in Seq(Statement) /\ ToSet(t) \subseteq ToSet(s)
      /\ \A y \in ToSet(t) : y.do \notin {"gather", "try", "leave"}
      /\ \E y \in ToSet(t) : y.do = "ungroup"
      /\ \A k \in DOMAIN s : k > i => s[k] \in ToSet(t)
  BY <1>1, <1>2, <1>3, SuffixParts
<1>6. ToSet(todo'[p]) = {x} \union ToSet(t)
  <2>1. todo'[p] = <<x>> \o t BY <1>1, <1>2, <1>3
  <2>2. <<x>> \in Seq(Statement) /\ ToSet(<<x>>) = {x} BY <1>4, SingleParts
  <2>3. ToSet(<<x>> \o t) = ToSet(<<x>>) \union ToSet(t) BY <1>5, <2>2, ConcatParts
  <2>. QED BY <2>1, <2>2, <2>3
<1>7. /\ ins'[p] = {} /\ del'[p] = {} /\ cols' = cols /\ gone' = gone
      /\ assoc' = assoc /\ request' = request /\ groups' = groups /\ column' = column
  BY DEF Retry, tables, SyncInv, TypeInv, TypeOK
<1>8. Follows(p, to, g, s[i]) BY <1>2 DEF Good, Planned
<1>9. /\ request[p] = "delete" /\ x.group = g /\ gone[p] = {}
      /\ \A h \in x.on : to[h] # None
      /\ \A h \in Host : <<h, g>> \in assoc => h \in x.on
  BY <1>1, <1>4, <1>8 DEF Follows
<1>10. Planned(p, to, g)'
  <2>1. Follows(p, to, g, x)' BY <1>4, <1>7, <1>9 DEF Follows
  <2>2. ASSUME NEW y \in ToSet(t) PROVE Follows(p, to, g, y)'
    <3>1. Follows(p, to, g, y) /\ y.do \notin {"gather", "try", "leave"} BY <1>5 DEF Good, Planned
    <3>. QED BY <1>7, <3>1 DEF Follows
  <2>. QED BY <1>6, <2>1, <2>2 DEF Planned
<1>11. Written(p, to, g)' BY <1>7, <1>9 DEF Good, Written
<1>12. ByKind(p, to, g)'
  <2>1. Has(p, "ungroup")' BY <1>5, <1>6 DEF Has
  <2>. QED BY <1>7, <1>9, <2>1 DEF Good, ByKind, Deletes
<1>13. Seen(p)' = assoc BY <1>7 DEF Seen
<1>14. ASSUME NEW h \in Host, to[h] # None, Row(h)
       PROVE  Settles(p, h, to[h])' /\ Fills(p, h, to[h])'
  <2>1. Fills(p, h, to[h]) BY <1>9, <1>14 DEF Good, Reaches
  <2>2. Fills(p, h, to[h])'
    <3>1. SeenColumn(p, h)' = SeenColumn(p, h) BY <1>7 DEF SeenColumn
    <3>2. ASSUME NEW y \in ToSet(s), y.do \in {"load", "store"} PROVE y \in ToSet(t)
      <4>1. PICK k \in DOMAIN s : y = s[k] BY <3>2 DEF ToSet
      <4>2. ~(k < i) BY <1>1, <1>2, <3>2, <4>1 DEF Ordered
      <4>3. k # i BY <1>1, <3>2, <4>1
      <4>. QED BY <1>2, <1>5, <4>1, <4>2, <4>3
    <3>3. \A y \in ToSet(s) : y.do \in {"load", "store"} => y \in ToSet(todo'[p]) BY <1>6, <3>2
    <3>4. /\ Pending(p, "load", h) => Pending(p, "load", h)'
          /\ Pending(p, "store", h) => Pending(p, "store", h)'
      BY <3>3 DEF Pending
    <3>. QED BY <2>1, <3>1, <3>4 DEF Fills
  <2>3. CASE h \in x.on
    <3>1. Pending(p, "try", h)' BY <1>4, <1>6, <2>3 DEF Pending
    <3>. QED BY <2>2, <3>1 DEF Settles
  <2>4. CASE h \notin x.on
    <3>1. <<h, to[h]>> \in assoc /\ \A y \in Group : <<h, y>> \in assoc => y = to[h]
      <4>1. <<h, g>> \notin assoc /\ request[p] = "delete" BY <1>9, <2>4
      <4>2. ByKind(p, to, g) BY DEF Good
      <4>. QED BY <1>14, <4>1, <4>2, MovedSettles
    <3>2. Alone(p, h, to[h])' BY <1>13, <3>1 DEF Alone, Joins
    <3>. QED BY <2>2, <3>2 DEF Settles
  <2>. QED BY <2>3, <2>4
<1>15. Reaches(p, to)'
  <2>1. ASSUME NEW h \in Host, to[h] # None PROVE column[h] # None
    BY <1>9, <2>1, GroupsAssumption DEF Good, ByKind, Deletes
  <2>2. \A h : Row(h)' <=> Row(h) BY <1>7 DEF Row
  <2>. QED BY <1>7, <1>14, <2>1, <2>2 DEF Reaches
<1>. QED BY <1>10, <1>11, <1>12, <1>15 DEF Good

-----------------------------------------------------------------------------
(* The statements that write. *)
LEMMA WriteParts ==
  ASSUME SyncInv, NEW p \in Proc, Writes(p)
  PROVE  LET s == Head(todo[p]) IN
           /\ todo[p] # <<>> /\ Then(p, <<>>) /\ TypeInv /\ RestOK /\ RestOK'
           /\ <<>> \in Seq(Statement) /\ ToSet(<<>>) = {}
           /\ UNCHANGED <<tables, request>>
           /\ groups' = groups /\ assoc' = assoc /\ column' = column /\ request' = request
           /\ s \in Statement /\ s.group \in Group /\ s \in ToSet(todo[p])
           /\ \A h : Row(h)' <=> Row(h)
<1>1. TypeInv BY DEF SyncInv
<1>2. todo[p] # <<>> /\ Then(p, <<>>) /\ UNCHANGED <<tables, request>> /\ RestOK'
  BY <1>1, WritesShape
<1>3. groups' = groups /\ assoc' = assoc /\ column' = column /\ \A h : Row(h)' <=> Row(h)
  BY <1>2 DEF tables, Row
<1>4. RestOK BY <1>1, TypeSplit DEF TypeInv
<1>. QED BY <1>1, <1>2, <1>3, <1>4, HeadTyped, EmptyParts

LEMMA EraseGood ==
  ASSUME SyncInv, NEW p \in Proc, NEW to \in To, NEW g \in Group, Good(p, to, g), Erase(p)
  PROVE  Good(p, to, g)'
<1> DEFINE s == Head(todo[p])
<1>0. Writes(p) BY DEF Writes
<1>1. /\ todo[p] # <<>> /\ Then(p, <<>>) /\ TypeInv /\ RestOK
      /\ <<>> \in Seq(Statement) /\ ToSet(<<>>) = {}
      /\ UNCHANGED <<tables, request>>
      /\ groups' = groups /\ assoc' = assoc /\ column' = column /\ request' = request
      /\ s \in Statement /\ s \in ToSet(todo[p]) /\ \A h : Row(h)' <=> Row(h)
  BY <1>0, WriteParts
<1>2. /\ s.do = "erase" /\ UNCHANGED <<cols, held, gone>>
      /\ del'[p] = del[p] \union (s.on \cap assoc) /\ ins'[p] = ins[p] \ s.on
  BY <1>1 DEF Erase, Runs, RestOK
<1>3. Follows(p, to, g, s) BY <1>1 DEF Good, Planned
<1>4. request[p] # "rename" /\ \A a \in s.on : to[a[1]] \notin {None, a[2]}
  BY <1>2, <1>3 DEF Follows
<1>5. Seen(p)' = Seen(p) \ s.on BY <1>1, <1>2 DEF Seen
<1>6. Planned(p, to, g)' BY <1>1, <1>2, PlannedStep DEF Good
<1>7. Written(p, to, g)' BY <1>1, <1>2, <1>4 DEF Good, Written
<1>8. ByKind(p, to, g)' BY <1>1, <1>2, <1>4, KindStep DEF Good
<1>9. ASSUME NEW h \in Host, to[h] # None, Row(h) PROVE Settles(p, h, to[h])'
  <2>1. Settles(p, h, to[h]) BY <1>4, <1>9 DEF Good, Reaches
  <2>2. CASE Pending(p, "check", h)
    <3>1. Pending(p, "check", h)' BY <1>1, <1>2, <2>2, KeepParts
    <3>. QED BY <3>1 DEF Settles
  <2>3. CASE Alone(p, h, to[h])
    <3>1. Pending(p, "attach", h) => Pending(p, "attach", h)' BY <1>1, <1>2, KeepParts
    <3>2. <<h, to[h]>> \notin s.on
      <4>1. <<h, to[h]>>[1] = h /\ <<h, to[h]>>[2] = to[h] OBVIOUS
      <4>. QED BY <1>4, <4>1
    <3>3. Joins(p, h, to[h])' BY <1>5, <2>3, <3>1, <3>2 DEF Alone, Joins
    <3>4. \A y \in Group : <<h, y>> \in Seen(p)' => y = to[h] BY <1>5, <2>3 DEF Alone
    <3>5. Alone(p, h, to[h])' BY <3>3, <3>4 DEF Alone
    <3>. QED BY <3>5 DEF Settles
  <2>4. ~Has(p, "gather") /\ ~Pending(p, "try", h) /\ ~Runs(p, "detach")
    BY <1>1, <1>2, KeepParts DEF Runs
  <2>. QED BY <2>1, <2>2, <2>3, <2>4 DEF Settles
<1>10. ASSUME NEW h \in Host, to[h] # None, Row(h) PROVE Fills(p, h, to[h])'
  <2>1. Fills(p, h, to[h]) BY <1>4, <1>10 DEF Good, Reaches
  <2>. QED BY <1>1, <1>2, <2>1, FillsStep
<1>11. Reaches(p, to)' BY <1>1, <1>2, <1>9, <1>10, ReachesStep DEF Good
<1>. QED BY <1>6, <1>7, <1>8, <1>11 DEF Good

LEMMA AttachGood ==
  ASSUME SyncInv, NEW p \in Proc, NEW to \in To, NEW g \in Group, Good(p, to, g), Attach(p)
  PROVE  Good(p, to, g)'
<1> DEFINE s == Head(todo[p])
<1>0. Writes(p) BY DEF Writes
<1>1. /\ todo[p] # <<>> /\ Then(p, <<>>) /\ TypeInv /\ RestOK
      /\ <<>> \in Seq(Statement) /\ ToSet(<<>>) = {}
      /\ UNCHANGED <<tables, request>>
      /\ groups' = groups /\ assoc' = assoc /\ column' = column /\ request' = request
      /\ s \in Statement /\ s.group \in Group /\ s \in ToSet(todo[p]) /\ \A h : Row(h)' <=> Row(h)
  BY <1>0, WriteParts
<1>2. PICK new : new = {<<h, s.group>> : h \in s.on} OBVIOUS
<1>3. /\ s.do = "attach" /\ UNCHANGED <<del, cols, held, gone>> /\ ins'[p] = ins[p] \union new
      /\ new # {} => s.group \in groups
      /\ \A a \in new : Row(a[1])
  BY <1>1, <1>2 DEF Attach, Runs, RestOK
<1>4. Follows(p, to, g, s) BY <1>1 DEF Good, Planned
<1>5. request[p] # "rename" /\ \A h \in s.on : to[h] = s.group BY <1>3, <1>4 DEF Follows
<1>6. /\ \A a \in new : to[a[1]] = a[2] /\ Row(a[1]) /\ a[2] \in groups
      /\ \A h \in s.on : <<h, to[h]>> \in new
      /\ \A h, y : <<h, y>> \in new => h \in s.on /\ y = s.group
  BY <1>2, <1>3, <1>5
<1>7. Seen(p)' = Seen(p) \union new BY <1>1, <1>3 DEF Seen
<1>8. Planned(p, to, g)' BY <1>1, <1>3, PlannedStep DEF Good
<1>9. Written(p, to, g)' BY <1>1, <1>3, <1>6 DEF Good, Written
<1>10. ByKind(p, to, g)' BY <1>1, <1>3, <1>5, KindStep DEF Good
<1>11. ASSUME NEW h \in Host, to[h] # None, Row(h) PROVE Settles(p, h, to[h])'
  <2>1. Settles(p, h, to[h]) BY <1>5, <1>11 DEF Good, Reaches
  <2>2. CASE Pending(p, "check", h)
    <3>1. Pending(p, "check", h)' BY <1>1, <1>3, <2>2, KeepParts
    <3>. QED BY <3>1 DEF Settles
  <2>3. CASE Alone(p, h, to[h])
    <3>1. Pending(p, "attach", h) => h \in s.on \/ Pending(p, "attach", h)' BY <1>1, KeepParts
    <3>2. Joins(p, h, to[h])' BY <1>6, <1>7, <2>3, <3>1 DEF Alone, Joins
    <3>3. \A y \in Group : <<h, y>> \in Seen(p)' => y = to[h]
      BY <1>3, <1>5, <1>6, <1>7, <2>3 DEF Alone, Runs
    <3>4. Alone(p, h, to[h])' BY <3>2, <3>3 DEF Alone
    <3>. QED BY <3>4 DEF Settles
  <2>4. ~Has(p, "gather") /\ ~Pending(p, "try", h) /\ ~Runs(p, "detach")
    BY <1>1, <1>3, KeepParts DEF Runs
  <2>. QED BY <2>1, <2>2, <2>3, <2>4 DEF Settles
<1>12. ASSUME NEW h \in Host, to[h] # None, Row(h) PROVE Fills(p, h, to[h])'
  <2>1. Fills(p, h, to[h]) BY <1>5, <1>12 DEF Good, Reaches
  <2>. QED BY <1>1, <1>3, <2>1, FillsStep
<1>13. Reaches(p, to)' BY <1>1, <1>3, <1>11, <1>12, ReachesStep DEF Good
<1>. QED BY <1>8, <1>9, <1>10, <1>13 DEF Good

LEMMA TouchGood ==
  ASSUME SyncInv, NEW p \in Proc, NEW to \in To, NEW g \in Group, Good(p, to, g), Touch(p)
  PROVE  Good(p, to, g)'
<1> DEFINE s == Head(todo[p])
<1>0. Writes(p) BY DEF Writes
<1>1. /\ todo[p] # <<>> /\ Then(p, <<>>) /\ TypeInv /\ RestOK
      /\ <<>> \in Seq(Statement) /\ ToSet(<<>>) = {}
      /\ UNCHANGED <<tables, request>>
      /\ groups' = groups /\ assoc' = assoc /\ column' = column /\ request' = request
      /\ s \in Statement /\ s.group \in Group /\ s \in ToSet(todo[p]) /\ \A h : Row(h)' <=> Row(h)
  BY <1>0, WriteParts
<1>2. /\ s.do = "touch" /\ UNCHANGED <<ins, del, cols, gone>>
      /\ held'[p] = held[p] \union ({s.group} \cap groups)
  BY <1>1 DEF Touch, Runs, RestOK
<1>3. Follows(p, to, g, s) BY <1>1 DEF Good, Planned
<1>4. Seen(p)' = Seen(p) BY <1>1, <1>2 DEF Seen
<1>5. Planned(p, to, g)' BY <1>1, <1>2, PlannedStep DEF Good
<1>6. Written(p, to, g)' BY <1>1, <1>2 DEF Good, Written
<1>7. ByKind(p, to, g)'
  <2>1. /\ Has(p, "ungroup") => Has(p, "ungroup")'
        /\ Has(p, "load") => Has(p, "load")'
    BY <1>1, <1>2, KeepParts
  <2>2. request[p] = "delete" => Deletes(p, to, g)' BY <1>1, <1>2, <2>1 DEF Good, ByKind, Deletes
  <2>3. request[p] = "rename" => Renames(p, to, g)'
    <3>1. request[p] = "rename" => g \notin groups \/ g \in held'[p] BY <1>2, <1>3 DEF Follows
    <3>. QED BY <1>1, <1>2, <2>1, <3>1 DEF Good, ByKind, Renames
  <2>. QED BY <1>1, <2>2, <2>3 DEF Good, ByKind
<1>8. ASSUME NEW h \in Host, to[h] # None, Row(h), request[p] # "rename"
      PROVE  Settles(p, h, to[h])' /\ Fills(p, h, to[h])'
  <2>1. Settles(p, h, to[h]) /\ Fills(p, h, to[h]) BY <1>8 DEF Good, Reaches
  <2>2. Settles(p, h, to[h])' BY <1>1, <1>2, <1>4, <2>1, SettlesStep
  <2>. QED BY <1>1, <1>2, <2>1, <2>2, FillsStep
<1>9. Reaches(p, to)' BY <1>1, <1>2, <1>8, ReachesStep DEF Good
<1>. QED BY <1>5, <1>6, <1>7, <1>9 DEF Good

LEMMA StoreGood ==
  ASSUME SyncInv, NEW p \in Proc, NEW to \in To, NEW g \in Group, Good(p, to, g), Store(p)
  PROVE  Good(p, to, g)'
<1> DEFINE s == Head(todo[p])
<1>0. Writes(p) BY DEF Writes
<1>1. /\ todo[p] # <<>> /\ Then(p, <<>>) /\ TypeInv /\ RestOK
      /\ <<>> \in Seq(Statement) /\ ToSet(<<>>) = {}
      /\ UNCHANGED <<tables, request>>
      /\ groups' = groups /\ assoc' = assoc /\ column' = column /\ request' = request
      /\ s \in Statement /\ s.group \in Group /\ s \in ToSet(todo[p]) /\ \A h : Row(h)' <=> Row(h)
  BY <1>0, WriteParts
<1>2. /\ s.do = "store" /\ UNCHANGED <<ins, del, held, gone>>
      /\ \A h \in Host : cols'[p][h] = IF h \in s.on THEN s.group ELSE cols[p][h]
  BY <1>1 DEF Store, Runs, RestOK
<1>3. Follows(p, to, g, s) BY <1>1 DEF Good, Planned
<1>4. \A h \in s.on : to[h] = s.group BY <1>2, <1>3 DEF Follows
<1>5. Seen(p)' = Seen(p) BY <1>1, <1>2 DEF Seen
<1>6. Planned(p, to, g)' BY <1>1, <1>2, PlannedStep DEF Good
<1>7. Written(p, to, g)'
  <2>1. \A h \in Host : cols'[p][h] \in {None, to[h]} BY <1>2, <1>4 DEF Good, Written
  <2>. QED BY <1>1, <1>2, <2>1 DEF Good, Written
<1>8. ByKind(p, to, g)' BY <1>1, <1>2, KindStep DEF Good
<1>9. ASSUME NEW h \in Host, to[h] # None, Row(h), request[p] # "rename"
      PROVE  Settles(p, h, to[h])' /\ Fills(p, h, to[h])'
  <2>1. Settles(p, h, to[h]) /\ Fills(p, h, to[h]) BY <1>9 DEF Good, Reaches
  <2>2. Settles(p, h, to[h])' BY <1>1, <1>2, <1>5, <2>1, SettlesStep
  <2>3. CASE h \in s.on
    <3>1. cols'[p][h] = to[h] BY <1>2, <1>4, <2>3
    <3>2. SeenColumn(p, h)' = to[h] BY <1>9, <3>1 DEF SeenColumn
    <3>. QED BY <2>2, <3>2 DEF Fills
  <2>4. CASE h \notin s.on
    <3>1. SeenColumn(p, h)' = SeenColumn(p, h) BY <1>1, <1>2, <2>4 DEF SeenColumn
    <3>2. /\ Pending(p, "load", h) => Pending(p, "load", h)'
          /\ Pending(p, "store", h) => Pending(p, "store", h)'
      BY <1>1, <2>4, KeepParts
    <3>. QED BY <2>1, <2>2, <3>1, <3>2 DEF Fills
  <2>. QED BY <2>3, <2>4
<1>10. Reaches(p, to)' BY <1>1, <1>2, <1>9, ReachesStep DEF Good
<1>. QED BY <1>6, <1>7, <1>8, <1>10 DEF Good

LEMMA UngroupGood ==
  ASSUME SyncInv, NEW p \in Proc, NEW to \in To, NEW g \in Group, Good(p, to, g), Ungroup(p)
  PROVE  Good(p, to, g)'
<1> DEFINE s == Head(todo[p])
<1>0. Writes(p) BY DEF Writes
<1>1. /\ todo[p] # <<>> /\ Then(p, <<>>) /\ TypeInv /\ RestOK
      /\ <<>> \in Seq(Statement) /\ ToSet(<<>>) = {}
      /\ UNCHANGED <<tables, request>>
      /\ groups' = groups /\ assoc' = assoc /\ column' = column /\ request' = request
      /\ s \in Statement /\ s.group \in Group /\ s \in ToSet(todo[p]) /\ \A h : Row(h)' <=> Row(h)
  BY <1>0, WriteParts
<1>2. /\ s.do = "ungroup" /\ UNCHANGED <<ins, del, cols, held>>
      /\ gone'[p] = gone[p] \union ({s.group} \cap groups)
      /\ {a \in assoc \ del[p] : a[2] = s.group} = {}
  BY <1>1 DEF Ungroup, Runs, RestOK
<1>3. Follows(p, to, g, s) BY <1>1 DEF Good, Planned
<1>4. request[p] = "delete" /\ s.group = g /\ gone[p] = {} BY <1>2, <1>3 DEF Follows
<1>5. Seen(p)' = Seen(p) BY <1>1, <1>2 DEF Seen
<1>6. Planned(p, to, g)'
  <2>1. /\ ToSet(todo[p]) = {s} \union ToSet(Tail(todo[p]))
        /\ ToSet(todo'[p]) = ToSet(<<>>) \union ToSet(Tail(todo[p]))
        /\ \A y \in ToSet(Tail(todo[p])) : y.do = "load"
    BY <1>1, <1>2, ThenParts
  <2>2. ASSUME NEW y \in ToSet(todo'[p]) PROVE Follows(p, to, g, y)'
    <3>1. Follows(p, to, g, y) /\ y.do = "load" BY <1>1, <2>1, <2>2 DEF Good, Planned
    <3>. QED BY <1>1, <3>1 DEF Follows
  <2>. QED BY <2>2 DEF Planned
<1>7. Written(p, to, g)' BY <1>1, <1>2, <1>4 DEF Good, Written
<1>8. ByKind(p, to, g)'
  <2>1. g \in gone'[p] \/ g \notin groups' BY <1>1, <1>2, <1>4
  <2>. QED BY <1>1, <1>4, <2>1 DEF Good, ByKind, Deletes
<1>9. ASSUME NEW h \in Host, to[h] # None, Row(h), request[p] # "rename"
      PROVE  Settles(p, h, to[h])' /\ Fills(p, h, to[h])'
  <2>1. Settles(p, h, to[h]) /\ Fills(p, h, to[h]) BY <1>9 DEF Good, Reaches
  <2>2. Settles(p, h, to[h])' BY <1>1, <1>2, <1>5, <2>1, SettlesStep
  <2>. QED BY <1>1, <1>2, <2>1, <2>2, FillsStep
<1>10. Reaches(p, to)' BY <1>1, <1>2, <1>9, ReachesStep DEF Good
<1>. QED BY <1>6, <1>7, <1>8, <1>10 DEF Good

-----------------------------------------------------------------------------
(* The end of a request. *)
LEMMA DoneColumn ==
  ASSUME SyncInv, NEW p \in Proc, NEW to \in To, NEW g \in Group, Good(p, to, g),
         request[p] # "idle", request[p] # "rename", todo[p] = <<>>,
         NEW h \in Host, to[h] # None, Row(h)
  PROVE  SeenColumn(p, h) = to[h]
<1>0. ToSet(todo[p]) = {} BY EmptyParts
<1>1. \A what, x : ~Has(p, what) /\ ~Pending(p, what, x) BY <1>0 DEF Has, Pending
<1>2. Fills(p, h, to[h]) BY DEF Good, Reaches
<1>. QED BY <1>1, <1>2 DEF Fills

LEMMA DoneParts ==
  ASSUME SyncInv, NEW p \in Proc, NEW to \in To, NEW g \in Group, Good(p, to, g),
         request[p] # "idle", todo[p] = <<>>
  PROVE  /\ \A h \in Host : to[h] # None /\ Row(h) /\ request[p] # "rename" =>
              /\ SeenColumn(p, h) = to[h] /\ <<h, to[h]>> \in Seen(p)
              /\ \A y \in Group : <<h, y>> \in Seen(p) => y = to[h]
         /\ \A h \in Host : to[h] = None =>
              /\ SeenColumn(p, h) = column[h]
              /\ \A y \in Group : <<h, y>> \in Seen(p) <=> <<h, y>> \in assoc
         /\ request[p] = "rename" =>
              /\ Seen(p) = assoc /\ gone[p] = {}
              /\ \A h \in Host : Row(h) => SeenColumn(p, h) = column[h]
         /\ \A h \in Host : to[h] # None => column[h] # None
<1>0. ToSet(todo[p]) = {} BY EmptyParts
<1>1. \A what, h : ~Has(p, what) /\ ~Pending(p, what, h) /\ ~Runs(p, what)
  BY <1>0 DEF Has, Pending, Runs
<1>2. ASSUME NEW h \in Host, to[h] # None, Row(h), request[p] # "rename"
      PROVE  /\ SeenColumn(p, h) = to[h] /\ <<h, to[h]>> \in Seen(p)
             /\ \A y \in Group : <<h, y>> \in Seen(p) => y = to[h]
  <2>1. Settles(p, h, to[h]) /\ Fills(p, h, to[h]) BY <1>2 DEF Good, Reaches
  <2>2. Alone(p, h, to[h]) BY <1>1, <2>1 DEF Settles
  <2>. QED BY <1>1, <2>1, <2>2 DEF Fills, Alone, Joins
<1>3. ASSUME NEW h \in Host, to[h] = None
      PROVE  /\ SeenColumn(p, h) = column[h]
             /\ \A y \in Group : <<h, y>> \in Seen(p) <=> <<h, y>> \in assoc
  <2>1. SeenColumn(p, h) = column[h] BY <1>3 DEF Good, Written, SeenColumn
  <2>2. ASSUME NEW y \in Group PROVE <<h, y>> \notin ins[p] /\ <<h, y>> \notin del[p]
    <3>1. <<h, y>>[1] = h /\ <<h, y>>[2] = y OBVIOUS
    <3>. QED BY <1>3, <3>1, GroupsAssumption DEF Good, Written
  <2>. QED BY <2>1, <2>2 DEF Seen
<1>4. ASSUME request[p] = "rename"
      PROVE  /\ Seen(p) = assoc /\ gone[p] = {}
             /\ \A h \in Host : Row(h) => SeenColumn(p, h) = column[h]
  <2>1. Renames(p, to, g) BY <1>4 DEF Good, ByKind
  <2>2. Seen(p) = assoc BY <2>1 DEF Renames, Seen
  <2>3. gone[p] = {} BY <1>4 DEF Good, Written
  <2>4. ASSUME NEW h \in Host, Row(h) PROVE SeenColumn(p, h) = column[h]
    <3>1. CASE to[h] = None BY <1>3, <3>1
    <3>2. CASE to[h] # None
      <4>1. to # NoCols BY <3>2 DEF NoCols
      <4>2. column[h] = to[h] BY <1>1, <2>1, <2>4, <3>2, <4>1 DEF Renames
      <4>. QED BY <4>2 DEF Good, Written, SeenColumn
    <3>. QED BY <3>1, <3>2
  <2>. QED BY <2>2, <2>3, <2>4
<1>5. \A h \in Host : to[h] # None => column[h] # None BY <1>1 DEF Good, Reaches
<1>. QED BY <1>2, <1>3, <1>4, <1>5

LEMMA CommitParts ==
  ASSUME SyncInv, NEW p \in Proc, NEW to \in To, NEW g \in Group, Good(p, to, g), CommitRequest(p)
  PROVE  /\ assoc' = Seen(p) /\ groups' = groups \ gone[p]
         /\ \A h \in Host : column'[h] = IF Row(h) THEN SeenColumn(p, h) ELSE column[h]
         /\ \A h \in Host : (Row(h)' <=> Row(h)) /\ (column'[h] = None <=> column[h] = None)
         /\ InSync'
         /\ \A a \in assoc' : Row(a[1])' /\ a[2] \in groups'
         /\ Ungrouped \in groups'
<1>1. /\ request[p] # "idle" /\ todo[p] = <<>>
      /\ assoc' = Seen(p) /\ groups' = groups \ gone[p]
      /\ column' = [h \in Host |-> IF Row(h) THEN SeenColumn(p, h) ELSE column[h]]
  BY DEF CommitRequest, Seen
<1>2. \A h \in Host : column'[h] = IF Row(h) THEN SeenColumn(p, h) ELSE column[h] BY <1>1
<1>3. /\ column \in [Host -> Group \union {None, Absent}] /\ cols[p] \in [Host -> Group \union {None}]
      /\ assoc \subseteq Assoc /\ ins[p] \subseteq Assoc /\ groups \subseteq Group
  BY DEF SyncInv, TypeInv, TypeOK
<1>4. ASSUME NEW h \in Host PROVE (Row(h)' <=> Row(h)) /\ (column'[h] = None <=> column[h] = None)
  <2>1. CASE Row(h)
    <3>1. SeenColumn(p, h) \in Group BY <1>3, <2>1 DEF SeenColumn, Row
    <3>. QED BY <1>2, <2>1, <3>1, GroupsAssumption DEF Row
  <2>2. CASE ~Row(h) BY <1>2, <2>2 DEF Row
  <2>. QED BY <2>1, <2>2
<1>5. InSync'
  <2>1. ASSUME NEW h \in Host, Row(h) PROVE \A y \in Group : <<h, y>> \in assoc' <=> y = column'[h]
    <3>1. /\ column[h] \in Group /\ \A y \in Group : <<h, y>> \in assoc <=> y = column[h]
      BY <2>1, SyncParts DEF SyncInv
    <3>2. CASE to[h] = None BY <1>1, <1>2, <2>1, <3>1, <3>2, DoneParts
    <3>3. CASE request[p] = "rename" BY <1>1, <1>2, <2>1, <3>1, <3>3, DoneParts
    <3>4. CASE to[h] # None /\ request[p] # "rename"
      <4>1. /\ SeenColumn(p, h) = to[h] /\ <<h, to[h]>> \in Seen(p)
            /\ \A y \in Group : <<h, y>> \in Seen(p) => y = to[h]
        BY <1>1, <2>1, <3>4, DoneParts
      <4>. QED BY <1>1, <1>2, <2>1, <4>1
    <3>. QED BY <3>2, <3>3, <3>4
  <2>2. ASSUME NEW h \in Host, Row(h) PROVE column'[h] \in Group
    <3>1. SeenColumn(p, h) \in Group BY <1>3, <2>2 DEF SeenColumn, Row
    <3>. QED BY <1>2, <2>2, <3>1
  <2>3. ASSUME NEW h \in Host, Row(h)' PROVE (GroupsOf(h) = {column[h]})'
    <3>1. Row(h) BY <1>4, <2>3
    <3>. QED BY <2>1, <2>2, <3>1 DEF GroupsOf
  <2>. QED BY <2>3 DEF InSync
<1>6. gone[p] # {} => gone[p] = {g} /\ g # Ungrouped /\ request[p] = "delete"
                      /\ \A a \in assoc \ del[p] : a[2] # g
  BY DEF Good, Written, ByKind, Deletes
<1>7. Ungrouped \in groups' BY <1>1, <1>6 DEF SyncInv, Apart
<1>8. ASSUME NEW a \in assoc' PROVE Row(a[1])' /\ a[2] \in groups'
  <2>1. a \in Assoc /\ a[1] \in Host BY <1>1, <1>3, <1>8 DEF Seen, Assoc
  <2>2. CASE a \in assoc \ del[p]
    <3>1. Row(a[1]) /\ a[2] \in groups BY <2>2 DEF SyncInv, Apart
    <3>2. a[2] \notin gone[p] BY <1>6, <2>2
    <3>. QED BY <1>1, <1>4, <2>1, <3>1, <3>2
  <2>3. CASE a \in ins[p]
    <3>1. to[a[1]] = a[2] /\ Row(a[1]) /\ a[2] \in groups BY <2>3 DEF Good, Written
    <3>2. request[p] = "delete" => to[a[1]] \in {None, Ungrouped} BY <2>1 DEF Good, ByKind
    <3>3. a[2] # None BY <1>3, <2>3, GroupsAssumption DEF Assoc
    <3>4. a[2] \notin gone[p] BY <1>6, <3>1, <3>2, <3>3
    <3>. QED BY <1>1, <1>4, <2>1, <3>1, <3>4
  <2>. QED BY <1>1, <1>8, <2>2, <2>3 DEF Seen
<1>. QED BY <1>1, <1>2, <1>4, <1>5, <1>7, <1>8

(* A removal, renaming or deletion that ends while another runs. *)
LEMMA CommitOthers ==
  ASSUME SyncInv, OnlyEmptying, NEW p \in Proc, NEW q \in Others(p),
         NEW to \in To, NEW g \in Group, Good(p, to, g),
         NEW aim \in To, NEW f \in Group, Good(q, aim, f),
         request[q] # "idle", CommitRequest(p)
  PROVE  Good(q, aim, f)'
<1>1. /\ q \in Proc /\ q # p /\ request[p] # "idle" /\ todo[p] = <<>>
      /\ todo'[q] = todo[q] /\ request'[q] = request[q] /\ ins'[q] = ins[q] /\ del'[q] = del[q]
      /\ cols'[q] = cols[q] /\ held'[q] = held[q] /\ gone'[q] = gone[q]
  BY DEF CommitRequest, Finish, Others, SyncInv, TypeInv, TypeOK
<1>2. {request[p], request[q]} \in {{"remove"}, {"delete"}, {"rename"}, {"remove", "delete"}, {"rename", "delete"}}
  BY <1>1 DEF OnlyEmptying, SyncInv, Apart
<1>3. /\ request[p] \in {"remove", "delete", "rename"} /\ request[q] \in {"remove", "delete", "rename"}
      /\ request[q] = "rename" => request[p] \in {"rename", "delete"}
  BY <1>2
<1>4. /\ assoc' = Seen(p) /\ groups' = groups \ gone[p]
      /\ \A h \in Host : column'[h] = IF Row(h) THEN SeenColumn(p, h) ELSE column[h]
      /\ \A h \in Host : (Row(h)' <=> Row(h)) /\ (column'[h] = None <=> column[h] = None)
      /\ Ungrouped \in groups'
  BY CommitParts
<1>5. /\ assoc \subseteq Assoc /\ \A z \in Proc : ins[z] \subseteq Assoc /\ del[z] \subseteq Assoc
      /\ \A a \in Assoc : a[1] \in Host /\ a[2] \in Group /\ a = <<a[1], a[2]>>
  BY DEF SyncInv, TypeInv, TypeOK, Assoc
<1>6. None \notin Group /\ Ungrouped \in Group BY GroupsAssumption
<1>7. \A what, h : (Pending(q, what, h)' <=> Pending(q, what, h)) BY <1>1 DEF Pending
<1>8. \A what : (Runs(q, what)' <=> Runs(q, what)) /\ (Has(q, what)' <=> Has(q, what))
  BY <1>1 DEF Runs, Has
(* The tables change towards the ungrouped group only. *)
<1>9. /\ \A a \in ins[p] : a[2] = Ungrouped
      /\ \A a \in del[p] : a[2] # Ungrouped
  <2>1. CASE request[p] = "rename" BY <2>1 DEF Good, ByKind, Renames
  <2>2. CASE request[p] \in {"remove", "delete"}
    <3>1. \A h \in Host : to[h] \in {None, Ungrouped} BY <2>2 DEF Good, ByKind
    <3>. QED BY <1>1, <1>5, <1>6, <3>1 DEF Good, Written
  <2>. QED BY <1>3, <2>1, <2>2
<1>10. \A h \in Host : column'[h] \in {column[h], Ungrouped}
  <2>1. CASE request[p] = "rename" BY <1>1, <1>4, <2>1, DoneParts
  <2>2. CASE request[p] \in {"remove", "delete"}
    <3>1. \A h \in Host : to[h] \in {None, Ungrouped} BY <2>2 DEF Good, ByKind
    <3>. QED BY <1>4, <3>1 DEF Good, Written, SeenColumn
  <2>. QED BY <1>3, <2>1, <2>2
<1>11. \A a \in assoc' : a \in assoc \/ a[2] = Ungrouped BY <1>4, <1>9 DEF Seen
<1>12. \A h \in Host : <<h, Ungrouped>> \in assoc => <<h, Ungrouped>> \in assoc'
  <2>1. ASSUME NEW h \in Host PROVE <<h, Ungrouped>> \notin del[p]
    <3>1. <<h, Ungrouped>>[2] = Ungrouped OBVIOUS
    <3>. QED BY <1>9, <3>1
  <2>. QED BY <1>4, <2>1 DEF Seen
<1>13. ASSUME f # Ungrouped, NEW h \in Host, <<h, f>> \in assoc' PROVE <<h, f>> \in assoc
  <2>1. <<h, f>>[2] = f OBVIOUS
  <2>. QED BY <1>11, <1>13, <2>1
<1>14. request[q] \in {"delete", "rename"} => f # Ungrouped
  BY DEF Good, ByKind, Deletes, Renames
<1>15. Planned(q, aim, f)'
  <2>1. ASSUME NEW s \in ToSet(todo'[q]) PROVE Follows(q, aim, f, s)'
    <3>1. Follows(q, aim, f, s) BY <1>1, <2>1 DEF Good, Planned
    <3>2. s.do \in {"gather", "try", "release"} => f # Ungrouped BY <1>14, <3>1 DEF Follows
    <3>. QED BY <1>1, <1>13, <3>1, <3>2 DEF Follows
  <2>. QED BY <2>1 DEF Planned
<1>16. CASE request[q] = "rename"
  <2>1. Renames(q, aim, f) BY <1>16 DEF Good, ByKind
  <2>2. gone[p] \cap held[q] = {} BY <1>1 DEF SyncInv, Apart
  <2>3. Renames(q, aim, f)'
    <3>1. ASSUME NEW h \in Host, aim[h] # None, f \in groups', Row(h) PROVE column'[h] = f
      <4>1. f \in groups /\ f \notin gone[p] BY <1>4, <3>1
      <4>2. column[h] = f /\ f # Ungrouped BY <2>1, <3>1, <4>1 DEF Renames
      <4>3. CASE to[h] = None BY <1>1, <1>4, <3>1, <4>2, <4>3, DoneParts
      <4>4. CASE request[p] = "rename" BY <1>1, <1>4, <3>1, <4>2, <4>4, DoneParts
      <4>5. CASE to[h] # None /\ request[p] = "delete"
        <5>1. Deletes(p, to, g) BY <4>5 DEF Good, ByKind
        <5>2. f = g BY <3>1, <4>2, <4>5, <5>1 DEF Deletes, Row
        <5>3. ~Has(p, "ungroup")
          <6>1. ToSet(todo[p]) = {} BY <1>1, EmptyParts
          <6>. QED BY <6>1 DEF Has
        <5>. QED BY <4>1, <5>1, <5>2, <5>3 DEF Deletes
      <4>. QED BY <1>3, <1>16, <4>3, <4>4, <4>5
    <3>2. \A h \in Host : aim[h] # None => aim[h] = f /\ column'[h] # None
      BY <1>4, <2>1 DEF Renames
    <3>3. Has(q, "touch")' \/ f \notin groups' \/ f \in held'[q]
      BY <1>1, <1>4, <1>8, <2>1 DEF Renames
    <3>4. aim = NoCols \/ Has(q, "load")' \/ f \in groups' \cap held'[q]
      BY <1>1, <1>4, <1>8, <2>1, <2>2 DEF Renames
    <3>5. f # Ungrouped /\ ins'[q] = {} /\ del'[q] = {} BY <1>1, <2>1 DEF Renames
    <3>. QED BY <1>4, <3>1, <3>2, <3>3, <3>4, <3>5 DEF Renames, NoCols
  <2>4. ByKind(q, aim, f)' BY <1>1, <1>16, <2>3 DEF ByKind
  <2>5. Written(q, aim, f)'
    <3>1. ins'[q] = {} /\ del'[q] = {} /\ gone'[q] = {} BY <1>1, <1>16, <2>1 DEF Renames, Good, Written
    <3>. QED BY <1>1, <3>1 DEF Good, Written
  <2>6. Reaches(q, aim)'
    <3>1. \A h \in Host : aim[h] # None => column'[h] # None BY <2>3 DEF Renames
    <3>. QED BY <1>1, <1>16, <3>1 DEF Reaches
  <2>. QED BY <1>15, <2>4, <2>5, <2>6 DEF Good
<1>17. CASE request[q] \in {"remove", "delete"}
  <2>1. \A h \in Host : aim[h] \in {None, Ungrouped} BY <1>17 DEF Good, ByKind
  <2>2. Written(q, aim, f)'
    <3>1. ASSUME NEW a \in ins[q] PROVE aim[a[1]] = a[2] /\ Row(a[1])' /\ a[2] \in groups'
      <4>1. a[1] \in Host /\ a[2] \in Group BY <1>1, <1>5
      <4>2. aim[a[1]] = a[2] /\ Row(a[1]) BY DEF Good, Written
      <4>. QED BY <1>4, <1>6, <2>1, <4>1, <4>2
    <3>2. gone[q] # {} => \A a \in assoc' \ del[q] : a[2] # f
      <4>1. gone[q] # {} => request[q] = "delete" /\ \A a \in assoc \ del[q] : a[2] # f
        BY DEF Good, Written
      <4>. QED BY <1>11, <1>14, <4>1
    <3>. QED BY <1>1, <3>1, <3>2 DEF Good, Written
  <2>3. ByKind(q, aim, f)'
    <3>1. request[q] = "delete" => Deletes(q, aim, f)'
      <4>1. ASSUME request[q] = "delete" PROVE Deletes(q, aim, f) BY <4>1 DEF Good, ByKind
      <4>. QED BY <1>1, <1>4, <1>8, <1>10, <4>1 DEF Deletes
    <3>. QED BY <1>1, <1>17, <2>1, <3>1 DEF ByKind
  <2>4. ASSUME NEW h \in Host, aim[h] # None, Row(h)
        PROVE  Settles(q, h, aim[h])' /\ Fills(q, h, aim[h])'
    <3>1. aim[h] = Ungrouped /\ Settles(q, h, Ungrouped) /\ Fills(q, h, Ungrouped)
      BY <1>17, <2>1, <2>4 DEF Good, Reaches
    <3>2. <<h, Ungrouped>> \in Seen(q) => <<h, Ungrouped>> \in Seen(q)' BY <1>1, <1>12 DEF Seen
    <3>3. ASSUME NEW y \in Group, <<h, y>> \in Seen(q)' PROVE y = Ungrouped \/ <<h, y>> \in Seen(q)
      <4>1. <<h, y>>[2] = y OBVIOUS
      <4>. QED BY <1>1, <1>11, <3>3, <4>1 DEF Seen
    <3>4. Joins(q, h, Ungrouped) => Joins(q, h, Ungrouped)' BY <1>7, <3>2 DEF Joins
    <3>5. Alone(q, h, Ungrouped) => Alone(q, h, Ungrouped)'
      BY <1>1, <1>8, <3>3, <3>4 DEF Alone
    <3>6. Settles(q, h, Ungrouped)' BY <1>1, <1>7, <1>8, <3>1, <3>4, <3>5 DEF Settles
    <3>7. SeenColumn(q, h) = Ungrouped => SeenColumn(q, h)' = Ungrouped
      BY <1>1, <1>10 DEF SeenColumn
    <3>8. Fills(q, h, Ungrouped)' BY <1>7, <3>1, <3>7 DEF Fills
    <3>. QED BY <3>1, <3>6, <3>8
  <2>5. Reaches(q, aim)'
    <3>1. \A h \in Host : aim[h] # None /\ column'[h] = None => Pending(q, "check", h)' /\ Pending(q, "load", h)'
      BY <1>4, <1>7 DEF Good, Reaches
    <3>. QED BY <1>4, <2>4, <3>1 DEF Reaches
  <2>. QED BY <1>15, <2>2, <2>3, <2>5 DEF Good
<1>. QED BY <1>3, <1>16, <1>17

-----------------------------------------------------------------------------
(* Hosts that come and go. *)
LEMMA CreateGood ==
  ASSUME SyncInv, NEW c \in Host, CreateHost(c), NEW q \in Proc, NEW to \in To, NEW g \in Group,
         Good(q, to, g)
  PROVE  Good(q, to, g)'
<1>1. /\ column[c] = None /\ column' = [column EXCEPT ![c] = Ungrouped]
      /\ assoc' = assoc \union {<<c, Ungrouped>>}
      /\ groups' = groups /\ todo' = todo /\ request' = request /\ ins' = ins /\ del' = del
      /\ cols' = cols /\ held' = held /\ gone' = gone
      /\ column \in [Host -> Group \union {None, Absent}]
      /\ ins[q] \subseteq Assoc /\ \A a \in Assoc : a[1] \in Host /\ a[2] \in Group
  BY DEF CreateHost, writes, SyncInv, TypeInv, TypeOK, Assoc
<1>2. /\ \A h \in Host : h # c => column'[h] = column[h]
      /\ column'[c] = Ungrouped /\ ~Row(c)
      /\ \A h \in Host : Row(h) => h # c /\ Row(h)'
      /\ \A h \in Host : h # c => (Row(h)' <=> Row(h))
  BY <1>1, GroupsAssumption DEF Row
<1>3. /\ \A h \in Host : \A y : h # c => (<<h, y>> \in assoc' <=> <<h, y>> \in assoc)
      /\ \A y : y # Ungrouped => (<<c, y>> \in assoc' <=> <<c, y>> \in assoc)
  BY <1>1
<1>4. \A a \in assoc' : a \in assoc \/ a[2] = Ungrouped
  <2>1. <<c, Ungrouped>>[2] = Ungrouped OBVIOUS
  <2>. QED BY <1>1, <2>1
<1>5. request[q] \in {"delete", "rename"} => g # Ungrouped
  BY DEF Good, ByKind, Deletes, Renames
<1>6. request[q] \in {"delete", "rename"} => to[c] = None
  BY <1>1, GroupsAssumption DEF Good, ByKind, Deletes, Renames
<1>7. \A what, h : (Pending(q, what, h)' <=> Pending(q, what, h)) BY <1>1 DEF Pending
<1>8. \A what : (Runs(q, what)' <=> Runs(q, what)) /\ (Has(q, what)' <=> Has(q, what))
  BY <1>1 DEF Runs, Has
<1>9. Planned(q, to, g)'
  <2>1. ASSUME NEW s \in ToSet(todo'[q]) PROVE Follows(q, to, g, s)'
    <3>1. Follows(q, to, g, s) BY <1>1, <2>1 DEF Good, Planned
    <3>2. s.do \in {"gather", "try", "release"} => g # Ungrouped BY <1>5, <3>1 DEF Follows
    <3>3. g # Ungrouped => \A h \in Host : <<h, g>> \in assoc' => <<h, g>> \in assoc BY <1>3
    <3>. QED BY <1>1, <3>1, <3>2, <3>3 DEF Follows
  <2>. QED BY <2>1 DEF Planned
<1>10. Written(q, to, g)'
  <2>1. ASSUME NEW a \in ins[q] PROVE to[a[1]] = a[2] /\ Row(a[1])' /\ a[2] \in groups
    <3>1. a[1] \in Host BY <1>1
    <3>. QED BY <1>2, <3>1 DEF Good, Written
  <2>2. gone[q] # {} => \A a \in assoc' \ del[q] : a[2] # g BY <1>4, <1>5 DEF Good, Written
  <2>. QED BY <1>1, <2>1, <2>2 DEF Good, Written
<1>11. ByKind(q, to, g)'
  <2>1. request[q] = "delete" => Deletes(q, to, g)'
    BY <1>1, <1>2, <1>6, <1>8 DEF Good, ByKind, Deletes
  <2>2. request[q] = "rename" => Renames(q, to, g)'
    BY <1>1, <1>2, <1>6, <1>8 DEF Good, ByKind, Renames
  <2>. QED BY <1>1, <2>1, <2>2 DEF Good, ByKind
<1>12. Reaches(q, to)'
  <2>1. ASSUME NEW h \in Host, to[h] # None, h # c
        PROVE  /\ Row(h) /\ request[q] # "rename" => Settles(q, h, to[h])' /\ Fills(q, h, to[h])'
               /\ column'[h] = None => Pending(q, "check", h)' /\ Pending(q, "load", h)'
    <3>1. ASSUME Row(h), request[q] # "rename" PROVE Settles(q, h, to[h])' /\ Fills(q, h, to[h])'
      <4>1. Settles(q, h, to[h]) /\ Fills(q, h, to[h]) BY <2>1, <3>1 DEF Good, Reaches
      <4>2. \A y \in Group : <<h, y>> \in Seen(q)' <=> <<h, y>> \in Seen(q) BY <1>1, <1>3, <2>1 DEF Seen
      <4>3. to[h] \in Group BY <2>1, ToParts
      <4>4. Joins(q, h, to[h])' <=> Joins(q, h, to[h]) BY <1>7, <4>2, <4>3 DEF Joins
      <4>5. Alone(q, h, to[h])' <=> Alone(q, h, to[h]) BY <1>1, <1>8, <4>2, <4>4 DEF Alone
      <4>6. Settles(q, h, to[h])' BY <1>1, <1>7, <1>8, <4>1, <4>4, <4>5 DEF Settles
      <4>7. SeenColumn(q, h)' = SeenColumn(q, h) BY <1>1, <1>2, <2>1 DEF SeenColumn
      <4>8. Fills(q, h, to[h])' BY <1>7, <4>1, <4>7 DEF Fills
      <4>. QED BY <4>6, <4>8
    <3>2. column'[h] = None => Pending(q, "check", h)' /\ Pending(q, "load", h)'
      BY <1>2, <1>7, <2>1 DEF Good, Reaches
    <3>. QED BY <3>1, <3>2
  <2>2. ASSUME to[c] # None PROVE Pending(q, "check", c)' /\ Pending(q, "load", c)'
    BY <1>1, <1>7, <2>2 DEF Good, Reaches
  <2>3. to[c] # None => Settles(q, c, to[c])' /\ Fills(q, c, to[c])' BY <2>2 DEF Settles, Fills
  <2>. QED BY <1>1, <1>2, <2>1, <2>2, <2>3 DEF Reaches
<1>. QED BY <1>9, <1>10, <1>11, <1>12 DEF Good

LEMMA RemoveGood ==
  ASSUME SyncInv, NEW c \in Host, RemoveHost(c), NEW q \in Proc, NEW to \in To, NEW g \in Group,
         Good(q, to, g)
  PROVE  Good(q, to, g)'
<1>1. /\ column' = [column EXCEPT ![c] = Absent] /\ assoc' = {a \in assoc : a[1] # c}
      /\ cols[q][c] = None /\ \A a \in ins[q] \union del[q] : a[1] # c
      /\ groups' = groups /\ todo' = todo /\ request' = request /\ ins' = ins /\ del' = del
      /\ cols' = cols /\ held' = held /\ gone' = gone
      /\ column \in [Host -> Group \union {None, Absent}]
      /\ ins[q] \subseteq Assoc /\ \A a \in Assoc : a[1] \in Host /\ a[2] \in Group
  BY DEF RemoveHost, writes, SyncInv, TypeInv, TypeOK, Assoc
<1>2. /\ \A h \in Host : h # c => column'[h] = column[h]
      /\ column'[c] = Absent /\ column'[c] # None /\ ~Row(c)'
      /\ \A h \in Host : h # c => (Row(h)' <=> Row(h))
  BY <1>1, GroupsAssumption DEF Row
<1>3. /\ assoc' \subseteq assoc
      /\ \A h \in Host : \A y : h # c => (<<h, y>> \in assoc' <=> <<h, y>> \in assoc)
  <2>1. \A h, y : <<h, y>>[1] = h OBVIOUS
  <2>. QED BY <1>1, <2>1
<1>7. \A what, h : (Pending(q, what, h)' <=> Pending(q, what, h)) BY <1>1 DEF Pending
<1>8. \A what : (Runs(q, what)' <=> Runs(q, what)) /\ (Has(q, what)' <=> Has(q, what))
  BY <1>1 DEF Runs, Has
<1>9. Planned(q, to, g)'
  <2>1. ASSUME NEW s \in ToSet(todo'[q]) PROVE Follows(q, to, g, s)'
    <3>1. Follows(q, to, g, s) BY <1>1, <2>1 DEF Good, Planned
    <3>. QED BY <1>1, <1>3, <3>1 DEF Follows
  <2>. QED BY <2>1 DEF Planned
<1>10. Written(q, to, g)'
  <2>1. ASSUME NEW a \in ins[q] PROVE to[a[1]] = a[2] /\ Row(a[1])' /\ a[2] \in groups
    <3>1. a[1] \in Host /\ a[1] # c BY <1>1
    <3>. QED BY <1>2, <3>1 DEF Good, Written
  <2>. QED BY <1>1, <1>3, <2>1 DEF Good, Written
<1>11. ByKind(q, to, g)'
  <2>1. request[q] = "delete" => Deletes(q, to, g)'
    BY <1>1, <1>2, <1>8 DEF Good, ByKind, Deletes
  <2>2. request[q] = "rename" => Renames(q, to, g)'
    BY <1>1, <1>2, <1>8 DEF Good, ByKind, Renames
  <2>. QED BY <1>1, <2>1, <2>2 DEF Good, ByKind
<1>12. Reaches(q, to)'
  <2>1. ASSUME NEW h \in Host, to[h] # None, h # c
        PROVE  /\ Row(h) /\ request[q] # "rename" => Settles(q, h, to[h])' /\ Fills(q, h, to[h])'
               /\ column'[h] = None => Pending(q, "check", h)' /\ Pending(q, "load", h)'
    <3>1. ASSUME Row(h), request[q] # "rename" PROVE Settles(q, h, to[h])' /\ Fills(q, h, to[h])'
      <4>1. Settles(q, h, to[h]) /\ Fills(q, h, to[h]) BY <2>1, <3>1 DEF Good, Reaches
      <4>2. \A y \in Group : <<h, y>> \in Seen(q)' <=> <<h, y>> \in Seen(q) BY <1>1, <1>3, <2>1 DEF Seen
      <4>3. to[h] \in Group BY <2>1, ToParts
      <4>4. Joins(q, h, to[h])' <=> Joins(q, h, to[h]) BY <1>7, <4>2, <4>3 DEF Joins
      <4>5. Alone(q, h, to[h])' <=> Alone(q, h, to[h]) BY <1>1, <1>8, <4>2, <4>4 DEF Alone
      <4>6. Settles(q, h, to[h])' BY <1>1, <1>7, <1>8, <4>1, <4>4, <4>5 DEF Settles
      <4>7. SeenColumn(q, h)' = SeenColumn(q, h) BY <1>1, <1>2, <2>1 DEF SeenColumn
      <4>8. Fills(q, h, to[h])' BY <1>7, <4>1, <4>7 DEF Fills
      <4>. QED BY <4>6, <4>8
    <3>2. column'[h] = None => Pending(q, "check", h)' /\ Pending(q, "load", h)'
      BY <1>2, <1>7, <2>1 DEF Good, Reaches
    <3>. QED BY <3>1, <3>2
  <2>. QED BY <1>1, <1>2, <2>1 DEF Reaches
<1>. QED BY <1>9, <1>10, <1>11, <1>12 DEF Good

LEMMA HostsSync ==
  ASSUME SyncInv, NEW c \in Host, CreateHost(c) \/ RemoveHost(c)
  PROVE  InSync' /\ Apart'
<1>1. /\ groups' = groups /\ request' = request /\ held' = held /\ gone' = gone
      /\ column \in [Host -> Group \union {None, Absent}] /\ assoc \subseteq Assoc
      /\ \A a \in Assoc : a[1] \in Host /\ a[2] \in Group /\ a = <<a[1], a[2]>>
  BY DEF CreateHost, RemoveHost, writes, SyncInv, TypeInv, TypeOK, Assoc
<1>2. \A h \in Host : h # c => /\ (Row(h)' <=> Row(h)) /\ column'[h] = column[h]
                               /\ \A y : <<h, y>> \in assoc' <=> <<h, y>> \in assoc
  <2>1. \A h, y : <<h, y>>[1] = h OBVIOUS
  <2>2. CASE CreateHost(c) BY <1>1, <2>2 DEF CreateHost, Row
  <2>3. CASE RemoveHost(c) BY <1>1, <2>1, <2>3 DEF RemoveHost, Row
  <2>. QED BY <2>2, <2>3
<1>3. ASSUME NEW h \in Host, h # c, Row(h)' PROVE (GroupsOf(h) = {column[h]})'
  BY <1>2, <1>3 DEF SyncInv, InSync, GroupsOf
<1>4. CASE CreateHost(c)
  <2>1. /\ column'[c] = Ungrouped /\ assoc' = assoc \union {<<c, Ungrouped>>} /\ column[c] = None
    BY <1>1, <1>4 DEF CreateHost
  <2>2. Row(c)' /\ ~Row(c) BY <2>1, GroupsAssumption DEF Row
  <2>3. \A y \in Group : <<c, y>> \notin assoc BY <2>2, SyncParts DEF SyncInv
  <2>4. (GroupsOf(c) = {column[c]})' BY <2>1, <2>3, GroupsAssumption DEF GroupsOf
  <2>5. InSync' BY <1>3, <2>4 DEF InSync
  <2>6. ASSUME NEW a \in assoc' PROVE Row(a[1])' /\ a[2] \in groups'
    <3>1. CASE a \in assoc
      <4>1. Row(a[1]) /\ a[2] \in groups /\ a[1] \in Host BY <1>1, <3>1 DEF SyncInv, Apart
      <4>. QED BY <1>1, <1>2, <2>2, <4>1
    <3>2. CASE a = <<c, Ungrouped>> BY <1>1, <2>2, <3>2 DEF SyncInv, Apart
    <3>. QED BY <2>1, <2>6, <3>1, <3>2
  <2>7. Apart' BY <1>1, <2>6 DEF SyncInv, Apart
  <2>. QED BY <2>5, <2>7
<1>5. CASE RemoveHost(c)
  <2>1. column'[c] = Absent /\ assoc' = {a \in assoc : a[1] # c} BY <1>1, <1>5 DEF RemoveHost
  <2>2. ~Row(c)' BY <2>1 DEF Row
  <2>3. InSync' BY <1>3, <2>2 DEF InSync
  <2>4. ASSUME NEW a \in assoc' PROVE Row(a[1])' /\ a[2] \in groups'
    <3>1. a \in assoc /\ a[1] # c BY <2>1, <2>4
    <3>2. Row(a[1]) /\ a[2] \in groups /\ a[1] \in Host BY <1>1, <3>1 DEF SyncInv, Apart
    <3>. QED BY <1>1, <1>2, <3>1, <3>2
  <2>5. Apart' BY <1>1, <2>4 DEF SyncInv, Apart
  <2>. QED BY <2>3, <2>5
<1>. QED BY <1>4, <1>5

LEMMA HostsLate ==
  ASSUME SyncInv, NEW c \in Host, CreateHost(c) \/ RemoveHost(c)
  PROVE  LateInv' /\ UNCHANGED <<news, request>>
<1>1. UNCHANGED <<news, late, request>> BY DEF CreateHost, RemoveHost, events
<1>2. column \in [Host -> Group \union {None, Absent}] BY DEF SyncInv, TypeInv, TypeOK
<1>3. ASSUME NEW h \in Host, column[h] # None
      PROVE  column'[h] # None /\ (Row(h)' => column'[h] = column[h] /\ Row(h))
  <2>1. CASE CreateHost(c)
    <3>1. h # c /\ column' = [column EXCEPT ![c] = Ungrouped] BY <1>3, <2>1 DEF CreateHost
    <3>. QED BY <1>2, <1>3, <3>1 DEF Row
  <2>2. CASE RemoveHost(c)
    <3>1. column' = [column EXCEPT ![c] = Absent] BY <2>2 DEF RemoveHost
    <3>. QED BY <1>2, <1>3, <3>1, GroupsAssumption DEF Row
  <2>. QED BY <2>1, <2>2
<1>4. \A q \in Proc : Told(q) => Told(q)' BY <1>1, <1>3 DEF Told
<1>5. LateInv' BY <1>1, <1>4 DEF SyncInv, LateInv
<1>. QED BY <1>1, <1>5

-----------------------------------------------------------------------------
(* The invariant. *)
LEMMA TablesKept ==
  ASSUME InSync, UNCHANGED tables
  PROVE  /\ InSync' /\ groups' = groups /\ assoc' = assoc /\ column' = column
         /\ \A h : Row(h)' <=> Row(h)
BY DEF InSync, GroupsOf, Row, tables

(* A step of one request that leaves the tables alone. *)
LEMMA LocalStep ==
  ASSUME SyncInv, NEW p \in Proc, TypeInv', UNCHANGED tables,
         \A q \in Others(p) : /\ todo'[q] = todo[q] /\ request'[q] = request[q] /\ ins'[q] = ins[q]
                              /\ del'[q] = del[q] /\ cols'[q] = cols[q] /\ held'[q] = held[q]
                              /\ gone'[q] = gone[q],
         \A q \in Others(p) : news'[q] = news[q] /\ late'[q] = late[q],
         \A q \in Others(p) : held'[p] \cap gone[q] = {} /\ gone'[p] \cap held[q] = {},
         \A q \in Others(p) : \A other \in {request[q], late[q]} :
           request'[p] # "idle" /\ other # "idle" => {request'[p], other} \in Overlapping,
         late'[p] = "idle", request'[p] = "idle" => news'[p] = NoCols,
         \E to \in To, g \in Group : Good(p, to, g)' /\ Tells(p, to)'
  PROVE  SyncInv'
<1>1. ASSUME NEW q \in Proc PROVE \E to \in To, g \in Group : Good(q, to, g)' /\ Tells(q, to)'
  <2>1. CASE q = p BY <2>1
  <2>2. CASE q # p
    <3>1. PICK to \in To, g \in Group : Good(q, to, g) /\ Tells(q, to) BY DEF SyncInv
    <3>2. q \in Others(p) BY <2>2 DEF Others
    <3>3. Good(q, to, g)' BY <3>1, <3>2, GoodFrame
    <3>4. Tells(q, to)' BY <3>1, <3>2 DEF Tells
    <3>. QED BY <3>3, <3>4
  <2>. QED BY <2>1, <2>2
<1>2. /\ InSync' /\ groups' = groups /\ assoc' = assoc /\ column' = column
      /\ \A h : Row(h)' <=> Row(h)
  BY TablesKept DEF SyncInv
<1>3. ASSUME NEW q \in Proc, NEW r \in Proc, q # r
      PROVE  /\ held'[q] \cap gone'[r] = {}
             /\ request'[q] # "idle" /\ request'[r] # "idle" => {request'[q], request'[r]} \in Overlapping
  <2>1. CASE q = p
    <3>1. r \in Others(p) BY <1>3, <2>1 DEF Others
    <3>. QED BY <2>1, <3>1
  <2>2. CASE r = p
    <3>1. q \in Others(p) BY <1>3, <2>2 DEF Others
    <3>2. {request'[q], request'[r]} = {request'[p], request[q]} BY <2>2, <3>1
    <3>. QED BY <2>2, <3>1, <3>2
  <2>3. CASE q # p /\ r # p
    <3>1. q \in Others(p) /\ r \in Others(p) BY <2>3 DEF Others
    <3>. QED BY <1>3, <3>1 DEF SyncInv, Apart
  <2>. QED BY <2>1, <2>2, <2>3
<1>4. Apart' BY <1>2, <1>3 DEF SyncInv, Apart
<1>5. ASSUME NEW q \in Proc
      PROVE  /\ late'[q] # "idle" => request'[q] = "idle" /\ Told(q)'
             /\ request'[q] = "idle" /\ late'[q] = "idle" => news'[q] = NoCols
  <2>1. CASE q = p BY <2>1
  <2>2. CASE q # p
    <3>1. q \in Others(p) BY <2>2 DEF Others
    <3>2. Told(q) => Told(q)' BY <1>2, <3>1 DEF Told, Row
    <3>. QED BY <3>1, <3>2 DEF SyncInv, LateInv
  <2>. QED BY <2>1, <2>2
<1>6. ASSUME NEW q \in Proc, NEW r \in Others(q), late'[q] # "idle", request'[r] # "idle"
      PROVE  {late'[q], request'[r]} \in Overlapping
  <2>1. q \in Others(p) /\ late'[q] = late[q] /\ r \in Proc BY <1>6 DEF Others
  <2>2. CASE r = p
    <3>1. {request'[p], late[q]} \in Overlapping BY <1>6, <2>1, <2>2
    <3>2. {late'[q], request'[r]} = {request'[p], late[q]} BY <2>1, <2>2
    <3>. QED BY <3>1, <3>2
  <2>3. CASE r # p
    <3>1. r \in Others(p) BY <2>1, <2>3 DEF Others
    <3>. QED BY <1>6, <2>1, <3>1 DEF SyncInv, LateInv
  <2>. QED BY <2>2, <2>3
<1>7. LateInv' BY <1>5, <1>6 DEF LateInv, Others
<1>. QED BY <1>1, <1>2, <1>4, <1>7 DEF SyncInv

LEMMA SyncInit == Init => SyncInv
<1> SUFFICES ASSUME Init PROVE SyncInv
  OBVIOUS
<1>1. TypeInv BY TypeInit
<1>2. /\ \A a \in Assoc : a[1] \in Host /\ a[2] \in Group
      /\ \A h \in Host, g \in Group : <<h, g>> \in Assoc /\ <<h, g>>[1] = h /\ <<h, g>>[2] = g
  BY DEF Assoc
<1>3. InSync
  <2>1. ASSUME NEW h \in Host, Row(h) PROVE GroupsOf(h) = {column[h]}
    <3>1. column[h] \in Group BY <2>1 DEF Init, Row
    <3>2. \A g \in Group : <<h, g>> \in assoc <=> column[h] = g BY <1>2 DEF Init
    <3>. QED BY <3>1, <3>2 DEF GroupsOf
  <2>. QED BY <2>1 DEF InSync
<1>4. Apart
  <2>1. \A a \in assoc : Row(a[1]) /\ a[2] \in groups BY <1>2, GroupsAssumption DEF Init, Row
  <2>2. \A p \in Proc : held[p] = {} /\ gone[p] = {} /\ request[p] = "idle" BY DEF Init
  <2>3. Ungrouped \in groups BY GroupsAssumption DEF Init
  <2>. QED BY <2>1, <2>2, <2>3 DEF Apart
<1>5. ASSUME NEW p \in Proc PROVE \E to \in To, g \in Group : Good(p, to, g) /\ Tells(p, to)
  <2>1. /\ request[p] = "idle" /\ todo[p] = <<>> /\ ins[p] = {} /\ del[p] = {} /\ gone[p] = {}
        /\ \A h \in Host : cols[p][h] = None
    BY DEF Init, NoCols
  <2>2. Good(p, NoCols, Ungrouped) BY <2>1, IdleGood, GroupsAssumption
  <2>3. Tells(p, NoCols) BY <2>1 DEF Tells
  <2>. QED BY <2>2, <2>3, ToParts, GroupsAssumption
<1>6. LateInv BY DEF Init, LateInv, Others
<1>. QED BY <1>1, <1>3, <1>4, <1>5, <1>6 DEF SyncInv

(* What the statements of a request have to do with what it announces. *)
LEMMA RunNews ==
  ASSUME SyncInv, NEW p \in Proc, Run(p)
  PROVE  /\ late' = late /\ late'[p] = "idle" /\ request' = request /\ request[p] # "idle"
         /\ \A q \in Others(p) : news'[q] = news[q]
         /\ ~Load(p) => news' = news
<1>1. TypeInv BY DEF SyncInv
<1>2. todo[p] # <<>> /\ late' = late /\ request' = request
  BY <1>1, RetryParts DEF Run, Check, Detach, Drop, Leave, Erase, Attach, Touch, Load, Store, Gather, Try,
     Release, Retry, Ungroup, Runs, events
<1>3. request[p] # "idle" BY <1>1, <1>2 DEF TypeInv, Shape
<1>4. late[p] = "idle" BY <1>3 DEF SyncInv, LateInv
<1>5. ~Load(p) => news' = news
  BY DEF Run, Check, Detach, Drop, Leave, Erase, Attach, Touch, Store, Gather, Try, Release, Retry,
     Ungroup, events
<1>6. \A q \in Others(p) : news'[q] = news[q] BY <1>1, <1>5, LeadsNews DEF Leads
<1>. QED BY <1>2, <1>3, <1>4, <1>5, <1>6

LEMMA RunTells ==
  ASSUME SyncInv, NEW p \in Proc, Run(p), NEW to \in To, NEW g \in Group, Good(p, to, g), Tells(p, to)
  PROVE  Tells(p, to)'
<1>1. request' = request /\ request[p] # "idle" BY RunNews
<1>2. CASE ~Load(p) BY <1>1, <1>2, RunNews DEF Tells
<1>3. CASE Load(p)
  <2> DEFINE s == Head(todo[p])
  <2>1. TypeInv /\ todo[p] # <<>> /\ s.do = "load" BY <1>3 DEF Load, Runs, SyncInv
  <2>2. s \in ToSet(todo[p]) BY <2>1, HeadTyped
  <2>3. \A h \in s.on : to[h] = s.group BY <2>1, <2>2 DEF Good, Planned, Follows
  <2>4. /\ news \in [Proc -> [Host -> Group \union {None}]]
        /\ news' = [news EXCEPT ![p] = [h \in Host |-> IF h \in s.on THEN s.group ELSE news[p][h]]]
    BY <1>3, <2>1 DEF Load, TypeInv, TypeOK
  <2>5. \A h \in Host : news'[p][h] = IF h \in s.on THEN s.group ELSE news[p][h] BY <2>4
  <2>. QED BY <1>1, <2>3, <2>5 DEF Tells
<1>. QED BY <1>2, <1>3

(* A removal has nothing to announce when its hosts are picked. *)
LEMMA LeaveTells ==
  ASSUME SyncInv, NEW p \in Proc, NEW to \in To, NEW g \in Group, Good(p, to, g), Tells(p, to),
         Leave(p), NEW new \in To
  PROVE  Tells(p, new)'
<1>1. TypeInv /\ todo[p] # <<>> /\ Head(todo[p]).do = "leave" BY DEF Leave, Runs, SyncInv
<1>2. Head(todo[p]) \in ToSet(todo[p]) BY <1>1, HeadTyped
<1>3. to = NoCols /\ request[p] = "remove" BY <1>1, <1>2 DEF Good, Planned, Follows
<1>4. \A h \in Host : news[p][h] = None BY <1>3 DEF Tells, NoCols
<1>5. news' = news BY DEF Leave, events
<1>. QED BY <1>4, <1>5 DEF Tells

(* The statements of a request, but for its writes. *)
LEMMA RunSync ==
  ASSUME SyncInv, NEW p \in Proc, Run(p)
  PROVE  SyncInv'
<1>0. TypeInv /\ TypeInv' /\ RestOK
  <2>1. TypeInv BY DEF SyncInv
  <2>2. [Next]_vars BY DEF Next
  <2>. QED BY <2>1, <2>2, TypeStep, TypeSplit DEF TypeInv
<1>1. PICK to \in To, g \in Group : Good(p, to, g) /\ Tells(p, to) BY DEF SyncInv
<1>2. \E new \in To, f \in Group : Good(p, new, f)' /\ Tells(p, new)'
  <2>1. CASE Leave(p)
    <3>1. PICK new \in To : Good(p, new, g)' BY <1>1, <2>1, LeaveGood
    <3>2. Tells(p, new)' BY <1>1, <2>1, LeaveTells
    <3>. QED BY <3>1, <3>2
  <2>2. CASE ~Leave(p)
    <3>1. Good(p, to, g)'
      BY <1>1, <2>2, CheckGood, PickGood, EraseGood, AttachGood, TouchGood, LoadGood, StoreGood,
         GatherGood, TryGood, ReleaseGood, RetryGood, UngroupGood DEF Run
    <3>2. Tells(p, to)' BY <1>1, <2>2, RunTells
    <3>. QED BY <3>1, <3>2
  <2>. QED BY <2>1, <2>2
<1>3. /\ \A q \in Others(p) : q \in Proc /\ q # p
      /\ \A q \in Others(p) : held[p] \cap gone[q] = {} /\ held[q] \cap gone[p] = {}
      /\ \A q \in Others(p) : \A other \in {request[q], late[q]} :
           request[p] # "idle" /\ other # "idle" => {request[p], other} \in Overlapping
  <2>1. \A q \in Others(p) : q \in Proc /\ q # p /\ p \in Others(q) BY DEF Others
  <2>2. \A q \in Others(p) : held[p] \cap gone[q] = {} /\ held[q] \cap gone[p] = {}
    BY <2>1 DEF SyncInv, Apart
  <2>3. ASSUME NEW q \in Others(p), NEW other \in {request[q], late[q]},
               request[p] # "idle", other # "idle"
        PROVE  {request[p], other} \in Overlapping
    <3>1. CASE other = request[q] BY <2>1, <2>3, <3>1 DEF SyncInv, Apart
    <3>2. CASE other = late[q]
      <4>1. {late[q], request[p]} \in Overlapping BY <2>1, <2>3, <3>2 DEF SyncInv, LateInv
      <4>2. {request[p], other} = {late[q], request[p]} BY <3>2
      <4>. QED BY <4>1, <4>2
    <3>. QED BY <2>3, <3>1, <3>2
  <2>. QED BY <2>1, <2>2, <2>3
<1>3a. /\ late' = late /\ late'[p] = "idle" /\ request' = request /\ request[p] # "idle"
       /\ \A q \in Others(p) : news'[q] = news[q]
  BY <1>0, RunNews
<1>4. CASE Leads(p) \/ Try(p) \/ Release(p)
  <2>1. /\ UNCHANGED <<tables, request, writes>> /\ todo[p] # <<>>
        /\ \E next \in Seq(Statement) : Then(p, next)
    BY <1>0, <1>4, LeadsShape, TryShape, ReleaseShape
  <2>2. UNCHANGED <<request, ins, del, cols, held, gone>> BY <2>1 DEF writes
  <2>3. \A q \in Others(p) : todo'[q] = todo[q] BY <1>0, <2>1, ThenParts
  <2>. QED BY <1>0, <1>2, <1>3, <1>3a, <2>1, <2>2, <2>3, LocalStep
<1>5. CASE Writes(p)
  <2>1. /\ todo[p] # <<>> /\ Then(p, <<>>) /\ UNCHANGED <<tables, request>>
        /\ \A q \in Others(p) : /\ ins'[q] = ins[q] /\ del'[q] = del[q] /\ cols'[q] = cols[q]
                                /\ held'[q] = held[q] /\ gone'[q] = gone[q]
    BY <1>0, <1>5, WritesShape
  <2>2. \A q \in Others(p) : todo'[q] = todo[q] /\ request'[q] = request[q]
    BY <1>0, <2>1, EmptyParts, ThenParts
  <2>3. \A q \in Others(p) : held'[p] \cap gone[q] = {} /\ gone'[p] \cap held[q] = {}
    <3>1. CASE Touch(p)
      <4>1. /\ held'[p] \subseteq held[p] \union {Head(todo[p]).group} /\ gone' = gone
            /\ \A q \in Others(p) : Head(todo[p]).group \notin gone[q]
        BY <1>0, <3>1 DEF Touch, RestOK
      <4>. QED BY <1>3, <4>1
    <3>2. CASE Ungroup(p)
      <4>1. /\ gone'[p] \subseteq gone[p] \union {Head(todo[p]).group} /\ held' = held
            /\ \A q \in Others(p) : Head(todo[p]).group \notin held[q]
        BY <1>0, <3>2 DEF Ungroup, RestOK
      <4>. QED BY <1>3, <4>1
    <3>3. CASE Erase(p) \/ Attach(p) \/ Store(p)
      <4>1. held' = held /\ gone' = gone BY <3>3 DEF Erase, Attach, Store
      <4>. QED BY <1>3, <4>1
    <3>. QED BY <1>5, <3>1, <3>2, <3>3 DEF Writes
  <2>. QED BY <1>0, <1>2, <1>3, <1>3a, <2>1, <2>2, <2>3, LocalStep
<1>6. CASE Retry(p)
  <2>1. /\ UNCHANGED <<tables, request, cols, gone>>
        /\ ins' = [ins EXCEPT ![p] = {}] /\ del' = [del EXCEPT ![p] = {}]
        /\ held' = [held EXCEPT ![p] = {}]
    BY <1>6 DEF Retry
  <2>2. /\ held'[p] = {}
        /\ \A q \in Others(p) : ins'[q] = ins[q] /\ del'[q] = del[q] /\ held'[q] = held[q]
    BY <1>0, <1>3, <2>1 DEF RestOK
  <2>3. \A q \in Others(p) : todo'[q] = todo[q] BY <1>0, <1>6, RetryShape
  <2>. QED BY <1>0, <1>2, <1>3, <1>3a, <2>1, <2>2, <2>3, LocalStep
<1>. QED BY <1>4, <1>5, <1>6 DEF Run, Leads, Writes

LEMMA EndParts ==
  ASSUME TypeInv, NEW p \in Proc, CommitRequest(p) \/ Fail(p)
  PROVE  /\ request'[p] = "idle" /\ held'[p] = {} /\ gone'[p] = {}
         /\ \E to \in To, g \in Group : Good(p, to, g)' /\ Tells(p, to)'
         /\ \A q \in Others(p) : /\ todo'[q] = todo[q] /\ request'[q] = request[q] /\ ins'[q] = ins[q]
                                 /\ del'[q] = del[q] /\ cols'[q] = cols[q] /\ held'[q] = held[q]
                                 /\ gone'[q] = gone[q]
                                 /\ news'[q] = news[q] /\ late'[q] = late[q]
<1>1. RestOK /\ todo \in [Proc -> Seq(Statement)] BY TypeSplit DEF TypeInv
<1>2. /\ todo' = [todo EXCEPT ![p] = <<>>] /\ request' = [request EXCEPT ![p] = "idle"]
      /\ ins'  = [ins  EXCEPT ![p] = {}] /\ del' = [del EXCEPT ![p] = {}]
      /\ cols' = [cols EXCEPT ![p] = NoCols]
      /\ held' = [held EXCEPT ![p] = {}] /\ gone' = [gone EXCEPT ![p] = {}]
  BY DEF CommitRequest, Fail, Finish
<1>3. /\ request'[p] = "idle" /\ todo'[p] = <<>> /\ ins'[p] = {} /\ del'[p] = {} /\ gone'[p] = {}
      /\ held'[p] = {} /\ \A h \in Host : cols'[p][h] = None
  BY <1>1, <1>2 DEF RestOK, NoCols
<1>4. Good(p, NoCols, Ungrouped)'
  <2>1. ToSet(todo'[p]) = {} BY <1>3, EmptyParts
  <2>2. \A h \in Host : NoCols[h] = None BY DEF NoCols
  <2>3. Planned(p, NoCols, Ungrouped)' BY <2>1 DEF Planned
  <2>4. Written(p, NoCols, Ungrouped)' BY <1>3, <2>2 DEF Written, NoCols
  <2>5. ByKind(p, NoCols, Ungrouped)' BY <1>3 DEF ByKind, NoCols
  <2>6. Reaches(p, NoCols)' BY <2>2 DEF Reaches, NoCols
  <2>. QED BY <2>3, <2>4, <2>5, <2>6 DEF Good, NoCols
<1>5. \E to \in To, g \in Group : Good(p, to, g)' /\ Tells(p, to)'
  <2>1. Tells(p, NoCols)' BY <1>3 DEF Tells
  <2>. QED BY <1>4, <2>1, ToParts, GroupsAssumption DEF NoCols
<1>6. \A q \in Others(p) : news'[q] = news[q] /\ late'[q] = late[q]
  BY <1>1 DEF CommitRequest, Fail, RestOK, Others
<1>. QED BY <1>1, <1>2, <1>3, <1>5, <1>6 DEF RestOK, Others

(* A commit towards the ungrouped group, as those that may overlap are. *)
LEMMA CommitColumns ==
  ASSUME SyncInv, NEW p \in Proc, NEW to \in To, NEW g \in Group, Good(p, to, g), CommitRequest(p),
         request[p] \in {"remove", "delete", "rename"}
  PROVE  \A h \in Host : column'[h] \in {column[h], Ungrouped}
<1>1. request[p] # "idle" /\ todo[p] = <<>> BY DEF CommitRequest
<1>2. \A h \in Host : column'[h] = IF Row(h) THEN SeenColumn(p, h) ELSE column[h] BY CommitParts
<1>3. CASE request[p] = "rename" BY <1>1, <1>2, <1>3, DoneParts
<1>4. CASE request[p] \in {"remove", "delete"}
  <2>1. \A h \in Host : to[h] \in {None, Ungrouped} BY <1>4 DEF Good, ByKind
  <2>. QED BY <1>2, <2>1 DEF Good, Written, SeenColumn
<1>. QED BY <1>3, <1>4

(* What the committed request announces is what it has written, and what   *)
(* others announce stays so.                                               *)
LEMMA CommitLate ==
  ASSUME SyncInv, OnlyEmptying, NEW p \in Proc, CommitRequest(p)
  PROVE  LateInv'
<1>1. TypeInv BY DEF SyncInv
<1>2. PICK to \in To, g \in Group : Good(p, to, g) /\ Tells(p, to) BY DEF SyncInv
<1>3. /\ \A h \in Host : column'[h] = IF Row(h) THEN SeenColumn(p, h) ELSE column[h]
      /\ \A h \in Host : (Row(h)' <=> Row(h)) /\ (column'[h] = None <=> column[h] = None)
  BY <1>2, CommitParts
<1>4. /\ request[p] # "idle" /\ todo[p] = <<>> /\ request[p] \in Kinds
      /\ request'[p] = "idle" /\ late'[p] = request[p] /\ news' = news
      /\ \A q \in Others(p) : request'[q] = request[q] /\ late'[q] = late[q]
  <2>1. /\ request'[p] = "idle"
        /\ \A q \in Others(p) : request'[q] = request[q] /\ late'[q] = late[q]
    BY <1>1, EndParts
  <2>2. /\ request[p] # "idle" /\ todo[p] = <<>>
        /\ late' = [late EXCEPT ![p] = request[p]] /\ news' = news
    BY DEF CommitRequest
  <2>3. request \in [Proc -> Kinds \union {"idle"}] /\ late \in [Proc -> Kinds \union {"idle"}]
    BY <1>1, TypeSplit DEF TypeInv, RestOK
  <2>. QED BY <2>1, <2>2, <2>3
<1>5. Told(p)'
  <2>1. SUFFICES ASSUME request[p] \in Lasting, NEW h \in Host, news[p][h] # None
                 PROVE  /\ column'[h] # None
                        /\ Row(h)' => column'[h] = news[p][h]
                        /\ request[p] # "update" => news[p][h] = Ungrouped
    BY <1>4 DEF Told, Lasting
  <2>2. to[h] = news[p][h] BY <1>2, <1>4, <2>1 DEF Tells
  <2>3. request[p] # "rename" BY <2>1 DEF Lasting
  <2>4. column[h] # None /\ (Row(h) => SeenColumn(p, h) = to[h])
    <3>1. to[h] # None BY <2>1, <2>2
    <3>2. SyncInv /\ Good(p, to, g) /\ request[p] # "idle" /\ todo[p] = <<>> BY <1>2, <1>4
    <3>3. column[h] # None BY <3>1, <3>2, DoneParts
    <3>4. Row(h) => SeenColumn(p, h) = to[h] BY <2>3, <3>1, <3>2, DoneColumn
    <3>. QED BY <3>3, <3>4
  <2>5. request[p] # "update" => to[h] = Ungrouped
    BY <1>2, <2>1, <2>2 DEF Lasting, Good, ByKind
  <2>. QED BY <1>3, <2>2, <2>4, <2>5
<1>6. ASSUME NEW q \in Others(p), late[q] # "idle" PROVE request'[q] = "idle" /\ Told(q)'
  <2>1. q \in Proc /\ p \in Others(q) BY DEF Others
  <2>2. request[q] = "idle" /\ Told(q) /\ {late[q], request[p]} \in Overlapping
    BY <1>4, <1>6, <2>1 DEF SyncInv, LateInv
  <2>3. {late[q], request[p]} \in {{"remove"}, {"delete"}, {"rename"}, {"remove", "delete"},
                                    {"rename", "delete"}}
    BY <2>2 DEF OnlyEmptying
  <2>4. late[q] # "update" /\ request[p] \in {"remove", "delete", "rename"} BY <2>3
  <2>5. \A h \in Host : column'[h] \in {column[h], Ungrouped} BY <1>2, <2>4, CommitColumns
  <2>6. ASSUME late[q] \in Lasting, NEW h \in Host, news[q][h] # None
        PROVE  /\ column'[h] # None /\ news[q][h] = Ungrouped
               /\ Row(h)' => column'[h] = news[q][h]
    <3>1. column[h] # None /\ (Row(h) => column[h] = news[q][h]) /\ news[q][h] = Ungrouped
      <4>1. Told(q) /\ late[q] # "update" BY <2>2, <2>4
      <4>. QED BY <2>6, <4>1 DEF Told
    <3>. QED BY <1>3, <2>5, <3>1
  <2>7. Told(q)' BY <1>4, <2>6 DEF Told, Lasting
  <2>. QED BY <1>4, <2>2, <2>7
<1>7. ASSUME NEW q \in Proc
      PROVE  /\ late'[q] # "idle" => request'[q] = "idle" /\ Told(q)'
             /\ request'[q] = "idle" /\ late'[q] = "idle" => news'[q] = NoCols
  <2>1. CASE q = p BY <1>4, <1>5, <2>1
  <2>2. CASE q # p
    <3>1. q \in Others(p) BY <2>2 DEF Others
    <3>2. request[q] = "idle" /\ late[q] = "idle" => news[q] = NoCols BY DEF SyncInv, LateInv
    <3>. QED BY <1>4, <1>6, <3>1, <3>2
  <2>. QED BY <2>1, <2>2
<1>8. ASSUME NEW q \in Proc, NEW r \in Others(q), late'[q] # "idle", request'[r] # "idle"
      PROVE  {late'[q], request'[r]} \in Overlapping
  <2>1. r # p /\ r \in Others(p) /\ r # q BY <1>4, <1>8 DEF Others
  <2>2. CASE q = p BY <1>4, <1>8, <2>1, <2>2 DEF SyncInv, Apart, Others
  <2>3. CASE q # p
    <3>1. q \in Others(p) BY <2>3 DEF Others
    <3>. QED BY <1>4, <1>8, <2>1, <3>1 DEF SyncInv, LateInv
  <2>. QED BY <2>2, <2>3
<1>. QED BY <1>7, <1>8 DEF LateInv, Others

LEMMA CommitSync ==
  ASSUME SyncInv, OnlyEmptying, NEW p \in Proc, CommitRequest(p), TypeInv'
  PROVE  SyncInv'
<1>1. TypeInv BY DEF SyncInv
<1>2. PICK to \in To, g \in Group : Good(p, to, g) /\ Tells(p, to) BY DEF SyncInv
<1>3. /\ InSync' /\ Ungrouped \in groups'
      /\ \A a \in assoc' : Row(a[1])' /\ a[2] \in groups'
  BY <1>2, CommitParts
<1>4. /\ request'[p] = "idle" /\ held'[p] = {} /\ gone'[p] = {}
      /\ \E new \in To, f \in Group : Good(p, new, f)' /\ Tells(p, new)'
      /\ \A q \in Others(p) : /\ todo'[q] = todo[q] /\ request'[q] = request[q] /\ ins'[q] = ins[q]
                              /\ del'[q] = del[q] /\ cols'[q] = cols[q] /\ held'[q] = held[q]
                              /\ gone'[q] = gone[q]
                              /\ news'[q] = news[q] /\ late'[q] = late[q]
  BY <1>1, EndParts
<1>5. ASSUME NEW q \in Others(p)
      PROVE  \E new \in To, f \in Group : Good(q, new, f)' /\ Tells(q, new)'
  <2>1. q \in Proc BY DEF Others
  <2>2. PICK new \in To, f \in Group : Good(q, new, f) /\ Tells(q, new) BY <2>1 DEF SyncInv
  <2>3. CASE request[q] # "idle"
    <3>1. Good(q, new, f)' BY <1>2, <2>2, <2>3, CommitOthers
    <3>2. Tells(q, new)' BY <1>4, <2>2 DEF Tells
    <3>. QED BY <3>1, <3>2
  <2>4. CASE request[q] = "idle"
    <3>1. /\ todo[q] = <<>> /\ ins[q] = {} /\ del[q] = {} /\ gone[q] = {}
          /\ \A h \in Host : cols[q][h] = None
      BY <1>1, <2>1, <2>2, <2>4, IdleParts
    <3>2. /\ request'[q] = "idle" /\ todo'[q] = <<>> /\ ins'[q] = {} /\ del'[q] = {} /\ gone'[q] = {}
          /\ \A h \in Host : cols'[q][h] = None
      BY <1>4, <2>4, <3>1
    <3>3. ToSet(todo'[q]) = {} /\ \A h \in Host : NoCols[h] = None BY <3>2, EmptyParts DEF NoCols
    <3>4. Planned(q, NoCols, Ungrouped)' BY <3>3 DEF Planned
    <3>5. Written(q, NoCols, Ungrouped)' BY <3>2, <3>3 DEF Written, NoCols
    <3>6. ByKind(q, NoCols, Ungrouped)' BY <3>2 DEF ByKind, NoCols
    <3>7. Reaches(q, NoCols)' BY <3>3 DEF Reaches, NoCols
    <3>8. Good(q, NoCols, Ungrouped)' BY <3>4, <3>5, <3>6, <3>7 DEF Good, NoCols
    <3>9. Tells(q, NoCols)' BY <3>2 DEF Tells
    <3>. QED BY <3>8, <3>9, ToParts, GroupsAssumption DEF NoCols
  <2>. QED BY <2>3, <2>4
<1>6. \A q \in Proc : \E new \in To, f \in Group : Good(q, new, f)' /\ Tells(q, new)'
  BY <1>4, <1>5 DEF Others
<1>7. ASSUME NEW q \in Proc, NEW r \in Proc, q # r
      PROVE  /\ held'[q] \cap gone'[r] = {}
             /\ request'[q] # "idle" /\ request'[r] # "idle" => {request'[q], request'[r]} \in Overlapping
  <2>1. CASE q = p \/ r = p BY <1>4, <2>1
  <2>2. CASE q # p /\ r # p
    <3>1. q \in Others(p) /\ r \in Others(p) BY <2>2 DEF Others
    <3>. QED BY <1>4, <1>7, <3>1 DEF SyncInv, Apart
  <2>. QED BY <2>1, <2>2
<1>8. Apart' BY <1>3, <1>7 DEF Apart
<1>9. LateInv' BY CommitLate
<1>. QED BY <1>3, <1>6, <1>8, <1>9 DEF SyncInv

(* What the events write is in the tables already. *)
LEMMA EventsSync ==
  ASSUME SyncInv, TypeInv', NEW p \in Proc, CommitEvents(p) \/ EndEvents(p)
  PROVE  SyncInv'
<1>1. TypeInv BY DEF SyncInv
<1>2. /\ UNCHANGED <<groups, assoc, todo, request, ins, del, cols, held, gone>>
      /\ \A q \in Others(p) : news'[q] = news[q] /\ late'[q] = late[q]
      /\ late'[p] = "idle" /\ news'[p] = NoCols
  BY <1>1, EventsShape
<1>3. UNCHANGED tables
  <2>1. CASE CommitEvents(p)
    <3>1. PICK on \in SUBSET {h \in Host : news[p][h] # None /\ Row(h)} :
            column' = [h \in Host |-> IF h \in on THEN news[p][h] ELSE column[h]]
      BY <2>1 DEF CommitEvents
    <3>2. late[p] \in Lasting /\ Told(p) BY <2>1 DEF CommitEvents, Lasting, SyncInv, LateInv
    <3>3. \A h \in on : news[p][h] = column[h] BY <3>2 DEF Told
    <3>4. column \in [Host -> Group \union {None, Absent}] BY <1>1 DEF TypeInv, TypeOK
    <3>5. column' = [h \in Host |-> column[h]] BY <3>1, <3>3
    <3>. QED BY <1>2, <3>4, <3>5 DEF tables
  <2>2. CASE EndEvents(p) BY <2>2 DEF EndEvents
  <2>. QED BY <2>1, <2>2
<1>4. request[p] = "idle" /\ request'[p] = "idle"
  BY <1>2 DEF CommitEvents, EndEvents, Lasting, SyncInv, LateInv
<1>5. \E to \in To, g \in Group : Good(p, to, g)' /\ Tells(p, to)'
  <2>1. PICK to \in To, g \in Group : Good(p, to, g) BY DEF SyncInv
  <2>2. Good(p, to, g)' BY <1>2, <1>3, <2>1, GoodFrame
  <2>3. Tells(p, to)' BY <1>4 DEF Tells
  <2>. QED BY <2>2, <2>3
<1>6. \A q \in Others(p) : held'[p] \cap gone[q] = {} /\ gone'[p] \cap held[q] = {}
  <2>1. \A q \in Others(p) : q \in Proc /\ q # p BY DEF Others
  <2>. QED BY <1>2, <2>1 DEF SyncInv, Apart
<1>. QED BY <1>2, <1>3, <1>4, <1>5, <1>6, LocalStep

LEMMA SyncStep == OnlyEmptying /\ SyncInv /\ [Next]_vars => SyncInv'
<1> SUFFICES ASSUME OnlyEmptying, SyncInv, [Next]_vars PROVE SyncInv'
  OBVIOUS
<1>0. TypeInv /\ TypeInv' BY TypeStep DEF SyncInv
<1>1. ASSUME NEW p \in Proc, NEW kind \in Kinds, NEW g \in Group, NEW hs \in SUBSET Host,
             Begin(p, kind, g, hs)
      PROVE  SyncInv'
  <2>1. /\ UNCHANGED tables /\ UNCHANGED <<ins, del, cols, held, gone>>
        /\ request'[p] = kind /\ request[p] = "idle" /\ late[p] = "idle" /\ kind # "idle"
        /\ UNCHANGED <<news, late>>
    BY <1>0, <1>1, GroupsAssumption DEF Begin, writes, events, TypeInv, TypeOK
  <2>1a. ASSUME NEW q \in Others(p), NEW other \in {request[q], late[q]}, other # "idle"
         PROVE  {request'[p], other} \in Overlapping
    <3>1. other \in Kinds BY <1>0, <2>1a DEF Others, TypeInv, TypeOK
    <3>. QED BY <1>1, <2>1, <2>1a, <3>1 DEF Begin
  <2>2. \A q \in Others(p) : todo'[q] = todo[q] /\ request'[q] = request[q]
    BY <1>0, <1>1, BeginShape
  <2>3. \A q \in Others(p) : held[p] \cap gone[q] = {} /\ held[q] \cap gone[p] = {}
    BY DEF Others, SyncInv, Apart
  <2>4. \E to \in To, x \in Group : Good(p, to, x)' /\ Tells(p, to)'
    <3>1. PICK to \in To, x \in Group : Good(p, to, x)' BY <1>1, BeginGood
    <3>2. \A h \in Host : news'[p][h] = None BY <2>1 DEF SyncInv, LateInv, NoCols
    <3>3. Tells(p, to)' BY <3>2 DEF Tells
    <3>. QED BY <3>1, <3>3
  <2>. QED BY <1>0, <2>1, <2>1a, <2>2, <2>3, <2>4, LocalStep
<1>2. ASSUME NEW p \in Proc, Run(p) PROVE SyncInv' BY <1>2, RunSync
<1>3. ASSUME NEW p \in Proc, CommitRequest(p) PROVE SyncInv' BY <1>0, <1>3, CommitSync
<1>4. ASSUME NEW p \in Proc, Fail(p) PROVE SyncInv'
  <2>1. UNCHANGED tables /\ late'[p] = "idle" /\ news'[p] = NoCols
    BY <1>0, <1>4 DEF Fail, SyncInv, LateInv, TypeInv, TypeOK
  <2>2. /\ request'[p] = "idle" /\ held'[p] = {} /\ gone'[p] = {}
        /\ \E to \in To, g \in Group : Good(p, to, g)' /\ Tells(p, to)'
        /\ \A q \in Others(p) : /\ todo'[q] = todo[q] /\ request'[q] = request[q] /\ ins'[q] = ins[q]
                                /\ del'[q] = del[q] /\ cols'[q] = cols[q] /\ held'[q] = held[q]
                                /\ gone'[q] = gone[q]
                                /\ news'[q] = news[q] /\ late'[q] = late[q]
    BY <1>0, <1>4, EndParts
  <2>. QED BY <1>0, <2>1, <2>2, LocalStep
<1>5. ASSUME NEW c \in Host, CreateHost(c) \/ RemoveHost(c) PROVE SyncInv'
  <2>1. \A q \in Proc, to \in To, g \in Group : Good(q, to, g) => Good(q, to, g)'
    BY <1>5, CreateGood, RemoveGood
  <2>2. InSync' /\ Apart' /\ LateInv' /\ UNCHANGED <<news, request>> BY <1>5, HostsSync, HostsLate
  <2>3. \A q \in Proc : \E to \in To, g \in Group : Good(q, to, g)' /\ Tells(q, to)'
    <3>1. \A q \in Proc : \A to : Tells(q, to) => Tells(q, to)' BY <2>2 DEF Tells
    <3>. QED BY <2>1, <3>1 DEF SyncInv
  <2>. QED BY <1>0, <2>2, <2>3 DEF SyncInv
<1>6. CASE UNCHANGED vars
  <2>1. UNCHANGED tables /\ UNCHANGED <<todo, request, ins, del, cols, held, gone, news, late>>
    BY <1>6 DEF vars, writes, events
  <2>2. InSync' /\ groups' = groups /\ assoc' = assoc /\ column' = column /\ \A h : Row(h)' <=> Row(h)
    BY <2>1, TablesKept DEF SyncInv
  <2>3. Apart' BY <2>1, <2>2 DEF SyncInv, Apart
  <2>4. \A q \in Proc : \E to \in To, g \in Group : Good(q, to, g)' /\ Tells(q, to)'
    <3>1. \A q \in Proc, to \in To, g \in Group : Good(q, to, g) => Good(q, to, g)'
      BY <2>1, GoodFrame
    <3>2. \A q \in Proc : \A to : Tells(q, to) => Tells(q, to)' BY <2>1 DEF Tells
    <3>. QED BY <3>1, <3>2 DEF SyncInv
  <2>5. LateInv' BY <2>1, <2>2 DEF SyncInv, LateInv, Told, Row
  <2>. QED BY <1>0, <2>2, <2>3, <2>4, <2>5 DEF SyncInv
<1>7. ASSUME NEW p \in Proc, CommitEvents(p) \/ EndEvents(p) PROVE SyncInv' BY <1>0, <1>7, EventsSync
<1>. QED BY <1>1, <1>2, <1>3, <1>4, <1>5, <1>6, <1>7 DEF Next

(* Where removals, renamings and deletions overlap, and every other        *)
(* request runs by itself, the two records of membership agree whenever a  *)
(* transaction can see them (add_hosts_to_group, remove_hosts_from_group,  *)
(* patch_group, delete_group_list).                                        *)
THEOREM SyncCorrect ==
  ASSUME OnlyEmptying
  PROVE  Spec => []InSync
<1>1. SyncInv => InSync BY DEF SyncInv
<1>2. SyncInv /\ [Next]_vars => SyncInv' BY SyncStep
<1>. QED BY <1>1, <1>2, SyncInit, PTL DEF Spec

(* Then, too, whoever is in a group when its deletion commits is ungrouped *)
(* by it, hosts that came to it after its members were read included.      *)
THEOREM DeletionCorrect ==
  ASSUME OnlyEmptying
  PROVE  Spec => DeletedGroupUngroups
<1> DEFINE A == \A h \in Host, g \in Group :
                  <<h, g>> \in assoc /\ g \in groups \ groups' => <<h, Ungrouped>> \in assoc'
<1>1. SyncInv /\ [Next]_vars => [A]_vars
  <2> SUFFICES ASSUME SyncInv, [Next]_vars, NEW h \in Host, NEW g \in Group,
                      <<h, g>> \in assoc, g \in groups \ groups'
               PROVE  <<h, Ungrouped>> \in assoc'
    OBVIOUS
  <2>1. PICK p \in Proc : CommitRequest(p)
    <3>1. groups' # groups OBVIOUS
    <3>2. CASE UNCHANGED vars BY <3>1, <3>2 DEF vars, tables
    <3>3. ASSUME NEW p \in Proc, Run(p) PROVE UNCHANGED tables
      BY <3>3, LeadsShape, WritesShape, TryShape, ReleaseShape DEF Run, Leads, Writes, Retry, SyncInv
    <3>4. ASSUME NEW p \in Proc, NEW kind \in Kinds, NEW x \in Group, NEW hs \in SUBSET Host,
                 Begin(p, kind, x, hs)
          PROVE  UNCHANGED tables
      BY <3>4 DEF Begin
    <3>5. ASSUME NEW p \in Proc, Fail(p) PROVE UNCHANGED tables BY <3>5 DEF Fail
    <3>6. ASSUME NEW c \in Host, CreateHost(c) \/ RemoveHost(c) PROVE groups' = groups
      BY <3>6 DEF CreateHost, RemoveHost
    <3>7. UNCHANGED tables => groups' = groups BY DEF tables
    <3>8. ASSUME NEW p \in Proc, CommitEvents(p) \/ EndEvents(p) PROVE groups' = groups
      BY <3>8 DEF CommitEvents, EndEvents, tables
    <3>. QED BY <3>1, <3>2, <3>3, <3>4, <3>5, <3>6, <3>7, <3>8 DEF Next
  <2>2. PICK to \in To, f \in Group : Good(p, to, f) BY DEF SyncInv
  <2>3. /\ assoc' = Seen(p) /\ groups' = groups \ gone[p] /\ request[p] # "idle" /\ todo[p] = <<>>
    BY <2>1, <2>2, CommitParts DEF CommitRequest
  <2>4. g \in gone[p] BY <2>3
  <2>4a. /\ g = f /\ request[p] = "delete" /\ \A a \in assoc \ del[p] : a[2] # f
    BY <2>2, <2>3, <2>4 DEF Good, Written
  <2>5. <<h, g>>[1] = h /\ <<h, g>>[2] = g OBVIOUS
  <2>6. to[h] # None BY <2>2, <2>4a, <2>5 DEF Good, Written
  <2>7. to[h] = Ungrouped BY <2>2, <2>4a, <2>6 DEF Good, ByKind
  <2>8. Row(h) BY SyncParts DEF SyncInv
  <2>9. <<h, to[h]>> \in Seen(p) BY <2>2, <2>3, <2>4a, <2>6, <2>8, DoneParts
  <2>. QED BY <2>3, <2>7, <2>9
<1>2. SyncInv /\ [Next]_vars => SyncInv' BY SyncStep
<1>3. Spec => [][A]_vars BY <1>1, <1>2, SyncInit, PTL DEF Spec
<1>. QED BY <1>3 DEF DeletedGroupUngroups

-----------------------------------------------------------------------------
(* Waiting for a workspace: what is to be notified is pending, committed or*)
(* undone, and only what is committed or undone has been notified, to      *)
(* connections that listen.                                                *)
BatchInv ==
  /\ at \in {"poll", "down"} => fresh = {}
  /\ at # "handle" => added = {}
  /\ added \subseteq fresh
  /\ fresh \subseteq rows \union added \union undone
WaitInv == \A w \in Waiter : /\ pc[w] \in {"check", "wait"} => w \in hears
                             /\ inbox[w] \subseteq rows \union undone
ServedInv == WaitTypeOK /\ BatchInv /\ WaitInv /\ WakeupPending /\ AnsweredIsThere

LEMMA ServedInit == WaitInit => ServedInv
<1> SUFFICES ASSUME WaitInit PROVE ServedInv OBVIOUS
<1>1. WaitTypeOK
  <2>1. /\ topic \in Seq(Workspace \union {Change}) /\ batch \in Seq(Workspace \union {Change})
        /\ unread \in Seq(Workspace \union {Change})
        /\ position \in 0..Len(topic) /\ offset \in 0..position
    BY DEF WaitInit
  <2>2. 0 \in 0..MaxChanges /\ 1 \in 1..MaxRetries BY WaitAssumption
  <2>. QED BY <2>1, <2>2 DEF WaitInit, WaitTypeOK
<1>2. BatchInv /\ WaitInv BY DEF WaitInit, BatchInv, WaitInv
<1>. QED BY <1>1, <1>2 DEF ServedInv, WaitInit, WakeupPending, AnsweredIsThere

(* The type of what a waiter's step changes. *)
LEMMA WaiterTypes ==
  ASSUME ServedInv, NEW w \in Waiter, Waits(w) \/ TimeOut(w)
  PROVE  WaitTypeOK' /\ UNCHANGED <<changes, rows, consumer, history>>
<1> USE WaitAssumption
<1>0. WaitTypeOK /\ Len(topic) \in Nat /\ Wants[w] \in Workspace BY DEF ServedInv, WaitTypeOK
<1>1. UNCHANGED <<changes, rows, consumer, history>>
  BY DEF Waits, CreateWorkspace, Listen, CheckGroup, Poll, TimeOut, topicVars
<1>2. topic' \in Seq(Workspace \union {Change}) /\ Len(topic') \in Nat /\ Len(topic') >= Len(topic)
  <2>1. topic' = topic \/ topic' = Append(topic, Wants[w])
    BY DEF Waits, CreateWorkspace, Listen, CheckGroup, Poll, TimeOut, topicVars
  <2>2. topic \in Seq(Workspace \union {Change}) /\ Wants[w] \in Workspace \union {Change}
    BY <1>0 DEF WaitTypeOK
  <2>3. PICK t, x : t = topic /\ x = Wants[w] OBVIOUS
  <2>4. /\ Append(t, x) \in Seq(Workspace \union {Change})
        /\ Len(t) \in Nat /\ Len(Append(t, x)) = Len(t) + 1
    BY <2>2, <2>3
  <2>5. CASE topic' = topic BY <1>0, <2>2, <2>5
  <2>6. CASE topic' = Append(topic, Wants[w]) BY <2>3, <2>4, <2>6
  <2>. QED BY <2>1, <2>5, <2>6
<1>3. /\ pc' \in [Waiter -> {"start", "listen", "check", "wait", "done", "late"}]
      /\ inbox' \in [Waiter -> SUBSET Workspace] /\ hears' \subseteq Waiter
  BY <1>0 DEF WaitTypeOK, Waits, CreateWorkspace, Listen, CheckGroup, Poll, TimeOut, Goes, Hangs
<1>4. position' \in 0..Len(topic') BY <1>0, <1>1, <1>2 DEF WaitTypeOK, consumer
<1>. QED BY <1>0, <1>1, <1>2, <1>3, <1>4 DEF WaitTypeOK, consumer, history

LEMMA WaiterKeeps ==
  ASSUME ServedInv, NEW w \in Waiter, Waits(w) \/ TimeOut(w)
  PROVE  ServedInv'
<1>0. WaitTypeOK BY DEF ServedInv
<1>1. WaitTypeOK' /\ UNCHANGED <<rows, at, added, fresh, cut, undone>>
  BY WaiterTypes DEF consumer, history
<1>2. BatchInv' BY <1>1 DEF ServedInv, BatchInv
<1>3. /\ \A v \in Waiter \ {w} : pc'[v] = pc[v] /\ inbox'[v] = inbox[v] /\ (v \in hears' <=> v \in hears)
      /\ inbox'[w] \in {inbox[w], {}}
      /\ pc'[w] \in {"check", "wait"} => w \in hears'
  <2>0. pc \in [Waiter -> {"start", "listen", "check", "wait", "done", "late"}]
        /\ inbox \in [Waiter -> SUBSET Workspace]
    BY <1>0 DEF WaitTypeOK
  <2>1. CASE CreateWorkspace(w) BY <2>0, <2>1 DEF CreateWorkspace, Goes
  <2>2. CASE Listen(w) BY <2>0, <2>2 DEF Listen, Goes
  <2>3. CASE CheckGroup(w)
    <3>1. pc[w] = "check" BY <2>3 DEF CheckGroup
    <3>2. \/ /\ pc' = [pc EXCEPT ![w] = "done"] /\ hears' = hears \ {w}
             /\ inbox' = [inbox EXCEPT ![w] = {}]
          \/ pc' = [pc EXCEPT ![w] = "wait"] /\ hears' = hears /\ inbox' = inbox
      BY <2>3 DEF CheckGroup, Goes, Hangs
    <3>. QED BY <2>0, <3>1, <3>2 DEF ServedInv, WaitInv
  <2>4. CASE Poll(w) BY <2>0, <2>4 DEF ServedInv, WaitInv, Poll, Goes, Hangs
  <2>5. CASE TimeOut(w) BY <2>0, <2>5 DEF TimeOut, Goes, Hangs
  <2>. QED BY <2>1, <2>2, <2>3, <2>4, <2>5 DEF Waits
<1>4. WaitInv' BY <1>1, <1>3 DEF ServedInv, WaitInv
<1>5. ASSUME pc'[w] = "wait", Wants[w] \in rows
      PROVE  pc[w] = "wait" /\ (inbox'[w] = inbox[w] \/ Wants[w] \notin inbox[w])
  BY <1>0, <1>5 DEF WaitTypeOK, Waits, CreateWorkspace, Listen, CheckGroup, Poll, TimeOut, Goes, Hangs
<1>6. WakeupPending' BY <1>1, <1>3, <1>5 DEF ServedInv, WakeupPending
<1>7. pc'[w] = "done" => Wants[w] \in rows \union undone
  BY <1>0 DEF ServedInv, WaitInv, AnsweredIsThere, WaitTypeOK,
              Waits, CreateWorkspace, Listen, CheckGroup, Poll, TimeOut, Goes, Hangs
<1>8. AnsweredIsThere' BY <1>1, <1>3, <1>7 DEF ServedInv, AnsweredIsThere
<1>. QED BY <1>1, <1>2, <1>4, <1>6, <1>8 DEF ServedInv

(* The steps that read the topic and those that handle a message. *)
LEMMA ReaderKeeps ==
  ASSUME ServedInv, ChangeWorkspace \/ ConsumeBatch \/ HandleCreate \/ HandleChange
  PROVE  ServedInv'
<1> USE WaitAssumption
<1>0. /\ topic \in Seq(Workspace \union {Change}) /\ Len(topic) \in Nat
      /\ position \in 0..Len(topic) /\ offset \in 0..position
      /\ unread \in Seq(Workspace \union {Change})
      /\ rows \subseteq Workspace /\ added \subseteq Workspace /\ fresh \subseteq Workspace
      /\ undone \subseteq Workspace
  BY DEF ServedInv, WaitTypeOK
<1>1. CASE ChangeWorkspace
  <2>1. /\ changes < MaxChanges /\ changes' = changes + 1 /\ topic' = Append(topic, Change)
        /\ UNCHANGED <<rows, position, offset, at, batch, unread, attempt, added, fresh>>
        /\ UNCHANGED <<pc, inbox, hears, cut, undone, givenUp>>
    BY <1>1 DEF ChangeWorkspace, consumer, waiting, history
  <2>2. topic' \in Seq(Workspace \union {Change}) /\ Len(topic') = Len(topic) + 1 BY <1>0, <2>1
  <2>3. position' \in 0..Len(topic') BY <1>0, <2>1, <2>2
  <2>4. WaitTypeOK' BY <2>1, <2>2, <2>3 DEF ServedInv, WaitTypeOK
  <2>. QED BY <2>1, <2>4 DEF ServedInv, BatchInv, WaitInv, WakeupPending, AnsweredIsThere
<1>2. CASE ConsumeBatch
  <2>1. PICK n \in 1..BatchMax : /\ position + n <= Len(topic)
                                 /\ batch' = SubSeq(topic, position + 1, position + n)
                                 /\ position' = position + n
    BY <1>2 DEF ConsumeBatch
  <2>2. batch' \in Seq(Workspace \union {Change}) BY <1>0, <2>1, SubSeqProperties
  <2>3. /\ UNCHANGED <<topic, changes, rows, offset, attempt, added, fresh>>
        /\ UNCHANGED <<pc, inbox, hears, cut, undone, givenUp>>
        /\ at = "poll" /\ at' = "handle" /\ unread' = batch'
    BY <1>2 DEF ConsumeBatch, topicVars, waiting, history
  <2>4. position' \in 0..Len(topic') /\ offset' \in 0..position' BY <1>0, <2>1, <2>3
  <2>5. WaitTypeOK' BY <2>2, <2>3, <2>4 DEF ServedInv, WaitTypeOK
  <2>. QED BY <2>3, <2>5 DEF ServedInv, BatchInv, WaitInv, WakeupPending, AnsweredIsThere
<1>3. ASSUME HandleCreate \/ HandleChange
      PROVE  /\ UNCHANGED <<topic, changes, position, offset, at, batch, attempt>>
             /\ UNCHANGED <<pc, inbox, hears, cut, givenUp>>
             /\ at = "handle" /\ unread' \in Seq(Workspace \union {Change})
  <2>1. unread # <<>> /\ unread' = Tail(unread) BY <1>3 DEF HandleCreate, HandleChange
  <2>2. unread' \in Seq(Workspace \union {Change}) BY <1>0, <2>1
  <2>. QED BY <1>3, <2>2 DEF HandleCreate, HandleChange, topicVars, waiting, history
<1>4. CASE HandleCreate
  <2>1. PICK new \in SUBSET Workspace : added' = added \union new /\ fresh' = fresh \union new
    BY <1>4 DEF HandleCreate
  <2>2. UNCHANGED <<rows, undone>> BY <1>4 DEF HandleCreate, history
  <2>3. WaitTypeOK' BY <1>0, <1>3, <1>4, <2>1, <2>2 DEF ServedInv, WaitTypeOK
  <2>4. BatchInv' BY <1>3, <1>4, <2>1, <2>2 DEF ServedInv, BatchInv
  <2>. QED BY <1>3, <1>4, <2>1, <2>2, <2>3, <2>4 DEF ServedInv, WaitInv, WakeupPending, AnsweredIsThere
<1>5. CASE HandleChange
  <2>1. /\ fresh' = fresh
        /\ \/ rows' = rows \union added /\ added' = {} /\ undone' = undone
           \/ undone' = undone \union added /\ added' = {} /\ rows' = rows
           \/ UNCHANGED <<rows, added, undone>>
    BY <1>5 DEF HandleChange
  <2>2. rows' \subseteq Workspace /\ added' \subseteq Workspace /\ undone' \subseteq Workspace
    BY <1>0, <2>1
  <2>3. WaitTypeOK' BY <1>3, <1>5, <2>1, <2>2 DEF ServedInv, WaitTypeOK
  <2>4. BatchInv' BY <1>3, <1>5, <2>1 DEF ServedInv, BatchInv
  <2>5. rows \union undone \subseteq rows' \union undone' /\ rows' \subseteq rows \union fresh
    BY <2>1 DEF ServedInv, BatchInv
  <2>6. WaitInv' BY <1>3, <1>5, <2>5 DEF ServedInv, WaitInv
  <2>7. WakeupPending' BY <1>3, <1>5, <2>1, <2>5 DEF ServedInv, WakeupPending
  <2>. QED BY <1>3, <1>5, <2>3, <2>4, <2>5, <2>6, <2>7 DEF ServedInv, AnsweredIsThere
<1>. QED BY <1>1, <1>2, <1>4, <1>5

(* The consumer keeps what the waiters rely on: it commits before it       *)
(* notifies, and what a batch that breaks off has committed is recorded.   *)
LEMMA CommitterKeeps ==
  ASSUME ServedInv, CommitBatch \/ Notify \/ Acknowledge
  PROVE  ServedInv'
<1> USE WaitAssumption
<1>0. /\ Len(topic) \in Nat /\ position \in 0..Len(topic) /\ offset \in 0..position
      /\ rows \subseteq Workspace /\ added \subseteq Workspace /\ fresh \subseteq Workspace
      /\ undone \subseteq Workspace /\ inbox \in [Waiter -> SUBSET Workspace]
  BY DEF ServedInv, WaitTypeOK
<1>1. UNCHANGED <<topic, changes, position, unread, pc, hears, cut, undone, givenUp>>
  BY DEF CommitBatch, Notify, Acknowledge, topicVars, waiting, history
<1>2. CASE CommitBatch
  <2>1. /\ UNCHANGED <<offset, fresh, inbox>> /\ batch' = <<>> /\ attempt' = 1
        /\ at = "handle" /\ at' = "notify" /\ rows' = rows \union added /\ added' = {}
    BY <1>2 DEF CommitBatch, waiting
  <2>2. batch' \in Seq(Workspace \union {Change}) /\ attempt' \in 1..MaxRetries BY <2>1
  <2>3. WaitTypeOK' BY <1>0, <1>1, <2>1, <2>2 DEF ServedInv, WaitTypeOK
  <2>4. BatchInv' BY <1>1, <2>1 DEF ServedInv, BatchInv
  <2>5. rows' \subseteq rows \union fresh BY <2>1 DEF ServedInv, BatchInv
  <2>. QED BY <1>1, <2>1, <2>3, <2>4, <2>5 DEF ServedInv, WaitInv, WakeupPending, AnsweredIsThere
<1>3. CASE Notify
  <2>1. PICK k \in fresh :
          /\ inbox' = [w \in Waiter |-> IF w \in hears THEN inbox[w] \union {k} ELSE inbox[w]]
          /\ fresh' = fresh \ {k}
    BY <1>3 DEF Notify
  <2>2. UNCHANGED <<offset, rows, at, batch, attempt, added>> /\ at = "notify"
    BY <1>3 DEF Notify
  <2>3. k \in rows \union undone /\ k \in Workspace BY <1>0, <2>1, <2>2 DEF ServedInv, BatchInv
  <2>4. WaitTypeOK' BY <1>0, <1>1, <2>1, <2>2, <2>3 DEF ServedInv, WaitTypeOK
  <2>5. BatchInv' BY <1>1, <2>1, <2>2 DEF ServedInv, BatchInv
  <2>6. WaitInv' BY <1>0, <1>1, <2>1, <2>2, <2>3 DEF ServedInv, WaitInv
  <2>7. WakeupPending' BY <1>0, <1>1, <2>1, <2>2 DEF ServedInv, WaitInv, WakeupPending
  <2>. QED BY <1>1, <2>2, <2>4, <2>5, <2>6, <2>7 DEF ServedInv, AnsweredIsThere
<1>4. CASE Acknowledge
  <2>1. /\ UNCHANGED <<rows, batch, attempt, added, fresh, inbox>> /\ at = "notify" /\ fresh = {}
        /\ offset' \in {offset, position} /\ at' = "poll"
    BY <1>4 DEF Acknowledge, waiting
  <2>2. offset' \in 0..position' BY <1>0, <1>1, <2>1
  <2>3. WaitTypeOK' BY <1>0, <1>1, <2>1, <2>2 DEF ServedInv, WaitTypeOK
  <2>. QED BY <1>1, <2>1, <2>3 DEF ServedInv, BatchInv, WaitInv, WakeupPending, AnsweredIsThere
<1>. QED BY <1>2, <1>3, <1>4

LEMMA FailureKeeps ==
  ASSUME ServedInv, BatchFails \/ Die \/ Restart
  PROVE  ServedInv'
<1> USE WaitAssumption
<1>0. /\ Len(topic) \in Nat /\ position \in 0..Len(topic) /\ offset \in 0..position
      /\ batch \in Seq(Workspace \union {Change}) /\ unread \in Seq(Workspace \union {Change})
      /\ attempt \in 1..MaxRetries
      /\ rows \subseteq Workspace /\ fresh \subseteq Workspace
      /\ cut \subseteq Workspace /\ givenUp \subseteq Workspace
  BY DEF ServedInv, WaitTypeOK
<1>1. UNCHANGED <<topic, changes, rows, offset, pc, inbox, hears, undone>>
  BY DEF BatchFails, Die, Restart, topicVars, waiting, history
<1>2. ASSUME BatchFails \/ Die
      PROVE  /\ position' = position /\ batch' \in Seq(Workspace \union {Change})
             /\ unread' \in Seq(Workspace \union {Change})
             /\ attempt' \in 1..MaxRetries /\ givenUp' \subseteq Workspace
             /\ at' \in {"poll", "handle", "down"}
             /\ added' = {} /\ fresh' = {} /\ cut' = cut \union (fresh \intersect rows)
  <2>1. added' = {} /\ fresh' = {} /\ cut' = cut \union (fresh \intersect rows)
    BY <1>2 DEF BatchFails, Die, BreakOff
  <2>2. CASE BatchFails /\ attempt < MaxRetries
    <3>1. /\ UNCHANGED <<position, at, batch, givenUp>> /\ attempt' = attempt + 1
          /\ unread' = batch /\ at = "handle"
      BY <2>2 DEF BatchFails
    <3>2. attempt' \in 1..MaxRetries BY <1>0, <2>2, <3>1
    <3>. QED BY <1>0, <2>1, <3>1, <3>2
  <2>3. CASE BatchFails /\ ~(attempt < MaxRetries)
    <3>1. /\ position' = position /\ at' = "poll" /\ batch' = <<>> /\ unread' = <<>> /\ attempt' = 1
          /\ givenUp' = givenUp \union (ToSet(batch) \intersect Workspace)
      BY <2>3 DEF BatchFails
    <3>2. batch' \in Seq(Workspace \union {Change}) /\ unread' \in Seq(Workspace \union {Change})
      BY <3>1
    <3>. QED BY <1>0, <2>1, <3>1, <3>2
  <2>4. CASE Die
    <3>1. /\ UNCHANGED <<position, givenUp>> /\ at' = "down" /\ batch' = <<>> /\ unread' = <<>>
          /\ attempt' = 1
      BY <2>4 DEF Die
    <3>2. batch' \in Seq(Workspace \union {Change}) /\ unread' \in Seq(Workspace \union {Change})
      BY <3>1
    <3>. QED BY <1>0, <2>1, <3>1, <3>2
  <2>. QED BY <1>2, <2>2, <2>3, <2>4
<1>3. CASE BatchFails \/ Die
  <2>1. WaitTypeOK' BY <1>0, <1>1, <1>2, <1>3 DEF ServedInv, WaitTypeOK
  <2>2. BatchInv' BY <1>2, <1>3 DEF BatchInv
  <2>3. WakeupPending' BY <1>1, <1>2, <1>3 DEF ServedInv, WakeupPending
  <2>. QED BY <1>1, <2>1, <2>2, <2>3 DEF ServedInv, WaitInv, AnsweredIsThere
<1>4. CASE Restart
  <2>1. /\ UNCHANGED <<batch, unread, attempt, added, fresh, cut, givenUp>>
        /\ at = "down" /\ at' = "poll" /\ position' = offset
    BY <1>4 DEF Restart, history
  <2>2. position' \in 0..Len(topic') /\ offset' \in 0..position' BY <1>0, <1>1, <2>1
  <2>3. WaitTypeOK' BY <1>1, <2>1, <2>2 DEF ServedInv, WaitTypeOK
  <2>. QED BY <1>1, <2>1, <2>3 DEF ServedInv, BatchInv, WaitInv, WakeupPending, AnsweredIsThere
<1>. QED BY <1>3, <1>4

LEMMA ServedNext == ServedInv /\ [WaitNext]_waitVars => ServedInv'
<1> SUFFICES ASSUME ServedInv, [WaitNext]_waitVars PROVE ServedInv' OBVIOUS
<1>1. CASE UNCHANGED waitVars
  BY <1>1 DEF waitVars, topicVars, consumer, waiting, history, ServedInv, WaitTypeOK, BatchInv, WaitInv,
              WakeupPending, AnsweredIsThere
<1>. QED BY <1>1, WaiterKeeps, ReaderKeeps, CommitterKeeps, FailureKeeps DEF WaitNext, Consumes

LEMMA ServedAlways == WaitSpec => []ServedInv
BY ServedInit, ServedNext, PTL DEF WaitSpec

(* Type correctness: the offset never passes the end of the topic. *)
THEOREM WaitTypeCorrect == WaitSpec => []WaitTypeOK
<1>1. ServedInv => WaitTypeOK BY DEF ServedInv
<1>. QED BY <1>1, ServedAlways, PTL

(* No lost wake-up, for any number of waiters that share workspaces (the   *)
(* LISTEN of wait_for_workspace_event goes before its look-up, the commit  *)
(* of the consumer before its NOTIFY), except of a group that was committed*)
(* when its batch broke off.                                               *)
THEOREM WakeupCorrect == WaitSpec => []WakeupPending
<1>1. ServedInv => WakeupPending BY DEF ServedInv
<1>. QED BY <1>1, ServedAlways, PTL

(* Who is answered finds the group in the database (post_process_rows      *)
(* notifies after the commit), except one that an update or a deletion of  *)
(* the same batch has rolled back.                                         *)
THEOREM AnsweredCorrect == WaitSpec => []AnsweredIsThere
<1>1. ServedInv => AnsweredIsThere BY DEF ServedInv
<1>. QED BY <1>1, ServedAlways, PTL
=============================================================================
