--------------------------- MODULE DedupJob_proofs ---------------------------
(***************************************************************************)
(* Invariants of HostIngest with the job of DedupJob beside it, and what   *)
(* the search of find_existing_host finds.                                 *)
(***************************************************************************)
EXTENDS DedupJob, WellFoundedInduction, TLAPS

(* Every non-empty set of naturals has a least element. *)
LEMMA LeastExists ==
  ASSUME NEW T, T \subseteq Nat, T # {}
  PROVE  \E x \in T : \A y \in T : x <= y
<1> DEFINE R == OpToRel(<, Nat)
<1>1. \E x \in T : \A y \in T : ~ (<<y, x>> \in R)
  <2>1. IsWellFoundedOn(R, Nat) BY NatLessThanWellFounded
  <2>. HIDE DEF R
  <2>. QED BY <2>1, WFMin
<1>2. \A x, y \in Nat : y < x => <<y, x>> \in R
  BY DEF OpToRel
<1>. HIDE DEF R
<1>3. PICK x \in T : \A y \in T : ~ (<<y, x>> \in R) BY <1>1
<1>4. ASSUME NEW y \in T PROVE x <= y
  <2>1. x \in Nat /\ y \in Nat OBVIOUS
  <2>2. ~(y < x) BY <1>2, <1>3, <2>1
  <2>. QED BY <2>1, <2>2
<1>. QED BY <1>4

LEMMA MinLeast ==
  ASSUME NEW T, T \subseteq Nat, T # {}
  PROVE  Min(T) \in T /\ \A y \in T : Min(T) <= y
BY LeastExists DEF Min

(* Of what is not older than the clock something is newest. *)
LEMMA NewestExists ==
  ASSUME NEW S, S # {}, NEW at \in [S -> Nat], NEW n \in Nat, \A x \in S : at[x] <= n
  PROVE  \E x \in S : \A y \in S : at[y] <= at[x]
<1> DEFINE T == {n - at[x] : x \in S}
<1>1. T \subseteq Nat /\ T # {} OBVIOUS
<1>2. PICK t \in T : \A u \in T : t <= u
  <2>. HIDE DEF T
  <2>. QED BY <1>1, LeastExists
<1>3. PICK x \in S : t = n - at[x] OBVIOUS
<1>4. ASSUME NEW y \in S PROVE at[y] <= at[x]
  <2>1. n - at[x] <= n - at[y] BY <1>2, <1>3
  <2>2. at[x] \in Nat /\ at[y] \in Nat OBVIOUS
  <2>. QED BY <2>1, <2>2
<1>. QED BY <1>4

-----------------------------------------------------------------------------
(* TypeOK is not inductive alone: that the search yields a host with a row *)
(* needs that the hosts of a batch were written in it and have objects,    *)
(* and that a newest of any candidates exists, for which no row is from    *)
(* the future.                                                             *)
RowsInv ==
  /\ \A h \in Host : db[h] # None => db[h].at <= clock
  /\ \A c \in Consumer, h \in Host : txn[c][h] # None => txn[c][h].at <= clock

BatchInv == \A c \in Consumer : \A i \in DOMAIN batch[c] : txn[c][batch[c][i]] # None

(* A session has objects for what it has written or is going to write, and *)
(* what two have at once is remembered.                                    *)
HandInv ==
  /\ \A c \in Consumer, h \in Host : txn[c][h] # None => objects[c][h] # None
  /\ \A c \in Consumer, h \in Host :
       objects[c][h] # None => txn[c][h] # None \/ (todo[c] # None /\ todo[c].host = h)
  /\ \A c \in Consumer : todo[c] # None => objects[c][todo[c].host] # None
  /\ \A c, d \in Consumer : c # d => InHand(objects[c]) \cap InHand(objects[d]) \subseteq met

TypeInv == JobTypeOK /\ RowsInv /\ BatchInv /\ HandInv

LEMMA Facts3 ==
  /\ Fact = {"provider", "subman", "insights"}
  /\ DOMAIN IdFacts \subseteq 1..3 /\ \A i \in DOMAIN IdFacts : IdFacts[i] \in Fact
  /\ DOMAIN IdFacts \subseteq Nat
  /\ None \notin Host /\ None \notin Facts /\ None \notin Row /\ None \notin Todo
BY IngestAssumption DEF Fact

LEMMA VisibleRow ==
  ASSUME TypeInv, NEW c \in Consumer, NEW h \in Host, Visible(c, h) # None
  PROVE  /\ Visible(c, h) \in Row /\ Visible(c, h).facts \in Facts
         /\ Visible(c, h).at \in Nat /\ Visible(c, h).at <= clock
BY DEF TypeInv, JobTypeOK, TypeOK, RowsInv, Visible, Row

(* A host of the batch that is found was written in it and matches by a key. *)
LEMMA FoundInMemory ==
  ASSUME TypeInv, NEW c \in Consumer, NEW r \in Report, FindInMemory(c, r) # None
  PROVE  LET h == FindInMemory(c, r) IN
           /\ h \in Host /\ txn[c][h] # None /\ objects[c][h] # None
           /\ \E i \in Keys(r) : Matches(objects[c][h], r, IdFacts[i])
<1> DEFINE hits(f) == {i \in DOMAIN batch[c] : MatchesInMemory(c, batch[c][i], r, f)}
           found == [f \in Fact |-> IF hits(f) = {} THEN None ELSE batch[c][Min(hits(f))]]
           keys == {i \in Keys(r) : found[IdFacts[i]] # None}
<1>1. FindInMemory(c, r) = IF keys = {} THEN None ELSE found[IdFacts[Min(keys)]]
  BY DEF FindInMemory, FirstFound
<1>2. keys \subseteq Keys(r) /\ keys \subseteq Nat /\ Keys(r) \subseteq DOMAIN IdFacts
  BY Facts3 DEF Keys
<1>. DEFINE i == Min(keys)
<1>3. keys # {} BY <1>1
<1>4. i \in keys
  <2>. HIDE DEF keys
  <2>. QED BY <1>2, <1>3, MinLeast
<1>. DEFINE f == IdFacts[i]
<1>5. f \in Fact /\ i \in Keys(r) /\ found[f] # None BY <1>2, <1>4, Facts3
<1>6. FindInMemory(c, r) = found[f] BY <1>1, <1>3
<1>7. hits(f) # {} /\ found[f] = batch[c][Min(hits(f))]
  <2>. HIDE DEF f, hits
  <2>. QED BY <1>5
<1>8. batch[c] \in Seq(Host) BY DEF TypeInv, JobTypeOK, TypeOK
<1>9. Min(hits(f)) \in hits(f)
  <2>1. hits(f) \subseteq Nat BY <1>8
  <2>. HIDE DEF hits, f
  <2>. QED BY <1>7, <2>1, MinLeast
<1>10. Min(hits(f)) \in DOMAIN batch[c] /\ MatchesInMemory(c, batch[c][Min(hits(f))], r, f)
  BY <1>9
<1>. HIDE DEF hits, f, i
<1>11. FindInMemory(c, r) = batch[c][Min(hits(f))] BY <1>6, <1>7
<1>12. batch[c][Min(hits(f))] \in Host BY <1>8, <1>10
<1>13. txn[c][batch[c][Min(hits(f))]] # None BY <1>10 DEF TypeInv, BatchInv
<1>14. objects[c][batch[c][Min(hits(f))]] # None BY <1>12, <1>13 DEF TypeInv, HandInv
<1>. QED BY <1>5, <1>10, <1>11, <1>12, <1>13, <1>14 DEF MatchesInMemory, f

(* A host found in the database is a newest candidate by the strongest key *)
(* that has any; and if none is found, no key has any.                     *)
LEMMA FoundInDb ==
  ASSUME TypeInv, NEW c \in Consumer, NEW r \in Report
  PROVE  LET h == FindInDb(c, r) IN
           \/ /\ h = None
              /\ \A i \in Keys(r) : Candidates(c, r, IdFacts[i]) = {}
           \/ \E i \in Keys(r) :
                /\ h \in Host /\ h \in Candidates(c, r, IdFacts[i])
                /\ \A g \in Candidates(c, r, IdFacts[i]) : Visible(c, g).at <= Visible(c, h).at
                /\ \A j \in Keys(r) : Candidates(c, r, IdFacts[j]) # {} => i <= j
<1> DEFINE hits(f) == Candidates(c, r, f)
           newest(f) == CHOOSE h \in hits(f) : \A g \in hits(f) : Visible(c, g).at <= Visible(c, h).at
           found == [f \in Fact |-> IF hits(f) = {} THEN None ELSE newest(f)]
           keys == {i \in Keys(r) : found[IdFacts[i]] # None}
<1>1. FindInDb(c, r) = IF keys = {} THEN None ELSE found[IdFacts[Min(keys)]]
  BY DEF FindInDb, FirstFound
<1>2. keys \subseteq Keys(r) /\ keys \subseteq Nat /\ \A i \in Keys(r) : IdFacts[i] \in Fact
  BY Facts3 DEF Keys
<1>3. ASSUME NEW f \in Fact, hits(f) # {}
      PROVE  /\ newest(f) \in hits(f) /\ newest(f) \in Host
             /\ \A g \in hits(f) : Visible(c, g).at <= Visible(c, newest(f)).at
  <2>1. hits(f) \subseteq Host /\ \A g \in hits(f) : Visible(c, g).at \in Nat /\ Visible(c, g).at <= clock
    BY VisibleRow DEF Candidates
  <2>2. clock \in Nat BY DEF TypeInv, JobTypeOK, TypeOK
  <2>. HIDE DEF hits
  <2>3. \E h \in hits(f) : \A g \in hits(f) : Visible(c, g).at <= Visible(c, h).at
    <3> DEFINE at == [g \in hits(f) |-> Visible(c, g).at]
    <3>1. at \in [hits(f) -> Nat] /\ \A g \in hits(f) : at[g] <= clock BY <2>1
    <3>2. \E h \in hits(f) : \A g \in hits(f) : at[g] <= at[h]
      <4>. HIDE DEF at
      <4>. QED BY <1>3, <2>2, <3>1, NewestExists
    <3>. QED BY <3>2
  <2>. QED BY <2>1, <2>3
<1>4. \A f \in Fact : found[f] # None <=> hits(f) # {}
  <2>. HIDE DEF hits, newest
  <2>. QED BY <1>3, Facts3
<1>. HIDE DEF hits, newest
<1>5. CASE keys = {}
  BY <1>1, <1>2, <1>4, <1>5 DEF hits
<1>6. CASE keys # {}
  <2> DEFINE i == Min(keys)
  <2>1. i \in keys /\ \A j \in keys : i <= j
    <3>. HIDE DEF keys
    <3>. QED BY <1>2, <1>6, MinLeast
  <2>2. i \in Keys(r) /\ IdFacts[i] \in Fact /\ hits(IdFacts[i]) # {}
    BY <1>2, <1>4, <2>1
  <2>3. FindInDb(c, r) = newest(IdFacts[i]) BY <1>1, <1>6, <2>2
  <2>4. \A j \in Keys(r) : hits(IdFacts[j]) # {} => i <= j BY <1>2, <1>4, <2>1
  <2>. HIDE DEF i, found, keys
  <2>. QED BY <1>3, <2>2, <2>3, <2>4 DEF hits
<1>. QED BY <1>5, <1>6

LEMMA Found ==
  ASSUME TypeInv, NEW c \in Consumer, NEW r \in Report, FindExisting(c, r) # None
  PROVE  LET h == FindExisting(c, r) IN
           /\ h \in Host /\ Visible(c, h) # None
           /\ \E i \in Keys(r) : \/ Matches(Object(c, h), r, IdFacts[i])
                                 \/ Matches(Visible(c, h).facts, r, IdFacts[i])
<1>1. CASE FindInMemory(c, r) # None
  <2>1. FindExisting(c, r) = FindInMemory(c, r) BY <1>1 DEF FindExisting
  <2>. QED BY <1>1, <2>1, FoundInMemory DEF Visible, Object
<1>2. CASE FindInMemory(c, r) = None
  <2>1. FindExisting(c, r) = FindInDb(c, r) BY <1>2 DEF FindExisting
  <2>. QED BY <2>1, FoundInDb DEF Candidates
<1>. QED BY <1>1, <1>2

LEMMA FactsMade ==
  ASSUME NEW facts \in Facts, NEW r \in Facts
  PROVE  NewFacts(facts, r) \in Facts /\ Assigned(facts, r) \in Facts
BY DEF NewFacts, Assigned, Facts

LEMMA ObjectFacts ==
  ASSUME TypeInv, NEW c \in Consumer, NEW h \in Host, Visible(c, h) # None
  PROVE  Object(c, h) \in Facts
<1>1. objects[c][h] \in Facts \union {None} BY DEF TypeInv, JobTypeOK, TypeOK
<1>. QED BY <1>1, VisibleRow DEF Object

(* What AddHost leaves to be flushed. *)
LEMMA AddTodo ==
  ASSUME TypeInv, NEW c \in Consumer, NEW r \in Report, AddHost(c, r)
  PROVE  /\ UNCHANGED <<db, txn, batch, texts, clock, config, gone>>
         /\ \A d \in Consumer : d # c => todo'[d] = todo[d] /\ objects'[d] = objects[d]
         /\ todo[c] = None /\ Len(batch[c]) < config.batch
         /\ \/ LET h == FindExisting(c, r) IN
                 /\ h \in Host /\ h # None
                 /\ todo'[c] = [host |-> h, sets |-> NewFacts(Object(c, h), r),
                                report |-> r, creates |-> FALSE]
            \/ /\ FindExisting(c, r) = None
               /\ \E new \in Host : /\ Unused(new)
                                    /\ todo'[c] = [host |-> new, sets |-> r, report |-> r, creates |-> TRUE]
<1>0. todo \in [Consumer -> Todo \union {None}]
      /\ objects \in [Consumer -> [Host -> Facts \union {None}]]
  BY DEF TypeInv, JobTypeOK, TypeOK
<1>1. CASE FindExisting(c, r) # None BY <1>0, <1>1, Found DEF AddHost
<1>2. CASE FindExisting(c, r) = None
  <2>1. PICK new \in Host : /\ Unused(new)
                            /\ todo' = [todo EXCEPT ![c] =
                                 [host |-> new, sets |-> r, report |-> r, creates |-> TRUE]]
                            /\ objects' = [objects EXCEPT ![c][new] = r]
    BY <1>2 DEF AddHost
  <2>. QED BY <1>0, <1>2, <2>1 DEF AddHost
<1>. QED BY <1>1, <1>2

(* What it does to the objects. *)
LEMMA AddObjects ==
  ASSUME TypeInv, NEW c \in Consumer, NEW r \in Report, AddHost(c, r)
  PROVE  /\ todo' \in [Consumer -> Todo \union {None}] /\ todo'[c] # None /\ todo'[c].host \in Host
         /\ \E facts \in Facts :
              /\ objects' = [objects EXCEPT ![c][todo'[c].host] = facts]
              /\ facts = IF todo'[c].creates THEN todo'[c].sets
                         ELSE Assigned(Object(c, todo'[c].host), todo'[c].sets)
<1>0. todo \in [Consumer -> Todo \union {None}] BY DEF TypeInv, JobTypeOK, TypeOK
<1>1. r \in Facts BY DEF Report
<1>2. CASE FindExisting(c, r) # None
  <2>1. PICK h \in Host : h = FindExisting(c, r) /\ Visible(c, h) # None BY <1>2, Found
  <2>2. PICK facts \in Facts : facts = Object(c, h) BY <2>1, ObjectFacts
  <2>3. PICK sets \in Facts : sets = NewFacts(facts, r) BY <1>1, FactsMade
  <2>4. PICK t : t = [host |-> h, sets |-> sets, report |-> r, creates |-> FALSE] OBVIOUS
  <2>5. t \in Todo /\ t.host = h /\ t.sets = sets /\ ~t.creates BY <1>1, <2>4 DEF Todo
  <2>6. todo' = [todo EXCEPT ![c] = t] /\ objects' = [objects EXCEPT ![c][h] = Assigned(facts, sets)]
    BY <1>2, <2>1, <2>2, <2>3, <2>4 DEF AddHost
  <2>7. Assigned(facts, sets) \in Facts BY FactsMade
  <2>8. todo'[c] = t /\ t # None BY <1>0, <2>5, <2>6, Facts3
  <2>. QED BY <1>0, <2>2, <2>5, <2>6, <2>7, <2>8
<1>3. CASE FindExisting(c, r) = None
  <2>1. PICK new \in Host : /\ todo' = [todo EXCEPT ![c] =
                                 [host |-> new, sets |-> r, report |-> r, creates |-> TRUE]]
                            /\ objects' = [objects EXCEPT ![c][new] = r]
    BY <1>3 DEF AddHost
  <2>2. PICK t : t = [host |-> new, sets |-> r, report |-> r, creates |-> TRUE] OBVIOUS
  <2>3. t \in Todo /\ t.host = new /\ t.sets = r /\ t.creates BY <1>1, <2>2 DEF Todo
  <2>4. todo' = [todo EXCEPT ![c] = t] BY <2>1, <2>2
  <2>5. todo'[c] = t /\ t # None BY <1>0, <2>3, <2>4, Facts3
  <2>. QED BY <1>0, <1>1, <2>1, <2>3, <2>4, <2>5
<1>. QED BY <1>2, <1>3

LEMMA InHandTyped ==
  ASSUME NEW objs \in [Host -> Facts \union {None}]
  PROVE  InHand(objs) \subseteq Host \union Vals["provider"]
<1>1. \A facts \in Facts : facts["provider"] \in Vals["provider"] \union {None} BY DEF Facts, Fact
<1>2. \A h \in Host : objs[h] # None => objs[h]["provider"] \in Vals["provider"] \union {None}
  BY <1>1
<1>. QED BY <1>2 DEF InHand

LEMMA AddKeepsType ==
  ASSUME TypeInv, NEW c \in Consumer, NEW r \in Report, AddHost(c, r), UNCHANGED jobVars
  PROVE  TypeInv'
<1>1. /\ todo' \in [Consumer -> Todo \union {None}] /\ todo'[c] # None /\ todo'[c].host \in Host
      /\ \A d \in Consumer : d # c => todo'[d] = todo[d] /\ objects'[d] = objects[d]
      /\ todo[c] = None
  BY AddTodo, AddObjects
<1>2. PICK facts \in Facts : objects' = [objects EXCEPT ![c][todo'[c].host] = facts] BY AddObjects
<1>3. UNCHANGED <<db, txn, batch, texts, clock, config, gone>> BY DEF AddHost
<1>4. met' = met \union UNION {InHand(objects'[c]) \cap InHand(objects[d]) : d \in Consumer \ {c}}
  BY DEF AddHost
<1>5. objects \in [Consumer -> [Host -> Facts \union {None}]] BY DEF TypeInv, JobTypeOK, TypeOK
<1>6. objects' \in [Consumer -> [Host -> Facts \union {None}]] BY <1>1, <1>2, <1>5
<1>7. /\ objects'[c][todo'[c].host] = facts /\ facts # None
      /\ \A h \in Host : h # todo'[c].host => objects'[c][h] = objects[c][h]
  <2>1. facts # None BY Facts3
  <2>. QED BY <1>1, <1>2, <1>5, <2>1
<1>8. met' \subseteq Host \union Vals["provider"]
  <2>1. InHand(objects'[c]) \subseteq Host \union Vals["provider"] BY <1>6, InHandTyped
  <2>2. met \subseteq Host \union Vals["provider"] BY DEF TypeInv, JobTypeOK, TypeOK
  <2>. QED BY <1>4, <2>1, <2>2
<1>9. HandInv'
  <2>1. \A d, e \in Consumer : d # e => InHand(objects'[d]) \cap InHand(objects'[e]) \subseteq met'
    <3>1. \A d \in Consumer \ {c} : InHand(objects'[c]) \cap InHand(objects[d]) \subseteq met'
      BY <1>4
    <3>2. \A d, e \in Consumer : d # e => InHand(objects[d]) \cap InHand(objects[e]) \subseteq met'
      BY <1>4 DEF TypeInv, HandInv
    <3>. QED BY <1>1, <3>1, <3>2
  <2>2. \A d \in Consumer, h \in Host : objects[d][h] # None => objects'[d][h] # None
    BY <1>1, <1>7
  <2>3. \A d \in Consumer, h \in Host : txn'[d][h] # None => objects'[d][h] # None
    BY <1>3, <2>2 DEF TypeInv, HandInv
  <2>4. ASSUME NEW d \in Consumer, NEW h \in Host, objects'[d][h] # None
        PROVE  txn'[d][h] # None \/ (todo'[d] # None /\ todo'[d].host = h)
    BY <1>1, <1>3, <1>7, <2>4 DEF TypeInv, HandInv
  <2>5. \A d \in Consumer : todo'[d] # None => objects'[d][todo'[d].host] # None
    BY <1>1, <1>7 DEF TypeInv, HandInv
  <2>. QED BY <2>1, <2>3, <2>4, <2>5 DEF HandInv
<1>10. TypeOK' BY <1>1, <1>3, <1>6, <1>8 DEF TypeInv, JobTypeOK, TypeOK
<1>. QED BY <1>3, <1>9, <1>10 DEF TypeInv, JobTypeOK, RowsInv, BatchInv, jobVars

(* The row written by a flush. *)
Written(c) ==
  [facts |-> [f \in Fact |-> IF todo[c].sets[f] # None \/ todo[c].creates
                               THEN todo[c].sets[f] ELSE Visible(c, todo[c].host).facts[f]],
   at |-> clock + 1, live |-> TRUE]

LEMMA FlushWrites ==
  ASSUME TypeInv, NEW c \in Consumer, FlushHost(c)
  PROVE  /\ todo[c] \in Todo /\ todo[c].host \in Host
         /\ todo[c].creates \/ Visible(c, todo[c].host) # None
         /\ Written(c) \in Row /\ Written(c) # None
         /\ txn' = [txn EXCEPT ![c][todo[c].host] = Written(c)]
         /\ batch' = [batch EXCEPT ![c] = Append(@, todo[c].host)]
         /\ todo' = [todo EXCEPT ![c] = None]
         /\ clock' = clock + 1 /\ UNCHANGED <<db, objects, config, gone, met>>
         /\ \A d \in Consumer \ {c} : txn[d][todo[c].host] = None
<1>1. todo[c] \in Todo BY DEF FlushHost, TypeInv, JobTypeOK, TypeOK
<1>2. todo[c].host \in Host /\ todo[c].sets \in Facts /\ todo[c].creates \in BOOLEAN
  BY <1>1 DEF Todo
<1>3. todo[c].creates \/ Visible(c, todo[c].host) # None BY DEF FlushHost
<1>4. Written(c).facts \in Facts
  <2>1. todo[c].creates \/ Visible(c, todo[c].host).facts \in Facts BY <1>2, <1>3, VisibleRow
  <2>. QED BY <1>2, <2>1 DEF Written, Facts
<1>5. Written(c) \in Row
  BY <1>4 DEF Written, Row, TypeInv, JobTypeOK, TypeOK
<1>6. Written(c) # None BY <1>5, Facts3
<1>7. txn' = [txn EXCEPT ![c][todo[c].host] = Written(c)]
  <2>1. PICK new : new = IF todo[c].creates THEN todo[c].sets
                         ELSE Assigned(Visible(c, todo[c].host).facts, todo[c].sets)
    OBVIOUS
  <2>2. Written(c).facts = new
    <3>1. CASE todo[c].creates
      <4>1. todo[c].sets = [f \in Fact |-> todo[c].sets[f]] BY <1>2 DEF Facts
      <4>. QED BY <2>1, <3>1, <4>1 DEF Written
    <3>2. CASE ~todo[c].creates BY <2>1, <3>2 DEF Written, Assigned
    <3>. QED BY <3>1, <3>2
  <2>3. Written(c) = [facts |-> new, at |-> clock + 1, live |-> TRUE] BY <2>2 DEF Written
  <2>4. txn' = [txn EXCEPT ![c][todo[c].host] = [facts |-> new, at |-> clock + 1, live |-> TRUE]]
    BY <2>1 DEF FlushHost
  <2>. QED BY <2>3, <2>4
<1>. QED BY <1>1, <1>2, <1>3, <1>5, <1>6, <1>7 DEF FlushHost

LEMMA FlushKeepsType ==
  ASSUME TypeInv, NEW c \in Consumer, FlushHost(c), UNCHANGED jobVars
  PROVE  TypeInv'
<1> DEFINE h == todo[c].host
           row == Written(c)
<1>1. h \in Host /\ row \in Row /\ row # None /\ row.at = clock + 1
  BY FlushWrites DEF Written
<1>2. /\ txn' = [txn EXCEPT ![c][h] = row] /\ batch' = [batch EXCEPT ![c] = Append(@, h)]
      /\ todo' = [todo EXCEPT ![c] = None]
      /\ clock' = clock + 1 /\ UNCHANGED <<db, objects, config, gone, met>>
  BY FlushWrites
<1>3. texts' \in [Consumer -> SUBSET Host]
  <2>1. texts' = [texts EXCEPT ![c] = IF todo[c].sets["insights"] # None THEN @ \union {h} ELSE @]
    BY DEF FlushHost
  <2>. QED BY <1>1, <2>1 DEF TypeInv, JobTypeOK, TypeOK
<1>. HIDE DEF h, row
<1>4. TypeOK'
  <2>1. txn' \in [Consumer -> [Host -> Row \union {None}]]
    BY <1>1, <1>2 DEF TypeInv, JobTypeOK, TypeOK
  <2>2. batch' \in [Consumer -> Seq(Host)] BY <1>1, <1>2 DEF TypeInv, JobTypeOK, TypeOK
  <2>3. todo' \in [Consumer -> Todo \union {None}] BY <1>2 DEF TypeInv, JobTypeOK, TypeOK
  <2>. QED BY <1>2, <1>3, <2>1, <2>2, <2>3 DEF TypeInv, JobTypeOK, TypeOK
<1>5. RowsInv'
  BY <1>1, <1>2 DEF TypeInv, JobTypeOK, TypeOK, RowsInv, Row
<1>6. BatchInv'
  <2> SUFFICES ASSUME NEW d \in Consumer, NEW i \in DOMAIN batch'[d]
               PROVE  txn'[d][batch'[d][i]] # None
    BY DEF BatchInv
  <2>0. batch \in [Consumer -> Seq(Host)] /\ txn \in [Consumer -> [Host -> Row \union {None}]]
    BY DEF TypeInv, JobTypeOK, TypeOK
  <2>1. CASE d # c BY <1>2, <2>0, <2>1 DEF TypeInv, BatchInv
  <2>2. CASE d = c
    <3>1. batch'[d] = Append(batch[c], h) BY <1>2, <2>0, <2>2
    <3>2. i \in 1..(Len(batch[c]) + 1) BY <1>1, <2>0, <3>1
    <3>3. CASE i = Len(batch[c]) + 1
      <4>1. batch'[d][i] = h BY <1>1, <2>0, <3>1, <3>3
      <4>. QED BY <1>1, <1>2, <2>0, <2>2, <4>1
    <3>4. CASE i \in 1..Len(batch[c])
      <4>1. batch'[d][i] = batch[c][i] /\ batch[c][i] \in Host BY <1>1, <2>0, <3>1, <3>4
      <4>2. txn[c][batch[c][i]] # None BY <2>0, <3>4 DEF TypeInv, BatchInv
      <4>. QED BY <1>1, <1>2, <2>0, <2>2, <4>1, <4>2
    <3>. QED BY <2>0, <3>2, <3>3, <3>4
  <2>. QED BY <2>1, <2>2
<1>7. HandInv'
  <2>0. /\ txn \in [Consumer -> [Host -> Row \union {None}]]
        /\ todo \in [Consumer -> Todo \union {None}]
    BY DEF TypeInv, JobTypeOK, TypeOK
  <2>1. todo[c] # None /\ todo[c].host = h BY DEF FlushHost, h
  <2>2. /\ objects[c][h] # None /\ txn'[c][h] # None /\ todo'[c] = None
        /\ \A g \in Host : g # h => txn'[c][g] = txn[c][g]
        /\ \A d \in Consumer : d # c => txn'[d] = txn[d] /\ todo'[d] = todo[d]
    BY <1>1, <1>2, <2>0, <2>1 DEF TypeInv, HandInv
  <2>3. \A d \in Consumer, g \in Host : txn'[d][g] # None => objects'[d][g] # None
    BY <1>2, <2>2 DEF TypeInv, HandInv
  <2>4. ASSUME NEW d \in Consumer, NEW g \in Host, objects'[d][g] # None
        PROVE  txn'[d][g] # None \/ (todo'[d] # None /\ todo'[d].host = g)
    BY <1>2, <2>1, <2>2, <2>4 DEF TypeInv, HandInv
  <2>5. \A d \in Consumer : todo'[d] # None => objects'[d][todo'[d].host] # None
    BY <1>2, <2>2 DEF TypeInv, HandInv
  <2>6. \A d, e \in Consumer : d # e => InHand(objects'[d]) \cap InHand(objects'[e]) \subseteq met'
    BY <1>2 DEF TypeInv, HandInv
  <2>. QED BY <2>3, <2>4, <2>5, <2>6 DEF HandInv
<1>. QED BY <1>4, <1>5, <1>6, <1>7, <1>2 DEF TypeInv, JobTypeOK, TypeOK, jobVars

LEMMA EndKeepsType ==
  ASSUME TypeInv, NEW c \in Consumer, CommitBatch(c) \/ AbortBatch(c),
         quiet' \in BOOLEAN, UNCHANGED <<pc, chunk, marked, scanned, before>>
  PROVE  TypeInv'
<1>1. /\ txn' = [txn EXCEPT ![c] = NoRows] /\ batch' = [batch EXCEPT ![c] = <<>>]
      /\ texts' = [texts EXCEPT ![c] = {}] /\ todo' = [todo EXCEPT ![c] = None]
      /\ objects' = [objects EXCEPT ![c] = NoRows]
      /\ UNCHANGED <<clock, config, gone, met>>
  BY DEF CommitBatch, AbortBatch, EndBatch
<1>2. \A h \in Host : db'[h] = Visible(c, h) \/ db'[h] = db[h]
  BY DEF CommitBatch, AbortBatch
<1>3. db' \in [Host -> Row \union {None}]
  BY DEF CommitBatch, AbortBatch, Visible, TypeInv, JobTypeOK, TypeOK
<1>4. TypeOK' BY <1>1, <1>3 DEF TypeInv, JobTypeOK, TypeOK, NoRows
<1>5. RowsInv'
  BY <1>1, <1>2 DEF TypeInv, JobTypeOK, TypeOK, RowsInv, Visible, NoRows
<1>6. BatchInv' BY <1>1 DEF TypeInv, JobTypeOK, TypeOK, BatchInv
<1>7. HandInv'
  <2>0. /\ txn \in [Consumer -> [Host -> Row \union {None}]]
        /\ todo \in [Consumer -> Todo \union {None}]
        /\ objects \in [Consumer -> [Host -> Facts \union {None}]]
    BY DEF TypeInv, JobTypeOK, TypeOK
  <2>1. /\ txn'[c] = NoRows /\ todo'[c] = None /\ objects'[c] = NoRows
        /\ \A d \in Consumer : d # c => /\ txn'[d] = txn[d] /\ todo'[d] = todo[d]
                                         /\ objects'[d] = objects[d]
    BY <1>1, <2>0
  <2>2. \A h \in Host : NoRows[h] = None BY DEF NoRows
  <2>3. InHand(NoRows) = {} BY <2>2 DEF InHand
  <2>4. \A d, e \in Consumer : d # e => InHand(objects'[d]) \cap InHand(objects'[e]) \subseteq met'
    BY <1>1, <2>1, <2>3 DEF TypeInv, HandInv
  <2>5. ASSUME NEW d \in Consumer, NEW h \in Host
        PROVE  /\ txn'[d][h] # None => objects'[d][h] # None
               /\ objects'[d][h] # None => txn'[d][h] # None \/ (todo'[d] # None /\ todo'[d].host = h)
    BY <2>1, <2>2 DEF TypeInv, HandInv
  <2>6. \A d \in Consumer : todo'[d] # None => objects'[d][todo'[d].host] # None
    BY <2>1 DEF TypeInv, HandInv
  <2>. QED BY <2>4, <2>5, <2>6 DEF HandInv
<1>. QED BY <1>4, <1>5, <1>6, <1>7 DEF TypeInv, JobTypeOK

LEMMA CullKeepsType ==
  ASSUME TypeInv, NEW h \in Host, Cull(h), UNCHANGED jobVars
  PROVE  TypeInv'
<1>1. db' = [db EXCEPT ![h].live = FALSE] /\ db[h] \in Row
      /\ UNCHANGED <<txn, batch, objects, texts, todo, clock, config, gone, met>>
  BY DEF Cull, TypeInv, JobTypeOK, TypeOK
<1>2. db'[h] \in Row /\ db'[h].at = db[h].at
  BY <1>1 DEF TypeInv, JobTypeOK, TypeOK, Row
<1>3. \A g \in Host : g # h => db'[g] = db[g]
  BY <1>1 DEF TypeInv, JobTypeOK, TypeOK
<1>4. db' \in [Host -> Row \union {None}]
  BY <1>1, <1>2, <1>3 DEF TypeInv, JobTypeOK, TypeOK
<1>5. RowsInv' BY <1>1, <1>2, <1>3, Facts3 DEF TypeInv, RowsInv
<1>. QED BY <1>1, <1>4, <1>5 DEF TypeInv, JobTypeOK, TypeOK, BatchInv, HandInv, jobVars

(* The matches of the job are those by the strongest key that has any. *)
By(rows, r, i) == {h \in Host : rows[h] # None /\ Matches(rows[h].facts, r, IdFacts[i])}

LEMMA MatchingByKey ==
  ASSUME NEW rows, NEW r
  PROVE  \/ Matching(rows, r) = {} /\ \A i \in Keys(r) : By(rows, r, i) = {}
         \/ \E i \in Keys(r) :
              /\ Matching(rows, r) = By(rows, r, i) /\ By(rows, r, i) # {}
              /\ \A j \in Keys(r) : By(rows, r, j) # {} => i <= j
<1> DEFINE by(f) == {h \in Host : rows[h] # None /\ Matches(rows[h].facts, r, f)}
           found == [f \in Fact |-> by(f)]
           hits == {i \in Keys(r) : found[IdFacts[i]] # {}}
           first == Min(hits)
<1>1. Matching(rows, r) = IF hits = {} THEN {} ELSE found[IdFacts[Min(hits)]]
  BY DEF Matching
<1>2. hits \subseteq Keys(r) /\ hits \subseteq Nat /\ \A i \in Keys(r) : IdFacts[i] \in Fact
  BY Facts3 DEF Keys
<1>3. \A i \in Keys(r) : found[IdFacts[i]] = By(rows, r, i) BY <1>2 DEF By
<1>4. CASE hits = {} BY <1>1, <1>3, <1>4
<1>5. CASE hits # {}
  <2>1. Min(hits) \in hits /\ \A j \in hits : Min(hits) <= j
    <3>. HIDE DEF hits
    <3>. QED BY <1>2, <1>5, MinLeast
  <2>2. first \in Keys(r) /\ Matching(rows, r) = By(rows, r, first)
    BY <1>1, <1>2, <1>3, <1>5, <2>1
  <2>3. By(rows, r, first) # {} BY <1>3, <2>1, <2>2
  <2>4. \A j \in Keys(r) : By(rows, r, j) # {} => first <= j BY <1>3, <2>1
  <2>. HIDE DEF first
  <2>. QED BY <2>2, <2>3, <2>4
<1>. QED BY <1>4, <1>5

LEMMA MatchingHosts ==
  ASSUME NEW rows, NEW r
  PROVE  Matching(rows, r) \subseteq Host
BY MatchingByKey DEF By

LEMMA JobKeepsType ==
  ASSUME TypeInv,
         \/ StartJob \/ NextChunk \/ DeleteBatch \/ FinishJob \/ AbortJob
         \/ \E h \in Host : Search(h)
  PROVE  TypeInv'
<1>. USE DEF TypeInv, JobTypeOK
<1>1. CASE StartJob BY <1>1 DEF StartJob, vars, TypeOK, RowsInv, BatchInv, HandInv, Visible
<1>2. CASE NextChunk
  <2>1. PICK S \in SUBSET (Hosts \ scanned) :
          chunk' = [h \in S |-> db[h].facts] /\ scanned' = scanned \union S
    BY <1>2 DEF NextChunk
  <2>2. UNCHANGED <<vars, pc, marked, before, quiet>> BY <1>2 DEF NextChunk
  <2>3. \A h \in S : h \in Host /\ db[h].facts \in Facts BY DEF Hosts, TypeOK, Row
  <2>. QED BY <2>1, <2>2, <2>3 DEF vars, TypeOK, RowsInv, BatchInv, HandInv
<1>3. CASE DeleteBatch
  <2>1. PICK S \in SUBSET marked :
          /\ db' = [h \in Host |-> IF h \in S THEN None ELSE db[h]]
          /\ gone' = gone \union S /\ marked' = marked \ S
    BY <1>3 DEF DeleteBatch
  <2>2. UNCHANGED <<config, txn, batch, objects, texts, todo, clock, met, pc, chunk, scanned, before, quiet>>
    BY <1>3 DEF DeleteBatch
  <2>3. TypeOK' BY <2>1, <2>2 DEF TypeOK
  <2>. QED BY <2>1, <2>2, <2>3 DEF RowsInv, BatchInv, HandInv
<1>4. CASE FinishJob BY <1>4 DEF FinishJob, vars, TypeOK, RowsInv, BatchInv, HandInv
<1>5. CASE AbortJob
  <2>1. chunk' = <<>> /\ DOMAIN chunk' = {} BY <1>5 DEF AbortJob
  <2>2. before' \in [Host -> Row \union {None}] BY <1>5 DEF AbortJob, NoRows
  <2>3. UNCHANGED vars /\ pc' = "done" /\ marked' = {} /\ scanned' = {} /\ quiet' = FALSE
    BY <1>5 DEF AbortJob
  <2>4. TypeOK' /\ RowsInv' /\ BatchInv' /\ HandInv' BY <2>3 DEF vars, TypeOK, RowsInv, BatchInv, HandInv
  <2>. QED BY <2>1, <2>2, <2>3, <2>4
<1>6. CASE \E h \in Host : Search(h)
  <2>1. PICK h \in Host : Search(h) BY <1>6
  <2>2. Older(db, Matching(db, chunk[h])) \subseteq Host BY MatchingHosts DEF Older
  <2>3. marked' \subseteq Host BY <2>1, <2>2 DEF Search
  <2>4. /\ chunk' = [g \in DOMAIN chunk \ {h} |-> chunk[g]]
        /\ UNCHANGED <<vars, pc, scanned, before, quiet>>
    BY <2>1 DEF Search
  <2>. QED BY <2>3, <2>4 DEF vars, TypeOK, RowsInv, BatchInv, HandInv
<1>. QED BY <1>1, <1>2, <1>3, <1>4, <1>5, <1>6

LEMMA TypeInit == JobInit => TypeInv
<1> SUFFICES ASSUME JobInit PROVE TypeInv OBVIOUS
<1>1. TypeOK BY DEF JobInit, Init, TypeOK, NoRows
<1>2. chunk = <<>> /\ DOMAIN chunk = {} BY DEF JobInit
<1>3. HandInv
  <2>1. \A h \in Host : NoRows[h] = None BY DEF NoRows
  <2>2. InHand(NoRows) = {} BY <2>1 DEF InHand
  <2>. QED BY <2>1, <2>2 DEF JobInit, Init, HandInv
<1>. QED BY <1>1, <1>2, <1>3 DEF JobInit, Init, TypeInv, JobTypeOK, RowsInv, BatchInv, NoRows

LEMMA TypeStep == TypeInv /\ [JobNext]_<<vars, jobVars>> => TypeInv'
<1> SUFFICES ASSUME TypeInv, [JobNext]_<<vars, jobVars>> PROVE TypeInv' OBVIOUS
<1>1. CASE IngestNext /\ UNCHANGED jobVars
  <2>1. \A c \in Consumer, r \in Reports : AddHost(c, r) => TypeInv'
    BY <1>1, AddKeepsType, IngestAssumption
  <2>2. \A c \in Consumer : FlushHost(c) => TypeInv' BY <1>1, FlushKeepsType
  <2>3. quiet' \in BOOLEAN /\ UNCHANGED <<pc, chunk, marked, scanned, before>>
    BY <1>1 DEF jobVars, TypeInv, JobTypeOK
  <2>4. \A c \in Consumer : AbortBatch(c) => TypeInv' BY <2>3, EndKeepsType
  <2>5. \A h \in Host : Cull(h) => TypeInv' BY <1>1, CullKeepsType
  <2>. QED BY <1>1, <2>1, <2>2, <2>4, <2>5 DEF IngestNext
<1>2. ASSUME NEW c \in Consumer, CommitBatch(c), quiet' = (pc = "idle"),
             UNCHANGED <<pc, chunk, marked, scanned, before>>
      PROVE  TypeInv'
  BY <1>2, EndKeepsType
<1>3. CASE UNCHANGED <<vars, jobVars>>
  BY <1>3 DEF TypeInv, JobTypeOK, TypeOK, RowsInv, BatchInv, HandInv, vars, jobVars
<1>. QED BY <1>1, <1>2, <1>3, JobKeepsType DEF JobNext

LEMMA TypeInvariant == JobSpec => []TypeInv
BY TypeInit, TypeStep, PTL DEF JobSpec

(* Every reachable state of consumers and job has the stated types, for    *)
(* any number of consumers and hosts and both orders of ID facts: what the *)
(* search returns is a host with a row (find_existing_host).               *)
THEOREM TypeCorrect == JobSpec => []JobTypeOK
<1>1. TypeInv => JobTypeOK BY DEF TypeInv
<1>. QED BY <1>1, TypeInvariant, PTL

-----------------------------------------------------------------------------
(* The search against what it is for.                                      *)
LEMMA FitsIsCandidate ==
  ASSUME NEW c \in Consumer, NEW r \in Report, NEW h \in Host, NEW f \in Fact, Fits(c, h, r, f)
  PROVE  \E j \in Keys(r) : IdFacts[j] = f /\ h \in Candidates(c, r, f)
<1> DEFINE facts == Visible(c, h).facts
<1>1. PICK j \in DOMAIN IdFacts : IdFacts[j] = f BY DEF Fits, ToSet
<1>2. r[f] # None /\ facts[f] = r[f] BY DEF Fits
<1>3. j \in Keys(r) BY <1>1, <1>2 DEF Keys
<1>4. \A g \in Together(r, f) : ~Disagrees(facts, r, g)
  <2> SUFFICES ASSUME NEW g \in Together(r, f) PROVE ~Disagrees(facts, r, g) OBVIOUS
  <2>0. r[g] # None BY DEF Together
  <2>1. CASE g = f BY <1>2, <2>1 DEF Disagrees
  <2>2. CASE g = "provider" /\ "provider" \in ToSet(IdFacts)
    <3>1. facts[g] \in {None, r[g]} BY <2>0, <2>2 DEF Fits
    <3>. QED BY <2>2, <3>1 DEF Disagrees
  <2>3. CASE g = "subman" /\ config.strict /\ f = "insights"
    <3>1. facts[g] \in {None, r[g]} BY <2>0, <2>3 DEF Fits
    <3>. QED BY <2>3, <3>1 DEF Disagrees
  <2>. QED BY <2>1, <2>2, <2>3 DEF Together
<1>5. f \in Together(r, f) BY <1>2 DEF Together
<1>6. Matches(facts, r, f) BY <1>2, <1>4, <1>5 DEF Matches
<1>7. Visible(c, h) # None /\ Visible(c, h).live BY DEF Fits
<1>. QED BY <1>1, <1>3, <1>6, <1>7 DEF Candidates

LEMMA CandidateFits ==
  ASSUME NEW c \in Consumer, NEW r \in Report, NEW i \in Keys(r),
         NEW h \in Candidates(c, r, IdFacts[i]),
         \A j \in Keys(r) : Candidates(c, r, IdFacts[j]) # {} => i <= j
  PROVE  Fits(c, h, r, IdFacts[i])
<1> DEFINE facts == Visible(c, h).facts
           f == IdFacts[i]
<1>1. h \in Host /\ Visible(c, h) # None /\ Visible(c, h).live /\ Matches(facts, r, f)
  BY DEF Candidates
<1>2. i \in DOMAIN IdFacts /\ r[f] # None /\ f \in ToSet(IdFacts) BY DEF Keys, ToSet
<1>3. \A g \in Together(r, f) : ~Disagrees(facts, r, g) BY <1>1 DEF Matches
<1>4. PICK g \in Together(r, f) : facts[g] = r[g] BY <1>1 DEF Matches
<1>5. "provider" \in ToSet(IdFacts) /\ r["provider"] # None => facts["provider"] \in {None, r["provider"]}
  <2> SUFFICES ASSUME "provider" \in ToSet(IdFacts), r["provider"] # None
               PROVE  facts["provider"] \in {None, r["provider"]}
    OBVIOUS
  <2>1. "provider" \in Together(r, f) BY DEF Together
  <2>. QED BY <1>3, <2>1 DEF Disagrees
<1>6. config.strict /\ f = "insights" /\ r["subman"] # None => facts["subman"] \in {None, r["subman"]}
  <2> SUFFICES ASSUME config.strict, f = "insights", r["subman"] # None
               PROVE  facts["subman"] \in {None, r["subman"]}
    OBVIOUS
  <2>1. "subman" \in Together(r, f) BY DEF Together
  <2>. QED BY <1>3, <2>1 DEF Disagrees
<1>7. facts[f] = r[f]
  <2>1. f \in Together(r, f) BY <1>2 DEF Together
  <2>2. facts[f] = r[f] \/ (facts[f] = None /\ f # "insights") BY <1>3, <2>1 DEF Disagrees
  <2>3. SUFFICES ASSUME f # "insights", g # f PROVE FALSE BY <1>4, <2>2
  (* The match is by provider_id, and would have been found by it. *)
  <2>4. g = "provider" /\ "provider" \in ToSet(IdFacts) /\ r["provider"] # None
    BY <2>3 DEF Together
  <2>5. PICK j \in DOMAIN IdFacts : IdFacts[j] = "provider" BY <2>4 DEF ToSet
  <2>6. j = 1 /\ i # 1 /\ i \in Nat
    <3>1. i # j BY <2>3, <2>4, <2>5
    <3>2. j = 1 BY <2>5, IngestAssumption
    <3>. QED BY <1>2, <3>1, <3>2, Facts3
  <2>7. j \in Keys(r) BY <2>4, <2>5 DEF Keys
  <2>8. Matches(facts, r, IdFacts[j])
    <3>1. \A k \in Together(r, "provider") : k = "provider" BY DEF Together
    <3>2. "provider" \in Together(r, "provider") BY <2>4 DEF Together
    <3>3. facts["provider"] = r["provider"] BY <1>4, <2>4
    <3>. QED BY <2>5, <3>1, <3>2, <3>3 DEF Matches, Disagrees
  <2>9. h \in Candidates(c, r, IdFacts[j]) BY <1>1, <2>8 DEF Candidates
  <2>10. i <= j BY <2>7, <2>9
  <2>. QED BY <2>6, <2>10, Facts3, <1>2
<1>. QED BY <1>1, <1>2, <1>5, <1>6, <1>7 DEF Fits

(* What a report does to the host it is for. *)
LEMMA SearchedHost ==
  ASSUME TypeInv, NEW c \in Consumer, NEW r \in Report, FindInMemory(c, r) = None
  PROVE  LET h == FindInDb(c, r) IN
           \/ h = None /\ \A g \in Host, f \in Fact : ~Fits(c, g, r, f)
           \/ \E f \in Fact :
                /\ h \in Host /\ Fits(c, h, r, f)
                /\ \A g \in Host, k \in Fact :
                     Fits(c, g, r, k) =>
                       \/ \E i, j \in DOMAIN IdFacts : i < j /\ IdFacts[i] = f /\ IdFacts[j] = k
                       \/ f = k /\ Visible(c, g).at <= Visible(c, h).at
<1> DEFINE h == FindInDb(c, r)
<1>1. CASE h = None /\ \A i \in Keys(r) : Candidates(c, r, IdFacts[i]) = {}
  BY <1>1, FitsIsCandidate
<1>2. ASSUME NEW i \in Keys(r),
             h \in Host, h \in Candidates(c, r, IdFacts[i]),
             \A g \in Candidates(c, r, IdFacts[i]) : Visible(c, g).at <= Visible(c, h).at,
             \A j \in Keys(r) : Candidates(c, r, IdFacts[j]) # {} => i <= j
      PROVE  \E f \in Fact :
                /\ h \in Host /\ Fits(c, h, r, f)
                /\ \A g \in Host, k \in Fact :
                     Fits(c, g, r, k) =>
                       \/ \E m, j \in DOMAIN IdFacts : m < j /\ IdFacts[m] = f /\ IdFacts[j] = k
                       \/ f = k /\ Visible(c, g).at <= Visible(c, h).at
  <2>. DEFINE f == IdFacts[i]
  <2>1. f \in Fact /\ i \in DOMAIN IdFacts /\ i \in Nat BY Facts3 DEF Keys
  <2>2. Fits(c, h, r, f)
    <3>. HIDE DEF h
    <3>. QED BY <1>2, CandidateFits
  <2>3. ASSUME NEW g \in Host, NEW k \in Fact, Fits(c, g, r, k)
        PROVE  \/ \E m, j \in DOMAIN IdFacts : m < j /\ IdFacts[m] = f /\ IdFacts[j] = k
               \/ f = k /\ Visible(c, g).at <= Visible(c, h).at
    <3>1. PICK j \in Keys(r) : IdFacts[j] = k /\ g \in Candidates(c, r, k)
      BY <2>3, FitsIsCandidate
    <3>2. i <= j /\ j \in DOMAIN IdFacts /\ j \in Nat BY <1>2, <3>1, Facts3 DEF Keys
    <3>3. CASE i < j BY <2>1, <3>1, <3>2, <3>3
    <3>4. CASE i = j BY <1>2, <3>1, <3>4
    <3>. QED BY <2>1, <3>2, <3>3, <3>4
  <2>. HIDE DEF h, f
  <2>. QED BY <1>2, <2>1, <2>2, <2>3
<1>. QED BY <1>1, <1>2, FoundInDb

(* The body of StrongestFit, for a consumer. *)
FitIn(c) ==
  LET t == todo'[c]
      better(f, g) == \E i, j \in DOMAIN IdFacts : i < j /\ IdFacts[i] = f /\ IdFacts[j] = g
  IN todo[c] = None /\ t # None =>
       \/ FindInMemory(c, t.report) # None
       \/ t.creates /\ \A h \in Host, f \in Fact : ~Fits(c, h, t.report, f)
       \/ \E f \in Fact :
            /\ Fits(c, t.host, t.report, f)
            /\ \A h \in Host, g \in Fact :
                 Fits(c, h, t.report, g) =>
                   \/ better(f, g)
                   \/ f = g /\ Visible(c, h).at <= Visible(c, t.host).at

LEMMA AddFits ==
  ASSUME TypeInv, NEW c \in Consumer, NEW r \in Report, AddHost(c, r)
  PROVE  FitIn(c)
<1>0. todo \in [Consumer -> Todo \union {None}] BY DEF TypeInv, JobTypeOK, TypeOK
<1>1. CASE FindInMemory(c, r) # None
  <2>1. todo'[c].report = r BY <1>0, <1>1 DEF AddHost, FindExisting
  <2>. QED BY <1>1, <2>1 DEF FitIn
<1>2. CASE FindInMemory(c, r) = None /\ FindInDb(c, r) # None
  <2>1. todo'[c].report = r /\ todo'[c].host = FindInDb(c, r)
    BY <1>0, <1>2 DEF AddHost, FindExisting
  <2>. QED BY <1>2, <2>1, SearchedHost DEF FitIn
<1>3. CASE FindInMemory(c, r) = None /\ FindInDb(c, r) = None
  <2>1. FindExisting(c, r) = None BY <1>3 DEF FindExisting
  <2>2. todo'[c].report = r /\ todo'[c].creates
    <3>1. PICK new \in Host : todo' = [todo EXCEPT ![c] =
                [host |-> new, sets |-> r, report |-> r, creates |-> TRUE]]
      BY <2>1 DEF AddHost
    <3>. QED BY <1>0, <3>1
  <2>3. FindInDb(c, r) \notin Host BY <1>3, Facts3
  <2>4. \A h \in Host, f \in Fact : ~Fits(c, h, r, f) BY <1>3, <2>3, SearchedHost
  <2>. QED BY <2>2, <2>4 DEF FitIn
<1>. QED BY <1>1, <1>2, <1>3

LEMMA FitStep ==
  ASSUME TypeInv, [JobNext]_<<vars, jobVars>>, NEW c \in Consumer
  PROVE  FitIn(c)
<1>0. todo \in [Consumer -> Todo \union {None}] BY DEF TypeInv, JobTypeOK, TypeOK
<1>1. ASSUME NEW d \in Consumer, NEW r \in Report, AddHost(d, r) PROVE FitIn(c)
  <2>1. CASE d = c BY <1>1, <2>1, AddFits
  <2>2. CASE d # c
    <3>1. todo'[c] = todo[c] BY <1>0, <1>1, <2>2 DEF AddHost
    <3>. QED BY <3>1 DEF FitIn
  <2>. QED BY <2>1, <2>2
<1>2. ASSUME todo'[c] \in {todo[c], None} PROVE FitIn(c) BY <1>2 DEF FitIn
<1>3. ASSUME NEW d \in Consumer, FlushHost(d) \/ CommitBatch(d) \/ AbortBatch(d)
      PROVE  todo'[c] \in {todo[c], None}
  BY <1>0, <1>3 DEF FlushHost, CommitBatch, AbortBatch, EndBatch
<1>4. ASSUME UNCHANGED todo PROVE todo'[c] \in {todo[c], None} BY <1>4
<1>5. CASE IngestNext /\ UNCHANGED jobVars
  BY <1>1, <1>2, <1>3, <1>4, <1>5, IngestAssumption DEF IngestNext, Cull
<1>6. CASE \/ StartJob \/ NextChunk \/ DeleteBatch \/ FinishJob \/ AbortJob
           \/ UNCHANGED <<vars, jobVars>> \/ \E h \in Host : Search(h)
  <2>1. UNCHANGED todo
    BY <1>6 DEF StartJob, NextChunk, DeleteBatch, FinishJob, AbortJob, Search, vars
  <2>. QED BY <1>2, <1>4, <2>1
<1>. QED BY <1>2, <1>3, <1>5, <1>6 DEF JobNext

(* The host a report updates is one that fits by the strongest fact that   *)
(* fits any, and a last modified of those, or new if none fits: for any    *)
(* interleaving of consumers, culling and job, both orders of ID facts and *)
(* the flag on or off (add_host, find_existing_host).                      *)
THEOREM StrongestCorrect == JobSpec => StrongestFit
<1>1. TypeInv /\ [JobNext]_<<vars, jobVars>> => [\A c \in Consumer : FitIn(c)]_vars
  BY FitStep
<1>2. TypeInv /\ [JobNext]_<<vars, jobVars>> =>
        [\A c \in Consumer :
           LET t == todo'[c]
               better(f, g) == \E i, j \in DOMAIN IdFacts : i < j /\ IdFacts[i] = f /\ IdFacts[j] = g
           IN todo[c] = None /\ t # None =>
                \/ FindInMemory(c, t.report) # None
                \/ t.creates /\ \A h \in Host, f \in Fact : ~Fits(c, h, t.report, f)
                \/ \E f \in Fact :
                     /\ Fits(c, t.host, t.report, f)
                     /\ \A h \in Host, g \in Fact :
                          Fits(c, h, t.report, g) =>
                            \/ better(f, g)
                            \/ f = g /\ Visible(c, h).at <= Visible(c, t.host).at]_vars
  BY <1>1, Zenon DEF FitIn
<1>. QED BY <1>2, TypeInvariant, PTL DEF JobSpec, StrongestFit

-----------------------------------------------------------------------------
(* The default order of ID facts: without provider_id among them nothing   *)
(* looks for it.                                                           *)
ByProvider == IdFacts = <<"provider", "subman", "insights">>

Handles(c, h) == todo[c] # None /\ todo[c].host = h

(* A row written and not committed, and one about to be, keep the          *)
(* provider_id of the row they are written onto, and the object says what  *)
(* they will have: of hosts that no two consumers have had at once.        *)
Kept(c, h) ==
  /\ /\ None \notin {txn[c][h], db[h]}
     /\ db[h].facts["provider"] # None
     => txn[c][h].facts["provider"] = db[h].facts["provider"]
  /\ txn[c][h] # None /\ ~Handles(c, h)
     => objects[c][h]["provider"] = txn[c][h].facts["provider"]
  /\ Handles(c, h) =>
       /\ todo[c].creates => db[h] = None /\ txn[c][h] = None
       /\ /\ ~todo[c].creates /\ Visible(c, h) # None
          /\ Visible(c, h).facts["provider"] # None
          => todo[c].sets["provider"] \in {None, Visible(c, h).facts["provider"]}
       /\ todo[c].creates \/ Visible(c, h) # None
          => objects[c][h]["provider"] = Written(c).facts["provider"]

KeepInv == \A c \in Consumer, h \in Host \ met : Kept(c, h)

(* What two consumers have not had at once only one of them has. *)
LEMMA HandApart ==
  ASSUME TypeInv, NEW c \in Consumer, NEW d \in Consumer, c # d,
         NEW h \in Host \ met, objects[c][h] # None
  PROVE  txn[d][h] = None
<1>1. objects[d][h] = None BY DEF TypeInv, HandInv, InHand
<1>. QED BY <1>1 DEF TypeInv, HandInv

(* Others may delete the row or take it off the live ones. *)
LEMMA KeptStays ==
  ASSUME NEW c \in Consumer, NEW h \in Host, Kept(c, h),
         txn'[c][h] = txn[c][h], todo'[c] = todo[c], objects'[c][h] = objects[c][h],
         \/ db'[h] = None \/ db'[h] = db[h]
         \/ db[h] # None /\ db'[h] # None /\ db'[h].facts = db[h].facts
  PROVE  Kept(c, h)'
<1>1. \/ Visible(c, h)' = None
      \/ /\ Visible(c, h)' # None /\ Visible(c, h) # None
         /\ Visible(c, h)'.facts = Visible(c, h).facts
  BY DEF Visible
<1>2. Handles(c, h)' <=> Handles(c, h) BY DEF Handles
<1>3. ASSUME Handles(c, h), todo[c].creates \/ Visible(c, h)' # None
      PROVE  objects'[c][h]["provider"] = Written(c)'.facts["provider"]
  <2>1. objects[c][h]["provider"] = Written(c).facts["provider"] BY <1>1, <1>3 DEF Kept
  <2>2. todo[c].host = h /\ "provider" \in Fact BY <1>3 DEF Handles, Fact
  <2>3. Written(c)'.facts["provider"] = Written(c).facts["provider"]
    BY <1>1, <1>3, <2>2 DEF Written
  <2>. QED BY <2>1, <2>3
<1>4. ASSUME None \notin {txn[c][h], db'[h]}, db'[h].facts["provider"] # None
      PROVE  txn[c][h].facts["provider"] = db'[h].facts["provider"]
  BY <1>4 DEF Kept
<1>5. ASSUME Handles(c, h)
      PROVE  /\ todo[c].creates => db'[h] = None /\ txn[c][h] = None
             /\ /\ ~todo[c].creates /\ Visible(c, h)' # None
                /\ Visible(c, h)'.facts["provider"] # None
                => todo[c].sets["provider"] \in {None, Visible(c, h)'.facts["provider"]}
  BY <1>1, <1>5 DEF Kept
<1>6. txn[c][h] # None /\ ~Handles(c, h) => objects[c][h]["provider"] = txn[c][h].facts["provider"]
  BY DEF Kept
<1>. QED BY <1>2, <1>3, <1>4, <1>5, <1>6 DEF Kept

(* A report that names a provider matches no host with another one.        *)
LEMMA MatchKeepsProvider ==
  ASSUME ByProvider, NEW r \in Facts, NEW facts \in Facts, NEW f \in Fact, Matches(facts, r, f)
  PROVE  facts["provider"] # None => r["provider"] \in {None, facts["provider"]}
<1> SUFFICES ASSUME facts["provider"] # None, r["provider"] # None
             PROVE  facts["provider"] = r["provider"]
  OBVIOUS
<1>1. "provider" \in Together(r, f) BY DEF Together, ByProvider, ToSet
<1>. QED BY <1>1 DEF Matches, Disagrees

(* The object of a host and the row the consumer sees have one provider_id.*)
LEMMA ObjectKeeps ==
  ASSUME TypeInv, KeepInv, NEW c \in Consumer, todo[c] = None, NEW h \in Host \ met,
         Visible(c, h) # None
  PROVE  Object(c, h)["provider"] = Visible(c, h).facts["provider"]
<1>1. CASE objects[c][h] = None BY <1>1 DEF Object
<1>2. CASE objects[c][h] # None
  <2>1. txn[c][h] # None BY <1>2 DEF TypeInv, HandInv
  <2>2. objects[c][h]["provider"] = txn[c][h].facts["provider"] BY <2>1 DEF KeepInv, Kept, Handles
  <2>. QED BY <1>2, <2>1, <2>2 DEF Object, Visible
<1>. QED BY <1>1, <1>2

LEMMA AddKept ==
  ASSUME TypeInv, KeepInv, ByProvider, NEW c \in Consumer, NEW r \in Report, AddHost(c, r),
         NEW k \in Host \ met, todo'[c].host = k
  PROVE  Kept(c, k)'
<1>1. UNCHANGED <<db, txn, clock>> /\ todo[c] = None BY AddTodo
<1>2. objects \in [Consumer -> [Host -> Facts \union {None}]] BY DEF TypeInv, JobTypeOK, TypeOK
<1>3. "provider" \in Fact BY DEF Fact
<1>4. CASE FindExisting(c, r) # None
  <2>1. PICK h \in Host : /\ h = FindExisting(c, r) /\ Visible(c, h) # None
                          /\ \E i \in Keys(r) : \/ Matches(Object(c, h), r, IdFacts[i])
                                                \/ Matches(Visible(c, h).facts, r, IdFacts[i])
    BY <1>4, Found
  <2>2. PICK facts \in Facts : facts = Object(c, h) BY <2>1, ObjectFacts
  <2>3. PICK old \in Row : old = Visible(c, h) /\ old.facts \in Facts BY <2>1, VisibleRow
  <2>4. PICK sets \in Facts : sets = NewFacts(facts, r) BY <2>2, FactsMade DEF Report
  <2>5. PICK t : t = [host |-> h, sets |-> sets, report |-> r, creates |-> FALSE] OBVIOUS
  <2>6. todo'[c] = t /\ t.host = h /\ t.sets = sets /\ ~t.creates /\ t # None
    <3>1. todo'[c] = t BY <1>4, <2>1, <2>2, <2>4, <2>5, AddTodo, Facts3
    <3>2. todo'[c] # None BY AddObjects
    <3>. QED BY <2>5, <3>1, <3>2
  <2>7. h = k /\ h \in Host \ met BY <2>6
  <2>8. facts["provider"] = old.facts["provider"] BY <1>1, <2>1, <2>2, <2>3, <2>7, ObjectKeeps
  <2>9. sets["provider"] = IF facts["provider"] # r["provider"] THEN r["provider"] ELSE None
    BY <1>3, <2>4 DEF NewFacts
  <2>10. old.facts["provider"] # None => sets["provider"] = None
    <3>1. PICK i \in Keys(r) : Matches(facts, r, IdFacts[i]) \/ Matches(old.facts, r, IdFacts[i])
      BY <2>1, <2>2, <2>3
    <3>2. IdFacts[i] \in Fact /\ r \in Facts BY Facts3 DEF Keys, Report
    <3>3. old.facts["provider"] # None => r["provider"] \in {None, old.facts["provider"]}
      BY <2>3, <2>8, <3>1, <3>2, MatchKeepsProvider
    <3>. QED BY <2>8, <2>9, <3>3
  <2>11. Visible(c, h)' = old BY <1>1, <2>3 DEF Visible
  <2>12. objects'[c][h]["provider"]
           = IF sets["provider"] # None THEN sets["provider"] ELSE old.facts["provider"]
    <3>1. PICK new \in Facts : /\ objects' = [objects EXCEPT ![c][todo'[c].host] = new]
                               /\ new = IF todo'[c].creates THEN todo'[c].sets
                                        ELSE Assigned(Object(c, todo'[c].host), todo'[c].sets)
      BY AddObjects
    <3>2. objects'[c][h] = Assigned(facts, sets) BY <1>2, <2>2, <2>6, <3>1
    <3>. QED BY <1>3, <2>8, <3>2 DEF Assigned
  <2>13. Written(c)'.facts["provider"]
           = IF sets["provider"] # None THEN sets["provider"] ELSE old.facts["provider"]
    BY <1>3, <2>6, <2>11 DEF Written
  <2>14. /\ None \notin {txn[c][h], db[h]} /\ db[h].facts["provider"] # None
         => txn[c][h].facts["provider"] = db[h].facts["provider"]
    BY <2>7 DEF KeepInv, Kept
  <2>. QED BY <1>1, <2>6, <2>7, <2>10, <2>11, <2>12, <2>13, <2>14 DEF Kept, Handles
<1>5. CASE FindExisting(c, r) = None
  <2>1. PICK new \in Host : /\ Unused(new)
                            /\ todo'[c] = [host |-> new, sets |-> r, report |-> r, creates |-> TRUE]
    BY <1>5, AddTodo, Facts3
  <2>2. todo'[c].host = new /\ new = k /\ todo'[c].sets = r /\ todo'[c].creates BY <2>1
  <2>3. objects'[c][new] = r BY <1>2, <2>1, <2>2, AddObjects
  <2>4. Written(c)'.facts["provider"] = r["provider"] BY <1>3, <2>2 DEF Written
  <2>5. db'[new] = None /\ txn'[c][new] = None BY <1>1, <2>1 DEF Unused
  <2>. QED BY <2>2, <2>3, <2>4, <2>5 DEF Kept, Handles
<1>. QED BY <1>4, <1>5

LEMMA AddKeeps ==
  ASSUME TypeInv, KeepInv, ByProvider, NEW c \in Consumer, NEW r \in Report, AddHost(c, r)
  PROVE  KeepInv'
<1>1. /\ UNCHANGED <<db, txn>> /\ todo[c] = None
      /\ \A d \in Consumer : d # c => todo'[d] = todo[d] /\ objects'[d] = objects[d]
  BY AddTodo
<1>2. met \subseteq met' BY DEF AddHost
<1>3. objects \in [Consumer -> [Host -> Facts \union {None}]] BY DEF TypeInv, JobTypeOK, TypeOK
<1> SUFFICES ASSUME NEW d \in Consumer, NEW h \in Host, h \notin met' PROVE Kept(d, h)'
  BY DEF KeepInv
<1>4. h \in Host \ met BY <1>2
<1>5. Kept(d, h) BY <1>4 DEF KeepInv
<1>6. CASE d # c BY <1>1, <1>5, <1>6, KeptStays
<1>7. CASE d = c /\ h = todo'[c].host BY <1>4, <1>7, AddKept
<1>8. CASE d = c /\ h # todo'[c].host
  <2>1. objects'[c][h] = objects[c][h] BY <1>3, <1>8, AddObjects
  <2>2. ~Handles(c, h)' /\ ~Handles(c, h) BY <1>1, <1>8 DEF Handles
  <2>. QED BY <1>1, <1>5, <1>8, <2>1, <2>2 DEF Kept
<1>. QED BY <1>6, <1>7, <1>8

LEMMA FlushKeeps ==
  ASSUME TypeInv, KeepInv, NEW c \in Consumer, FlushHost(c)
  PROVE  KeepInv'
<1> DEFINE k == todo[c].host
           row == Written(c)
           old == Visible(c, k)
<1>1. /\ k \in Host /\ row # None /\ (todo[c].creates \/ old # None)
      /\ txn' = [txn EXCEPT ![c][k] = row] /\ todo' = [todo EXCEPT ![c] = None]
      /\ UNCHANGED <<db, objects, met>>
  BY FlushWrites
<1>2. Handles(c, k) BY DEF FlushHost, Handles
<1>3. txn \in [Consumer -> [Host -> Row \union {None}]] /\ todo \in [Consumer -> Todo \union {None}]
  BY DEF TypeInv, JobTypeOK, TypeOK
<1>4. ASSUME k \notin met
      PROVE  /\ db[k] # None /\ db[k].facts["provider"] # None
                  => row.facts["provider"] = db[k].facts["provider"]
             /\ objects[c][k]["provider"] = row.facts["provider"]
  <2>1. Kept(c, k) BY <1>1, <1>4 DEF KeepInv
  <2>2. ASSUME db[k] # None, db[k].facts["provider"] # None
        PROVE  row.facts["provider"] = db[k].facts["provider"]
    <3>1. ~todo[c].creates /\ old # None BY <1>1, <1>2, <2>1, <2>2 DEF Kept
    <3>2. old.facts["provider"] = db[k].facts["provider"] BY <2>1, <2>2 DEF Kept, Visible
    <3>3. todo[c].sets["provider"] \in {None, old.facts["provider"]}
      BY <1>2, <2>1, <2>2, <3>1, <3>2 DEF Kept
    <3>. QED BY <3>1, <3>2, <3>3 DEF Written, Fact
  <2>. QED BY <1>1, <1>2, <2>1, <2>2 DEF Kept
<1>5. todo'[c] = None BY <1>1, <1>3
<1>6. \A h \in Host : txn'[c][h] = IF h = k THEN row ELSE txn[c][h] BY <1>1, <1>3
<1>7. \A d \in Consumer : d # c => txn'[d] = txn[d] /\ todo'[d] = todo[d] BY <1>1, <1>3
<1> SUFFICES ASSUME NEW d \in Consumer, NEW h \in Host \ met PROVE Kept(d, h)'
  BY <1>1 DEF KeepInv
<1>8. Kept(d, h) BY DEF KeepInv
<1>9. CASE d # c BY <1>1, <1>7, <1>8, <1>9, KeptStays
<1>10. CASE d = c /\ h # k
  <2>1. ~Handles(c, h)' /\ ~Handles(c, h) BY <1>5, <1>10 DEF Handles
  <2>2. txn'[c][h] = txn[c][h] BY <1>6, <1>10
  <2>. QED BY <1>1, <1>8, <1>10, <2>1, <2>2 DEF Kept
<1>11. CASE d = c /\ h = k
  <2>1. ~Handles(c, h)' BY <1>5 DEF Handles
  <2>2. txn'[c][h] = row BY <1>6, <1>11
  <2>. HIDE DEF row, k, old
  <2>. QED BY <1>1, <1>4, <1>11, <2>1, <2>2 DEF Kept
<1>. QED BY <1>9, <1>10, <1>11

LEMMA EndKeeps ==
  ASSUME TypeInv, KeepInv, NEW c \in Consumer, CommitBatch(c) \/ AbortBatch(c)
  PROVE  KeepInv'
<1>1. /\ txn' = [txn EXCEPT ![c] = NoRows] /\ todo' = [todo EXCEPT ![c] = None]
      /\ objects' = [objects EXCEPT ![c] = NoRows] /\ UNCHANGED met
  BY DEF CommitBatch, AbortBatch, EndBatch
<1>2. /\ txn'[c] = NoRows /\ todo'[c] = None
      /\ \A d \in Consumer : d # c => /\ txn'[d] = txn[d] /\ todo'[d] = todo[d]
                                       /\ objects'[d] = objects[d]
  BY <1>1 DEF TypeInv, JobTypeOK, TypeOK
<1>3. \A h \in Host : db'[h] = db[h] \/ txn[c][h] # None
  BY DEF CommitBatch, AbortBatch, Visible
<1> SUFFICES ASSUME NEW d \in Consumer, NEW h \in Host \ met PROVE Kept(d, h)'
  BY <1>1 DEF KeepInv
<1>4. CASE d = c
  <2>1. txn'[d][h] = None /\ ~Handles(d, h)' BY <1>2, <1>4 DEF NoRows, Handles
  <2>. QED BY <2>1 DEF Kept
<1>5. CASE d # c
  <2>1. CASE objects[d][h] # None
    <3>1. db'[h] = db[h] BY <1>3, <1>5, <2>1, HandApart
    <3>. QED BY <1>2, <1>5, <3>1, KeptStays DEF KeepInv
  <2>2. CASE objects[d][h] = None
    <3>1. txn'[d][h] = None /\ ~Handles(d, h)'
      BY <1>2, <1>5, <2>2 DEF TypeInv, HandInv, Handles
    <3>. QED BY <3>1 DEF Kept
  <2>. QED BY <2>1, <2>2
<1>. QED BY <1>4, <1>5

LEMMA LossKeeps ==
  ASSUME KeepInv, UNCHANGED <<txn, todo, objects, met>>,
         \A h \in Host : \/ db'[h] = None \/ db'[h] = db[h]
                         \/ db[h] # None /\ db'[h] # None /\ db'[h].facts = db[h].facts
  PROVE  KeepInv'
<1> SUFFICES ASSUME NEW d \in Consumer, NEW h \in Host \ met PROVE Kept(d, h)'
  BY DEF KeepInv
<1>. QED BY KeptStays DEF KeepInv

(* What happens to the rows otherwise. *)
LEMMA RowsLost ==
  ASSUME TypeInv,
         \/ \E h \in Host : Cull(h) \/ Search(h)
         \/ StartJob \/ NextChunk \/ DeleteBatch \/ FinishJob \/ AbortJob
         \/ UNCHANGED <<vars, jobVars>>
  PROVE  /\ UNCHANGED <<config, txn, batch, todo, clock, objects, met>>
         /\ \A h \in Host : \/ db'[h] = None \/ db'[h] = db[h]
                            \/ /\ db[h] # None /\ db'[h] # None
                               /\ db'[h].facts = db[h].facts /\ ~db'[h].live
<1>1. ASSUME NEW h \in Host, Cull(h)
      PROVE  /\ UNCHANGED <<config, txn, batch, todo, clock, objects, met>>
             /\ \A g \in Host : db'[g] = db[g] \/ /\ db[g] # None /\ db'[g] # None
                                                  /\ db'[g].facts = db[g].facts /\ ~db'[g].live
  <2>1. db \in [Host -> Row \union {None}] /\ db[h] \in Row /\ db' = [db EXCEPT ![h].live = FALSE]
    BY <1>1 DEF Cull, TypeInv, JobTypeOK, TypeOK
  <2>2. db'[h] \in Row /\ db'[h].facts = db[h].facts /\ ~db'[h].live BY <2>1 DEF Row
  <2>3. \A g \in Host : g # h => db'[g] = db[g] BY <2>1
  <2>. QED BY <1>1, <2>1, <2>2, <2>3, Facts3 DEF Cull
<1>2. CASE DeleteBatch BY <1>2 DEF DeleteBatch
<1>3. CASE \/ \E h \in Host : Search(h)
           \/ StartJob \/ NextChunk \/ FinishJob \/ AbortJob \/ UNCHANGED <<vars, jobVars>>
  BY <1>3 DEF Search, StartJob, NextChunk, FinishJob, AbortJob, vars
<1>. QED BY <1>1, <1>2, <1>3

(* The steps, in kinds. *)
LEMMA Kinds ==
  ASSUME [JobNext]_<<vars, jobVars>>
  PROVE  \/ \E c \in Consumer, r \in Report : AddHost(c, r)
         \/ \E c \in Consumer : FlushHost(c)
         \/ \E c \in Consumer : CommitBatch(c) \/ AbortBatch(c)
         \/ \/ \E h \in Host : Cull(h) \/ Search(h)
            \/ StartJob \/ NextChunk \/ DeleteBatch \/ FinishJob \/ AbortJob
            \/ UNCHANGED <<vars, jobVars>>
<1>1. Reports \subseteq Report BY IngestAssumption
<1>. QED BY <1>1 DEF JobNext, IngestNext

LEMMA KeepStep ==
  ASSUME TypeInv, KeepInv, ByProvider, [JobNext]_<<vars, jobVars>>
  PROVE  KeepInv'
<1>1. ASSUME \/ \E h \in Host : Cull(h) \/ Search(h)
             \/ StartJob \/ NextChunk \/ DeleteBatch \/ FinishJob \/ AbortJob
             \/ UNCHANGED <<vars, jobVars>>
      PROVE  KeepInv'
  BY <1>1, RowsLost, LossKeeps
<1>. QED BY <1>1, Kinds, AddKeeps, FlushKeeps, EndKeeps

LEMMA ImmutableStep ==
  ASSUME TypeInv, KeepInv, [JobNext]_<<vars, jobVars>>, NEW h \in Host \ met,
         db[h] # None, db[h].facts["provider"] # None
  PROVE  db'[h] = None \/ db'[h].facts["provider"] = db[h].facts["provider"]
<1>1. ASSUME NEW c \in Consumer, CommitBatch(c)
      PROVE  db'[h] = None \/ db'[h].facts["provider"] = db[h].facts["provider"]
  <2>1. db'[h] = Visible(c, h) BY <1>1 DEF CommitBatch
  <2>. QED BY <2>1 DEF Visible, KeepInv, Kept
<1>2. ASSUME \/ \E g \in Host : Cull(g) \/ Search(g)
             \/ StartJob \/ NextChunk \/ DeleteBatch \/ FinishJob \/ AbortJob
             \/ UNCHANGED <<vars, jobVars>>
      PROVE  db'[h] = None \/ db'[h].facts["provider"] = db[h].facts["provider"]
  BY <1>2, RowsLost
<1>3. ASSUME NEW c \in Consumer, FlushHost(c) \/ AbortBatch(c) \/ \E r \in Report : AddHost(c, r)
      PROVE  db'[h] = db[h]
  BY <1>3 DEF FlushHost, AbortBatch, AddHost
<1>. QED BY <1>1, <1>2, <1>3, Kinds

(* provider_id is immutable: whatever reports come in whatever batches to  *)
(* any number of consumers, while hosts are culled and duplicates deleted, *)
(* a host that has a provider_id keeps it, unless two consumers have had   *)
(* that host at once (find_existing_host, update_canonical_facts_columns). *)
THEOREM ImmutableCorrect ==
  ASSUME ByProvider
  PROVE  JobSpec => ProviderImmutable
<1>1. JobInit => KeepInv
  BY DEF JobInit, Init, KeepInv, Kept, Handles, NoRows
<1>2. TypeInv /\ KeepInv /\ [JobNext]_<<vars, jobVars>> => KeepInv'
  BY KeepStep
<1>3. TypeInv /\ KeepInv /\ [JobNext]_<<vars, jobVars>>
        => [\A h \in Host \ met :
              db[h] # None /\ db[h].facts["provider"] # None
                => db'[h] = None \/ db'[h].facts["provider"] = db[h].facts["provider"]]_vars
  BY ImmutableStep
<1>. QED BY <1>1, <1>2, <1>3, TypeInvariant, PTL DEF JobSpec, ProviderImmutable

-----------------------------------------------------------------------------
(* A row that holds its provider_id, which no two consumers have had at    *)
(* once.                                                                   *)
Owns(row) == row # None /\ row.live /\ row.facts["provider"] \notin met \union {None}

Apart(row1, row2) ==
  Owns(row1) /\ Owns(row2) => row1.facts["provider"] # row2.facts["provider"]

(* With batches of one report the search sees every row there is, and      *)
(* nobody writes before the report it is for: the row that is going to be  *)
(* written is apart from all others, so the rows are.                      *)
SeenApart(c) ==
  /\ todo[c] # None => batch[c] = <<>>
  /\ batch[c] = <<>> => \A h \in Host : txn[c][h] = None
  /\ \A h, g \in Host \ met : h # g => Apart(Visible(c, h), Visible(c, g))
  /\ \A h, g \in Host \ met :
       /\ Handles(c, h) /\ (todo[c].creates \/ Visible(c, h) # None)
       /\ h # g /\ Owns(db[g])
       => Written(c).facts["provider"] # db[g].facts["provider"]

UniqueInv ==
  config.batch = 1 =>
    /\ \A h, g \in Host \ met : h # g => Apart(db[h], db[g])
    /\ \A c \in Consumer : SeenApart(c)

(* Whoever has the provider_id of a report is found by it, before anybody  *)
(* else.                                                                   *)
LEMMA OwnerFound ==
  ASSUME TypeInv, ByProvider, NEW c \in Consumer, NEW r \in Report, FindInMemory(c, r) = None,
         NEW g \in Host, Visible(c, g) # None, Visible(c, g).live,
         r["provider"] # None, Visible(c, g).facts["provider"] = r["provider"]
  PROVE  LET h == FindExisting(c, r) IN h \in Host /\ Visible(c, h).facts["provider"] = r["provider"]
<1> DEFINE h == FindExisting(c, r)
<1>1. Fits(c, g, r, "provider")
  <2>1. "provider" \in ToSet(IdFacts) BY DEF ByProvider, ToSet
  <2>. QED BY <2>1 DEF Fits
<1>2. "provider" \in Fact BY DEF Fact
<1>3. h = FindInDb(c, r) BY DEF FindExisting
<1>4. PICK f \in Fact :
        /\ h \in Host /\ Fits(c, h, r, f)
        /\ \A e \in Host, k \in Fact :
             Fits(c, e, r, k) =>
               \/ \E i, j \in DOMAIN IdFacts : i < j /\ IdFacts[i] = f /\ IdFacts[j] = k
               \/ f = k /\ Visible(c, e).at <= Visible(c, h).at
  BY <1>1, <1>2, <1>3, SearchedHost
<1>5. \/ \E i, j \in DOMAIN IdFacts : i < j /\ IdFacts[i] = f /\ IdFacts[j] = "provider"
      \/ f = "provider"
  BY <1>1, <1>2, <1>4
<1>6. f = "provider" BY <1>5 DEF ByProvider
<1>7. Visible(c, h).facts["provider"] = r["provider"]
  <2>. HIDE DEF h
  <2>. QED BY <1>4, <1>6 DEF Fits
<1>. QED BY <1>4, <1>7

(* The row a report is going to write is apart from the others. *)
LEMMA WrittenApart ==
  ASSUME TypeInv, UniqueInv, ByProvider, config.batch = 1,
         NEW c \in Consumer, NEW r \in Report, AddHost(c, r),
         NEW g \in Host, g \notin met', g # todo'[c].host, todo'[c].host \notin met'
  PROVE  Owns(db[g])' => Written(c)'.facts["provider"] # db[g].facts["provider"]
<1>0. todo[c] = None /\ batch[c] = <<>> /\ \A e \in Host : txn[c][e] = None
  <2>1. todo[c] = None /\ Len(batch[c]) < 1 BY AddTodo
  <2>2. batch[c] \in Seq(Host) BY DEF TypeInv, JobTypeOK, TypeOK
  <2>3. batch[c] = <<>> BY <2>1, <2>2, SMT
  <2>. QED BY <2>1, <2>3 DEF UniqueInv, SeenApart
<1>1. \A e \in Host : Visible(c, e) = db[e] BY <1>0 DEF Visible
<1>2. FindInMemory(c, r) = None BY <1>0, FoundInMemory
<1>3. UNCHANGED <<db, txn, clock>> BY AddTodo
<1>4. \A e \in Host : Visible(c, e) # None => Object(c, e) = db[e].facts
  <2>1. \A e \in Host : objects[c][e] = None BY <1>0 DEF TypeInv, HandInv
  <2>. QED BY <1>1, <2>1 DEF Object
<1>5. SUFFICES ASSUME Owns(db[g])',
                      Written(c)'.facts["provider"] = db[g].facts["provider"]
               PROVE  FALSE
  OBVIOUS
<1>6. "provider" \in Fact BY DEF Fact
<1>7. met \subseteq met' BY DEF AddHost
<1>8. /\ db[g] # None /\ db[g].live /\ db[g].facts["provider"] # None
      /\ Owns(db[g]) /\ g \in Host \ met
  BY <1>3, <1>5, <1>7 DEF Owns
<1>9. ASSUME FindExisting(c, r) = None PROVE FALSE
  <2>1. todo'[c].creates /\ todo'[c].sets = r
    <3>1. PICK new \in Host : todo'[c] = [host |-> new, sets |-> r, report |-> r, creates |-> TRUE]
      BY <1>9, AddTodo, Facts3
    <3>. QED BY <3>1
  <2>2. Written(c)'.facts["provider"] = r["provider"] BY <1>6, <2>1 DEF Written
  <2>3. FindExisting(c, r) \in Host BY <1>1, <1>2, <1>5, <1>8, <2>2, OwnerFound
  <2>. QED BY <1>9, <2>3, Facts3
<1>10. ASSUME FindExisting(c, r) # None PROVE FALSE
  <2>1. PICK h \in Host : h = FindExisting(c, r) /\ Visible(c, h) # None BY <1>10, Found
  <2>2. PICK facts : facts = db[h].facts OBVIOUS
  <2>3. db[h] # None /\ db[h].live
    <3>1. h = FindInDb(c, r) BY <1>2, <2>1 DEF FindExisting
    <3>. QED BY <1>1, <1>10, <2>1, <3>1, FoundInDb DEF Candidates
  <2>4. PICK sets : sets = NewFacts(facts, r) OBVIOUS
  <2>5. todo'[c].host = h /\ ~todo'[c].creates /\ todo'[c].sets = sets
    <3>1. todo'[c] = [host |-> h, sets |-> sets, report |-> r, creates |-> FALSE]
      BY <1>4, <1>10, <2>1, <2>2, <2>4, AddTodo
    <3>. QED BY <3>1
  <2>6. g # h /\ h \in Host \ met BY <1>7, <2>5
  <2>7. Visible(c, h)' = db[h] BY <1>0, <1>3, <2>3 DEF Visible
  <2>8. Written(c)'.facts["provider"]
          = IF sets["provider"] # None THEN sets["provider"] ELSE facts["provider"]
    BY <1>6, <2>2, <2>5, <2>7 DEF Written
  <2>9. Apart(db[h], db[g]) BY <1>8, <2>6 DEF UniqueInv
  <2>10. facts["provider"] # db[g].facts["provider"]
    BY <1>8, <2>2, <2>3, <2>9 DEF Apart, Owns
  <2>11. sets["provider"] = IF facts["provider"] # r["provider"] THEN r["provider"] ELSE None
    BY <1>6, <2>4 DEF NewFacts
  <2>12. r["provider"] = db[g].facts["provider"] BY <1>5, <2>8, <2>10, <2>11
  <2>13. facts["provider"] = r["provider"] BY <1>1, <1>2, <1>8, <2>1, <2>2, <2>12, OwnerFound
  <2>. QED BY <2>10, <2>12, <2>13
<1>. QED BY <1>9, <1>10

LEMMA AddUnique ==
  ASSUME TypeInv, UniqueInv, ByProvider, config.batch = 1,
         NEW c \in Consumer, NEW r \in Report, AddHost(c, r)
  PROVE  UniqueInv'
<1>1. /\ UNCHANGED <<db, txn, batch, config, clock>> /\ todo[c] = None
      /\ \A d \in Consumer : d # c => todo'[d] = todo[d]
  BY AddTodo
<1>2. met \subseteq met' BY DEF AddHost
<1>3. batch[c] = <<>>
  <2>1. Len(batch[c]) < 1 BY AddTodo
  <2>2. batch[c] \in Seq(Host) BY DEF TypeInv, JobTypeOK, TypeOK
  <2>. QED BY <2>1, <2>2, SMT
<1>4. \A d \in Consumer, h \in Host : Visible(d, h)' = Visible(d, h) BY <1>1 DEF Visible
<1>6. \A h, g \in Host : h # g /\ {h, g} \cap met' = {} => Apart(db[h], db[g])'
  BY <1>1, <1>2 DEF UniqueInv, Apart, Owns
<1>7. ASSUME NEW d \in Consumer PROVE SeenApart(d)'
  <2>1. todo'[d] # None => batch'[d] = <<>> BY <1>1, <1>3 DEF UniqueInv, SeenApart
  <2>2. batch'[d] = <<>> => \A h \in Host : txn'[d][h] = None BY <1>1 DEF UniqueInv, SeenApart
  <2>3. \A h, g \in Host : h # g /\ {h, g} \cap met' = {} => Apart(Visible(d, h), Visible(d, g))'
    BY <1>2, <1>4 DEF UniqueInv, SeenApart, Apart, Owns
  <2>4. ASSUME NEW h \in Host, NEW g \in Host, h \notin met', g \notin met', h # g,
               Handles(d, h)', todo'[d].creates \/ Visible(d, h)' # None, Owns(db[g])'
        PROVE  Written(d)'.facts["provider"] # db'[g].facts["provider"]
    <3>1. CASE d = c BY <1>1, <2>4, <3>1, WrittenApart DEF Handles
    <3>2. CASE d # c
      <4>1. Handles(d, h) /\ (todo[d].creates \/ Visible(d, h) # None) /\ todo[d].host = h
        BY <1>1, <1>4, <2>4, <3>2 DEF Handles
      <4>2. Written(d)' = Written(d) BY <1>1, <1>4, <3>2, <4>1 DEF Written
      <4>3. h \in Host \ met /\ g \in Host \ met /\ Owns(db[g])
        BY <1>1, <1>2, <2>4 DEF Owns
      <4>4. Written(d).facts["provider"] # db[g].facts["provider"]
        BY <2>4, <4>1, <4>3 DEF UniqueInv, SeenApart
      <4>. QED BY <1>1, <4>2, <4>4
    <3>. QED BY <3>1, <3>2
  <2>. QED BY <2>1, <2>2, <2>3, <2>4 DEF SeenApart
<1>. QED BY <1>6, <1>7 DEF UniqueInv

LEMMA FlushUnique ==
  ASSUME TypeInv, UniqueInv, config.batch = 1, NEW c \in Consumer, FlushHost(c)
  PROVE  UniqueInv'
<1> DEFINE k == todo[c].host
           row == Written(c)
<1>1. /\ k \in Host /\ row # None /\ (todo[c].creates \/ Visible(c, k) # None)
      /\ txn' = [txn EXCEPT ![c][k] = row]
      /\ batch' = [batch EXCEPT ![c] = Append(@, k)]
      /\ todo' = [todo EXCEPT ![c] = None]
      /\ UNCHANGED <<db, config, met>>
  BY FlushWrites
<1>2. todo[c] # None /\ Handles(c, k) BY DEF FlushHost, Handles
<1>3. batch[c] = <<>> /\ \A g \in Host : txn[c][g] = None BY <1>2 DEF UniqueInv, SeenApart
<1>4. k \notin met => \A g \in Host \ met : g # k => Apart(row, db[g])
  BY <1>1, <1>2 DEF UniqueInv, SeenApart, Apart
<1>5. \A g \in Host : Visible(c, g)' = IF g = k THEN row ELSE db[g]
  BY <1>1, <1>3 DEF TypeInv, JobTypeOK, TypeOK, Visible
<1>6. todo'[c] = None /\ batch'[c] # <<>>
  <2>1. batch'[c] = Append(<<>>, k) BY <1>1, <1>3 DEF TypeInv, JobTypeOK, TypeOK
  <2>2. <<>> \in Seq(Host) /\ k \in Host /\ Len(<<>>) = 0 BY <1>1
  <2>3. Len(Append(<<>>, k)) = 1
    <3>. HIDE DEF k
    <3>. QED BY <2>2
  <2>4. batch'[c] # <<>> BY <2>1, <2>2, <2>3
  <2>. QED BY <1>1, <2>4 DEF TypeInv, JobTypeOK, TypeOK
<1>7. \A d \in Consumer : d # c => txn'[d] = txn[d] /\ todo'[d] = todo[d] /\ batch'[d] = batch[d]
  BY <1>1 DEF TypeInv, JobTypeOK, TypeOK
<1>. HIDE DEF k, row
<1>8. ASSUME NEW e \in Host \ met, NEW g \in Host \ met, e # g
      PROVE  Apart(Visible(c, e), Visible(c, g))'
  <2>1. Apart(db[e], db[g]) BY <1>8 DEF UniqueInv
  <2>2. e = k => Apart(row, db[g]) BY <1>4, <1>8
  <2>3. g = k => Apart(row, db[e]) BY <1>4, <1>8
  <2>. QED BY <1>1, <1>5, <1>8, <2>1, <2>2, <2>3 DEF Apart, Owns
<1>9. \A e, g \in Host \ met : e # g => Apart(db[e], db[g])' BY <1>1 DEF UniqueInv, Apart, Owns
<1>10. ASSUME NEW d \in Consumer PROVE SeenApart(d)'
  <2>1. CASE d = c BY <1>1, <1>6, <1>8, <2>1 DEF SeenApart, Handles
  <2>2. CASE d # c
    <3>1. SeenApart(d) BY DEF UniqueInv
    <3>2. \A h \in Host : Visible(d, h)' = Visible(d, h) BY <1>1, <1>7, <2>2 DEF Visible
    <3>3. \A h \in Host \ met : Handles(d, h)' <=> Handles(d, h) BY <1>7, <2>2 DEF Handles
    <3>4. \A h, g \in Host \ met : h # g => Apart(Visible(d, h), Visible(d, g))'
      BY <1>1, <3>1, <3>2 DEF SeenApart, Apart, Owns
    <3>5. ASSUME NEW h \in Host \ met, NEW g \in Host \ met, h # g,
                 Handles(d, h)', todo'[d].creates \/ Visible(d, h)' # None, Owns(db[g])'
          PROVE  Written(d)'.facts["provider"] # db'[g].facts["provider"]
      <4>1. Handles(d, h) /\ (todo[d].creates \/ Visible(d, h) # None) /\ todo[d].host = h
        BY <1>7, <2>2, <3>2, <3>5 DEF Handles
      <4>2. Written(d)'.facts = Written(d).facts BY <1>7, <2>2, <3>2, <4>1 DEF Written
      <4>3. Owns(db[g]) BY <1>1, <3>5 DEF Owns
      <4>. QED BY <1>1, <3>1, <3>5, <4>1, <4>2, <4>3 DEF SeenApart
    <3>. QED BY <1>1, <1>7, <2>2, <3>1, <3>4, <3>5 DEF SeenApart
  <2>. QED BY <2>1, <2>2
<1>. QED BY <1>1, <1>9, <1>10 DEF UniqueInv

(* A commit: the rows of another consumer are apart from those committed,  *)
(* for both had their provider_ids in hand.                                *)
LEMMA CommitApart ==
  ASSUME TypeInv, KeepInv, NEW c \in Consumer, NEW d \in Consumer, c # d,
         NEW h \in Host \ met, NEW g \in Host \ met,
         objects[d][h] # None, todo[c] = None, txn[c][g] # None, Owns(txn[c][g])
  PROVE  objects[d][h]["provider"] # txn[c][g].facts["provider"]
<1> DEFINE p == txn[c][g].facts["provider"]
<1>1. objects[c][g] # None BY DEF TypeInv, HandInv
<1>2. objects[c][g]["provider"] = p BY DEF KeepInv, Kept, Handles
<1>3. p \notin met \union {None} BY DEF Owns
<1>4. p \in InHand(objects[c]) BY <1>1, <1>2, <1>3 DEF InHand
<1> SUFFICES ASSUME objects[d][h]["provider"] = p PROVE FALSE OBVIOUS
<1>5. p \in InHand(objects[d]) BY <1>3 DEF InHand
<1>. HIDE DEF p
<1>. QED BY <1>3, <1>4, <1>5 DEF TypeInv, HandInv

LEMMA EndUnique ==
  ASSUME TypeInv, KeepInv, UniqueInv, config.batch = 1,
         NEW c \in Consumer, CommitBatch(c) \/ AbortBatch(c)
  PROVE  UniqueInv'
<1>1. /\ txn' = [txn EXCEPT ![c] = NoRows] /\ todo' = [todo EXCEPT ![c] = None]
      /\ batch' = [batch EXCEPT ![c] = <<>>] /\ UNCHANGED <<config, met>>
  BY DEF CommitBatch, AbortBatch, EndBatch
<1>2. /\ todo'[c] = None /\ \A h \in Host : txn'[c][h] = None
      /\ \A d \in Consumer : d # c => /\ txn'[d] = txn[d] /\ todo'[d] = todo[d]
                                       /\ batch'[d] = batch[d]
  BY <1>1 DEF TypeInv, JobTypeOK, TypeOK, NoRows
<1>3. \A h \in Host : Visible(c, h)' = db'[h] BY <1>2 DEF Visible
<1>4. \/ todo[c] = None /\ \A h \in Host : db'[h] = Visible(c, h)
      \/ \A h \in Host : db'[h] = db[h]
  BY DEF CommitBatch, AbortBatch
<1>5. ASSUME NEW h \in Host PROVE \/ db'[h] = db[h]
                                  \/ todo[c] = None /\ txn[c][h] # None /\ db'[h] = txn[c][h]
  BY <1>4 DEF Visible
<1>6. \A h, g \in Host \ met : h # g => Apart(db[h], db[g])'
  BY <1>1, <1>4 DEF UniqueInv, SeenApart, Apart, Owns
<1>7. SeenApart(c)' BY <1>1, <1>2, <1>3, <1>6 DEF SeenApart, Apart, Owns, Handles
<1>8. ASSUME NEW d \in Consumer, d # c PROVE SeenApart(d)'
  <2>1. SeenApart(d) BY DEF UniqueInv
  <2>2. ASSUME NEW h \in Host \ met, NEW g \in Host \ met, h # g, txn[d][h] # None,
               txn[d][g] = None, Owns(db'[g])
        PROVE  txn[d][h].facts["provider"] # db'[g].facts["provider"] \/ ~Owns(txn[d][h])
    <3>1. todo[d] = None BY <2>1, <2>2 DEF SeenApart
    <3>2. objects[d][h]["provider"] = txn[d][h].facts["provider"] /\ objects[d][h] # None
      BY <2>2, <3>1 DEF KeepInv, Kept, Handles, TypeInv, HandInv
    <3>3. CASE db'[g] = db[g]
      <4>1. Apart(txn[d][h], db[g]) BY <2>1, <2>2 DEF SeenApart, Visible
      <4>. QED BY <2>2, <3>3, <4>1 DEF Apart
    <3>4. CASE todo[c] = None /\ txn[c][g] # None /\ db'[g] = txn[c][g]
      BY <1>8, <2>2, <3>2, <3>4, CommitApart
    <3>. QED BY <1>5, <3>3, <3>4
  <2>3. ASSUME NEW h \in Host \ met, NEW g \in Host \ met, h # g
        PROVE  Apart(Visible(d, h), Visible(d, g))'
    <3>1. Visible(d, h)' = (IF txn[d][h] # None THEN txn[d][h] ELSE db'[h])
          /\ Visible(d, g)' = (IF txn[d][g] # None THEN txn[d][g] ELSE db'[g])
      BY <1>2, <1>8 DEF Visible
    <3>2. CASE txn[d][h] # None /\ txn[d][g] # None
      <4>1. Apart(txn[d][h], txn[d][g]) BY <2>1, <2>3, <3>2 DEF SeenApart, Visible
      <4>. QED BY <1>1, <3>1, <3>2, <4>1 DEF Apart, Owns
    <3>3. CASE txn[d][h] = None /\ txn[d][g] = None
      BY <1>1, <1>6, <2>3, <3>1, <3>3 DEF Apart, Owns
    <3>4. CASE txn[d][h] # None /\ txn[d][g] = None
      BY <1>1, <2>2, <2>3, <3>1, <3>4 DEF Apart, Owns
    <3>5. CASE txn[d][h] = None /\ txn[d][g] # None
      BY <1>1, <2>2, <2>3, <3>1, <3>5 DEF Apart, Owns
    <3>. QED BY <3>2, <3>3, <3>4, <3>5
  <2>4. ASSUME NEW h \in Host \ met, NEW g \in Host \ met, h # g,
               Handles(d, h)', todo'[d].creates \/ Visible(d, h)' # None, Owns(db[g])'
        PROVE  Written(d)'.facts["provider"] # db'[g].facts["provider"]
    <3>1. Handles(d, h) /\ todo[d].host = h BY <1>2, <1>8, <2>4 DEF Handles
    <3>2. objects[d][h] # None BY <3>1 DEF Handles, TypeInv, HandInv
    <3>3. txn[c][h] = None BY <1>8, <3>2, HandApart
    <3>4. Visible(d, h)' = Visible(d, h) BY <1>2, <1>5, <1>8, <3>3 DEF Visible
    <3>5. Written(d)'.facts = Written(d).facts BY <1>2, <1>8, <3>1, <3>4 DEF Written
    <3>6. todo[d].creates \/ Visible(d, h) # None BY <1>2, <1>8, <2>4, <3>4
    <3>7. CASE db'[g] = db[g]
      <4>1. Owns(db[g]) BY <1>1, <2>4, <3>7 DEF Owns
      <4>. QED BY <2>1, <2>4, <3>1, <3>5, <3>6, <3>7, <4>1 DEF SeenApart
    <3>8. CASE todo[c] = None /\ txn[c][g] # None /\ db'[g] = txn[c][g]
      <4>1. objects[d][h]["provider"] = Written(d).facts["provider"]
        BY <3>1, <3>6 DEF KeepInv, Kept
      <4>2. Owns(txn[c][g]) BY <1>1, <2>4, <3>8 DEF Owns
      <4>3. objects[d][h]["provider"] # txn[c][g].facts["provider"]
        BY <1>8, <3>2, <3>8, <4>2, CommitApart
      <4>. QED BY <3>5, <3>8, <4>1, <4>3
    <3>. QED BY <1>5, <3>7, <3>8
  <2>5. /\ todo'[d] # None => batch'[d] = <<>>
        /\ batch'[d] = <<>> => \A h \in Host : txn'[d][h] = None
    BY <1>2, <1>8, <2>1 DEF SeenApart
  <2>6. met' = met BY <1>1
  <2>. QED BY <2>3, <2>4, <2>5, <2>6 DEF SeenApart
<1>. QED BY <1>1, <1>6, <1>7, <1>8 DEF UniqueInv

LEMMA LossUnique ==
  ASSUME TypeInv, UniqueInv, config.batch = 1,
         UNCHANGED <<config, txn, batch, todo, clock, objects, met>>,
         \A h \in Host : \/ db'[h] = None \/ db'[h] = db[h]
                         \/ /\ db[h] # None /\ db'[h] # None
                            /\ db'[h].facts = db[h].facts /\ ~db'[h].live
  PROVE  UniqueInv'
<1>1. \A h \in Host : Owns(db[h])' => db'[h] = db[h] /\ Owns(db[h]) BY DEF Owns
<1>2. \A h, g \in Host \ met : h # g => Apart(db[h], db[g])'
  BY <1>1 DEF UniqueInv, Apart
<1>3. ASSUME NEW c \in Consumer PROVE SeenApart(c)'
  <2>0. SeenApart(c) BY DEF UniqueInv
  <2>1. \A h \in Host : Owns(Visible(c, h))' => Visible(c, h)' = Visible(c, h) /\ Owns(Visible(c, h))
    BY <1>1 DEF Visible, Owns
  <2>2. \A h, g \in Host \ met : h # g => Apart(Visible(c, h), Visible(c, g))'
    BY <2>0, <2>1 DEF SeenApart, Apart
  <2>3. ASSUME NEW h \in Host \ met, NEW g \in Host \ met, h # g,
               Handles(c, h)', todo[c].creates \/ Visible(c, h)' # None, Owns(db[g])'
        PROVE  Written(c)'.facts["provider"] # db'[g].facts["provider"]
    <3>1. Handles(c, h) /\ todo[c].host = h /\ todo' = todo BY <2>3 DEF Handles
    <3>2. todo[c].creates \/ Visible(c, h) # None BY <2>3 DEF Visible
    <3>3. todo[c].creates \/ Visible(c, h)'.facts = Visible(c, h).facts BY <2>3 DEF Visible
    <3>4. Written(c)'.facts = Written(c).facts BY <3>1, <3>3 DEF Written
    <3>5. Owns(db[g]) /\ db'[g] = db[g] BY <1>1, <2>3
    <3>. QED BY <2>0, <2>3, <3>1, <3>2, <3>4, <3>5 DEF SeenApart
  <2>4. /\ todo'[c] # None => batch'[c] = <<>>
        /\ batch'[c] = <<>> => \A h \in Host : txn'[c][h] = None
    BY <2>0 DEF SeenApart
  <2>5. met' = met /\ todo' = todo OBVIOUS
  <2>. QED BY <2>2, <2>3, <2>4, <2>5 DEF SeenApart
<1>. QED BY <1>2, <1>3 DEF UniqueInv

LEMMA UniqueStep ==
  ASSUME TypeInv, KeepInv, UniqueInv, ByProvider, [JobNext]_<<vars, jobVars>>
  PROVE  UniqueInv'
<1>0. UNCHANGED config
  BY DEF JobNext, IngestNext, AddHost, FlushHost, CommitBatch, AbortBatch, EndBatch, Cull, StartJob,
         NextChunk, DeleteBatch, FinishJob, AbortJob, Search, vars
<1>1. CASE config.batch # 1 BY <1>0, <1>1 DEF UniqueInv
<1>2. CASE config.batch = 1
  <2>1. ASSUME \/ \E h \in Host : Cull(h) \/ Search(h)
               \/ StartJob \/ NextChunk \/ DeleteBatch \/ FinishJob \/ AbortJob
               \/ UNCHANGED <<vars, jobVars>>
        PROVE  UniqueInv'
    BY <1>2, <2>1, RowsLost, LossUnique
  <2>. QED BY <1>2, <2>1, Kinds, AddUnique, FlushUnique, EndUnique
<1>. QED BY <1>1, <1>2

(* With batches of one report no two hosts that are not culled have the    *)
(* same provider_id, however reports to any number of consumers, culling   *)
(* and the job follow upon each other, unless two consumers have had it,   *)
(* or one of the hosts, at once (find_existing_host: the provider is       *)
(* searched first).                                                        *)
THEOREM UniqueCorrect ==
  ASSUME ByProvider
  PROVE  JobSpec => []ProviderUnique
<1>1. JobInit => KeepInv /\ UniqueInv
  <2>1. JobInit => KeepInv BY DEF JobInit, Init, KeepInv, Kept, Handles, NoRows
  <2>2. JobInit => UniqueInv
    BY DEF JobInit, Init, UniqueInv, SeenApart, NoRows, Apart, Owns, Visible, Handles
  <2>. QED BY <2>1, <2>2
<1>2. TypeInv /\ KeepInv /\ [JobNext]_<<vars, jobVars>> => KeepInv'
  BY KeepStep
<1>3. TypeInv /\ KeepInv /\ UniqueInv /\ [JobNext]_<<vars, jobVars>> => UniqueInv'
  BY UniqueStep
<1>4. UniqueInv => ProviderUnique
  BY DEF UniqueInv, ProviderUnique, Apart, Owns
<1>. QED BY <1>1, <1>2, <1>3, <1>4, TypeInvariant, PTL DEF JobSpec

-----------------------------------------------------------------------------
(* The rows of a host, committed or not; no two hosts have rows of one     *)
(* time, and every row has a fact.                                         *)
RowsOf(h) == {db[h]} \union {txn[c][h] : c \in Consumer}

HasFact(facts) == \E f \in Fact : facts[f] # None

OriginInv ==
  /\ \A h, g \in Host : \A x \in RowsOf(h), y \in RowsOf(g) :
       h # g /\ x # None /\ y # None => x.at # y.at
  /\ \A h \in Host : \A x \in RowsOf(h) : x # None => HasFact(x.facts)
  /\ \A c \in Consumer : todo[c] # None /\ todo[c].creates => HasFact(todo[c].sets)

LEMMA RowsOfTyped ==
  ASSUME TypeInv, NEW h \in Host, NEW x \in RowsOf(h), x # None
  PROVE  x \in Row /\ x.at \in Nat /\ x.at <= clock
BY DEF TypeInv, JobTypeOK, TypeOK, RowsInv, RowsOf, Row

(* Without a flush every row is one there was, culled perhaps. *)
LEMMA RowsOrigin ==
  ASSUME TypeInv, [JobNext]_<<vars, jobVars>>, ~ \E c \in Consumer : FlushHost(c),
         NEW h \in Host, NEW x \in RowsOf(h)', x # None
  PROVE  \E y \in RowsOf(h) : y # None /\ y.at = x.at /\ y.facts = x.facts
<1>0. /\ db \in [Host -> Row \union {None}]
      /\ txn \in [Consumer -> [Host -> Row \union {None}]]
  BY DEF TypeInv, JobTypeOK, TypeOK
<1>1. CASE \E c \in Consumer : CommitBatch(c) \/ AbortBatch(c)
  <2>1. PICK c \in Consumer : CommitBatch(c) \/ AbortBatch(c) BY <1>1
  <2>2. txn' = [txn EXCEPT ![c] = NoRows] BY <2>1 DEF CommitBatch, AbortBatch, EndBatch
  <2>3. db'[h] \in RowsOf(h) BY <2>1 DEF CommitBatch, AbortBatch, Visible, RowsOf
  <2>4. \A d \in Consumer : txn'[d][h] \in RowsOf(h) \union {None}
    BY <1>0, <2>2 DEF NoRows, RowsOf
  <2>5. x \in RowsOf(h) BY <2>3, <2>4 DEF RowsOf
  <2>. QED BY <2>5
<1>2. CASE \E g \in Host : Cull(g)
  <2>1. PICK g \in Host : Cull(g) BY <1>2
  <2>2. /\ db' = [db EXCEPT ![g].live = FALSE] /\ db[g] \in Row /\ db[g] # None
        /\ UNCHANGED txn
    BY <1>0, <2>1 DEF Cull
  <2>3. CASE h = g
    <3>1. db'[h].at = db[h].at /\ db'[h].facts = db[h].facts BY <1>0, <2>2, <2>3 DEF Row
    <3>. QED BY <2>2, <2>3, <3>1 DEF RowsOf
  <2>4. CASE h # g
    <3>1. db'[h] = db[h] BY <1>0, <2>2, <2>4
    <3>. QED BY <2>2, <3>1 DEF RowsOf
  <2>. QED BY <2>3, <2>4
<1>3. CASE DeleteBatch
  <2>1. db'[h] \in {db[h], None} /\ UNCHANGED txn BY <1>3 DEF DeleteBatch
  <2>. QED BY <2>1 DEF RowsOf
<1>4. CASE \/ \E c \in Consumer, r \in Report : AddHost(c, r)
           \/ \E g \in Host : Search(g)
           \/ StartJob \/ NextChunk \/ FinishJob \/ AbortJob \/ UNCHANGED <<vars, jobVars>>
  <2>1. UNCHANGED <<db, txn>>
    BY <1>4 DEF AddHost, Search, StartJob, NextChunk, FinishJob, AbortJob, vars
  <2>. QED BY <2>1 DEF RowsOf
<1>. QED BY <1>1, <1>2, <1>3, <1>4, Kinds

LEMMA FlushOrigin ==
  ASSUME TypeInv, OriginInv, NEW c \in Consumer, FlushHost(c)
  PROVE  OriginInv'
<1> DEFINE k == todo[c].host
           row == Written(c)
<1>0. /\ db \in [Host -> Row \union {None}] /\ clock \in Nat
      /\ txn \in [Consumer -> [Host -> Row \union {None}]]
      /\ todo \in [Consumer -> Todo \union {None}]
  BY DEF TypeInv, JobTypeOK, TypeOK
<1>1. /\ k \in Host /\ row \in Row /\ row.at = clock + 1
      /\ txn' = [txn EXCEPT ![c][k] = row] /\ todo' = [todo EXCEPT ![c] = None] /\ UNCHANGED db
  BY FlushWrites DEF Written
<1>2. HasFact(row.facts)
  <2>1. todo[c] # None BY DEF FlushHost
  <2>2. CASE todo[c].creates
    <3>1. PICK f \in Fact : todo[c].sets[f] # None BY <2>1, <2>2 DEF OriginInv, HasFact
    <3>. QED BY <2>2, <3>1 DEF Written, HasFact
  <2>3. CASE ~todo[c].creates
    <3>1. Visible(c, k) # None BY <2>3, FlushWrites
    <3>2. Visible(c, k) \in RowsOf(k) BY <1>1 DEF Visible, RowsOf
    <3>3. PICK f \in Fact : Visible(c, k).facts[f] # None BY <1>1, <3>1, <3>2 DEF OriginInv, HasFact
    <3>4. row.facts[f] = IF todo[c].sets[f] # None \/ todo[c].creates
                           THEN todo[c].sets[f] ELSE Visible(c, k).facts[f]
      BY DEF Written
    <3>. HIDE DEF row, k
    <3>. QED BY <2>3, <3>3, <3>4 DEF HasFact
  <2>. QED BY <2>2, <2>3
<1>. HIDE DEF k, row
<1>3. ASSUME NEW h \in Host, NEW x \in RowsOf(h)'
      PROVE  x \in RowsOf(h) \/ (h = k /\ x = row)
  BY <1>0, <1>1 DEF RowsOf
<1>4. ASSUME NEW h \in Host, NEW g \in Host, NEW x \in RowsOf(h)', NEW y \in RowsOf(g)',
             h # g, x # None, y # None
      PROVE  x.at # y.at
  <2>1. CASE x \in RowsOf(h) /\ y \in RowsOf(g) BY <1>4, <2>1 DEF OriginInv
  <2>2. CASE h = k /\ x = row /\ y \in RowsOf(g)
    <3>1. y.at \in Nat /\ y.at <= clock BY <1>4, <2>2, RowsOfTyped
    <3>. QED BY <1>0, <1>1, <2>2, <3>1
  <2>3. CASE g = k /\ y = row /\ x \in RowsOf(h)
    <3>1. x.at \in Nat /\ x.at <= clock BY <1>4, <2>3, RowsOfTyped
    <3>. QED BY <1>0, <1>1, <2>3, <3>1
  <2>. QED BY <1>3, <1>4, <2>1, <2>2, <2>3
<1>5. ASSUME NEW h \in Host, NEW x \in RowsOf(h)', x # None PROVE HasFact(x.facts)
  BY <1>2, <1>3, <1>5 DEF OriginInv
<1>6. ASSUME NEW d \in Consumer, todo'[d] # None, todo'[d].creates PROVE HasFact(todo'[d].sets)
  <2>1. todo'[d] = todo[d] BY <1>0, <1>1, <1>6
  <2>. QED BY <1>6, <2>1 DEF OriginInv
<1>. QED BY <1>4, <1>5, <1>6 DEF OriginInv, HasFact

LEMMA OriginStep ==
  ASSUME TypeInv, OriginInv, [JobNext]_<<vars, jobVars>>
  PROVE  OriginInv'
<1>1. CASE \E c \in Consumer : FlushHost(c) BY <1>1, FlushOrigin
<1>2. CASE ~ \E c \in Consumer : FlushHost(c)
  <2>1. ASSUME NEW h \in Host, NEW g \in Host, NEW x \in RowsOf(h)', NEW y \in RowsOf(g)',
               h # g, x # None, y # None
        PROVE  x.at # y.at
    <3>1. PICK u \in RowsOf(h) : u # None /\ u.at = x.at BY <1>2, <2>1, RowsOrigin
    <3>2. PICK v \in RowsOf(g) : v # None /\ v.at = y.at BY <1>2, <2>1, RowsOrigin
    <3>. QED BY <2>1, <3>1, <3>2 DEF OriginInv
  <2>2. ASSUME NEW h \in Host, NEW x \in RowsOf(h)', x # None PROVE HasFact(x.facts)
    <3>1. PICK u \in RowsOf(h) : u # None /\ u.facts = x.facts BY <1>2, <2>2, RowsOrigin
    <3>2. HasFact(u.facts) BY <3>1 DEF OriginInv
    <3>. QED BY <3>1, <3>2
  <2>3. ASSUME NEW c \in Consumer, todo'[c] # None, todo'[c].creates PROVE HasFact(todo'[c].sets)
    <3>0. todo \in [Consumer -> Todo \union {None}] BY DEF TypeInv, JobTypeOK, TypeOK
    <3>1. ASSUME NEW d \in Consumer, NEW r \in Report, AddHost(d, r) PROVE HasFact(todo'[c].sets)
      <4>1. CASE d # c
        <5>1. todo'[c] = todo[c] BY <3>1, <4>1, AddTodo
        <5>. QED BY <2>3, <5>1 DEF OriginInv
      <4>2. CASE d = c
        <5>1. todo'[c].sets = r
          <6>1. PICK h \in Host : \E sets \in {r, NewFacts(Object(c, h), r)}, b \in BOOLEAN :
                  /\ todo'[c] = [host |-> h, sets |-> sets, report |-> r, creates |-> b]
                  /\ b => sets = r
            BY <3>1, <4>2, AddTodo
          <6>. QED BY <2>3, <6>1
        <5>2. HasFact(r) BY DEF Report, HasFact
        <5>. QED BY <5>1, <5>2
      <4>. QED BY <4>1, <4>2
    <3>2. ASSUME todo'[c] = todo[c] PROVE HasFact(todo'[c].sets) BY <2>3, <3>2 DEF OriginInv
    <3>3. ASSUME NEW d \in Consumer, CommitBatch(d) \/ AbortBatch(d) PROVE todo'[c] = todo[c]
      <4>1. todo' = [todo EXCEPT ![d] = None] BY <3>3 DEF CommitBatch, AbortBatch, EndBatch
      <4>. QED BY <2>3, <3>0, <4>1
    <3>4. CASE \/ \E h \in Host : Cull(h) \/ Search(h)
               \/ StartJob \/ NextChunk \/ DeleteBatch \/ FinishJob \/ AbortJob
               \/ UNCHANGED <<vars, jobVars>>
      BY <3>2, <3>4, RowsLost
    <3>. QED BY <1>2, <3>1, <3>2, <3>3, <3>4, Kinds
  <2>. QED BY <2>1, <2>2, <2>3 DEF OriginInv, HasFact
<1>. QED BY <1>1, <1>2

LEMMA OriginInit == JobInit => OriginInv
BY DEF JobInit, Init, OriginInv, RowsOf, NoRows

(* The search for the matches of a host by the facts it has finds it by    *)
(* its strongest fact, whatever others are there: deletions only take      *)
(* hosts away from what it finds.                                          *)
LEMMA SameMatches ==
  ASSUME ByProvider, NEW rows, NEW less, NEW h \in Host, less[h] = rows[h], rows[h] # None,
         \A g \in Host : less[g] \in {None, rows[g]}, HasFact(rows[h].facts)
  PROVE  LET r == rows[h].facts IN
           /\ Matching(less, r) = {g \in Matching(rows, r) : less[g] # None}
           /\ h \in Matching(less, r)
<1> DEFINE r == rows[h].facts
<1>1. PICK n \in Keys(r) : TRUE
  <2>1. PICK f \in Fact : r[f] # None BY DEF HasFact
  <2>2. DOMAIN IdFacts = 1..3 /\ \E i \in 1..3 : IdFacts[i] = f BY <2>1 DEF ByProvider, Fact
  <2>. QED BY <2>1, <2>2 DEF Keys
<1>2. ASSUME NEW i \in Keys(r) PROVE h \in By(rows, r, i) /\ h \in By(less, r, i)
  <2>1. IdFacts[i] \in Together(r, IdFacts[i]) BY Facts3 DEF Keys, Together
  <2>2. Matches(rows[h].facts, r, IdFacts[i]) BY <2>1 DEF Matches, Disagrees
  <2>. QED BY <2>2 DEF By
<1>3. \A i \in Keys(r) : By(less, r, i) = {g \in By(rows, r, i) : less[g] # None}
  BY DEF By
<1>4. PICK i \in Keys(r) : /\ Matching(rows, r) = By(rows, r, i)
                           /\ \A j \in Keys(r) : By(rows, r, j) # {} => i <= j
  BY <1>1, <1>2, MatchingByKey
<1>5. PICK j \in Keys(r) : /\ Matching(less, r) = By(less, r, j)
                           /\ \A k \in Keys(r) : By(less, r, k) # {} => j <= k
  BY <1>1, <1>2, MatchingByKey
<1>6. i = j BY <1>2, <1>4, <1>5, Facts3 DEF Keys
<1>. QED BY <1>2, <1>3, <1>4, <1>5, <1>6

(* The matches of a host that are newer, at the start of the job. *)
Newer(h) ==
  {g \in Host : \E k \in Host :
     /\ None \notin {before[h], before[g], before[k]}
     /\ {h, g} \subseteq Matching(before, before[k].facts)
     /\ before[g].at > before[h].at}

BeforeInv ==
  /\ \A h \in Host : before[h] # None => before[h].at <= clock /\ HasFact(before[h].facts)
  /\ \A h, g \in Host : h # g /\ None \notin {before[h], before[g]} => before[h].at # before[g].at

(* While nobody else commits: the hosts searched for have no other match   *)
(* left but those marked, unless they are marked themselves, and whoever   *)
(* is marked or gone has a newer match.                                    *)
RunInv ==
  /\ \A h \in Host : db[h] \in {None, before[h]}
  /\ \A h \in DOMAIN chunk : before[h] # None /\ db[h] = before[h] /\ chunk[h] = before[h].facts
  /\ \A h \in scanned \ DOMAIN chunk :
       db[h] # None =>
         \/ h \in marked
         \/ \A g \in Matching(before, before[h].facts) : g = h \/ db[g] = None \/ g \in marked
  /\ \A h \in Host : before[h] # None /\ (db[h] = None \/ h \in marked) => Newer(h) # {}

JobInv ==
  /\ pc = "idle" => chunk = <<>> /\ marked = {} /\ scanned = {}
  /\ BeforeInv
  /\ quiet /\ pc # "idle" => RunInv
  /\ quiet /\ pc = "done" => marked = {} /\ chunk = <<>> /\ Hosts \subseteq scanned

LEMMA MatchesStay ==
  ASSUME UNCHANGED <<config, before>>
  PROVE  /\ \A h \in Host : Matching(before, before[h].facts)' = Matching(before, before[h].facts)
         /\ \A h \in Host : Newer(h)' = Newer(h)
<1>1. ASSUME NEW h \in Host
      PROVE  Matching(before, before[h].facts)' = Matching(before, before[h].facts)
  BY DEF Matching, Matches, Together, Disagrees, Keys
<1>. QED BY <1>1 DEF Newer

LEMMA NothingInChunk == chunk = <<>> => DOMAIN chunk = {}
OBVIOUS

LEMMA BeforeStep ==
  ASSUME TypeInv, OriginInv, BeforeInv, [JobNext]_<<vars, jobVars>>
  PROVE  BeforeInv'
<1>0. before \in [Host -> Row \union {None}] /\ clock \in Nat
  BY DEF TypeInv, JobTypeOK, TypeOK
<1>1. CASE StartJob
  <2>1. before' = db /\ clock' = clock BY <1>1 DEF StartJob, vars
  <2>2. \A h \in Host : db[h] \in RowsOf(h) BY DEF RowsOf
  <2>3. \A h \in Host : db[h] # None => db[h].at <= clock BY DEF TypeInv, RowsInv
  <2>. QED BY <2>1, <2>2, <2>3 DEF OriginInv, BeforeInv, HasFact
<1>2. CASE AbortJob BY <1>2 DEF AbortJob, BeforeInv, NoRows
<1>3. CASE ~StartJob /\ ~AbortJob
  <2>1. before' = before
    BY <1>3 DEF JobNext, NextChunk, DeleteBatch, FinishJob, Search, jobVars
  <2>2. clock' \in {clock, clock + 1}
    BY <1>3 DEF JobNext, IngestNext, AddHost, FlushHost, CommitBatch, AbortBatch, EndBatch, Cull,
                NextChunk, DeleteBatch, FinishJob, Search, vars
  <2>3. \A h \in Host : before[h] # None => before[h].at \in Nat BY <1>0 DEF Row
  <2>. QED BY <1>0, <2>1, <2>2, <2>3 DEF BeforeInv, HasFact
<1>. QED BY <1>1, <1>2, <1>3

(* What a search marks. *)
LEMMA SearchRuns ==
  ASSUME TypeInv, BeforeInv, RunInv, ByProvider, NEW h \in Host, Search(h)
  PROVE  RunInv'
<1>0. before \in [Host -> Row \union {None}] BY DEF TypeInv, JobTypeOK
<1>1. /\ h \in DOMAIN chunk /\ UNCHANGED <<db, config, before, scanned>>
      /\ marked' = marked \union Older(db, Matching(db, chunk[h]))
      /\ DOMAIN chunk' = DOMAIN chunk \ {h}
      /\ \A g \in DOMAIN chunk \ {h} : chunk'[g] = chunk[g]
  BY DEF Search, vars
<1> DEFINE all  == Matching(before, before[h].facts)
           left == Matching(db, before[h].facts)
<1>2. /\ before[h] # None /\ db[h] = before[h] /\ chunk[h] = before[h].facts
      /\ \A g \in Host : db[g] \in {None, before[g]}
  BY <1>1 DEF RunInv
<1>3. left = {g \in all : db[g] # None} /\ h \in left
  BY <1>2, SameMatches DEF BeforeInv
<1>4. all \subseteq Host BY MatchingHosts
<1>5. marked' = marked \union {g \in left : \E k \in left : db[k].at > db[g].at}
  BY <1>1, <1>2 DEF Older
<1>6. \A g \in left : g \in Host /\ g \in all /\ db[g] = before[g] /\ before[g] # None /\ db[g].at \in Nat
  BY <1>0, <1>2, <1>3, <1>4 DEF Row
<1>7. h \in marked' \/ \A g \in all : g = h \/ db[g] = None \/ g \in marked'
  <2>1. CASE \E k \in left : db[k].at > db[h].at BY <1>3, <1>5, <2>1
  <2>2. CASE ~ \E k \in left : db[k].at > db[h].at
    <3>1. ASSUME NEW g \in left, g # h PROVE g \in marked'
      <4>1. db[g].at # db[h].at BY <1>2, <1>3, <1>6, <3>1 DEF BeforeInv
      <4>2. db[h].at > db[g].at BY <1>3, <1>6, <2>2, <4>1
      <4>. QED BY <1>3, <1>5, <4>2
    <3>. QED BY <1>3, <3>1
  <2>. QED BY <2>1, <2>2
<1>8. ASSUME NEW g \in Host, g \in marked', g \notin marked PROVE Newer(g) # {}
  <2>1. PICK k \in left : g \in left /\ db[k].at > db[g].at BY <1>5, <1>8
  <2>2. k \in Newer(g) BY <1>2, <1>6, <2>1 DEF Newer
  <2>. QED BY <2>2
<1>9. marked \subseteq marked' BY <1>5
<1>10. /\ \A g \in Host : Matching(before, before[g].facts)' = Matching(before, before[g].facts)
       /\ \A g \in Host : Newer(g)' = Newer(g)
  BY <1>1, MatchesStay
<1>11. scanned \subseteq Host BY DEF TypeInv, JobTypeOK
<1>. HIDE DEF all, left
<1>12. \A g \in Host : db'[g] \in {None, before'[g]} BY <1>1, <1>2
<1>13. \A g \in DOMAIN chunk' :
         before'[g] # None /\ db'[g] = before'[g] /\ chunk'[g] = before'[g].facts
  BY <1>1 DEF RunInv
<1>14. ASSUME NEW g \in scanned' \ DOMAIN chunk', db'[g] # None
       PROVE  \/ g \in marked'
              \/ \A k \in Matching(before, before[g].facts) : k = g \/ db[k] = None \/ k \in marked'
  <2>1. CASE g = h BY <1>7, <2>1 DEF all
  <2>2. CASE g # h
    <3>1. g \in scanned \ DOMAIN chunk /\ db[g] # None BY <1>1, <1>14, <2>2
    <3>. QED BY <1>9, <3>1 DEF RunInv
  <2>. QED BY <2>1, <2>2
<1>15. \A g \in Host : before[g] # None /\ (db[g] = None \/ g \in marked') => Newer(g) # {}
  BY <1>8 DEF RunInv
<1>. QED BY <1>1, <1>10, <1>11, <1>12, <1>13, <1>14, <1>15 DEF RunInv

LEMMA JobInvInit == JobInit => JobInv
BY DEF JobInit, JobInv, BeforeInv, NoRows

LEMMA JobInvStep ==
  ASSUME TypeInv, OriginInv, JobInv, ByProvider, [JobNext]_<<vars, jobVars>>
  PROVE  JobInv'
<1>0. /\ BeforeInv' /\ scanned \subseteq Host /\ marked \subseteq Host
      /\ pc \in {"idle", "scan", "done"}
      /\ db \in [Host -> Row \union {None}] /\ DOMAIN chunk \subseteq scanned
  BY BeforeStep DEF JobInv, TypeInv, JobTypeOK, TypeOK
<1>1. CASE StartJob
  <2>1. /\ before' = db /\ UNCHANGED <<db, config, chunk, marked, scanned>>
        /\ pc = "idle" /\ pc' = "scan"
    BY <1>1 DEF StartJob, vars
  <2>2. chunk = <<>> /\ marked = {} /\ scanned = {} BY <2>1 DEF JobInv
  <2>3. RunInv' BY <2>1, <2>2, NothingInChunk DEF RunInv
  <2>. QED BY <1>0, <2>1, <2>3 DEF JobInv
<1>2. CASE AbortJob BY <1>0, <1>2 DEF AbortJob, JobInv
<1>3. CASE FinishJob
  <2>1. /\ UNCHANGED <<db, config, chunk, marked, scanned, before, quiet>>
        /\ pc = "scan" /\ pc' = "done" /\ chunk = <<>> /\ marked = {}
        /\ \A h \in Hosts \ scanned : before[h] = None
    BY <1>3 DEF FinishJob, vars
  <2>2. quiet => RunInv /\ RunInv'
    <3>1. quiet => RunInv BY <2>1 DEF JobInv
    <3>2. RunInv => RunInv' BY <1>0, <2>1, MatchesStay DEF RunInv
    <3>. QED BY <3>1, <3>2
  <2>3. quiet => Hosts \subseteq scanned BY <2>1, <2>2 DEF RunInv, Hosts
  <2>4. Hosts' = Hosts BY <2>1 DEF Hosts
  <2>. QED BY <1>0, <2>1, <2>2, <2>3, <2>4 DEF JobInv
<1>4. CASE NextChunk
  <2>1. /\ UNCHANGED <<db, config, pc, marked, before, quiet>>
        /\ pc = "scan" /\ chunk = <<>> /\ marked = {}
    BY <1>4 DEF NextChunk, vars
  <2>2. PICK s \in SUBSET (Hosts \ scanned) : /\ chunk' = [h \in s |-> db[h].facts]
                                              /\ scanned' = scanned \union s
    BY <1>4 DEF NextChunk
  <2>3. quiet => RunInv'
    <3>. SUFFICES ASSUME quiet PROVE RunInv' OBVIOUS
    <3>1. RunInv BY <2>1 DEF JobInv
    <3>2. DOMAIN chunk' = s /\ \A h \in s : chunk'[h] = db[h].facts BY <2>2
    <3>3. scanned' \ DOMAIN chunk' \subseteq scanned \ DOMAIN chunk
      BY <2>1, <2>2, <3>2, NothingInChunk
    <3>4. \A h \in s : h \in Host /\ db[h] # None BY DEF Hosts
    <3>. QED BY <1>0, <2>1, <3>1, <3>2, <3>3, <3>4, MatchesStay DEF RunInv
  <2>. QED BY <1>0, <2>1, <2>3 DEF JobInv
<1>5. CASE DeleteBatch
  <2>1. /\ UNCHANGED <<config, pc, chunk, scanned, before, quiet>> /\ chunk = <<>> /\ marked # {}
    BY <1>5 DEF DeleteBatch
  <2>2. PICK s \in SUBSET marked : /\ db' = [h \in Host |-> IF h \in s THEN None ELSE db[h]]
                                   /\ marked' = marked \ s
    BY <1>5 DEF DeleteBatch
  <2>3. quiet => RunInv'
    <3>. SUFFICES ASSUME quiet PROVE RunInv' OBVIOUS
    <3>1. RunInv BY <2>1 DEF JobInv
    <3>2. DOMAIN chunk = {} BY <2>1, NothingInChunk
    <3>3. \A h \in Host : db'[h] = IF h \in s THEN None ELSE db[h] BY <2>2
    <3>4. \A h \in Host : Matching(before, before[h].facts) \subseteq Host BY MatchingHosts
    <3>. QED BY <1>0, <2>1, <2>2, <3>1, <3>2, <3>3, <3>4, MatchesStay DEF RunInv
  <2>4. pc # "idle" /\ ~(quiet /\ pc = "done") BY <2>1 DEF JobInv
  <2>. QED BY <1>0, <2>1, <2>3, <2>4 DEF JobInv
<1>6. CASE \E h \in Host : Search(h)
  <2>1. PICK h \in Host : Search(h) BY <1>6
  <2>2. /\ UNCHANGED <<pc, quiet>> /\ h \in DOMAIN chunk BY <2>1 DEF Search
  <2>3. DOMAIN chunk # {} /\ chunk # <<>> BY <2>2, NothingInChunk
  <2>4. quiet /\ pc # "idle" => RunInv' BY <2>1, SearchRuns DEF JobInv
  <2>. QED BY <1>0, <2>2, <2>3, <2>4 DEF JobInv
<1>7. CASE \E c \in Consumer : CommitBatch(c) /\ quiet' = (pc = "idle")
                               /\ pc # "done" /\ UNCHANGED <<pc, chunk, marked, scanned, before>>
  BY <1>0, <1>7 DEF JobInv
<1>8. CASE (IngestNext \/ UNCHANGED vars) /\ UNCHANGED jobVars
  <2>1. CASE pc = "idle" BY <1>0, <1>8, <2>1 DEF JobInv, jobVars
  <2>2. CASE pc # "idle"
    <3>1. UNCHANGED <<db, config>>
      BY <1>8, <2>2 DEF IngestNext, AddHost, FlushHost, AbortBatch, EndBatch, vars
    <3>2. UNCHANGED <<pc, chunk, marked, scanned, before, quiet>> BY <1>8 DEF jobVars
    <3>3. RunInv => RunInv' BY <1>0, <3>1, <3>2, MatchesStay DEF RunInv
    <3>4. Hosts' = Hosts BY <3>1 DEF Hosts
    <3>. QED BY <1>0, <2>2, <3>2, <3>3, <3>4 DEF JobInv
  <2>. QED BY <2>1, <2>2
<1>. QED BY <1>1, <1>2, <1>3, <1>4, <1>5, <1>6, <1>7, <1>8 DEF JobNext

(* The run is over: no host left has another match, and the newest of a    *)
(* set closed under newer matches is there.                                *)
LEMMA GoneIn == TypeInv /\ JobInv /\ ByProvider => DuplicatesGone
<1> SUFFICES ASSUME TypeInv, JobInv, ByProvider, pc = "done", quiet
             PROVE  /\ \A h \in Hosts : Matching(db, db[h].facts) = {h}
                    /\ \A h \in Host, s \in SUBSET Host :
                         /\ before[h] # None /\ h \in s
                         /\ \A g \in s : Newer(g) \subseteq s
                         => s \cap Hosts # {}
  BY DEF DuplicatesGone, Newer
<1>0. /\ before \in [Host -> Row \union {None}] /\ clock \in Nat
      /\ db \in [Host -> Row \union {None}]
  BY DEF TypeInv, JobTypeOK, TypeOK
<1>1. /\ RunInv /\ BeforeInv /\ marked = {} /\ DOMAIN chunk = {} /\ Hosts \subseteq scanned
  BY NothingInChunk DEF JobInv
<1>2. ASSUME NEW h \in Hosts PROVE Matching(db, db[h].facts) = {h}
  <2>1. h \in Host /\ db[h] # None /\ db[h] = before[h] BY <1>1 DEF Hosts, RunInv
  <2>2. /\ Matching(db, before[h].facts) = {g \in Matching(before, before[h].facts) : db[g] # None}
        /\ h \in Matching(db, before[h].facts)
    BY <1>1, <2>1, SameMatches DEF RunInv, BeforeInv
  <2>3. \A g \in Matching(before, before[h].facts) : g = h \/ db[g] = None
    BY <1>1, <2>1 DEF RunInv
  <2>. QED BY <2>1, <2>2, <2>3
<1>3. ASSUME NEW h \in Host, NEW s \in SUBSET Host, before[h] # None, h \in s,
             \A g \in s : Newer(g) \subseteq s, s \cap Hosts = {}
      PROVE  FALSE
  <2> DEFINE T  == {g \in s : before[g] # None}
             at == [g \in T |-> before[g].at]
  <2>1. T # {} /\ at \in [T -> Nat] /\ \A g \in T : at[g] <= clock
    BY <1>0, <1>1, <1>3 DEF Row, BeforeInv
  <2>2. PICK x \in T : \A y \in T : at[y] <= at[x] BY <1>0, <2>1, NewestExists
  <2>3. db[x] = None BY <1>3 DEF Hosts
  <2>4. Newer(x) # {} BY <1>1, <1>3, <2>2, <2>3 DEF RunInv
  <2>5. PICK y : y \in Newer(x) BY <2>4
  <2>6. y \in T /\ before[y].at > before[x].at BY <1>3, <2>2, <2>5 DEF Newer
  <2>7. before[x].at \in Nat /\ before[y].at \in Nat BY <1>0, <2>2, <2>6 DEF Row
  <2>8. at[x] = before[x].at /\ at[y] = before[y].at BY <2>2, <2>6
  <2>9. before[y].at <= before[x].at BY <2>2, <2>6, <2>8
  <2>. QED BY <2>6, <2>7, <2>9
<1>. QED BY <1>2, <1>3

(* Nothing is left to delete after a run of the job, and whoever it        *)
(* deleted has a newer host left, through a chain of matches: for any      *)
(* number of hosts, values, consumers and any size of its chunks           *)
(* (jobs/host_delete_duplicates.py).                                       *)
THEOREM DuplicatesCorrect ==
  ASSUME ByProvider
  PROVE  JobSpec => []DuplicatesGone
<1>1. JobInit => OriginInv /\ JobInv BY OriginInit, JobInvInit
<1>2. TypeInv /\ (OriginInv /\ JobInv) /\ [JobNext]_<<vars, jobVars>> => (OriginInv /\ JobInv)'
  BY OriginStep, JobInvStep
<1>3. TypeInv /\ (OriginInv /\ JobInv) => DuplicatesGone BY GoneIn
<1>. QED BY <1>1, <1>2, <1>3, TypeInvariant, PTL DEF JobSpec
=============================================================================
