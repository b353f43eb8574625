-------------------------- MODULE HostEvents_proofs --------------------------
(***************************************************************************)
(* Invariants of HostEvents, for any consumers, requests and deletions,    *)
(* and of HostUpdate, for any reporters, names, tags and sequences of      *)
(* reports: what is said of a host, and what the host is then.             *)
(***************************************************************************)
EXTENDS HostEvents, HostUpdate, FiniteSetTheorems, TLAPS

(* The inductive invariant: who holds the lock and what the deletion that  *)
(* holds it has announced; what an updater is about to announce; that a    *)
(* rebuilder runs when the host is gone.                                   *)
LockInv ==
  /\ lock \in Updater => present
  /\ \A p \in Remover : pc[p] \in {"publish", "commit"} => lock = p
  /\ \A p \in Remover : pc[p] = "commit" => Told("delete", version)
HeldInv == \A p \in Updater : pc[p] \in {"check", "publish"} => held[p] \in 1..version
CursorInv == cursor # None => ~present

Inv == /\ TypeOK /\ LockInv /\ HeldInv /\ CursorInv
       /\ GoneIsAnnounced /\ EventsOfCommitted /\ RebuildRepairs

(* What a step that publishes nothing keeps. *)
Kept ==
  /\ TypeOK' /\ LockInv' /\ HeldInv'
  /\ present' => present
  /\ ~present => version' = version
  /\ version' >= version /\ version' \in Nat
  /\ ~present' => Told("delete", version')

LEMMA ProcFacts ==
  /\ Updater \subseteq Proc /\ Remover \subseteq Proc /\ Updater \cap Remover = {}
  /\ Ingester \subseteq Updater /\ Deleter \subseteq Remover
  /\ None \notin Proc /\ MaxVersion \in Nat /\ MaxVersion > 0 /\ MaxFails \in Nat
  /\ MaxRetries \in Nat \ {0}
BY EventsAssumption DEF Updater, Remover, Proc

LEMMA InitInv == Init => Inv
<1> SUFFICES ASSUME Init PROVE Inv OBVIOUS
<1> USE DEF Init
<1>1. TypeOK BY ProcFacts DEF TypeOK
<1>2. LockInv BY ProcFacts DEF LockInv
<1>3. HeldInv BY ProcFacts DEF HeldInv
<1>4. EventsOfCommitted BY DEF EventsOfCommitted, ToSet
<1>. QED BY <1>1, <1>2, <1>3, <1>4 DEF Inv, CursorInv, GoneIsAnnounced, RebuildRepairs

(* The topic only grows, by one event at most, at its end. *)
LEMMA Published ==
  ASSUME TypeOK, NEW type \in {"updated", "delete"}, NEW v \in 1..MaxVersion, Publish(type, v)
  PROVE  /\ events' \in Seq(Event) /\ failed' \subseteq Event
         /\ Len(events') >= Len(events) /\ \A i \in 1..Len(events) : events'[i] = events[i]
         /\ failed \subseteq failed'
         /\ \A e \in ToSet(events') : e \in ToSet(events) \/ e = [type |-> type, version |-> v]
         /\ ToSet(events) \subseteq ToSet(events')
         /\ [type |-> type, version |-> v] \in ToSet(events') \union failed'
         /\ \/ [type |-> type, version |-> v] \in failed'
            \/ Len(events') = Len(events) + 1
               /\ events'[Len(events')] = [type |-> type, version |-> v]
<1> DEFINE e == [type |-> type, version |-> v]
<1>1. e \in Event /\ events \in Seq(Event) /\ failed \subseteq Event BY DEF Event, TypeOK
<1>2. CASE events' = Append(events, e) /\ UNCHANGED failed
  <2>1. Len(events') = Len(events) + 1 /\ DOMAIN events' = 1..(Len(events) + 1)
        /\ DOMAIN events = 1..Len(events) /\ Len(events) \in Nat
    BY <1>1, <1>2
  <2>2. events'[Len(events) + 1] = e /\ \A i \in 1..Len(events) : events'[i] = events[i]
    BY <1>1, <1>2
  <2>3. events' \in Seq(Event) BY <1>1, <1>2
  <2>. QED BY <1>1, <1>2, <2>1, <2>2, <2>3 DEF ToSet
<1>3. CASE failed' = failed \union {e} /\ UNCHANGED events
  BY <1>1, <1>3
<1>. QED BY <1>2, <1>3 DEF Publish

(* What the growth of the topic keeps. *)
LEMMA ToldKept ==
  ASSUME NEW type, NEW v, Told(type, v),
         ToSet(events) \subseteq ToSet(events'), failed \subseteq failed'
  PROVE  \E e \in ToSet(events') \union failed' : e.type = type /\ e.version >= v
BY DEF Told

LEMMA RepairKept ==
  ASSUME Inv, NEW i \in 1..cursor, cursor # None,
         Len(events') \in Nat, Len(events') >= Len(events),
         \A k \in 1..Len(events) : events'[k] = events[k],
         failed \subseteq failed'
  PROVE  \/ events'[i].type = "delete"
         \/ \E j \in i..Len(events') : events'[j].type = "delete"
         \/ \E e \in failed' : e.type = "delete" /\ e.version = events'[i].version
<1>1. cursor \in Nat /\ cursor <= Len(events) /\ Len(events) \in Nat
  BY DEF Inv, TypeOK
<1>2. events'[i] = events[i] BY <1>1
<1>3. \A j \in i..Len(events) : events'[j] = events[j] /\ j \in i..Len(events') BY <1>1
<1>. QED BY <1>2, <1>3 DEF Inv, RebuildRepairs

(* A batch replayed or given up. *)
LEMMA AgainType ==
  ASSUME TypeOK, NEW i \in Ingester, Again(i)
  PROVE  /\ tries' \in [Ingester -> 1..MaxRetries] /\ dropped' \subseteq Ingester
         /\ pc'[i] \in {"start", "done"} /\ pc' = [pc EXCEPT ![i] = pc'[i]]
<1>1. i \in Proc /\ MaxRetries \in Nat \ {0} BY ProcFacts
<1>2. CASE tries[i] < MaxRetries
  <2>1. tries[i] + 1 \in 1..MaxRetries BY <1>1, <1>2 DEF TypeOK
  <2>. QED BY <1>1, <1>2, <2>1 DEF Again, Goes, TypeOK
<1>3. CASE ~(tries[i] < MaxRetries)
  BY <1>1, <1>3 DEF Again, Goes, TypeOK
<1>. QED BY <1>2, <1>3

(* The steps of updaters and removers, their failures and the culling:     *)
(* those that do not publish.                                              *)
LEMMA QuietKeeps ==
  ASSUME Inv, UNCHANGED <<events, failed, cursor>>,
         Cull \/ \E p \in Proc : \/ p \in Updater /\ (FindHost(p) \/ WriteHost(p) \/ CommitHost(p) \/ CheckExists(p))
                                 \/ SelectHost(p) \/ FlushDelete(p) \/ CommitDelete(p)
                                 \/ Refuse(p) \/ Retry(p) \/ Fail(p)
  PROVE  Inv'
<1> USE ProcFacts
<1>0. /\ pc \in [Proc -> {"start", "write", "commit", "check", "publish", "done"}]
      /\ held \in [Proc -> 0..MaxVersion] /\ lock \in Proc \union {None}
      /\ version \in 1..MaxVersion /\ version \in Nat /\ fails \in 0..MaxFails
      /\ present \in BOOLEAN /\ culled \in BOOLEAN
  BY DEF Inv, TypeOK
<1>1. Kept
  <2>1. CASE Cull
    <3>1. UNCHANGED <<present, version, lock, pc, held, attempts, fails>> /\ culled' \in BOOLEAN
      BY <2>1 DEF Cull
    <3>. QED BY <1>0, <3>1 DEF Inv, TypeOK, LockInv, HeldInv, Told, GoneIsAnnounced, Kept, attempts
  <2>2. ASSUME NEW p \in Updater, FindHost(p) \/ CheckExists(p)
        PROVE  Kept
    <3>1. UNCHANGED <<present, version, lock, culled, held, tries, dropped, fails>>
      BY <2>2 DEF FindHost, CheckExists, row, attempts
    <3>2. /\ pc'[p] \in {"write", "done", "publish"} /\ pc' = [pc EXCEPT ![p] = pc'[p]]
          /\ pc'[p] = "publish" => pc[p] = "check"
      BY <1>0, <2>2 DEF FindHost, CheckExists, Goes
    <3>3. TypeOK' BY <1>0, <3>1, <3>2 DEF Inv, TypeOK
    <3>4. LockInv' BY <1>0, <3>1, <3>2 DEF Inv, LockInv, Told
    <3>5. HeldInv' BY <1>0, <3>1, <3>2 DEF Inv, HeldInv
    <3>. QED BY <1>0, <3>1, <3>3, <3>4, <3>5 DEF Inv, GoneIsAnnounced, Kept
  <2>3. ASSUME NEW p \in Updater, WriteHost(p)
        PROVE  Kept
    <3>1. UNCHANGED <<present, version, culled, held, fails>> /\ lock = None
      BY <2>3 DEF WriteHost
    <3>2. /\ pc'[p] \in {"commit", "start", "done"} /\ pc' = [pc EXCEPT ![p] = pc'[p]]
          /\ lock' \in {lock, p} /\ (lock' = p => present)
          /\ tries' \in [Ingester -> 1..MaxRetries] /\ dropped' \subseteq Ingester
      <4>1. CASE present
        BY <1>0, <2>3, <4>1 DEF WriteHost, Goes, attempts, Inv, TypeOK
      <4>2. CASE ~present /\ p \in Ingester
        BY <1>0, <2>3, <4>2, AgainType DEF WriteHost, Inv
      <4>3. CASE ~present /\ p \notin Ingester
        BY <1>0, <2>3, <4>3 DEF WriteHost, Goes, attempts, Inv, TypeOK
      <4>. QED BY <4>1, <4>2, <4>3
    <3>3. TypeOK' BY <1>0, <3>1, <3>2 DEF Inv, TypeOK
    <3>4. LockInv' BY <1>0, <3>1, <3>2 DEF Inv, LockInv, Told
    <3>5. HeldInv' BY <1>0, <3>1, <3>2 DEF Inv, HeldInv
    <3>. QED BY <1>0, <3>1, <3>3, <3>4, <3>5 DEF Inv, GoneIsAnnounced, Kept
  <2>4. ASSUME NEW p \in Updater, CommitHost(p)
        PROVE  Kept
    <3>1. /\ lock = p /\ version < MaxVersion /\ present
          /\ version' = version + 1 /\ lock' = None /\ culled' \in BOOLEAN
          /\ held' = [held EXCEPT ![p] = version + 1] /\ UNCHANGED <<present, tries, dropped, fails>>
          /\ pc'[p] \in {"check", "done"} /\ pc' = [pc EXCEPT ![p] = pc'[p]]
      BY <1>0, <2>4 DEF CommitHost, Goes, Inv, LockInv, attempts
    <3>2. version' \in 1..MaxVersion BY <1>0, <3>1
    <3>3. TypeOK' BY <1>0, <3>1, <3>2 DEF Inv, TypeOK
    <3>4. LockInv' BY <1>0, <3>1 DEF Inv, LockInv
    <3>5. HeldInv' BY <1>0, <3>1 DEF Inv, HeldInv
    <3>. QED BY <1>0, <3>1, <3>2, <3>3, <3>4, <3>5 DEF Kept
  <2>5. ASSUME NEW p \in Remover, SelectHost(p)
        PROVE  Kept
    <3>1. /\ UNCHANGED <<present, version, lock, culled, held, tries, dropped, fails>>
          /\ pc'[p] \in {"write", "done"} /\ pc' = [pc EXCEPT ![p] = pc'[p]]
      BY <1>0, <2>5 DEF SelectHost, row, Goes, attempts
    <3>2. TypeOK' BY <1>0, <3>1 DEF Inv, TypeOK
    <3>3. LockInv' BY <1>0, <3>1 DEF Inv, LockInv, Told
    <3>4. HeldInv' BY <1>0, <3>1 DEF Inv, HeldInv
    <3>. QED BY <1>0, <3>1, <3>2, <3>3, <3>4 DEF Inv, GoneIsAnnounced, Kept
  <2>6. ASSUME NEW p \in Remover, FlushDelete(p)
        PROVE  Kept
    <3>1. /\ UNCHANGED <<present, version, culled, held, tries, dropped, fails>>
          /\ lock = None /\ lock' = p /\ pc' = [pc EXCEPT ![p] = "publish"]
      BY <2>6 DEF FlushDelete, Goes, attempts
    <3>2. TypeOK' BY <1>0, <3>1 DEF Inv, TypeOK
    <3>3. LockInv' BY <1>0, <3>1 DEF Inv, LockInv, Told
    <3>4. HeldInv' BY <1>0, <3>1 DEF Inv, HeldInv
    <3>. QED BY <1>0, <3>1, <3>2, <3>3, <3>4 DEF Inv, GoneIsAnnounced, Kept
  <2>7. ASSUME NEW p \in Remover, CommitDelete(p)
        PROVE  Kept
    <3>1. /\ UNCHANGED <<version, culled, held, tries, dropped, fails>> /\ present' = FALSE
          /\ pc[p] = "commit" /\ lock = p /\ lock' = None /\ pc' = [pc EXCEPT ![p] = "done"]
      BY <2>7 DEF CommitDelete, Goes, attempts
    <3>2. Told("delete", version) BY <3>1 DEF Inv, LockInv
    <3>3. TypeOK' BY <1>0, <3>1 DEF Inv, TypeOK
    <3>4. LockInv' BY <1>0, <3>1 DEF Inv, LockInv, Told
    <3>5. HeldInv' BY <1>0, <3>1 DEF Inv, HeldInv
    <3>. QED BY <1>0, <3>1, <3>2, <3>3, <3>4, <3>5 DEF Kept
  <2>8. ASSUME NEW p \in Proc, Fail(p) \/ Retry(p)
        PROVE  Kept
    <3>1. /\ UNCHANGED <<present, version, culled, held>> /\ fails' \in 0..MaxFails
          /\ lock' = (IF lock = p THEN None ELSE lock)
          /\ pc'[p] \in {"start", "done"} /\ pc' = [pc EXCEPT ![p] = pc'[p]]
          /\ tries' \in [Ingester -> 1..MaxRetries] /\ dropped' \subseteq Ingester
      <4>1. CASE Fail(p)
        BY <1>0, <4>1 DEF Fail, Goes, Inv, TypeOK
      <4>2. CASE Retry(p)
        BY <1>0, <4>2, AgainType DEF Retry, Inv
      <4>. QED BY <2>8, <4>1, <4>2
    <3>2. TypeOK' BY <1>0, <3>1 DEF Inv, TypeOK
    <3>3. LockInv' BY <1>0, <3>1 DEF Inv, LockInv, Told
    <3>4. HeldInv' BY <1>0, <3>1 DEF Inv, HeldInv
    <3>. QED BY <1>0, <3>1, <3>2, <3>3, <3>4 DEF Inv, GoneIsAnnounced, Kept
  <2>9. ASSUME NEW p \in Ingester, Refuse(p)
        PROVE  Kept
    <3>1. UNCHANGED <<present, version, lock, culled, held, tries, fails>>
      BY <2>9 DEF Refuse, row
    <3>2. /\ pc'[p] \in {"done", pc[p]} /\ pc' = [pc EXCEPT ![p] = pc'[p]]
          /\ dropped' \subseteq Ingester
      BY <1>0, <2>9 DEF Refuse, Goes, Inv, TypeOK
    <3>3. TypeOK' BY <1>0, <3>1, <3>2 DEF Inv, TypeOK
    <3>4. LockInv' BY <1>0, <3>1, <3>2 DEF Inv, LockInv, Told
    <3>5. HeldInv' BY <1>0, <3>1, <3>2 DEF Inv, HeldInv
    <3>. QED BY <1>0, <3>1, <3>3, <3>4, <3>5 DEF Inv, GoneIsAnnounced, Kept
  <2>10. ASSUME NEW p \in Proc,
               \/ p \in Updater /\ (FindHost(p) \/ WriteHost(p) \/ CommitHost(p) \/ CheckExists(p))
               \/ SelectHost(p) \/ FlushDelete(p) \/ CommitDelete(p)
               \/ Refuse(p) \/ Retry(p) \/ Fail(p)
        PROVE  Kept
    <3>1. SelectHost(p) \/ FlushDelete(p) \/ CommitDelete(p) => p \in Remover
      BY DEF SelectHost, FlushDelete, CommitDelete
    <3>2. Refuse(p) => p \in Ingester BY DEF Refuse
    <3>. QED BY <2>2, <2>3, <2>4, <2>5, <2>6, <2>7, <2>8, <2>9, <2>10, <3>1, <3>2
  <2>. QED BY <2>1, <2>10
<1>2. GoneIsAnnounced' BY <1>1 DEF GoneIsAnnounced, Told, Kept
<1>3. EventsOfCommitted'
  <2>1. \A e \in ToSet(events) : e.version \in Nat
    <3>1. ToSet(events) \subseteq Event BY DEF Inv, TypeOK, ToSet
    <3>. QED BY <3>1 DEF Event
  <2>. QED BY <1>0, <1>1, <2>1 DEF Inv, EventsOfCommitted, Kept
<1>4. RebuildRepairs' /\ CursorInv'
  BY <1>1 DEF Inv, RebuildRepairs, CursorInv, Kept
<1>. QED BY <1>1, <1>2, <1>3, <1>4 DEF Inv, Kept

LEMMA PublishUpdateKeeps ==
  ASSUME Inv, NEW p \in Updater, PublishUpdate(p), UNCHANGED cursor
  PROVE  Inv'
<1> USE ProcFacts
<1>1. /\ UNCHANGED <<present, version, culled, lock, held, tries, dropped, fails, cursor>>
      /\ pc[p] = "publish" /\ pc' = [pc EXCEPT ![p] = "done"]
      /\ Publish("updated", held[p])
  BY DEF PublishUpdate, row, Goes, attempts
<1>2. /\ version \in 1..MaxVersion /\ held[p] \in 1..version /\ held[p] \in 1..MaxVersion
      /\ pc \in [Proc -> {"start", "write", "commit", "check", "publish", "done"}]
  BY <1>1 DEF Inv, TypeOK, HeldInv
<1>3. Len(events) \in Nat /\ TypeOK BY DEF Inv, TypeOK
<1> DEFINE new == [type |-> "updated", version |-> held[p]]
<1>4. /\ events' \in Seq(Event) /\ failed' \subseteq Event
      /\ Len(events') >= Len(events) /\ \A i \in 1..Len(events) : events'[i] = events[i]
      /\ failed \subseteq failed' /\ ToSet(events) \subseteq ToSet(events')
      /\ \A e \in ToSet(events') : e \in ToSet(events) \/ e = new
  BY <1>1, <1>2, <1>3, Published
<1>5. TypeOK'
  <2>1. Len(events') \in Nat BY <1>4
  <2>. QED BY <1>1, <1>2, <1>3, <1>4, <2>1 DEF TypeOK
<1>6. \A v : Told("delete", v) => \E e \in ToSet(events') \union failed' : e.type = "delete" /\ e.version >= v
  BY <1>4, ToldKept
<1>7. LockInv'
  BY <1>1, <1>2, <1>6 DEF Inv, LockInv, Told
<1>8. HeldInv' BY <1>1, <1>2 DEF Inv, HeldInv
<1>9. GoneIsAnnounced' BY <1>1, <1>6 DEF Inv, GoneIsAnnounced, Told
<1>10. EventsOfCommitted'
  BY <1>1, <1>2, <1>4 DEF Inv, EventsOfCommitted
<1>11. RebuildRepairs'
  BY <1>1, <1>3, <1>4, RepairKept DEF RebuildRepairs
<1>. QED BY <1>1, <1>5, <1>7, <1>8, <1>9, <1>10, <1>11 DEF Inv, CursorInv

LEMMA PublishDeleteKeeps ==
  ASSUME Inv, NEW p \in Remover, PublishDelete(p), UNCHANGED cursor
  PROVE  Inv'
<1> USE ProcFacts
<1>1. /\ UNCHANGED <<present, version, culled, lock, held, tries, dropped, fails, cursor>>
      /\ pc[p] = "publish" /\ pc' = [pc EXCEPT ![p] = "commit"]
      /\ Publish("delete", version)
  BY DEF PublishDelete, row, Goes, attempts
<1>2. /\ version \in 1..MaxVersion
      /\ pc \in [Proc -> {"start", "write", "commit", "check", "publish", "done"}]
  BY DEF Inv, TypeOK
<1>3. Len(events) \in Nat /\ TypeOK BY DEF Inv, TypeOK
<1> DEFINE new == [type |-> "delete", version |-> version]
<1>4. /\ events' \in Seq(Event) /\ failed' \subseteq Event
      /\ Len(events') >= Len(events) /\ \A i \in 1..Len(events) : events'[i] = events[i]
      /\ failed \subseteq failed' /\ ToSet(events) \subseteq ToSet(events')
      /\ \A e \in ToSet(events') : e \in ToSet(events) \/ e = new
      /\ new \in ToSet(events') \union failed'
  BY <1>1, <1>2, <1>3, Published
<1>5. TypeOK'
  <2>1. Len(events') \in Nat BY <1>4
  <2>. QED BY <1>1, <1>2, <1>3, <1>4, <2>1 DEF TypeOK
<1>6. \A v : Told("delete", v) => \E e \in ToSet(events') \union failed' : e.type = "delete" /\ e.version >= v
  BY <1>4, ToldKept
<1>7. LockInv'
  <2>1. \E e \in ToSet(events') \union failed' : e.type = "delete" /\ e.version >= version
    <3>1. new.type = "delete" /\ new.version >= version BY <1>2
    <3>. QED BY <1>4, <3>1
  <2>. QED BY <1>1, <1>2, <1>6, <2>1 DEF Inv, LockInv, Told
<1>8. HeldInv' BY <1>1, <1>2 DEF Inv, HeldInv
<1>9. GoneIsAnnounced' BY <1>1, <1>6 DEF Inv, GoneIsAnnounced, Told
<1>10. EventsOfCommitted'
  BY <1>1, <1>2, <1>4 DEF Inv, EventsOfCommitted
<1>11. RebuildRepairs'
  BY <1>1, <1>3, <1>4, RepairKept DEF RebuildRepairs
<1>. QED BY <1>1, <1>5, <1>7, <1>8, <1>9, <1>10, <1>11 DEF Inv, CursorInv

(* The rebuilder: what it has passed stays repaired, and it repairs the    *)
(* event it passes.                                                        *)
LEMMA RebuilderKeeps ==
  ASSUME Inv, StartRebuild \/ SyncEvent
  PROVE  Inv'
<1> USE ProcFacts
<1>0. Len(events) \in Nat /\ TypeOK /\ events \in Seq(Event) BY DEF Inv, TypeOK
<1>1. CASE StartRebuild
  <2>1. /\ UNCHANGED <<present, version, culled, lock, pc, held, tries, dropped, fails, events, failed>>
        /\ ~present /\ cursor' = 0
    BY <1>1 DEF StartRebuild, row, attempts
  <2>2. TypeOK' BY <1>0, <2>1 DEF TypeOK
  <2>3. LockInv' /\ HeldInv' /\ GoneIsAnnounced' /\ EventsOfCommitted'
    BY <2>1 DEF Inv, LockInv, HeldInv, GoneIsAnnounced, EventsOfCommitted, Told
  <2>. QED BY <2>1, <2>2, <2>3 DEF Inv, CursorInv, RebuildRepairs
<1>2. CASE SyncEvent
  <2> DEFINE e == events[cursor + 1]
             gone == [type |-> "delete", version |-> e.version]
  <2>1. /\ UNCHANGED <<present, version, culled, lock, pc, held, tries, dropped, fails>>
        /\ cursor \in Nat /\ cursor < Len(events) /\ cursor # None /\ cursor' = cursor + 1
        /\ ~present
        /\ IF e.type # "delete" THEN Publish("delete", e.version) ELSE UNCHANGED <<events, failed>>
    BY <1>0, <1>2 DEF SyncEvent, row, attempts, TypeOK, Inv, CursorInv
  <2>2. e \in Event /\ e.version \in 1..MaxVersion /\ cursor + 1 \in 1..Len(events)
    <3>1. cursor + 1 \in 1..Len(events) BY <1>0, <2>1
    <3>2. e \in Event BY <1>0, <3>1
    <3>. QED BY <3>1, <3>2 DEF Event
  <2>3. /\ events' \in Seq(Event) /\ failed' \subseteq Event
        /\ Len(events') >= Len(events) /\ \A i \in 1..Len(events) : events'[i] = events[i]
        /\ failed \subseteq failed' /\ ToSet(events) \subseteq ToSet(events')
        /\ \A x \in ToSet(events') : x \in ToSet(events) \/ x = gone
        /\ \/ e.type = "delete" \/ gone \in failed'
           \/ Len(events') = Len(events) + 1 /\ events'[Len(events')] = gone
    <3> HIDE DEF e
    <3>1. CASE e.type # "delete" BY <1>0, <2>1, <2>2, <3>1, Published
    <3>2. CASE e.type = "delete" BY <1>0, <2>1, <3>2 DEF TypeOK
    <3>. QED BY <3>1, <3>2
  <2>4. Len(events') \in Nat BY <2>3
  <2> HIDE DEF gone
  <2>5. TypeOK'
    <3>1. cursor' \in Nat /\ cursor' <= Len(events') BY <1>0, <2>1, <2>3, <2>4
    <3>. QED BY <1>0, <2>1, <2>3, <3>1 DEF TypeOK
  <2>6. \A v : Told("delete", v) => \E x \in ToSet(events') \union failed' : x.type = "delete" /\ x.version >= v
    BY <2>3, ToldKept
  <2>7. LockInv' /\ HeldInv' /\ GoneIsAnnounced'
    BY <2>1, <2>6 DEF Inv, LockInv, HeldInv, GoneIsAnnounced, Told
  <2>8. EventsOfCommitted'
    <3>1. gone.type = "delete" BY DEF gone
    <3>. QED BY <2>1, <2>3, <3>1 DEF Inv, EventsOfCommitted
  <2>9. RebuildRepairs'
    <3> SUFFICES ASSUME NEW i \in 1..(cursor + 1)
                 PROVE  \/ events'[i].type = "delete"
                        \/ \E j \in i..Len(events') : events'[j].type = "delete"
                        \/ \E x \in failed' : x.type = "delete" /\ x.version = events'[i].version
      BY <2>1 DEF RebuildRepairs
    <3>1. CASE i \in 1..cursor
      BY <2>1, <2>3, <2>4, <3>1, RepairKept
    <3>2. CASE i = cursor + 1
      <4>1. events'[i] = e BY <2>2, <2>3, <3>2
      <4>2. Len(events') \in i..Len(events') BY <2>1, <2>3, <2>4, <3>2, <1>0
      <4>3. gone.type = "delete" /\ gone.version = e.version BY DEF gone
      <4> HIDE DEF e
      <4>. QED BY <2>3, <4>1, <4>2, <4>3
    <3>. QED BY <2>1, <3>1, <3>2
  <2>. QED BY <2>1, <2>5, <2>7, <2>8, <2>9 DEF Inv, CursorInv
<1>. QED BY <1>1, <1>2

LEMMA NextInv == Inv /\ [Next]_vars => Inv'
<1> SUFFICES ASSUME Inv, [Next]_vars PROVE Inv' OBVIOUS
<1>1. ASSUME NEW p \in Proc, Act(p) \/ Refuse(p) \/ Retry(p) \/ Fail(p), UNCHANGED cursor PROVE Inv'
  <2>1. FindHost(p) \/ WriteHost(p) \/ CommitHost(p) \/ CheckExists(p) => UNCHANGED <<events, failed>>
    BY DEF FindHost, WriteHost, CommitHost, CheckExists
  <2>2. SelectHost(p) \/ FlushDelete(p) \/ CommitDelete(p) \/ Refuse(p) \/ Retry(p) \/ Fail(p)
          => UNCHANGED <<events, failed>>
    BY DEF SelectHost, FlushDelete, CommitDelete, Refuse, Retry, Fail
  <2>3. WriteHost(p) \/ CommitHost(p) \/ CheckExists(p) \/ PublishUpdate(p) => p \in Updater
    BY DEF WriteHost, CommitHost, CheckExists, PublishUpdate
  <2>4. PublishDelete(p) => p \in Remover BY DEF PublishDelete
  <2>. QED BY <1>1, <2>1, <2>2, <2>3, <2>4, QuietKeeps, PublishUpdateKeeps, PublishDeleteKeeps
           DEF Act, Update, Removal
<1>2. CASE Cull /\ UNCHANGED cursor
  <2>1. UNCHANGED <<events, failed>> BY <1>2 DEF Cull
  <2>. QED BY <1>2, <2>1, QuietKeeps
<1>3. CASE StartRebuild \/ SyncEvent BY <1>3, RebuilderKeeps
<1>4. CASE UNCHANGED vars
  <2>1. UNCHANGED <<present, version, culled, lock, pc, held, events, failed, tries, dropped, fails, cursor>>
    BY <1>4 DEF vars, row, attempts
  <2>. QED BY <2>1 DEF Inv, TypeOK, LockInv, HeldInv, CursorInv, GoneIsAnnounced, Told,
                       EventsOfCommitted, RebuildRepairs
<1>. QED BY <1>1, <1>2, <1>3, <1>4 DEF Next

LEMMA Invariant == Spec => []Inv
BY InitInv, NextInv, PTL DEF Spec

(* Type correctness: what an updater announces is a version it committed.  *)
THEOREM TypeCorrect == Spec => []TypeOK
<1>1. Inv => TypeOK BY DEF Inv
<1>. QED BY <1>1, Invariant, PTL

(* No silent deletion, for any number of consumers, requests and deletions *)
(* (delete_hosts announces before it commits).                             *)
THEOREM GoneCorrect == Spec => []GoneIsAnnounced
<1>1. Inv => GoneIsAnnounced BY DEF Inv
<1>. QED BY <1>1, Invariant, PTL

(* No updated event runs ahead of the database (_run_batch commits first). *)
THEOREM CommittedCorrect == Spec => []EventsOfCommitted
<1>1. Inv => EventsOfCommitted BY DEF Inv
<1>. QED BY <1>1, Invariant, PTL

(* The rebuilder repairs whatever the topic has of a host that is gone,    *)
(* beside updaters that still announce (sync_event_message).               *)
THEOREM RebuildCorrect == Spec => []RebuildRepairs
<1>1. Inv => RebuildRepairs BY DEF Inv
<1>. QED BY <1>1, Invariant, PTL

-----------------------------------------------------------------------------
(* The inductive invariant: a check-in is kept until its reporter reports  *)
(* again or one that replaces it reports.                                  *)
SeenInv ==
  \A q \in Reporter :
    /\ seen[q] # Unset => seen[q] <= now
    /\ per[q] # seen[q] =>
         /\ per[q] = Unset
         /\ \E r \in DOMAIN Older : Older[r] = q /\ seen[r] # Unset /\ seen[r] >= seen[q]

UpdateInv == UpdateTypeOK /\ NameFollows /\ TagsFound /\ SeenInv

(* Tags in a list have each its place in it. *)
LEMMA FlatProperties ==
  ASSUME NEW S \in SUBSET Tag
  PROVE  /\ Flat(S) \in Seq(Tag)
         /\ \A i, k \in 1..Len(Flat(S)) : Flat(S)[i] = Flat(S)[k] => i = k
         /\ ToSet(Flat(S)) = S
<1>1. IsFiniteSet(S) BY UpdateAssumption, FS_Subset
<1> DEFINE n == Cardinality(S)
<1>2. n \in Nat /\ ExistsBijection(1..n, S) BY <1>1, FS_CardinalityType
<1>3. \E f \in [1..n -> S] : IsInjective(f)
  BY <1>2 DEF ExistsBijection, Bijection, Injection, IsInjective
<1>4. Flat(S) \in [1..n -> S] /\ IsInjective(Flat(S))
  BY <1>3 DEF Flat, SetToSeq
<1>5. Flat(S) \in Seq(Tag) /\ Len(Flat(S)) = n /\ DOMAIN Flat(S) = 1..n
  <2>1. Flat(S) \in Seq(S) /\ DOMAIN Flat(S) = 1..n BY <1>2, <1>4
  <2>2. Len(Flat(S)) = n BY <1>2, <2>1
  <2>3. Flat(S) \in [1..n -> Tag] BY <1>4
  <2>. QED BY <1>2, <2>1, <2>2, <2>3
<1>6. IsFiniteSet(1..n) /\ Cardinality(1..n) = n BY <1>2, FS_Interval
<1>7. Flat(S) \in Injection(1..n, S) BY <1>4 DEF Injection
<1>8. Flat(S) \in Surjection(1..n, S) BY <1>1, <1>6, <1>7, FS_Injection
<1>9. ToSet(Flat(S)) = S BY <1>4, <1>5, <1>8 DEF ToSet, Surjection
<1>. QED BY <1>4, <1>5, <1>9 DEF IsInjective

(* What a deletion leaves of a list is a part of it. *)
LEMMA EverySecondProperties ==
  ASSUME NEW s \in Seq(Tag), \A i, k \in 1..Len(s) : s[i] = s[k] => i = k
  PROVE  /\ EverySecond(s) \in Seq(Tag)
         /\ \A i, k \in 1..Len(EverySecond(s)) : EverySecond(s)[i] = EverySecond(s)[k] => i = k
<1> DEFINE n == Len(s) \div 2
<1>1. Len(s) \in Nat /\ n \in Nat /\ \A i \in 1..n : 2 * i \in 1..Len(s) OBVIOUS
<1>2. \A i \in 1..n : s[2 * i] \in Tag BY <1>1
<1>3. EverySecond(s) = [i \in 1..n |-> s[2 * i]] BY DEF EverySecond
<1> HIDE DEF n
<1>4. EverySecond(s) \in Seq(Tag) /\ Len(EverySecond(s)) = n BY <1>1, <1>2, <1>3
<1>5. \A i, k \in 1..n : EverySecond(s)[i] = EverySecond(s)[k] => 2 * i = 2 * k
  BY <1>1, <1>3
<1>. QED BY <1>1, <1>4, <1>5

LEMMA GivenTags ==
  ASSUME NEW m \in Reports, NEW n \in Namespace
  PROVE  Given(m.tags, n) \in SUBSET Tag /\ (n \in DOMAIN m.tags => Given(m.tags, n) = m.tags[n])
BY UpdateAssumption DEF Given

LEMMA UpdateInitInv == UpdateInit => UpdateInv
<1> SUFFICES ASSUME UpdateInit PROVE UpdateInv OBVIOUS
<1>1. PICK m \in Reports :
       /\ fqdn = m.fqdn
       /\ display = IF m.name # Unset THEN m.name ELSE IF m.fqdn # Unset THEN m.fqdn ELSE Id
       /\ namer = IF m.name # Unset THEN m.reporter ELSE Unset
       /\ tags = [n \in Namespace |-> Given(m.tags, n)]
       /\ alt = [n \in Namespace |-> Flat(Given(m.tags, n))]
       /\ per = [q \in Reporter |-> IF q = m.reporter THEN 0 ELSE Unset]
       /\ profile = [by |-> m.reporter, deferred |-> Unset]
       /\ seen = per
  BY DEF UpdateInit
<1>2. now = 0 BY DEF UpdateInit
<1>3. /\ m.reporter \in Reporter /\ m.name \in Name \union {Unset} /\ m.fqdn \in Fqdn \union {Unset}
      /\ MaxTime \in Nat /\ Unset \notin Time
  BY UpdateAssumption
<1>4. UpdateTypeOK
  <2>1. /\ alt \in [Namespace -> Seq(Tag)] /\ tags \in [Namespace -> SUBSET Tag]
        /\ \A n \in Namespace : \A i, k \in 1..Len(alt[n]) : alt[n][i] = alt[n][k] => i = k
    BY <1>1, GivenTags, FlatProperties
  <2>. QED BY <1>1, <1>2, <1>3, <2>1 DEF UpdateTypeOK, Time
<1>5. NameFollows BY <1>1, <1>3, UpdateAssumption DEF NameFollows
<1>6. TagsFound BY <1>1, GivenTags, FlatProperties DEF TagsFound
<1>7. SeenInv BY <1>1, <1>2, <1>3 DEF SeenInv, Time
<1>. QED BY <1>4, <1>5, <1>6, <1>7 DEF UpdateInv

(* A name that nobody gave is again an fqdn or the id. *)
LEMMA NameKeeps ==
  ASSUME UpdateInv, NEW r \in Reporter \union {API}, NEW name \in Name \union {Unset},
         NEW f \in Fqdn \union {Unset}, UpdateName(r, name, f),
         fqdn' = IF f # Unset THEN f ELSE fqdn
  PROVE  /\ NameFollows'
         /\ display' \in Name \union Fqdn \union {Id} /\ fqdn' \in Fqdn \union {Unset}
         /\ namer' \in Reporter \union {API, Unset}
<1>1. /\ fqdn \in Fqdn \union {Unset} /\ display \in Name \union Fqdn \union {Id}
      /\ namer \in Reporter \union {API, Unset} /\ Unset \notin Reporter \union Name \union Fqdn \union {API, Id}
      /\ Priority \subseteq Reporter
  BY UpdateAssumption DEF UpdateInv, UpdateTypeOK
<1>2. CASE name = Unset /\ display' = Fallback(f) /\ UNCHANGED namer
  BY <1>1, <1>2 DEF UpdateInv, NameFollows, Fallback
<1>3. CASE name # Unset /\ r \in Rhsm /\ namer \in Priority \union {API} /\ UNCHANGED <<display, namer>>
  BY <1>1, <1>3 DEF NameFollows
<1>4. CASE name # Unset /\ display' = name /\ namer' = r
  BY <1>1, <1>4 DEF NameFollows
<1>. QED BY <1>2, <1>3, <1>4 DEF UpdateName

LEMMA TagsKeep ==
  ASSUME UpdateInv, NEW m \in Reports, UpdateTags(m.tags)
  PROVE  /\ TagsFound'
         /\ tags' \in [Namespace -> SUBSET Tag] /\ alt' \in [Namespace -> Seq(Tag)]
         /\ \A n \in Namespace : \A i, k \in 1..Len(alt'[n]) : alt'[n][i] = alt'[n][k] => i = k
<1> DEFINE t == m.tags
           rebuilt == \E n \in DOMAIN t : t[n] # {}
<1>1. /\ tags \in [Namespace -> SUBSET Tag] /\ alt \in [Namespace -> Seq(Tag)]
      /\ \A n \in Namespace : \A i, k \in 1..Len(alt[n]) : alt[n][i] = alt[n][k] => i = k
      /\ \A n \in DOMAIN t : t[n] \subseteq Tag
  BY UpdateAssumption DEF UpdateInv, UpdateTypeOK
<1>2. /\ tags' = [n \in Namespace |-> IF n \in DOMAIN t THEN t[n] ELSE tags[n]]
      /\ alt' = [n \in Namespace |->
                   IF n \notin DOMAIN t THEN alt[n]
                   ELSE IF rebuilt THEN Flat(t[n]) ELSE EverySecond(alt[n])]
  BY DEF UpdateTags
<1> HIDE DEF t
<1>3. ASSUME NEW n \in Namespace
      PROVE  /\ alt'[n] \in Seq(Tag)
             /\ \A i, k \in 1..Len(alt'[n]) : alt'[n][i] = alt'[n][k] => i = k
             /\ tags'[n] # {} => ToSet(alt'[n]) = tags'[n] /\ Len(alt'[n]) = Len(Flat(tags'[n]))
  <2>1. CASE n \notin DOMAIN t
    <3>1. alt'[n] = alt[n] /\ tags'[n] = tags[n] BY <1>2, <2>1
    <3>. QED BY <1>1, <3>1 DEF UpdateInv, TagsFound
  <2>2. CASE n \in DOMAIN t /\ rebuilt
    <3>1. alt'[n] = Flat(t[n]) /\ tags'[n] = t[n] BY <1>2, <2>2
    <3>. QED BY <1>1, <2>2, <3>1, FlatProperties
  <2>3. CASE n \in DOMAIN t /\ ~rebuilt
    <3>1. alt'[n] = EverySecond(alt[n]) /\ tags'[n] = t[n] /\ t[n] = {} BY <1>2, <2>3
    <3>. QED BY <1>1, <3>1, EverySecondProperties
  <2>. QED BY <2>1, <2>2, <2>3
<1>4. tags' \in [Namespace -> SUBSET Tag] BY <1>1, <1>2
<1>5. alt' \in [Namespace -> Seq(Tag)] BY <1>2, <1>3
<1>. QED BY <1>3, <1>4, <1>5 DEF TagsFound

(* A check-in replaces those of the reporter and of its predecessor only. *)
LEMMA SeenKeeps ==
  ASSUME UpdateInv, NEW r \in Reporter, CheckIn(r), seen' = [seen EXCEPT ![r] = now], UNCHANGED now
  PROVE  /\ SeenInv'
         /\ per' \in [Reporter -> Time \union {Unset}] /\ seen' \in [Reporter -> Time \union {Unset}]
<1>1. /\ now \in Time /\ now \in Nat /\ Unset \notin Time /\ Unset # now
      /\ per \in [Reporter -> Time \union {Unset}] /\ seen \in [Reporter -> Time \union {Unset}]
      /\ \A x \in Time : x \in Nat
  BY UpdateAssumption DEF UpdateInv, UpdateTypeOK, Time
<1>2. per' = [q \in Reporter |->
                IF q = r THEN now
                ELSE IF r \in DOMAIN Older /\ Older[r] = q THEN Unset ELSE per[q]]
  BY DEF CheckIn
<1>3. ASSUME NEW q \in Reporter
      PROVE  /\ seen'[q] # Unset => seen'[q] <= now
             /\ per'[q] # seen'[q] =>
                  /\ per'[q] = Unset
                  /\ \E s \in DOMAIN Older : Older[s] = q /\ seen'[s] # Unset /\ seen'[s] >= seen'[q]
  <2>1. CASE q = r BY <1>1, <1>2, <2>1
  <2>2. CASE q # r /\ r \in DOMAIN Older /\ Older[r] = q
    <3>1. per'[q] = Unset /\ seen'[q] = seen[q] /\ seen'[r] = now BY <1>1, <1>2, <2>2
    <3>2. seen[q] = Unset \/ seen[q] <= now BY DEF UpdateInv, SeenInv
    <3>. QED BY <1>1, <2>2, <3>1, <3>2
  <2>3. CASE q # r /\ ~(r \in DOMAIN Older /\ Older[r] = q)
    <3>1. per'[q] = per[q] /\ seen'[q] = seen[q] BY <1>1, <1>2, <2>3
    <3>2. seen[q] # Unset => seen[q] <= now BY DEF UpdateInv, SeenInv
    <3>3. ASSUME per[q] # seen[q]
          PROVE  per[q] = Unset /\ \E s \in DOMAIN Older : Older[s] = q /\ seen'[s] # Unset /\ seen'[s] >= seen'[q]
      <4>1. PICK s \in DOMAIN Older : Older[s] = q /\ seen[s] # Unset /\ seen[s] >= seen[q]
        BY <3>3 DEF UpdateInv, SeenInv
      <4>2. s # r /\ s \in Reporter BY <2>3, <4>1, UpdateAssumption
      <4>3. seen'[s] = seen[s] BY <1>1, <4>2
      <4>. QED BY <3>1, <3>3, <4>1, <4>3 DEF UpdateInv, SeenInv
    <3>. QED BY <3>1, <3>2, <3>3
  <2>. QED BY <2>1, <2>2, <2>3
<1>4. SeenInv' BY <1>3 DEF SeenInv
<1>. QED BY <1>1, <1>2, <1>4

LEMMA ReportKeeps ==
  ASSUME UpdateInv, NEW m \in Reports, Report(m)
  PROVE  UpdateInv'
<1>1. /\ m.reporter \in Reporter /\ m.name \in Name \union {Unset} /\ m.fqdn \in Fqdn \union {Unset}
      /\ m.deferred \in Reporter \union {Unset}
  BY UpdateAssumption
<1>2. /\ NameFollows' /\ fqdn' \in Fqdn \union {Unset}
      /\ display' \in Name \union Fqdn \union {Id} /\ namer' \in Reporter \union {API, Unset}
  BY <1>1, NameKeeps DEF Report
<1>3. /\ TagsFound' /\ tags' \in [Namespace -> SUBSET Tag] /\ alt' \in [Namespace -> Seq(Tag)]
      /\ \A n \in Namespace : \A i, k \in 1..Len(alt'[n]) : alt'[n][i] = alt'[n][k] => i = k
  BY TagsKeep DEF Report
<1>4. /\ SeenInv' /\ per' \in [Reporter -> Time \union {Unset}]
      /\ seen' \in [Reporter -> Time \union {Unset}]
  BY <1>1, SeenKeeps DEF Report
<1>5. profile' \in [by : Reporter, deferred : Reporter \union {Unset}] /\ now' \in Time
  BY <1>1 DEF Report, UpdateInv, UpdateTypeOK
<1>6. UpdateTypeOK' BY <1>2, <1>3, <1>4, <1>5 DEF UpdateTypeOK
<1>. QED BY <1>2, <1>3, <1>4, <1>6 DEF UpdateInv

LEMMA UpdateNextInv == UpdateInv /\ [UpdateNext]_updateVars => UpdateInv'
<1> SUFFICES ASSUME UpdateInv, [UpdateNext]_updateVars PROVE UpdateInv' OBVIOUS
<1>1. CASE UNCHANGED updateVars
  BY <1>1 DEF updateVars, nameVars, tagVars, repVars, UpdateInv, UpdateTypeOK, NameFollows, TagsFound, SeenInv
<1>2. CASE Tick
  <2>1. /\ UNCHANGED <<fqdn, display, namer, tags, alt, per, profile, seen>> /\ now' = now + 1
        /\ now < MaxTime
    BY <1>2 DEF Tick, nameVars, tagVars, repVars
  <2>2. now \in Nat /\ now' \in Time /\ now' >= now BY <2>1, UpdateAssumption DEF UpdateInv, UpdateTypeOK, Time
  <2>3. UpdateTypeOK' BY <2>1, <2>2 DEF UpdateInv, UpdateTypeOK
  <2>4. SeenInv'
    <3>1. \A q \in Reporter : seen[q] # Unset => seen[q] \in Nat
      BY DEF UpdateInv, UpdateTypeOK, Time
    <3>. QED BY <2>1, <2>2, <3>1 DEF UpdateInv, SeenInv
  <2>. QED BY <2>1, <2>3, <2>4 DEF UpdateInv, NameFollows, TagsFound
<1>3. ASSUME NEW name \in Name \union {Unset}, Patch(name) PROVE UpdateInv'
  <2>1. UNCHANGED <<now, fqdn, tags, alt, per, profile, seen>> /\ UpdateName(API, name, Unset)
    BY <1>3 DEF Patch, tagVars, repVars
  <2>2. /\ NameFollows' /\ fqdn' \in Fqdn \union {Unset}
        /\ display' \in Name \union Fqdn \union {Id} /\ namer' \in Reporter \union {API, Unset}
    BY <2>1, NameKeeps
  <2>3. UpdateTypeOK' BY <2>1, <2>2 DEF UpdateInv, UpdateTypeOK
  <2>4. TagsFound' /\ SeenInv' BY <2>1 DEF UpdateInv, TagsFound, SeenInv
  <2>. QED BY <2>2, <2>3, <2>4 DEF UpdateInv
<1>. QED BY <1>1, <1>2, <1>3, ReportKeeps DEF UpdateNext

LEMMA UpdateInvariant == UpdateSpec => []UpdateInv
BY UpdateInitInv, UpdateNextInv, PTL DEF UpdateSpec

(* Type correctness: no tag is twice in a list of tags_alt. *)
THEOREM UpdateTypeCorrect == UpdateSpec => []UpdateTypeOK
<1>1. UpdateInv => UpdateTypeOK BY DEF UpdateInv
<1>. QED BY <1>1, UpdateInvariant, PTL

(* A host nobody has named goes by its last fqdn, or its id, after any     *)
(* sequence of reports and patches (_apply_display_name_fallback).         *)
THEOREM NameCorrect == UpdateSpec => []NameFollows
<1>1. UpdateInv => NameFollows BY DEF UpdateInv
<1>. QED BY <1>1, UpdateInvariant, PTL

(* Both columns of tags agree on the namespaces the host has, whatever     *)
(* deletions have left behind (_update_tags_alt).                          *)
THEOREM TagsCorrect == UpdateSpec => []TagsFound
<1>1. UpdateInv => TagsFound BY DEF UpdateInv
<1>. QED BY <1>1, UpdateInvariant, PTL

(* A system profile is taken over only from a reporter that is silent or   *)
(* replaced, for any reporters in between (reporter_stale,                 *)
(* _update_per_reporter_staleness).                                        *)
THEOREM DeferredCorrect == UpdateSpec => DeferredKept
<1> DEFINE Takes == LET d == profile'.deferred
                    IN profile' # profile /\ d # Unset =>
                         \/ seen[d] = Unset \/ now > seen[d] + Stale
                         \/ \E r \in DOMAIN Older : Older[r] = d /\ seen[r] # Unset /\ seen[r] >= seen[d]
<1>1. UpdateInv /\ [UpdateNext]_updateVars => [Takes]_updateVars
  <2> SUFFICES ASSUME UpdateInv, UpdateNext PROVE Takes BY DEF updateVars
  <2>1. CASE UNCHANGED profile BY <2>1
  <2>2. ASSUME NEW m \in Reports, Report(m), profile' # profile, m.deferred # Unset
        PROVE  Takes
    <3> DEFINE d == m.deferred
    <3>1. d \in Reporter /\ ReporterStale(d) /\ profile'.deferred = d
      BY <2>2, UpdateAssumption DEF Report
    <3>2. per[d] = Unset \/ now > per[d] + Stale BY <3>1 DEF ReporterStale
    <3>3. per[d] = seen[d] \/ \E r \in DOMAIN Older : Older[r] = d /\ seen[r] # Unset /\ seen[r] >= seen[d]
      BY <3>1 DEF UpdateInv, SeenInv
    <3>. QED BY <3>1, <3>2, <3>3
  <2>3. ASSUME NEW m \in Reports, Report(m), m.deferred = Unset
        PROVE  Takes
    <3>1. profile' = profile \/ profile'.deferred = Unset BY <2>3 DEF Report
    <3>. QED BY <3>1
  <2>4. Tick \/ (\E name \in Name \union {Unset} : Patch(name)) => UNCHANGED profile
    BY DEF Tick, Patch, repVars
  <2>. QED BY <2>1, <2>2, <2>3, <2>4 DEF UpdateNext
<1>. QED BY <1>1, UpdateInvariant, PTL DEF UpdateSpec, DeferredKept
=============================================================================
