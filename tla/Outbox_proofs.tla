---------------------------- MODULE Outbox_proofs ----------------------------
(* What the outbox guarantees for any number of sessions, hosts, columns   *)
(* and values. Three layers: the state of each session (SessionInv), the   *)
(* locks and the pending operations when every caller flushes (LockInv),   *)
(* and the identity map when sessions do not overlap on a host (MapInv).   *)
EXTENDS Outbox, TLAPS

(* The identity map, the writes and the operations of a session agree. *)
SessionInv ==
  \A s \in Session, h \in Host :
    /\ was[s][h] = None <=> now[s][h] = None
    /\ was[s][h] = Absent => now[s][h] \in Row /\ work[s][h] = None
    /\ work[s][h] = Absent => was[s][h] = None
    /\ work[s][h] = None => ops[s][h] = {}
    /\ "delete" \in ops[s][h] <=> work[s][h] = Absent

TypeInv == TypeOK /\ SessionInv

-----------------------------------------------------------------------------
(* A row maps to a payload; nothing else is Absent or None. *)
LEMMA PayloadType ==
  ASSUME NEW r \in Row \union {Absent}
  PROVE  /\ PayloadOf(r) \in Payload \union {Absent}
         /\ PayloadOf(r) = Absent <=> r = Absent
BY OutboxAssumption DEF PayloadOf, Payload, Row

(* A flush writes a row of the right type and remembers known operations. *)
LEMMA FlushType ==
  ASSUME TypeInv, NEW s \in Session, CanFlush(s), NEW h \in Host
  PROVE  /\ RowAfterFlush(s, h) \in Row \union {Absent, None}
         /\ Tracked(s, h) \in SUBSET Op
         /\ Tracked(s, h) # {} => RowAfterFlush(s, h) # None
         /\ RowAfterFlush(s, h) = None => work[s][h] = None
         /\ "delete" \in Tracked(s, h) => RowAfterFlush(s, h) = Absent
         /\ RowAfterFlush(s, h) = Absent
              => "delete" \in Tracked(s, h) \/ "delete" \in ops[s][h]
         /\ RowAfterFlush(s, h) = Absent /\ h \in Unflushed(s) => now[s][h] = Absent
<1> USE OutboxAssumption DEF TypeInv, TypeOK, SessionInv
<1>1. CASE h \notin Unflushed(s)
  BY <1>1 DEF RowAfterFlush, Tracked
<1>2. CASE h \in Unflushed(s) /\ Absent \in {was[s][h], now[s][h]}
  BY <1>2 DEF RowAfterFlush, Tracked, Unflushed, Op
<1>3. CASE h \in Unflushed(s) /\ Absent \notin {was[s][h], now[s][h]}
  <2>1. /\ Visible(s, h) \in Row
        /\ now[s][h] \in Row
        /\ was[s][h] \in Row
    BY <1>3 DEF CanFlush, Visible, Unflushed
  <2>2. RowAfterFlush(s, h)
          = [f \in Field |-> IF f \in Changed(s, h) THEN now[s][h][f] ELSE Visible(s, h)[f]]
    BY <1>3 DEF RowAfterFlush
  <2>3. RowAfterFlush(s, h) \in Row
    BY <2>1, <2>2 DEF Row
  <2>4. Tracked(s, h) \in SUBSET {"updated"}
    BY <1>3 DEF Tracked
  <2>5. work[s][h] # Absent
    BY <1>3, <2>1
  <2> QED
    BY <2>3, <2>4, <2>5 DEF Op
<1> QED
  BY <1>1, <1>2, <1>3

(* Every handled operation was pending or is tracked by the commit's flush. *)
LEMMA HandledFrom ==
  ASSUME TypeInv, NEW s \in Session, CanFlush(s), NEW h \in Host
  PROVE  /\ Handled(s)[h] \subseteq ops[s][h] \union Tracked(s, h)
         /\ Handled(s)[h] # {} => RowAfterFlush(s, h) # None
<1>1. Handled(s)[h] \subseteq ops[s][h] \union Tracked(s, h)
  BY DEF Handled
<1>2. work[s][h] = None => ops[s][h] = {}
  BY DEF TypeInv, SessionInv
<1> QED
  BY <1>1, <1>2, FlushType

LEMMA EntryType ==
  ASSUME TypeInv, NEW s \in Session, CanFlush(s), NEW h \in Host
  PROVE  Entry(s, h) \in Payload \union {Absent, None}
<1>1. CASE "delete" \in Handled(s)[h]
  BY <1>1 DEF Entry
<1>2. CASE "delete" \notin Handled(s)[h] /\ Handled(s)[h] # {} /\ RowAfterFlush(s, h) # Absent
  <2>1. RowAfterFlush(s, h) \in Row
    BY <1>2, FlushType, HandledFrom
  <2>2. Reloaded(s, h) \in Row
    BY <2>1 DEF Reloaded, TypeInv, TypeOK
  <2>3. PayloadOf(Reloaded(s, h)) \in Payload \union {Absent}
    BY <2>2, PayloadType
  <2>4. Entry(s, h) = PayloadOf(Reloaded(s, h))
    BY <1>2 DEF Entry
  <2> QED
    BY <2>3, <2>4
<1>3. CASE "delete" \notin Handled(s)[h] /\ ~(Handled(s)[h] # {} /\ RowAfterFlush(s, h) # Absent)
  <2>1. Entry(s, h) = None
    BY <1>3 DEF Entry
  <2> QED
    BY <2>1
<1> QED
  BY <1>1, <1>2, <1>3

-----------------------------------------------------------------------------
LEMMA FlushStep ==
  ASSUME TypeInv, NEW s \in Session, Flush(s)
  PROVE  TypeInv'
<1>1. TypeOK'
  <2>1. \A h \in Host : /\ RowAfterFlush(s, h) \in Row \union {Absent, None}
                        /\ Tracked(s, h) \in SUBSET Op
    BY FlushType DEF Flush
  <2> QED
    BY <2>1 DEF Flush, TypeInv, TypeOK
<1>2. SessionInv'
  <2> SUFFICES ASSUME NEW t \in Session, NEW h \in Host
               PROVE  /\ was'[t][h] = None <=> now'[t][h] = None
                      /\ was'[t][h] = Absent => now'[t][h] \in Row /\ work'[t][h] = None
                      /\ work'[t][h] = Absent => was'[t][h] = None
                      /\ work'[t][h] = None => ops'[t][h] = {}
                      /\ "delete" \in ops'[t][h] <=> work'[t][h] = Absent
    BY DEF SessionInv
  <2>1. CASE t # s
    BY <2>1 DEF Flush, TypeInv, TypeOK, SessionInv
  <2>2. CASE t = s
    <3>1. /\ work'[s][h] = RowAfterFlush(s, h)
          /\ ops'[s][h] = ops[s][h] \union Tracked(s, h)
          /\ was'[s][h] = now'[s][h]
          /\ was'[s][h] = IF now[s][h] = Absent THEN None ELSE now[s][h]
      BY DEF Flush, TypeInv, TypeOK
    <3>2. CASE h \notin Unflushed(s)
      <4>1. /\ RowAfterFlush(s, h) = work[s][h]
            /\ Tracked(s, h) = {}
            /\ was[s][h] = now[s][h]
        BY <3>2 DEF RowAfterFlush, Tracked, Unflushed
      <4>2. now[s][h] # Absent
        BY <4>1, OutboxAssumption DEF TypeInv, SessionInv
      <4> QED
        BY <2>2, <3>1, <4>1, <4>2 DEF TypeInv, SessionInv
    <3>3. CASE h \in Unflushed(s)
      <4>1. was'[s][h] # Absent
        BY <3>1, OutboxAssumption
      <4>2. work'[s][h] = Absent => was'[s][h] = None
        BY <3>1, <3>3, FlushType DEF Flush
      <4>3. work'[s][h] = None => ops'[s][h] = {}
        <5>1. work[s][h] = None => ops[s][h] = {}
          BY DEF TypeInv, SessionInv
        <5> QED
          BY <3>1, <5>1, FlushType DEF Flush
      <4>4. "delete" \in ops'[s][h] <=> work'[s][h] = Absent
        <5>1. work[s][h] # Absent
          BY <3>3 DEF TypeInv, SessionInv, Unflushed
        <5>2. "delete" \notin ops[s][h]
          BY <5>1 DEF TypeInv, SessionInv
        <5> QED
          BY <3>1, <5>2, FlushType DEF Flush
      <4> QED
        BY <2>2, <3>1, <4>1, <4>2, <4>3, <4>4
    <3> QED
      BY <3>2, <3>3
  <2> QED
    BY <2>1, <2>2
<1> QED
  BY <1>1, <1>2 DEF TypeInv

LEMMA CommitStep ==
  ASSUME TypeInv, NEW s \in Session, Commit(s)
  PROVE  TypeInv'
<1>1. \A h \in Host : /\ RowAfterFlush(s, h) \in Row \union {Absent, None}
                      /\ Entry(s, h) \in Payload \union {Absent, None}
  BY FlushType, EntryType DEF Commit
<1>2. TypeOK'
  BY <1>1 DEF Commit, TypeInv, TypeOK, Forgotten, NoOps
<1>3. SessionInv'
  BY OutboxAssumption DEF Commit, TypeInv, TypeOK, SessionInv, Forgotten, NoOps
<1> QED
  BY <1>2, <1>3 DEF TypeInv

LEMMA TypeInit == Init => TypeInv
<1> SUFFICES ASSUME Init PROVE TypeInv
  OBVIOUS
<1>1. \A h \in Host : PayloadOf(db[h]) \in Payload \union {Absent}
  BY PayloadType DEF Init
<1> QED
  BY <1>1, OutboxAssumption DEF Init, TypeInv, TypeOK, SessionInv, Forgotten, NoOps

LEMMA TypeStep == TypeInv /\ [Next]_vars => TypeInv'
<1> SUFFICES ASSUME TypeInv, [Next]_vars PROVE TypeInv'
  OBVIOUS
<1>1. CASE UNCHANGED vars
  BY <1>1 DEF vars, TypeInv, TypeOK, SessionInv
<1>2. ASSUME NEW s \in Session, NEW h \in Host, Load(s, h) PROVE TypeInv'
  <2>1. Visible(s, h) \in Row
    BY <1>2 DEF Load, Visible, TypeInv, TypeOK, SessionInv
  <2>2. work[s][h] # Absent
    BY <1>2, OutboxAssumption DEF Load, Visible
  <2>3. Visible(s, h) \notin {Absent, None}
    BY <2>1, OutboxAssumption
  <2>4. TypeOK'
    BY <1>2, <2>1 DEF Load, TypeInv, TypeOK
  <2>5. SessionInv'
    BY <1>2, <2>2, <2>3 DEF Load, TypeInv, TypeOK, SessionInv
  <2> QED
    BY <2>4, <2>5 DEF TypeInv
<1>3. ASSUME NEW s \in Session, NEW h \in Host, Drop(s, h) PROVE TypeInv'
  BY <1>3, OutboxAssumption DEF Drop, TypeInv, TypeOK, SessionInv
<1>4. ASSUME NEW s \in Session, NEW h \in Host, Delete(s, h) PROVE TypeInv'
  BY <1>4, OutboxAssumption DEF Delete, TypeInv, TypeOK, SessionInv
<1>5. ASSUME NEW s \in Session, NEW h \in Host, NEW r \in Row, Add(s, h, r) PROVE TypeInv'
  BY <1>5, OutboxAssumption DEF Add, TypeInv, TypeOK, SessionInv
<1>6. ASSUME NEW s \in Session, NEW h \in Host, NEW f \in Field, NEW v \in Val, Assign(s, h, f, v)
      PROVE TypeInv'
  <2>1. now[s][h] \in Row
    BY <1>6 DEF Assign, TypeInv, TypeOK
  <2>2. [now[s][h] EXCEPT ![f] = v] \in Row
    BY <2>1 DEF Row
  <2>3. PICK r \in Row : now' = [now EXCEPT ![s] = [now[s] EXCEPT ![h] = r]]
    BY <1>6, <2>2 DEF Assign
  <2>4. /\ UNCHANGED <<db, was, work, ops, kessel>>
        /\ was[s][h] \notin {None, Absent}
        /\ now[s][h] \notin {None, Absent}
    BY <1>6 DEF Assign
  <2>5. TypeOK'
    BY <2>3, <2>4 DEF TypeInv, TypeOK
  <2>6. SessionInv'
    <3>1. r \notin {Absent, None}
      BY OutboxAssumption
    <3> QED
      BY <2>3, <2>4, <3>1 DEF TypeInv, TypeOK, SessionInv
  <2> QED
    BY <2>5, <2>6 DEF TypeInv
<1>7. ASSUME NEW s \in Session, Rollback(s) PROVE TypeInv'
  BY <1>7, OutboxAssumption DEF Rollback, TypeInv, TypeOK, SessionInv, Forgotten, NoOps
<1> QED
  BY <1>1, <1>2, <1>3, <1>4, <1>5, <1>6, <1>7, FlushStep, CommitStep DEF Next

(* Every reachable state is well typed, whatever the sessions do. *)
THEOREM TypeCorrect == Spec => []TypeOK
<1>1. TypeInv => TypeOK
  BY DEF TypeInv
<1> QED
  BY <1>1, TypeInit, TypeStep, PTL DEF Spec

-----------------------------------------------------------------------------
(* What a session remembers is about its own transaction: an operation is  *)
(* pending only for a host it has written, a deletion only for one it has  *)
(* deleted.                                                                *)
THEOREM OpsCorrect == Spec => []OpsOfOwnWrites
<1>1. TypeInv => OpsOfOwnWrites
  BY DEF TypeInv, SessionInv, OpsOfOwnWrites
<1> QED
  BY <1>1, TypeInit, TypeStep, PTL DEF Spec

-----------------------------------------------------------------------------
(* When every caller flushes before it commits (~BareCommit), sessions may *)
(* interleave freely: a row is written by one transaction at a time, and a *)
(* row not in the database yet has an operation pending.                   *)
LockInv ==
  /\ \A s \in Session, t \in Session, h \in Host :
       work[s][h] # None /\ work[t][h] # None => s = t
  /\ \A s \in Session, h \in Host :
       work[s][h] \in Row /\ db[h] = Absent => ops[s][h] # {}
  /\ PresenceInSync

(* The identity map mirrors the row, and a written row without a pending   *)
(* operation differs from the committed one in untold columns only.        *)
MapInv ==
  /\ \A s \in Session, h \in Host : was[s][h] \in Row => was[s][h] = Visible(s, h)
  /\ \A s \in Session, h \in Host :
       work[s][h] \in Row /\ ops[s][h] = {} => PayloadOf(work[s][h]) = PayloadOf(db[h])
  /\ KesselInSync

(* A commit with nothing left to flush writes what was flushed and handles *)
(* what was pending.                                                       *)
LEMMA QuietCommit ==
  ASSUME NEW s \in Session, Unflushed(s) = {}, NEW h \in Host
  PROVE  /\ RowAfterFlush(s, h) = work[s][h]
         /\ Handled(s)[h] = ops[s][h]
<1>1. Tracked(s, h) = {}
  BY DEF Tracked
<1>2. RowAfterFlush(s, h) = work[s][h]
  BY DEF RowAfterFlush
<1> QED
  BY <1>1, <1>2 DEF Handled

(* What a commit does to one host, when every caller flushes. *)
LEMMA CommitEffect ==
  ASSUME TypeInv, ~BareCommit, NEW s \in Session, Commit(s), NEW h \in Host
  PROVE  /\ work[s][h] = None   => db'[h] = db[h] /\ kessel'[h] = kessel[h]
         /\ work[s][h] = Absent => db'[h] = Absent /\ kessel'[h] = Absent
         /\ work[s][h] \in Row  =>
              /\ db'[h] = work[s][h]
              /\ ops[s][h] = {}  => kessel'[h] = kessel[h]
              /\ ops[s][h] # {}  => kessel'[h] = PayloadOf(Reloaded(s, h))
                                    /\ Reloaded(s, h) \in Row
                                    /\ kessel'[h] # Absent
         /\ \A t \in Session : work'[t][h] = IF t = s THEN None ELSE work[t][h]
         /\ \A t \in Session : ops'[t][h] = IF t = s THEN {} ELSE ops[t][h]
         /\ \A t \in Session : was'[t][h] = IF t = s THEN None ELSE was[t][h]
<1>1. /\ RowAfterFlush(s, h) = work[s][h]
      /\ Handled(s)[h] = ops[s][h]
  BY QuietCommit DEF Commit
<1>2. /\ db'[h] = IF work[s][h] = None THEN db[h] ELSE work[s][h]
      /\ kessel'[h] = IF Entry(s, h) = None THEN kessel[h] ELSE Entry(s, h)
  BY <1>1 DEF Commit
<1>3. /\ \A t \in Session : work'[t][h] = IF t = s THEN None ELSE work[t][h]
      /\ \A t \in Session : ops'[t][h] = IF t = s THEN {} ELSE ops[t][h]
      /\ \A t \in Session : was'[t][h] = IF t = s THEN None ELSE was[t][h]
  BY DEF Commit, TypeInv, TypeOK, Forgotten, NoOps
<1>4. CASE work[s][h] = None
  <2>1. Entry(s, h) = None
    BY <1>1, <1>4 DEF Entry, TypeInv, SessionInv
  <2> QED
    BY <1>2, <1>3, <1>4, <2>1, OutboxAssumption
<1>5. CASE work[s][h] = Absent
  <2>1. Entry(s, h) = Absent
    BY <1>1, <1>5 DEF Entry, TypeInv, SessionInv
  <2> QED
    BY <1>2, <1>3, <1>5, <2>1, OutboxAssumption
<1>6. CASE work[s][h] \in Row
  <2>1. work[s][h] \notin {None, Absent}
    BY <1>6, OutboxAssumption
  <2>2. "delete" \notin ops[s][h]
    BY <2>1 DEF TypeInv, SessionInv
  <2>3. Reloaded(s, h) \in Row
    BY <1>1, <1>6 DEF Reloaded, TypeInv, TypeOK
  <2>4. PayloadOf(Reloaded(s, h)) \notin {None, Absent}
    <3>1. Reloaded(s, h) # Absent
      BY <2>3, OutboxAssumption
    <3> QED
      BY <2>3, <3>1, PayloadType, OutboxAssumption
  <2>5. Entry(s, h) = IF ops[s][h] # {} THEN PayloadOf(Reloaded(s, h)) ELSE None
    BY <1>1, <2>1, <2>2 DEF Entry
  <2> QED
    BY <1>2, <1>3, <1>6, <2>1, <2>3, <2>4, <2>5
<1> QED
  BY <1>4, <1>5, <1>6 DEF TypeInv, TypeOK

(* What a flush does to the hosts of one session. *)
LEMMA FlushEffect ==
  ASSUME TypeInv, NEW s \in Session, Flush(s), NEW h \in Host
  PROVE  /\ \A t \in Session : t # s => work'[t][h] = work[t][h] /\ ops'[t][h] = ops[t][h]
                                       /\ was'[t][h] = was[t][h]
         /\ h \notin Unflushed(s) => work'[s][h] = work[s][h] /\ ops'[s][h] = ops[s][h]
                                    /\ was'[s][h] = was[s][h]
         /\ h \in Unflushed(s) =>
              /\ \A t \in Session \ {s} : work[t][h] = None
              /\ work'[s][h] # None
              /\ was'[s][h] = IF now[s][h] = Absent THEN None ELSE now[s][h]
              /\ ops'[s][h] = ops[s][h] \union Tracked(s, h)
              /\ work'[s][h] = RowAfterFlush(s, h)
         /\ db'[h] = db[h]
         /\ kessel'[h] = kessel[h]
<1>1. \A t \in Session : t # s => work'[t][h] = work[t][h] /\ ops'[t][h] = ops[t][h]
                                 /\ was'[t][h] = was[t][h]
  BY DEF Flush, TypeInv, TypeOK
<1>2. /\ work'[s][h] = RowAfterFlush(s, h)
      /\ ops'[s][h] = ops[s][h] \union Tracked(s, h)
      /\ was'[s][h] = IF now[s][h] = Absent THEN None ELSE now[s][h]
      /\ db'[h] = db[h]
      /\ kessel'[h] = kessel[h]
  BY DEF Flush, TypeInv, TypeOK
<1>3. CASE h \notin Unflushed(s)
  <2>1. was[s][h] = now[s][h] /\ now[s][h] # Absent
    BY <1>3, OutboxAssumption DEF Unflushed, TypeInv, SessionInv
  <2> QED
    BY <1>1, <1>2, <1>3, <2>1 DEF RowAfterFlush, Tracked
<1>4. CASE h \in Unflushed(s)
  <2>1. RowAfterFlush(s, h) # None
    <3>1. now[s][h] # None
      BY <1>4 DEF Unflushed, TypeInv, SessionInv
    <3>2. CASE Absent \in {was[s][h], now[s][h]}
      BY <1>4, <3>1, <3>2 DEF RowAfterFlush
    <3>3. CASE Absent \notin {was[s][h], now[s][h]}
      <4>1. RowAfterFlush(s, h) \in Row
        <5>1. was[s][h] \in Row /\ now[s][h] \in Row
          BY <1>4, <3>1, <3>3 DEF Unflushed, TypeInv, TypeOK, SessionInv
        <5>2. Visible(s, h) \in Row
          BY <1>4, <3>3 DEF Flush, CanFlush, Visible, TypeInv, TypeOK
        <5> QED
          BY <1>4, <3>3, <5>1, <5>2 DEF RowAfterFlush, Row
      <4> QED
        BY <4>1, OutboxAssumption
    <3> QED
      BY <3>2, <3>3
  <2>2. \A t \in Session \ {s} : work[t][h] = None
    BY <1>4 DEF Flush, CanFlush
  <2> QED
    BY <1>1, <1>2, <1>4, <2>1, <2>2
<1> QED
  BY <1>3, <1>4

(* The actions of the program between two flushes touch neither the rows   *)
(* nor the pending operations.                                             *)
LEMMA QuietSteps ==
  ASSUME TypeInv, [Next]_vars
  PROVE  \/ \E s \in Session : Flush(s) \/ Commit(s) \/ Rollback(s)
         \/ UNCHANGED <<db, work, ops, kessel>>
BY DEF Next, vars, Load, Drop, Add, Assign, Delete

LEMMA LockStep ==
  ASSUME TypeInv, LockInv, ~BareCommit, [Next]_vars
  PROVE  LockInv'
<1>1. CASE UNCHANGED <<db, work, ops, kessel>>
  BY <1>1 DEF LockInv, PresenceInSync
<1>2. ASSUME NEW s \in Session, Rollback(s) PROVE LockInv'
  <2>1. \A t \in Session, h \in Host :
          /\ work'[t][h] = IF t = s THEN None ELSE work[t][h]
          /\ ops'[t][h] = IF t = s THEN {} ELSE ops[t][h]
    BY <1>2 DEF Rollback, Forgotten, TypeInv, TypeOK, NoOps
  <2>2. UNCHANGED <<db, kessel>>
    BY <1>2 DEF Rollback
  <2> QED
    BY <2>1, <2>2, OutboxAssumption DEF LockInv, PresenceInSync
<1>3. ASSUME NEW s \in Session, Flush(s) PROVE LockInv'
  <2>1. ASSUME NEW t \in Session, NEW u \in Session, NEW h \in Host,
               work'[t][h] # None, work'[u][h] # None
        PROVE  t = u
    BY <1>3, <2>1, FlushEffect DEF LockInv
  <2>2. ASSUME NEW t \in Session, NEW h \in Host, work'[t][h] \in Row, db'[h] = Absent
        PROVE  ops'[t][h] # {}
    <3>1. CASE t # s \/ h \notin Unflushed(s)
      BY <1>3, <2>2, <3>1, FlushEffect DEF LockInv
    <3>2. CASE t = s /\ h \in Unflushed(s) /\ ops[s][h] = {}
      <4>1. db[h] = Absent /\ ops'[s][h] = Tracked(s, h) /\ work'[s][h] = RowAfterFlush(s, h)
        <5>1. /\ db'[h] = db[h]
              /\ ops'[s][h] = ops[s][h] \union Tracked(s, h)
              /\ work'[s][h] = RowAfterFlush(s, h)
          BY <1>3, <3>2, FlushEffect
        <5> QED
          BY <2>2, <3>2, <5>1
      <4>2. Visible(s, h) = Absent
        <5>1. work[s][h] \notin Row
          BY <3>2, <4>1 DEF LockInv
        <5> QED
          BY <4>1, <5>1 DEF Visible, TypeInv, TypeOK
      <4>3. was[s][h] = Absent \/ now[s][h] = Absent
        BY <1>3, <3>2, <4>2 DEF Flush, CanFlush
      <4> QED
        BY <3>2, <2>2, <4>1, <4>3 DEF Tracked
    <3>3. CASE t = s /\ h \in Unflushed(s) /\ ops[s][h] # {}
      BY <1>3, <3>3, FlushEffect
    <3> QED
      BY <3>1, <3>2, <3>3
  <2>3. PresenceInSync'
    BY <1>3 DEF Flush, LockInv, PresenceInSync
  <2> QED
    BY <2>1, <2>2, <2>3 DEF LockInv
<1>4. ASSUME NEW s \in Session, Commit(s) PROVE LockInv'
  <2>1. ASSUME NEW t \in Session, NEW u \in Session, NEW h \in Host,
               work'[t][h] # None, work'[u][h] # None
        PROVE  t = u
    BY <1>4, <2>1, CommitEffect DEF LockInv
  <2>2. ASSUME NEW t \in Session, NEW h \in Host, work'[t][h] \in Row, db'[h] = Absent
        PROVE  ops'[t][h] # {}
    <3>1. t # s /\ work[t][h] = work'[t][h] /\ ops'[t][h] = ops[t][h]
      BY <1>4, <2>2, CommitEffect, OutboxAssumption
    <3>2. work[t][h] # None
      BY <2>2, <3>1, OutboxAssumption
    <3>3. work[s][h] = None
      BY <3>1, <3>2 DEF LockInv
    <3>4. db[h] = Absent
      BY <1>4, <2>2, <3>3, CommitEffect
    <3> QED
      BY <2>2, <3>1, <3>4 DEF LockInv
  <2>3. ASSUME NEW h \in Host PROVE kessel'[h] = Absent <=> db'[h] = Absent
    <3>1. kessel[h] = Absent <=> db[h] = Absent
      BY DEF LockInv, PresenceInSync
    <3>2. CASE work[s][h] = None
      BY <1>4, <3>1, <3>2, CommitEffect
    <3>3. CASE work[s][h] = Absent
      BY <1>4, <3>3, CommitEffect
    <3>4. CASE work[s][h] \in Row
      <4>1. db'[h] # Absent
        BY <1>4, <3>4, CommitEffect, OutboxAssumption
      <4>2. CASE ops[s][h] = {}
        <5>1. db[h] # Absent
          BY <3>4, <4>2 DEF LockInv
        <5> QED
          BY <1>4, <3>1, <3>4, <4>1, <4>2, <5>1, CommitEffect
      <4>3. CASE ops[s][h] # {}
        BY <1>4, <3>4, <4>1, <4>3, CommitEffect
      <4> QED
        BY <4>2, <4>3
    <3> QED
      BY <3>2, <3>3, <3>4 DEF TypeInv, TypeOK
  <2> QED
    BY <2>1, <2>2, <2>3 DEF LockInv, PresenceInSync
<1> QED
  BY <1>1, <1>2, <1>3, <1>4, QuietSteps

(* With callers that flush, Kessel knows exactly the hosts that exist,     *)
(* for any number of sessions interleaving on the same hosts.              *)
THEOREM PresenceCorrect ==
  ASSUME ~BareCommit
  PROVE  Spec => []PresenceInSync
<1>1. Init => LockInv
  <2> SUFFICES ASSUME Init PROVE LockInv
    OBVIOUS
  <2>1. \A h \in Host : PayloadOf(db[h]) = Absent <=> db[h] = Absent
    BY PayloadType DEF Init
  <2> QED
    BY <2>1, OutboxAssumption DEF Init, LockInv, PresenceInSync, Forgotten
<1>2. TypeInv /\ LockInv /\ [Next]_vars => LockInv'
  BY LockStep
<1>3. LockInv => PresenceInSync
  BY DEF LockInv
<1> QED
  BY <1>1, <1>2, <1>3, TypeInit, TypeStep, PTL DEF Spec

-----------------------------------------------------------------------------
(* A flush of a host whose image mirrors the row writes exactly the        *)
(* attributes the program sees.                                            *)
LEMMA FlushWritesNow ==
  ASSUME TypeInv, MapInv, NEW s \in Session, Flush(s), NEW h \in Unflushed(s)
  PROVE  /\ RowAfterFlush(s, h) = now[s][h]
         /\ was[s][h] \in Row /\ now[s][h] \in Row => was[s][h] = Visible(s, h)
<1>0. h \in Host
  BY DEF Unflushed
<1>1. CASE Absent \in {was[s][h], now[s][h]}
  <2>1. RowAfterFlush(s, h) = now[s][h]
    BY <1>1 DEF RowAfterFlush
  <2> QED
    BY <1>0, <2>1 DEF MapInv
<1>2. CASE Absent \notin {was[s][h], now[s][h]}
  <2>1. was[s][h] \in Row /\ now[s][h] \in Row
    BY <1>0, <1>2 DEF Unflushed, TypeInv, TypeOK, SessionInv
  <2>2. was[s][h] = Visible(s, h)
    BY <1>0, <2>1 DEF MapInv
  <2>3. RowAfterFlush(s, h)
          = [f \in Field |-> IF f \in Changed(s, h) THEN now[s][h][f] ELSE was[s][h][f]]
    BY <1>2, <2>2 DEF RowAfterFlush
  <2>4. \A f \in Field : f \notin Changed(s, h) => was[s][h][f] = now[s][h][f]
    BY DEF Changed
  <2>5. RowAfterFlush(s, h) = [f \in Field |-> now[s][h][f]]
    BY <2>3, <2>4
  <2> QED
    BY <2>1, <2>2, <2>5 DEF Row
<1> QED
  BY <1>1, <1>2

LEMMA MapFlush ==
  ASSUME TypeInv, MapInv, NEW s \in Session, Flush(s)
  PROVE  MapInv'
<1>1. ASSUME NEW t \in Session, NEW h \in Host, was'[t][h] \in Row
      PROVE  was'[t][h] = Visible(t, h)'
  <2>1. CASE t # s \/ h \notin Unflushed(s)
    <3>1. was'[t][h] = was[t][h] /\ work'[t][h] = work[t][h] /\ db'[h] = db[h]
      BY <2>1, FlushEffect
    <3> QED
      BY <1>1, <3>1 DEF MapInv, Visible
  <2>2. CASE t = s /\ h \in Unflushed(s)
    <3>1. /\ was'[s][h] = IF now[s][h] = Absent THEN None ELSE now[s][h]
          /\ work'[s][h] = RowAfterFlush(s, h)
          /\ work'[s][h] # None
      BY <2>2, FlushEffect
    <3>2. RowAfterFlush(s, h) = now[s][h]
      BY <2>2, FlushWritesNow
    <3> QED
      BY <1>1, <2>2, <3>1, <3>2, OutboxAssumption DEF Visible
  <2> QED
    BY <2>1, <2>2
<1>2. ASSUME NEW t \in Session, NEW h \in Host, work'[t][h] \in Row, ops'[t][h] = {}
      PROVE  PayloadOf(work'[t][h]) = PayloadOf(db'[h])
  <2>1. db'[h] = db[h]
    BY FlushEffect
  <2>2. CASE t # s \/ h \notin Unflushed(s)
    <3>1. work'[t][h] = work[t][h] /\ ops'[t][h] = ops[t][h]
      BY <2>2, FlushEffect
    <3> QED
      BY <1>2, <2>1, <3>1 DEF MapInv
  <2>3. CASE t = s /\ h \in Unflushed(s)
    <3>1. /\ ops'[s][h] = ops[s][h] \union Tracked(s, h)
          /\ work'[s][h] = RowAfterFlush(s, h)
      BY <2>3, FlushEffect
    <3>2. ops[s][h] = {} /\ Tracked(s, h) = {}
      BY <1>2, <2>3, <3>1
    <3>3. /\ was[s][h] # Absent /\ now[s][h] # Absent
          /\ Changed(s, h) \cap Trigger = {}
      BY <2>3, <3>2 DEF Tracked
    <3>4. was[s][h] \in Row /\ now[s][h] \in Row
      BY <2>3, <3>3 DEF Unflushed, TypeInv, TypeOK, SessionInv
    <3>5. work'[s][h] = now[s][h] /\ was[s][h] = Visible(s, h)
      BY <2>3, <3>1, <3>4, FlushWritesNow
    <3>6. \A f \in Trigger : now[s][h][f] = was[s][h][f]
      BY <3>3, OutboxAssumption DEF Changed
    <3>7. PayloadOf(now[s][h]) = PayloadOf(was[s][h])
      BY <3>3, <3>6 DEF PayloadOf
    <3>8. PayloadOf(Visible(s, h)) = PayloadOf(db[h])
      <4>1. CASE work[s][h] = None
        BY <4>1 DEF Visible
      <4>2. CASE work[s][h] # None
        <5>1. Visible(s, h) = work[s][h] /\ work[s][h] \in Row
          BY <3>4, <3>5, <4>2 DEF Visible
        <5> QED
          BY <3>2, <5>1 DEF MapInv
      <4> QED
        BY <4>1, <4>2
    <3> QED
      BY <2>1, <2>3, <3>5, <3>7, <3>8
  <2> QED
    BY <2>2, <2>3
<1>3. KesselInSync'
  BY DEF Flush, MapInv, KesselInSync, PayloadOf
<1> QED
  BY <1>1, <1>2, <1>3 DEF MapInv

LEMMA MapCommit ==
  ASSUME TypeInv, MapInv, Isolated, ~BareCommit, NEW s \in Session, Commit(s)
  PROVE  MapInv'
<1>1. ASSUME NEW t \in Session, NEW h \in Host, t # s, Held(t, h)
      PROVE  work'[t][h] = work[t][h] /\ ops'[t][h] = ops[t][h] /\ db'[h] = db[h]
  <2>1. work[s][h] = None
    BY <1>1 DEF Isolated, Held
  <2> QED
    BY <1>1, <2>1, CommitEffect
<1>2. ASSUME NEW t \in Session, NEW h \in Host, was'[t][h] \in Row
      PROVE  was'[t][h] = Visible(t, h)'
  <2>1. t # s /\ was'[t][h] = was[t][h]
    BY <1>2, CommitEffect, OutboxAssumption
  <2>2. Held(t, h)
    BY <1>2, <2>1, OutboxAssumption DEF Held, TypeInv, SessionInv
  <2> QED
    BY <1>1, <1>2, <2>1, <2>2 DEF MapInv, Visible
<1>3. ASSUME NEW t \in Session, NEW h \in Host, work'[t][h] \in Row, ops'[t][h] = {}
      PROVE  PayloadOf(work'[t][h]) = PayloadOf(db'[h])
  <2>1. t # s /\ work'[t][h] = work[t][h]
    BY <1>3, CommitEffect, OutboxAssumption
  <2>2. Held(t, h)
    BY <1>3, <2>1, OutboxAssumption DEF Held
  <2> QED
    BY <1>1, <1>3, <2>1, <2>2 DEF MapInv
<1>4. ASSUME NEW h \in Host PROVE kessel'[h] = PayloadOf(db'[h])
  <2>1. kessel[h] = PayloadOf(db[h])
    BY DEF MapInv, KesselInSync
  <2>2. CASE work[s][h] = None
    BY <2>1, <2>2, CommitEffect
  <2>3. CASE work[s][h] = Absent
    BY <2>3, CommitEffect DEF PayloadOf
  <2>4. CASE work[s][h] \in Row /\ ops[s][h] = {}
    BY <2>1, <2>4, CommitEffect DEF MapInv
  <2>5. CASE work[s][h] \in Row /\ ops[s][h] # {}
    <3>1. /\ db'[h] = work[s][h]
          /\ kessel'[h] = PayloadOf(Reloaded(s, h))
      BY <2>5, CommitEffect
    <3>2. Unflushed(s) = {}
      BY DEF Commit
    <3>3. RowAfterFlush(s, h) = work[s][h] /\ was[s][h] = now[s][h]
      BY <3>2, QuietCommit DEF Unflushed
    <3>4. now[s][h] \in Row => now[s][h] = work[s][h]
      BY <2>5, <3>3, OutboxAssumption DEF MapInv, Visible
    <3>5. Reloaded(s, h) = work[s][h]
      BY <3>3, <3>4 DEF Reloaded, TypeInv, TypeOK
    <3> QED
      BY <3>1, <3>5
  <2> QED
    BY <2>2, <2>3, <2>4, <2>5 DEF TypeInv, TypeOK
<1> QED
  BY <1>2, <1>3, <1>4 DEF MapInv, KesselInSync

LEMMA MapStep ==
  ASSUME TypeInv, MapInv, Isolated, ~BareCommit, [Next]_vars
  PROVE  MapInv'
<1>1. ASSUME UNCHANGED <<db, work, ops, kessel>>,
             \A s \in Session, h \in Host :
               was'[s][h] = was[s][h] \/ was'[s][h] \notin Row \/ was'[s][h] = Visible(s, h)
      PROVE  MapInv'
  BY <1>1 DEF MapInv, Visible, KesselInSync
<1>2. CASE UNCHANGED vars
  BY <1>1, <1>2 DEF vars
<1>3. ASSUME NEW s \in Session, NEW h \in Host, Load(s, h) PROVE MapInv'
  <2>1. \A t \in Session, k \in Host :
          was'[t][k] = was[t][k] \/ was'[t][k] \notin Row \/ was'[t][k] = Visible(t, k)
    BY <1>3 DEF Load, TypeInv, TypeOK
  <2> QED
    BY <1>1, <1>3, <2>1 DEF Load
<1>4. ASSUME NEW s \in Session, NEW h \in Host, Drop(s, h) PROVE MapInv'
  <2>1. \A t \in Session, k \in Host : was'[t][k] = was[t][k] \/ was'[t][k] \notin Row
    BY <1>4, OutboxAssumption DEF Drop, TypeInv, TypeOK
  <2> QED
    BY <1>1, <1>4, <2>1 DEF Drop
<1>5. ASSUME NEW s \in Session, NEW h \in Host, NEW r \in Row, Add(s, h, r) PROVE MapInv'
  <2>1. \A t \in Session, k \in Host : was'[t][k] = was[t][k] \/ was'[t][k] \notin Row
    BY <1>5, OutboxAssumption DEF Add, TypeInv, TypeOK
  <2> QED
    BY <1>1, <1>5, <2>1 DEF Add
<1>6. ASSUME NEW s \in Session, NEW h \in Host, Delete(s, h) PROVE MapInv'
  BY <1>1, <1>6 DEF Delete
<1>7. ASSUME NEW s \in Session, NEW h \in Host, NEW f \in Field, NEW v \in Val, Assign(s, h, f, v)
      PROVE  MapInv'
  BY <1>1, <1>7 DEF Assign
<1>8. ASSUME NEW s \in Session, Rollback(s) PROVE MapInv'
  <2>1. \A t \in Session, h \in Host :
          /\ work'[t][h] = IF t = s THEN None ELSE work[t][h]
          /\ ops'[t][h] = IF t = s THEN {} ELSE ops[t][h]
          /\ was'[t][h] = IF t = s THEN None ELSE was[t][h]
    BY <1>8 DEF Rollback, Forgotten, TypeInv, TypeOK, NoOps
  <2>2. UNCHANGED <<db, kessel>>
    BY <1>8 DEF Rollback
  <2> QED
    BY <2>1, <2>2, OutboxAssumption DEF MapInv, Visible, KesselInSync
<1> QED
  BY <1>2, <1>3, <1>4, <1>5, <1>6, <1>7, <1>8, MapFlush, MapCommit DEF Next

(* With callers that flush, and as long as no two sessions hold the same   *)
(* host at once, Kessel equals the database on every trigger column.       *)
THEOREM InSyncCorrect ==
  ASSUME ~BareCommit
  PROVE  Spec => InSyncWhenIsolated
<1>1. Init => MapInv
  BY OutboxAssumption DEF Init, MapInv, KesselInSync, Forgotten
<1>2. TypeInv /\ MapInv /\ Isolated /\ [Next]_vars => MapInv'
  BY MapStep
<1>3. MapInv => KesselInSync
  BY DEF MapInv
<1> QED
  BY <1>1, <1>2, <1>3, TypeInit, TypeStep, PTL DEF Spec, InSyncWhenIsolated

-----------------------------------------------------------------------------
(* A trigger column a transaction has changed is pending to be told, and   *)
(* the identity map has the written value, even if its other columns are   *)
(* stale.                                                                  *)
TellInv ==
  \A s \in Session, h \in Host, f \in Trigger :
    (work[s][h] \in Row /\ db[h] \in Row /\ work[s][h][f] # db[h][f])
      => /\ ops[s][h] # {}
         /\ was[s][h] \in Row => was[s][h][f] = work[s][h][f]

LEMMA TellFlush ==
  ASSUME TypeInv, TellInv, NEW s \in Session, Flush(s)
  PROVE  TellInv'
<1> SUFFICES ASSUME NEW t \in Session, NEW h \in Host, NEW f \in Trigger,
                    work'[t][h] \in Row, db'[h] \in Row, work'[t][h][f] # db'[h][f]
             PROVE  /\ ops'[t][h] # {}
                    /\ was'[t][h] \in Row => was'[t][h][f] = work'[t][h][f]
  BY DEF TellInv
<1>1. CASE t # s \/ h \notin Unflushed(s)
  BY <1>1, FlushEffect DEF TellInv
<1>2. CASE t = s /\ h \in Unflushed(s)
  <2>1. /\ ops'[s][h] = ops[s][h] \union Tracked(s, h)
        /\ work'[s][h] = RowAfterFlush(s, h)
        /\ was'[s][h] = IF now[s][h] = Absent THEN None ELSE now[s][h]
        /\ db'[h] = db[h]
    BY <1>2, FlushEffect
  <2>2. now[s][h] # Absent
    BY <1>2, <2>1, OutboxAssumption DEF RowAfterFlush
  <2>3. was[s][h] # Absent
    <3>1. ASSUME was[s][h] = Absent PROVE FALSE
      <4>1. Visible(s, h) = Absent /\ work[s][h] = None
        BY <1>2, <3>1 DEF Flush, CanFlush, TypeInv, SessionInv
      <4> QED
        BY <2>1, <4>1, OutboxAssumption DEF Visible
    <3> QED
      BY <3>1
  <2>4. was[s][h] \in Row /\ now[s][h] \in Row
    BY <1>2, <2>2, <2>3 DEF Unflushed, TypeInv, TypeOK, SessionInv
  <2>5. f \in Field /\ h \in Host
    BY OutboxAssumption
  <2>6. work'[s][h][f] = IF f \in Changed(s, h) THEN now[s][h][f] ELSE Visible(s, h)[f]
    BY <1>2, <2>1, <2>2, <2>3, <2>5 DEF RowAfterFlush
  <2>7. CASE f \in Changed(s, h)
    <3>1. Tracked(s, h) = {"updated"}
      BY <1>2, <2>2, <2>3, <2>7 DEF Tracked
    <3> QED
      BY <1>2, <2>1, <2>2, <2>6, <2>7, <3>1
  <2>8. CASE f \notin Changed(s, h)
    <3>1. now[s][h][f] = was[s][h][f]
      BY <2>5, <2>8 DEF Changed
    <3>2. Visible(s, h)[f] # db[h][f]
      BY <1>2, <2>1, <2>6, <2>8
    <3>3. work[s][h] \in Row /\ Visible(s, h) = work[s][h]
      <4>1. work[s][h] # None
        BY <3>2 DEF Visible
      <4>2. work[s][h] # Absent
        BY <2>4, OutboxAssumption DEF TypeInv, SessionInv
      <4> QED
        BY <4>1, <4>2 DEF Visible, TypeInv, TypeOK
    <3>4. ops[s][h] # {} /\ was[s][h][f] = work[s][h][f]
      BY <2>1, <2>4, <3>2, <3>3 DEF TellInv
    <3> QED
      BY <1>2, <2>1, <2>2, <2>6, <2>8, <3>1, <3>3, <3>4
  <2> QED
    BY <2>7, <2>8
<1> QED
  BY <1>1, <1>2

LEMMA TellStep ==
  ASSUME TypeInv, LockInv, TellInv, ~BareCommit, [Next]_vars
  PROVE  TellInv'
<1>1. ASSUME UNCHANGED <<db, work, ops, kessel>>,
             \A s \in Session, h \in Host :
               was'[s][h] = was[s][h] \/ was'[s][h] \notin Row \/ was'[s][h] = Visible(s, h)
      PROVE  TellInv'
  BY <1>1, OutboxAssumption DEF TellInv, Visible
<1>2. CASE UNCHANGED vars
  BY <1>1, <1>2 DEF vars
<1>3. ASSUME NEW s \in Session, NEW h \in Host, Load(s, h) PROVE TellInv'
  <2>1. \A t \in Session, k \in Host :
          was'[t][k] = was[t][k] \/ was'[t][k] \notin Row \/ was'[t][k] = Visible(t, k)
    BY <1>3 DEF Load, TypeInv, TypeOK
  <2> QED
    BY <1>1, <1>3, <2>1 DEF Load
<1>4. ASSUME NEW s \in Session, NEW h \in Host, Drop(s, h) PROVE TellInv'
  <2>1. \A t \in Session, k \in Host : was'[t][k] = was[t][k] \/ was'[t][k] \notin Row
    BY <1>4, OutboxAssumption DEF Drop, TypeInv, TypeOK
  <2> QED
    BY <1>1, <1>4, <2>1 DEF Drop
<1>5. ASSUME NEW s \in Session, NEW h \in Host, NEW r \in Row, Add(s, h, r) PROVE TellInv'
  <2>1. \A t \in Session, k \in Host : was'[t][k] = was[t][k] \/ was'[t][k] \notin Row
    BY <1>5, OutboxAssumption DEF Add, TypeInv, TypeOK
  <2> QED
    BY <1>1, <1>5, <2>1 DEF Add
<1>6. ASSUME NEW s \in Session, NEW h \in Host, Delete(s, h) PROVE TellInv'
  BY <1>1, <1>6 DEF Delete
<1>7. ASSUME NEW s \in Session, NEW h \in Host, NEW f \in Field, NEW v \in Val, Assign(s, h, f, v)
      PROVE  TellInv'
  BY <1>1, <1>7 DEF Assign
<1>8. ASSUME NEW s \in Session, Rollback(s) PROVE TellInv'
  <2>1. \A t \in Session, h \in Host :
          /\ work'[t][h] = IF t = s THEN None ELSE work[t][h]
          /\ ops'[t][h] = IF t = s THEN {} ELSE ops[t][h]
          /\ was'[t][h] = IF t = s THEN None ELSE was[t][h]
    BY <1>8 DEF Rollback, Forgotten, TypeInv, TypeOK, NoOps
  <2>2. UNCHANGED <<db, kessel>>
    BY <1>8 DEF Rollback
  <2> QED
    BY <2>1, <2>2, OutboxAssumption DEF TellInv
<1>9. ASSUME NEW s \in Session, Commit(s) PROVE TellInv'
  <2> SUFFICES ASSUME NEW t \in Session, NEW h \in Host, NEW f \in Trigger,
                      work'[t][h] \in Row, db'[h] \in Row, work'[t][h][f] # db'[h][f]
               PROVE  /\ ops'[t][h] # {}
                      /\ was'[t][h] \in Row => was'[t][h][f] = work'[t][h][f]
    BY DEF TellInv
  <2>1. /\ t # s
        /\ work'[t][h] = work[t][h] /\ ops'[t][h] = ops[t][h] /\ was'[t][h] = was[t][h]
    BY <1>9, CommitEffect, OutboxAssumption
  <2>2. work[s][h] = None
    BY <2>1, OutboxAssumption DEF LockInv
  <2>3. db'[h] = db[h]
    BY <1>9, <2>2, CommitEffect
  <2> QED
    BY <2>1, <2>3 DEF TellInv
<1> QED
  BY <1>2, <1>3, <1>4, <1>5, <1>6, <1>7, <1>8, <1>9, TellFlush DEF Next

(* The step of ChangeReported: the commit that changes a trigger column    *)
(* gives Kessel the committed value.                                       *)
LEMMA ChangeStep ==
  ASSUME TypeInv, LockInv, TellInv, ~BareCommit, [Next]_vars,
         NEW h \in Host, NEW f \in Trigger,
         Absent \notin {db[h], db'[h]}, db[h][f] # db'[h][f]
  PROVE  kessel'[h][f] = db'[h][f]
<1>1. PICK s \in Session : Commit(s)
  BY QuietSteps DEF Flush, Rollback
<1>2. db[h] \in Row
  BY DEF TypeInv, TypeOK
<1>3. work[s][h] \in Row
  BY <1>1, CommitEffect DEF TypeInv, TypeOK
<1>4. db'[h] = work[s][h]
  BY <1>1, <1>3, CommitEffect
<1>5. /\ ops[s][h] # {}
      /\ was[s][h] \in Row => was[s][h][f] = work[s][h][f]
  BY <1>2, <1>3, <1>4 DEF TellInv
<1>6. /\ kessel'[h] = PayloadOf(Reloaded(s, h))
      /\ Reloaded(s, h) \in Row
  BY <1>1, <1>3, <1>5, CommitEffect
<1>7. Unflushed(s) = {}
  BY <1>1 DEF Commit
<1>8. was[s][h] = now[s][h] /\ RowAfterFlush(s, h) = work[s][h]
  BY <1>7, QuietCommit DEF Unflushed
<1>9. Reloaded(s, h)[f] = work[s][h][f]
  BY <1>5, <1>6, <1>8 DEF Reloaded
<1>10. PayloadOf(Reloaded(s, h))[f] = Reloaded(s, h)[f]
  BY <1>6, OutboxAssumption DEF PayloadOf
<1> QED
  BY <1>4, <1>6, <1>9, <1>10

(* A changed trigger column always reaches Kessel with the commit that     *)
(* changes it, for any number of sessions interleaving on the host.        *)
THEOREM ChangeReportedCorrect ==
  ASSUME ~BareCommit
  PROVE  Spec => ChangeReported
<1>1. Init => LockInv /\ TellInv
  <2> SUFFICES ASSUME Init PROVE LockInv /\ TellInv
    OBVIOUS
  <2>1. \A h \in Host : PayloadOf(db[h]) = Absent <=> db[h] = Absent
    BY PayloadType DEF Init
  <2> QED
    BY <2>1, OutboxAssumption DEF Init, LockInv, TellInv, PresenceInSync, Forgotten
<1>2. TypeInv /\ LockInv /\ TellInv /\ [Next]_vars => LockInv' /\ TellInv'
  BY LockStep, TellStep
<1>3. TypeInv /\ LockInv /\ TellInv /\ [Next]_vars
        => [\A h \in Host, f \in Trigger :
              (Absent \notin {db[h], db'[h]} /\ db[h][f] # db'[h][f])
                => kessel'[h][f] = db'[h][f]]_vars
  BY ChangeStep
<1> QED
  BY <1>1, <1>2, <1>3, TypeInit, TypeStep, PTL DEF Spec, ChangeReported
=============================================================================
