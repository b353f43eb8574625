------------------------------- MODULE Outbox -------------------------------
(***************************************************************************)
(* The transactional outbox that keeps Kessel's copy of every host equal   *)
(* to the inventory database (lib/host_outbox_events.py and                *)
(* lib/outbox_repository.py), as seen by the SQLAlchemy sessions that      *)
(* write hosts.                                                            *)
(*                                                                         *)
(* A session holds an identity map: for a loaded host, the attribute       *)
(* values of the last load or flush (was) and the present ones (now).      *)
(* Flushing writes the changed columns and lets the listeners remember an  *)
(* operation per host; committing turns the remembered operations into     *)
(* outbox entries, which Debezium delivers to Kessel in commit order.      *)
(* Delivery itself is external and immediate here: kessel is the state     *)
(* Kessel reaches once it has read the log of the last commit.             *)
(***************************************************************************)
CONSTANTS Session,     \* database sessions (API requests, consumers, jobs)
          Host,        \* host ids
          Field,       \* the columns of a host
          Trigger,     \* OUTBOX_TRIGGER_FIELDS: the columns Kessel is told of
          Val,         \* values of a column
          Batched,     \* OUTBOX_USE_BATCHED_QUERIES
          BareCommit,  \* whether callers that commit without a flush run
          None,        \* not loaded, not written, no entry
          Absent       \* no such row, a DeleteResource entry

Row     == [Field -> Val]
Payload == [Trigger -> Val]

ASSUME OutboxAssumption ==
  /\ Trigger \subseteq Field
  /\ Batched \in BOOLEAN
  /\ BareCommit \in BOOLEAN
  /\ None # Absent
  /\ {None, Absent} \cap (Row \union Payload) = {}

VARIABLES db,      \* the committed row of each host
          was,     \* identity map: the attributes as last loaded or flushed
          now,     \* identity map: the attributes as the program sees them
          work,    \* the rows written and not yet committed by each session
          ops,     \* session.info["pending_ops"]: operation types by host
          kessel   \* the resource Kessel holds for each host

vars == <<db, was, now, work, ops, kessel>>

Op == {"created", "updated", "delete"}

TypeOK ==
  /\ db     \in [Host -> Row \union {Absent}]
  /\ was    \in [Session -> [Host -> Row \union {Absent, None}]]
  /\ now    \in [Session -> [Host -> Row \union {Absent, None}]]
  /\ work   \in [Session -> [Host -> Row \union {Absent, None}]]
  /\ ops    \in [Session -> [Host -> SUBSET Op]]
  /\ kessel \in [Host -> Payload \union {Absent}]

-----------------------------------------------------------------------------
(* Mutant: the whole row is serialised, not the reported columns. *)
PayloadWholeRow(r) == r

(* What Kessel is told of a row. *)
PayloadOf(r) == IF r = Absent THEN Absent ELSE [f \in Trigger |-> r[f]]

(* The row a session's queries return: its own write, else the committed.  *)
Visible(s, h) == IF work[s][h] = None THEN db[h] ELSE work[s][h]

(* The hosts with changes that the session has not flushed. *)
Unflushed(s) == {h \in Host : was[s][h] # now[s][h]}

Changed(s, h) == {f \in Field : was[s][h][f] # now[s][h][f]}

(* Mutant: the groups column is not watched, as if only reporter fields were. *)
TrackedWithoutGroups(s, h) ==
  IF h \notin Unflushed(s) THEN {}
  ELSE IF was[s][h] = Absent THEN {"created"}
  ELSE IF now[s][h] = Absent THEN {"delete"}
  ELSE IF Changed(s, h) \cap (Trigger \ {"groups"}) # {} THEN {"updated"} ELSE {}

(* Mutant: before_delete has no listener. *)
TrackedWithoutDelete(s, h) ==
  IF h \notin Unflushed(s) THEN {}
  ELSE IF was[s][h] = Absent THEN {"created"}
  ELSE IF now[s][h] = Absent THEN {}
  ELSE IF Changed(s, h) \cap Trigger # {} THEN {"updated"} ELSE {}

(* The operation the listeners remember when a host is flushed. *)
Tracked(s, h) ==
  IF h \notin Unflushed(s) THEN {}
  ELSE IF was[s][h] = Absent THEN {"created"}
  ELSE IF now[s][h] = Absent THEN {"delete"}
  ELSE IF Changed(s, h) \cap Trigger # {} THEN {"updated"} ELSE {}

(* An UPDATE names the changed columns only; the others keep the value the *)
(* row has, which another session may have committed since the load.       *)
RowAfterFlush(s, h) ==
  IF h \notin Unflushed(s) THEN work[s][h]
  ELSE IF Absent \in {was[s][h], now[s][h]} THEN now[s][h]
  ELSE [f \in Field |-> IF f \in Changed(s, h) THEN now[s][h][f] ELSE Visible(s, h)[f]]

(* A flush waits for the row locks of the other transactions, an INSERT    *)
(* needs an unused key and an UPDATE a row (else StaleDataError, and the   *)
(* caller rolls back).                                                     *)
CanFlush(s) ==
  \A h \in Unflushed(s) :
    /\ \A t \in Session \ {s} : work[t][h] = None
    /\ was[s][h] = Absent => Visible(s, h) = Absent
    /\ Absent \notin {was[s][h], now[s][h]} => Visible(s, h) # Absent

Forgotten == [h \in Host |-> None]
NoOps     == [h \in Host |-> {}]

-----------------------------------------------------------------------------
Init ==
  /\ db \in [Host -> Row \union {Absent}]
  /\ kessel = [h \in Host |-> PayloadOf(db[h])]
  /\ was  = [s \in Session |-> Forgotten]
  /\ now  = was
  /\ work = was
  /\ ops  = [s \in Session |-> NoOps]

(* A query brings a host into the session's identity map. *)
Load(s, h) ==
  /\ was[s][h] = None
  /\ Visible(s, h) # Absent
  /\ was' = [was EXCEPT ![s][h] = Visible(s, h)]
  /\ now' = [now EXCEPT ![s][h] = Visible(s, h)]
  /\ UNCHANGED <<db, work, ops, kessel>>

(* The identity map is weak: a clean object nobody refers to is dropped.   *)
Drop(s, h) ==
  /\ was[s][h] # None
  /\ was[s][h] = now[s][h]
  /\ was' = [was EXCEPT ![s][h] = None]
  /\ now' = [now EXCEPT ![s][h] = None]
  /\ UNCHANGED <<db, work, ops, kessel>>

(* Host ids are fresh UUIDs: a transaction never inserts a key twice. *)
Add(s, h, r) ==
  /\ was[s][h] = None
  /\ work[s][h] = None
  /\ db[h] = Absent
  /\ was' = [was EXCEPT ![s][h] = Absent]
  /\ now' = [now EXCEPT ![s][h] = r]
  /\ UNCHANGED <<db, work, ops, kessel>>

Assign(s, h, f, v) ==
  /\ {was[s][h], now[s][h]} \cap {None, Absent} = {}
  /\ now' = [now EXCEPT ![s][h][f] = v]
  /\ UNCHANGED <<db, was, work, ops, kessel>>

Delete(s, h) ==
  /\ was[s][h] \notin {None, Absent}
  /\ now' = [now EXCEPT ![s][h] = Absent]
  /\ UNCHANGED <<db, was, work, ops, kessel>>

(* session.flush(): the changes become writes of the transaction and the   *)
(* listeners after_insert, after_update, before_flush and before_delete    *)
(* add to pending_ops, at most once per type and host.                     *)
Flush(s) ==
  /\ Unflushed(s) # {}
  /\ CanFlush(s)
  /\ work' = [work EXCEPT ![s] = [h \in Host |-> RowAfterFlush(s, h)]]
  /\ ops'  = [ops EXCEPT ![s] = [h \in Host |-> ops[s][h] \union Tracked(s, h)]]
  /\ was'  = [was EXCEPT ![s] = [h \in Host |-> IF now[s][h] = Absent THEN None ELSE now[s][h]]]
  /\ now'  = [now EXCEPT ![s] = was'[s]]
  /\ UNCHANGED <<db, kessel>>

(* The operations before_commit handles. It runs before the flush of the   *)
(* commit itself; the first query or write of the handler autoflushes. The *)
(* list path iterates over the growing list and meets what that flush      *)
(* tracked; the batched path has selected its hosts before, and takes an   *)
(* operation on another host for one on a host deleted meanwhile.          *)
Handled(s) ==
  LET selected  == {h \in Host : ops[s][h] \cap {"created", "updated"} # {}}
      caught(h) == {o \in Tracked(s, h) :
                      /\ ops[s] # NoOps
                      /\ Batched => selected # {} /\ (h \in selected \/ o = "delete")}
  IN [h \in Host |-> ops[s][h] \union caught(h)]

(* The host "reloaded" for the payload: the query finds the row, but a     *)
(* host of the identity map keeps the attributes the session has.          *)
Reloaded(s, h) == IF now[s][h] \in {None, Absent} THEN RowAfterFlush(s, h) ELSE now[s][h]

(* The last entry written for a host: none when no operation was handled   *)
(* or when the host to report is gone.                                     *)
Entry(s, h) ==
  IF "delete" \in Handled(s)[h] THEN Absent
  ELSE IF Handled(s)[h] # {} /\ RowAfterFlush(s, h) # Absent THEN PayloadOf(Reloaded(s, h))
  ELSE None

(* session.commit(). Callers flush first (session_guard, the consumers,    *)
(* the host API); the admin endpoint and the group synchronizer do not.    *)
(* after_commit forgets the operations left over; attributes expire.       *)
Commit(s) ==
  /\ Unflushed(s) # {} => BareCommit
  /\ CanFlush(s)
  /\ db' = [h \in Host |-> IF RowAfterFlush(s, h) = None THEN db[h] ELSE RowAfterFlush(s, h)]
  /\ kessel' = [h \in Host |-> IF Entry(s, h) = None THEN kessel[h] ELSE Entry(s, h)]
  /\ was'  = [was EXCEPT ![s] = Forgotten]
  /\ now'  = [now EXCEPT ![s] = Forgotten]
  /\ work' = [work EXCEPT ![s] = Forgotten]
  /\ ops'  = [ops EXCEPT ![s] = NoOps]

(* Mutant: no after_rollback listener, the operations survive.            *)
RollbackKeepsOps(s) ==
  /\ was'  = [was EXCEPT ![s] = Forgotten]
  /\ now'  = [now EXCEPT ![s] = Forgotten]
  /\ work' = [work EXCEPT ![s] = Forgotten]
  /\ UNCHANGED <<db, ops, kessel>>

(* session.rollback(): an error, a deadlock victim, a lost connection, or  *)
(* OutboxSaveException from before_commit.                                 *)
Rollback(s) ==
  /\ was'  = [was EXCEPT ![s] = Forgotten]
  /\ now'  = [now EXCEPT ![s] = Forgotten]
  /\ work' = [work EXCEPT ![s] = Forgotten]
  /\ ops'  = [ops EXCEPT ![s] = NoOps]
  /\ UNCHANGED <<db, kessel>>

Next ==
  \E s \in Session :
    \/ \E h \in Host :
         \/ Load(s, h) \/ Drop(s, h) \/ Delete(s, h)
         \/ \E r \in Row : Add(s, h, r)
         \/ \E f \in Field, v \in Val : Assign(s, h, f, v)
    \/ Flush(s) \/ Commit(s) \/ Rollback(s)

Spec == Init /\ [][Next]_vars

-----------------------------------------------------------------------------
(* Kessel shows exactly the hosts of the database, each with the trigger   *)
(* fields of its row: what the outbox is for.                              *)
KesselInSync == \A h \in Host : kessel[h] = PayloadOf(db[h])

(* A session holds a host while it has it loaded or has written it. *)
Held(s, h) == now[s][h] # None \/ work[s][h] # None

(* Sessions do not overlap on a host: what the code does not ensure.       *)
Isolated ==
  \A s \in Session, t \in Session, h \in Host : Held(s, h) /\ Held(t, h) => s = t

(* As long as sessions do not overlap on a host Kessel equals the database,*)
(* in every order of loads, changes, flushes, commits and rollbacks (the   *)
(* listeners and before_commit), if callers flush (not BareCommit).        *)
InSyncWhenIsolated == []Isolated => []KesselInSync

(* A host is known to Kessel exactly when it has a row, however sessions   *)
(* interleave on it: a report never outlives or precedes its host.         *)
PresenceInSync == \A h \in Host : kessel[h] = Absent <=> db[h] = Absent

(* The commit that changes a trigger field of a row tells Kessel the new   *)
(* value, whatever other sessions did to the same host in between.         *)
ChangeReported ==
  [][\A h \in Host, f \in Trigger :
       (Absent \notin {db[h], db'[h]} /\ db[h][f] # db'[h][f])
         => kessel'[h][f] = db'[h][f]]_vars

(* What a session remembers is about its own transaction: an operation is  *)
(* pending only for a host this transaction has written.                   *)
OpsOfOwnWrites ==
  \A s \in Session, h \in Host :
    /\ ops[s][h] # {} => work[s][h] # None
    /\ "delete" \in ops[s][h] <=> work[s][h] = Absent
=============================================================================
