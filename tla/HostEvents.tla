----------------------------- MODULE HostEvents -----------------------------
(***************************************************************************)
(* The life of one host row against the events about it: consumers that    *)
(* update the host (app/queue/host_mq.py), API requests that patch it      *)
(* (api/host.py), and deletions by the API, the reaper and the             *)
(* deduplication job (lib/host_delete.py). Updates are committed, then     *)
(* announced; a deletion is announced inside its transaction, then         *)
(* committed. PostgreSQL is external: a written row is locked until the    *)
(* transaction ends, READ COMMITTED. So is Kafka: the events of a host are *)
(* one partition, a delivery may fail, which is logged and not retried.    *)
(* A job reads the topic again and deletes from it the hosts that are gone *)
(* (jobs/rebuild_events_topic.py).                                         *)
(***************************************************************************)
EXTENDS Naturals, Sequences, SequencesExt

CONSTANTS Ingester,    \* consumers: a message is redelivered after a crash
          Patcher,     \* API requests: nobody repeats them
          Deleter,     \* DELETE requests
          Reaper,      \* the reaper: deletes culled hosts only
          MaxVersion,  \* bound: updates committed
          MaxRetries,  \* MAX_RETRIES of the consumers
          MaxFails,    \* bound: requests and deletions that fail, processes killed
          None

Updater == Ingester \union Patcher
Remover == Deleter \union Reaper
Proc    == Updater \union Remover

ASSUME EventsAssumption ==
  /\ MaxVersion \in Nat \ {0}
  /\ MaxRetries \in Nat \ {0}
  /\ MaxFails \in Nat
  /\ None \notin Proc
  /\ Updater \cap Remover = {}
  /\ Ingester \cap Patcher = {} /\ Deleter \cap Reaper = {}

VARIABLES
  present,  \* whether the row exists
  version,  \* updates committed to the row
  culled,   \* whether it has not checked in for conventional_time_to_delete
  lock,     \* the transaction that has written the row, None without
  pc,       \* per process: the step it is at
  held,     \* per process: the version it has committed
  events,   \* the events topic, for this host
  failed,   \* events whose delivery failed, logged
  tries,    \* per consumer: the attempt of its batch
  dropped,  \* consumers whose message was refused or given up, logged
  fails,
  cursor    \* events the rebuilder has read, None before its run

row      == <<present, version, culled, lock>>
attempts == <<tries, dropped>>
vars     == <<row, pc, held, events, failed, attempts, fails, cursor>>

Event == [type : {"updated", "delete"}, version : 1..MaxVersion]

TypeOK ==
  /\ present \in BOOLEAN /\ version \in 1..MaxVersion /\ culled \in BOOLEAN
  /\ lock \in Proc \union {None}
  /\ pc \in [Proc -> {"start", "write", "commit", "check", "publish", "done"}]
  /\ held \in [Proc -> 0..MaxVersion]
  /\ events \in Seq(Event)
  /\ failed \subseteq Event
  /\ tries \in [Ingester -> 1..MaxRetries] /\ dropped \subseteq Ingester
  /\ fails \in 0..MaxFails
  /\ cursor \in Nat \union {None} /\ (cursor # None => cursor <= Len(events))

Init ==
  /\ present = TRUE /\ version = 1 /\ culled \in BOOLEAN /\ lock = None
  /\ pc = [p \in Proc |-> "start"]
  /\ held = [p \in Proc |-> 0]
  /\ events = <<>> /\ failed = {}
  /\ tries = [i \in Ingester |-> 1] /\ dropped = {}
  /\ fails = 0
  /\ cursor = None

Goes(p, s) == pc' = [pc EXCEPT ![p] = s]

(* write_event(wait=True): delivered, or failed and logged by the callback.*)
Publish(type, v) ==
  \/ events' = Append(events, [type |-> type, version |-> v]) /\ UNCHANGED failed
  \/ failed' = failed \union {[type |-> type, version |-> v]} /\ UNCHANGED events

-----------------------------------------------------------------------------
(* The host is found; a host that is gone or culled is not (the report     *)
(* makes a new host, the API request is answered 404).                     *)
FindHost(p) ==
  /\ pc[p] = "start"
  /\ IF present /\ ~culled THEN Goes(p, "write") ELSE Goes(p, "done")
  /\ UNCHANGED <<row, held, events, failed, attempts, fails>>

(* event_loop: the batch is replayed, or given up after MaxRetries.        *)
Again(i) ==
  IF tries[i] < MaxRetries
    THEN /\ Goes(i, "start") /\ dropped' = dropped \ {i}
         /\ tries' = [tries EXCEPT ![i] = @ + 1]
    ELSE /\ Goes(i, "done") /\ dropped' = dropped \union {i}
         /\ tries' = [tries EXCEPT ![i] = 1]

(* The flush: the UPDATE waits for the lock. A row deleted meanwhile is    *)
(* StaleDataError, which the consumer retries; the API request fails.      *)
WriteHost(p) ==
  /\ p \in Updater /\ pc[p] = "write" /\ lock = None
  /\ IF present THEN lock' = p /\ Goes(p, "commit") /\ UNCHANGED attempts
     ELSE UNCHANGED lock /\ IF p \in Ingester THEN Again(p) ELSE Goes(p, "done") /\ UNCHANGED attempts
  /\ UNCHANGED <<present, version, culled, held, events, failed, fails>>

(* The handler raises: swallowed and counted, no event will follow. What   *)
(* it has changed on the host stays and is flushed.                        *)
Refuse(i) ==
  /\ i \in Ingester
  /\ \/ pc[i] \in {"start", "write"} /\ Goes(i, "done")
     \/ pc[i] = "write" /\ i \notin dropped /\ UNCHANGED pc
  /\ dropped' = dropped \union {i}
  /\ UNCHANGED <<row, held, events, failed, tries, fails>>

(* A retriable error of the database (a deadlock, say): rolled back.       *)
Retry(i) ==
  /\ i \in Ingester /\ pc[i] \in {"write", "commit"}
  /\ lock' = IF lock = i THEN None ELSE lock
  /\ Again(i)
  /\ UNCHANGED <<present, version, culled, held, events, failed, fails>>

(* Mutant: the event is produced before the commit. *)
CommitHostLate(p) ==
  /\ p \in Updater /\ pc[p] = "commit" /\ lock = p
  /\ version < MaxVersion
  /\ held' = [held EXCEPT ![p] = version + 1]
  /\ UNCHANGED <<version, culled>> /\ lock' = None
  /\ Goes(p, "check")
  /\ UNCHANGED <<present, events, failed, attempts, fails>>

(* Mutant: the row is serialized before the commit. *)
CommitHostUnseen(p) ==
  /\ p \in Updater /\ pc[p] = "commit" /\ lock = p
  /\ version < MaxVersion
  /\ version' = version + 1 /\ lock' = None
  /\ culled' = IF p \in Ingester THEN FALSE ELSE culled
  /\ Goes(p, "check")
  /\ UNCHANGED <<present, held, events, failed, attempts, fails>>

(* The commit; a report also sets last_check_in. A refused message has no  *)
(* result to announce.                                                     *)
CommitHost(p) ==
  /\ p \in Updater /\ pc[p] = "commit" /\ lock = p
  /\ version < MaxVersion
  /\ version' = version + 1 /\ lock' = None
  /\ culled' = IF p \in Ingester THEN FALSE ELSE culled
  /\ held' = [held EXCEPT ![p] = version + 1]
  /\ IF p \in dropped THEN Goes(p, "done") ELSE Goes(p, "check")
  /\ UNCHANGED <<present, events, failed, attempts, fails>>

(* host_exists: the event of a host deleted since is skipped. *)
CheckExists(p) ==
  /\ p \in Updater /\ pc[p] = "check"
  /\ IF present THEN Goes(p, "publish") ELSE Goes(p, "done")
  /\ UNCHANGED <<row, held, events, failed, attempts, fails>>

PublishUpdate(p) ==
  /\ p \in Updater /\ pc[p] = "publish"
  /\ Publish("updated", held[p])
  /\ Goes(p, "done")
  /\ UNCHANGED <<row, held, attempts, fails>>

(* delete_hosts selects a chunk: the hosts asked for, or the culled ones.  *)
SelectHost(p) ==
  /\ p \in Remover /\ pc[p] = "start"
  /\ IF present /\ (p \in Reaper <=> culled) THEN Goes(p, "write") ELSE Goes(p, "done")
  /\ UNCHANGED <<row, held, events, failed, attempts, fails>>

(* Mutant: the deletion is committed before it is announced. *)
FlushDeleteQuietly(p) ==
  /\ p \in Remover /\ pc[p] = "write" /\ lock = None
  /\ lock' = p
  /\ Goes(p, "commit")
  /\ UNCHANGED <<present, version, culled, held, events, failed, attempts, fails>>

(* _delete_host: the DELETE names the key only, and a row that is gone is  *)
(* only warned of.                                                         *)
FlushDelete(p) ==
  /\ p \in Remover /\ pc[p] = "write" /\ lock = None
  /\ lock' = p
  /\ Goes(p, "publish")
  /\ UNCHANGED <<present, version, culled, held, events, failed, attempts, fails>>

(* _send_delete_messages_for_batch, with the transaction open. *)
PublishDelete(p) ==
  /\ p \in Remover /\ pc[p] = "publish"
  /\ Publish("delete", version)
  /\ Goes(p, "commit")
  /\ UNCHANGED <<row, held, attempts, fails>>

CommitDelete(p) ==
  /\ p \in Remover /\ pc[p] = "commit" /\ lock = p
  /\ present' = FALSE /\ lock' = None
  /\ Goes(p, "done")
  /\ UNCHANGED <<version, culled, held, events, failed, attempts, fails>>

(* Mutant: the offset is committed first, a killed consumer starts behind. *)
FailForgetting(p) ==
  /\ pc[p] \notin {"start", "done"} /\ fails < MaxFails
  /\ fails' = fails + 1
  /\ lock' = IF lock = p THEN None ELSE lock
  /\ Goes(p, "done")
  /\ UNCHANGED <<present, version, culled, held, events, failed, attempts>>

(* A deadlock, a failed outbox write, an interrupt, a kill: the transaction*)
(* is rolled back. The API tries again after a deadlock, the others end; a *)
(* consumer is killed and given its message again, one it gave up or       *)
(* refused too, as long as no later batch has committed the offset.        *)
Fail(p) ==
  /\ pc[p] \notin {"start", "done"} \/ p \in dropped
  /\ fails < MaxFails /\ fails' = fails + 1
  /\ lock' = IF lock = p THEN None ELSE lock
  /\ \/ p \in Ingester \union Deleter /\ Goes(p, "start")
     \/ p \notin Ingester /\ Goes(p, "done")
  /\ dropped' = dropped \ {p}
  /\ tries' = [i \in Ingester |-> IF i = p THEN 1 ELSE tries[i]]
  /\ UNCHANGED <<present, version, culled, held, events, failed>>

(* Nothing heard of the host for conventional_time_to_delete. *)
Cull ==
  /\ present /\ ~culled /\ culled' = TRUE
  /\ UNCHANGED <<present, version, lock, pc, held, events, failed, attempts, fails>>

Update(p) == \/ p \in Updater /\ FindHost(p)
             \/ WriteHost(p) \/ CommitHost(p) \/ CheckExists(p) \/ PublishUpdate(p)
Removal(p) == SelectHost(p) \/ FlushDelete(p) \/ PublishDelete(p) \/ CommitDelete(p)

-----------------------------------------------------------------------------
(* The rebuilder: every partition from its beginning, until nothing more   *)
(* comes, its time limit or a shutdown. Bounds: it runs once, and begins   *)
(* when the host is gone and no other deletion of it is under way; an      *)
(* earlier run may pass events too early.                                  *)
StartRebuild ==
  /\ cursor = None /\ ~present /\ \A p \in Remover : pc[p] = "done"
  /\ cursor' = 0
  /\ UNCHANGED <<row, pc, held, events, failed, attempts, fails>>

(* Mutant: nothing is done about a host whose delete event is there.       *)
SyncEventOnce ==
  /\ cursor # None /\ cursor < Len(events)
  /\ LET e == events[cursor + 1]
     IN IF e.type # "delete" /\ ~present /\ \A i \in 1..cursor : events[i].type # "delete"
          THEN Publish("delete", e.version) ELSE UNCHANGED <<events, failed>>
  /\ cursor' = cursor + 1
  /\ UNCHANGED <<row, pc, held, attempts, fails>>

(* sync_event_message: a delete event for a host that is not in the table. *)
SyncEvent ==
  /\ cursor # None /\ cursor < Len(events)
  /\ LET e == events[cursor + 1]
     IN IF e.type # "delete" /\ ~present
          THEN Publish("delete", e.version) ELSE UNCHANGED <<events, failed>>
  /\ cursor' = cursor + 1
  /\ UNCHANGED <<row, pc, held, attempts, fails>>

Act(p) == Update(p) \/ Removal(p)

Next ==
  \/ (Cull \/ \E p \in Proc : Act(p) \/ Refuse(p) \/ Retry(p) \/ Fail(p)) /\ UNCHANGED cursor
  \/ StartRebuild \/ SyncEvent

Spec == Init /\ [][Next]_vars

(* Each process goes on; PostgreSQL grants the lock to one that waits.     *)
(* Errors and kills are not fair.                                          *)
FairSpec == Spec /\ \A p \in Proc : SF_vars(Act(p) /\ UNCHANGED cursor)

-----------------------------------------------------------------------------
Told(type, v) == \E e \in ToSet(events) \union failed : e.type = type /\ e.version >= v

(* No silent deletion: once the row is gone its delete event has been      *)
(* produced, or the failure logged, wherever a process is killed           *)
(* (delete_hosts announces before it commits).                             *)
GoneIsAnnounced == ~present => Told("delete", version)

(* An updated event never runs ahead of the database: it is of a version   *)
(* that was committed (post_process_rows after the commit).                *)
EventsOfCommitted ==
  \A e \in ToSet(events) : e.type = "updated" => e.version <= version

(* The event of an update may follow the delete event of its host (the     *)
(* check of host_exists comes before). A run of the rebuilder that begins  *)
(* when the host is gone repairs it: every updated event it has passed is  *)
(* followed by a delete event, or one that could not be delivered.         *)
RebuildRepairs ==
  cursor # None => \A i \in 1..cursor :
             \/ events[i].type = "delete"
             \/ \E j \in i..Len(events) : events[j].type = "delete"
             \/ \E e \in failed : e.type = "delete" /\ e.version = events[i].version

(* What a consumer has committed is announced in the end, by its event or  *)
(* a later one, even if it is killed in between, unless the host is gone or*)
(* culled by then (then the redelivered report makes a new host), or the   *)
(* message that is given again is refused or given up (event_loop goes on  *)
(* with the next batch, whose offset passes it).                           *)
IngestAnnounced ==
  \A i \in Ingester :
    held[i] # 0 ~> Told("updated", held[i]) \/ ~present \/ culled \/ i \in dropped
=============================================================================
