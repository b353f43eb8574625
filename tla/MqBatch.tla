------------------------------- MODULE MqBatch -------------------------------
(***************************************************************************)
(* The batch loop of the message consumers (HBIMessageConsumerBase of      *)
(* app/queue/host_mq.py): a batch is consumed, each message handled and    *)
(* flushed in one database transaction, the transaction committed, the     *)
(* results announced (events, notifications), and only then the Kafka      *)
(* offsets committed. Batches are replayed up to MaxRetries times; the     *)
(* process may die at any point and restarts from the committed offset.    *)
(*                                                                         *)
(* One consumer reads one partition, log. A message is about one subject,  *)
(* a host or a workspace. Its kind tells which handler it reaches:         *)
(*   upsert  IngressMessageConsumer: creates or updates the host           *)
(*   create  WorkspaceMessageConsumer: inserts the workspace in a          *)
(*           savepoint, skips it when it exists                            *)
(*   update, delete  WorkspaceMessageConsumer: the repository function     *)
(*           commits or rolls back the whole session itself                *)
(***************************************************************************)
EXTENDS Naturals, Sequences

CONSTANTS N,           \* messages of a partition, 1..N
          Subject,     \* hosts or workspaces
          Logs,        \* the partitions to consume: a subject and a kind per message
          BatchMax,    \* mq_db_batch_max_messages
          MaxRetries   \* MAX_RETRIES

Many == 2    \* bound: more announcements count as two

Message == 1..N

ASSUME MqAssumption ==
  /\ N \in Nat
  /\ Logs \subseteq [Message -> [subject : Subject, kind : {"upsert", "create", "update", "delete"}]]
  /\ \A l \in Logs, m, n \in Message :      \* hosts and workspaces have topics of their own
       l[m].kind = "upsert" => l[n].kind = "upsert"
  /\ BatchMax \in Nat \ {0}
  /\ MaxRetries \in Nat \ {0}

VARIABLES
  log,        \* the messages, which stay as they are
  offset,     \* committed offset of the consumer group
  position,   \* last message consumed by the running process
  pc,         \* where the loop is
  first,      \* the batch is first..position
  at,         \* the message to handle next
  attempt,    \* attempt of the retry loop
  rows,       \* processed_rows
  txn,        \* uncommitted writes: last message written per subject, 0 none
  db,         \* committed: last message written per subject, 0 no such row
  settled,    \* messages whose batch was committed to the database
  refused,    \* messages whose last handling failed, logged and counted
  dropped,    \* messages given up after MaxRetries, logged and counted
  told,       \* messages that were announced, or failed to be, which is logged
  created     \* "created" announcements of reports sent per host

batchVars  == <<first, at, attempt, rows>>
stores     == <<txn, db>>
ghosts     == <<settled, refused, dropped>>
announced  == <<told, created>>
vars == <<log, offset, position, pc, batchVars, stores, ghosts, announced>>

Result == [msg : Message, row : {"created", "updated", "plain", "none"}]

TypeOK ==
  /\ log \in Logs
  /\ offset \in 0..N
  /\ position \in 0..N
  /\ pc \in {"poll", "handle", "commit", "post", "ack", "down"}
  /\ first \in 1..N + 1
  /\ at \in 1..N + 1
  /\ attempt \in 1..MaxRetries
  /\ rows \in Seq(Result)
  /\ txn \in [Subject -> 0..N]
  /\ db  \in [Subject -> 0..N]
  /\ settled \subseteq Message
  /\ refused \subseteq Message
  /\ dropped \subseteq Message
  /\ told \subseteq Message
  /\ created \in [Subject -> 0..Many]

NoWrites == [k \in Subject |-> 0]
Batch    == first..position

(* The session sees its own writes; savepoints and flushes happen in it. *)
Visible(k)   == IF txn[k] # 0 THEN txn[k] ELSE db[k]
Committed    == [k \in Subject |-> Visible(k)]

Init ==
  /\ log \in Logs
  /\ offset = 0 /\ position = 0 /\ pc = "poll"
  /\ first = 1 /\ at = 1 /\ attempt = 1 /\ rows = <<>>
  /\ txn = NoWrites /\ db = NoWrites
  /\ settled = {} /\ refused = {} /\ dropped = {}
  /\ told = {}
  /\ created = [k \in Subject |-> 0]

-----------------------------------------------------------------------------
(* The loop comes back to consume(), behind message p, with an empty       *)
(* processed_rows.                                                         *)
NextBatch(p) ==
  /\ position' = p /\ first' = p + 1 /\ at' = p + 1
  /\ attempt' = 1 /\ rows' = <<>>

(* Mutant: enable.auto.commit, the offset moves when a batch is consumed.  *)
PollCommitting ==
  /\ pc = "poll"
  /\ \E n \in 1..BatchMax :
       /\ position + n <= N
       /\ position' = position + n
  /\ pc' = "handle" /\ offset' = position'
  /\ UNCHANGED <<batchVars, stores, ghosts, announced, log>>

(* consume(): a new batch of at most BatchMax messages. *)
Poll ==
  /\ pc = "poll"
  /\ \E n \in 1..BatchMax :
       /\ position + n <= N
       /\ position' = position + n
  /\ pc' = "handle"
  /\ UNCHANGED <<offset, batchVars, stores, ghosts, announced, log>>

(* The next message, or the commit when the batch has been handled. *)
Advance ==
  /\ at' = at + 1
  /\ pc' = IF at = position THEN "commit" ELSE "handle"
  /\ UNCHANGED <<offset, position, first, attempt, settled, dropped, announced, log>>

Handling(kind) == pc = "handle" /\ log[at].kind = kind

AddResult(row) == rows' = Append(rows, [msg |-> at, row |-> row])

Accept == refused' = refused \ {at}
Refuse == refused' = refused \union {at}

(* add_host and the flush after it. *)
HandleUpsert ==
  /\ Handling("upsert")
  /\ AddResult(IF Visible(log[at].subject) = 0 THEN "created" ELSE "updated")
  /\ txn' = [txn EXCEPT ![log[at].subject] = at]
  /\ Accept /\ Advance
  /\ UNCHANGED db

(* add_group in a savepoint: an existing id is skipped, with no result. *)
HandleCreate ==
  /\ Handling("create")
  /\ IF Visible(log[at].subject) = 0
       THEN AddResult("created") /\ txn' = [txn EXCEPT ![log[at].subject] = at]
       ELSE AddResult("none") /\ UNCHANGED txn
  /\ Accept /\ Advance
  /\ UNCHANGED db

(* patch_group: session_guard commits everything the session holds, the    *)
(* writes of the earlier messages included.                                *)
HandleUpdate ==
  /\ Handling("update") /\ Visible(log[at].subject) # 0
  /\ AddResult("plain")
  /\ db' = [Committed EXCEPT ![log[at].subject] = at]
  /\ txn' = NoWrites
  /\ Accept /\ Advance

(* No such workspace: skipped, with no result and no commit. *)
HandleMissing ==
  /\ Handling("update") /\ Visible(log[at].subject) = 0
  /\ AddResult("none")
  /\ Accept /\ Advance
  /\ UNCHANGED stores

(* delete_group_list, under session_guard too, the workspace there or not. *)
HandleDelete ==
  /\ Handling("delete")
  /\ AddResult("plain")
  /\ db' = [Committed EXCEPT ![log[at].subject] = 0]
  /\ txn' = NoWrites
  /\ Accept /\ Advance

(* Mutant: a refused message empties the session, as session_guard does.   *)
HandleRefusedClearing ==
  /\ pc = "handle"
  /\ txn' = NoWrites
  /\ Refuse /\ Advance
  /\ UNCHANGED <<db, rows>>

(* The handler raises before it has written: swallowed, counted, no result.*)
HandleRefused ==
  /\ pc = "handle"
  /\ Refuse /\ Advance
  /\ UNCHANGED <<stores, rows>>

(* The handler raises after add_host (setting the owner, staleness): the   *)
(* exception is swallowed without a rollback, the write stays.             *)
HandleStray ==
  /\ Handling("upsert")
  /\ txn' = [txn EXCEPT ![log[at].subject] = at]
  /\ Refuse /\ Advance
  /\ UNCHANGED <<db, rows>>

(* The repository function raises (a patch of the ungrouped group, say):   *)
(* session_guard rolls the whole session back, the exception is swallowed. *)
HandleGuardFails ==
  /\ pc = "handle" /\ log[at].kind \in {"update", "delete"}
  /\ txn' = NoWrites
  /\ Refuse /\ Advance
  /\ UNCHANGED <<db, rows>>

(* Mutant: the results of the failed attempt stay in processed_rows. *)
RetryKeepingRows ==
  /\ txn' = NoWrites
  /\ IF attempt < MaxRetries
       THEN /\ attempt' = attempt + 1 /\ at' = first
            /\ pc' = "handle" /\ UNCHANGED <<position, first, rows, dropped>>
       ELSE /\ dropped' = dropped \union Batch /\ pc' = "poll"
            /\ NextBatch(position)
  /\ UNCHANGED <<offset, db, settled, refused, announced, log>>

(* Mutant: one attempt too many. *)
RetryOnceMore ==
  /\ txn' = NoWrites
  /\ IF attempt <= MaxRetries
       THEN /\ attempt' = attempt + 1 /\ at' = first /\ rows' = <<>>
            /\ pc' = "handle" /\ UNCHANGED <<position, first, dropped>>
       ELSE /\ dropped' = dropped \union Batch /\ pc' = "poll"
            /\ NextBatch(position)
  /\ UNCHANGED <<offset, db, settled, refused, announced, log>>

(* Mutant: the batch is replayed for ever. *)
RetryForever ==
  /\ txn' = NoWrites
  /\ at' = first /\ rows' = <<>> /\ pc' = "handle"
  /\ UNCHANGED <<offset, position, first, attempt, db, settled, refused, dropped,
                 announced, log>>

(* A retriable database error: rollback, then the batch is replayed, or    *)
(* given up after MaxRetries attempts.                                     *)
Retry ==
  /\ txn' = NoWrites
  /\ IF attempt < MaxRetries
       THEN /\ attempt' = attempt + 1 /\ at' = first /\ rows' = <<>>
            /\ pc' = "handle" /\ UNCHANGED <<position, first, dropped>>
       ELSE /\ dropped' = dropped \union Batch /\ pc' = "poll"
            /\ NextBatch(position)
  /\ UNCHANGED <<offset, db, settled, refused, announced, log>>

HandleFails == pc = "handle" /\ Retry

CommitFails == pc = "commit" /\ Retry

CommitBatch ==
  /\ pc = "commit"
  /\ db' = Committed
  /\ txn' = NoWrites
  /\ settled' = settled \union Batch /\ dropped' = dropped \ Batch
  /\ pc' = "post" /\ at' = 1
  /\ UNCHANGED <<offset, position, first, attempt, rows, refused, announced, log>>

(* post_process_rows, one result (at is its index): results with a row are *)
(* announced; a failure to produce is logged and swallowed.                *)
Announce ==
  /\ pc = "post" /\ at <= Len(rows)
  /\ LET r == rows[at] IN
       \/ /\ r.row \in {"plain", "none"}
          /\ UNCHANGED announced
       \/ /\ r.row \in {"created", "updated"}
          /\ told' = told \union {r.msg}
          /\ created' = IF r.row = "created" /\ log[r.msg].kind = "upsert"
                          THEN [created EXCEPT ![log[r.msg].subject] = IF @ = Many THEN Many ELSE @ + 1]
                          ELSE created
       \/ /\ r.row \in {"created", "updated"} /\ log[r.msg].kind = "upsert"
          /\ told' = told \union {r.msg}
          /\ UNCHANGED created
  /\ at' = at + 1
  /\ UNCHANGED <<offset, position, pc, first, attempt, rows, stores, ghosts, log>>

(* Mutant: offsets are committed before the results are announced. *)
AnnouncedLate ==
  /\ pc = "post"
  /\ pc' = "ack"
  /\ UNCHANGED <<offset, position, batchVars, stores, ghosts, announced, log>>

Announced ==
  /\ pc = "post" /\ at > Len(rows)
  /\ pc' = "ack"
  /\ UNCHANGED <<offset, position, batchVars, stores, ghosts, announced, log>>

(* consumer.commit(): the position of the process becomes the committed    *)
(* offset. Not called when no message gave a result; a failure is logged.  *)
Acknowledge ==
  /\ pc = "ack"
  /\ \/ rows # <<>> /\ offset' = position
     \/ UNCHANGED offset
  /\ pc' = "poll" /\ NextBatch(position)
  /\ UNCHANGED <<stores, ghosts, announced, log>>

(* The process dies, and the server rolls its transaction back: sys.exit(3)*)
(* on a lost database connection; an error of the flush or the commit that *)
(* is no deadlock (a value the database refuses, OutboxSaveException),     *)
(* which the loop does not catch; a kill. Nothing bounds how often, nor    *)
(* keeps the next process, which starts from the committed offset, from    *)
(* dying at the same message.                                              *)
Crash ==
  /\ pc # "down"
  /\ pc' = "down"
  /\ txn' = NoWrites
  /\ NextBatch(offset)
  /\ UNCHANGED <<offset, db, ghosts, announced, log>>

Restart ==
  /\ pc = "down"
  /\ pc' = "poll"
  /\ UNCHANGED <<offset, position, batchVars, stores, ghosts, announced, log>>

Handle ==
  \/ HandleUpsert \/ HandleCreate \/ HandleUpdate \/ HandleMissing \/ HandleDelete
  \/ HandleRefused \/ HandleStray \/ HandleGuardFails \/ HandleFails

Next ==
  \/ Poll \/ Handle \/ CommitFails \/ CommitBatch
  \/ Announce \/ Announced \/ Acknowledge \/ Crash \/ Restart

Spec == Init /\ [][Next]_vars

(* The loop never waits for anything but messages, and a dead process is   *)
(* restarted; crashes and errors are not fair.                             *)
FairSpec ==
  /\ Spec
  /\ WF_vars(Poll \/ Handle \/ CommitFails \/ CommitBatch \/ Announce \/ Announced
             \/ Acknowledge \/ Restart)

-----------------------------------------------------------------------------
(* The loop delivers at least once: the committed offset only grows, and   *)
(* covers only messages whose batch was committed to the database or was   *)
(* given up after MaxRetries attempts (event_loop, _run_batch).            *)
Delivery == INSTANCE AtLeastOnce WITH acked <- offset, done <- settled \union dropped
DeliverySpec == Delivery!Spec

(* A report below the committed offset is in the database, by itself or by *)
(* a later report about the same host, unless it was refused or given up:  *)
(* no crash, replay or failure of a neighbour in the batch loses what was  *)
(* accepted (_run_batch, _process_message_core).                           *)
AcceptedIsDurable ==
  \A m \in (1..offset) \ (refused \union dropped) :
    log[m].kind = "upsert" => db[log[m].subject] >= m

(* The event of an accepted host is produced, or its failure logged, before*)
(* the offset passes the message (_run_batch: post_process_rows first).    *)
AnnouncedBeforeOffset ==
  \A m \in (1..offset) \ (refused \union dropped) : log[m].kind = "upsert" => m \in told

(* A host is announced as created at most once, whatever is replayed       *)
(* (event_loop empties processed_rows before each attempt).                *)
CreatedOnce ==
  \A m \in Message : log[m].kind = "upsert" => created[log[m].subject] <= 1

(* A message that has been given up is redelivered: the committed offset   *)
(* stays before it (comment of event_loop: "Offsets were not committed;    *)
(* Kafka will redeliver on rebalance/restart").                            *)
GivenUpRedelivered == \A m \in dropped : offset < m

(* Every batch that is consumed is committed or given up (MAX_RETRIES), or *)
(* the process dies again and again: a failure the loop retries cannot stop*)
(* the partition for ever. A message whose flush or commit fails otherwise *)
(* can, since it ends each process that rereads it (_run_batch, event_loop *)
(* and sys.exit(3) in _process_message_core).                              *)
EveryMessageDecided ==
  \A m \in Message :
    []<>(pc = "down") \/ (position >= m ~> m \in settled \union dropped)
=============================================================================
