--------------------------- MODULE WorkspaceWait ---------------------------
(***************************************************************************)
(* How a request that needs a new workspace waits for it: the workspace is *)
(* created in RBAC, whose message the workspace consumer turns into a row  *)
(* and then into a PostgreSQL NOTIFY, for which the request LISTENs        *)
(* (wait_for_workspace_event of lib/group_repository.py against            *)
(* WorkspaceMessageConsumer of app/queue/host_mq.py).                      *)
(*                                                                         *)
(* RBAC, Kafka and PostgreSQL are external: RBAC sends one message per     *)
(* workspace it creates and returns an ungrouped workspace that is there,  *)
(* a NOTIFY reaches the connections that listen when it is sent. The same  *)
(* topic carries updates and deletions, here of other workspaces, whose    *)
(* repository functions commit or roll back the session of the batch.      *)
(***************************************************************************)
EXTENDS Naturals, Sequences, SequencesExt

CONSTANTS Waiter,      \* API requests and ingesting consumers
          Workspace,
          Change,      \* an update or a deletion of another workspace
          Wants,       \* the workspace of each waiter; shared: the ungrouped one
          BatchMax,    \* mq_db_batch_max_messages
          MaxRetries,  \* MAX_RETRIES: attempts at a batch
          MaxChanges   \* bound: updates and deletions RBAC sends

ASSUME WaitAssumption ==
  /\ Wants \in [Waiter -> Workspace]
  /\ BatchMax \in Nat \ {0}
  /\ MaxRetries \in Nat \ {0}
  /\ MaxChanges \in Nat
  /\ Change \notin Workspace

VARIABLES
  topic,     \* the messages of RBAC, oldest first: the workspace created, or Change
  changes,   \* how many of them are Change
  position,  \* the messages the consumer has read
  offset,    \* its committed offset
  rows,      \* the committed groups
  at,        \* the consumer: "poll", "handle", "notify", "down"
  batch,     \* the messages consumed, until they are committed
  unread,      \* those still to be handled in this attempt
  attempt,   \* at this batch
  added,     \* groups added in the open transaction
  fresh,     \* results of processed_rows still to be notified, in any order
  pc,        \* per waiter
  inbox,     \* notifications of the waiter's connection; NOTIFY fills it
  hears,     \* the waiters whose connection listens
  cut,       \* history: groups there when their batch broke off before NOTIFY
  undone,    \* history: groups rolled back by another message of their batch
  givenUp    \* history: groups of the batches given up

topicVars == <<topic, changes>>
consumer  == <<position, offset, at, batch, unread, attempt, added, fresh>>
waiting   == <<pc, inbox, hears>>
history   == <<cut, undone, givenUp>>
waitVars  == <<topicVars, rows, consumer, waiting, history>>

WaitTypeOK ==
  /\ topic \in Seq(Workspace \union {Change}) /\ changes \in 0..MaxChanges
  /\ position \in 0..Len(topic) /\ offset \in 0..position
  /\ rows \subseteq Workspace
  /\ at \in {"poll", "handle", "notify", "down"}
  /\ batch \in Seq(Workspace \union {Change}) /\ unread \in Seq(Workspace \union {Change})
  /\ attempt \in 1..MaxRetries
  /\ added \subseteq Workspace /\ fresh \subseteq Workspace
  /\ pc \in [Waiter -> {"start", "listen", "check", "wait", "done", "late"}]
  /\ inbox \in [Waiter -> SUBSET Workspace]
  /\ hears \subseteq Waiter
  /\ cut \subseteq Workspace /\ undone \subseteq Workspace /\ givenUp \subseteq Workspace

WaitInit ==
  /\ topic = <<>> /\ changes = 0 /\ position = 0 /\ offset = 0
  /\ rows = {}
  /\ at = "poll" /\ batch = <<>> /\ unread = <<>> /\ attempt = 1
  /\ added = {} /\ fresh = {}
  /\ pc = [w \in Waiter |-> "start"]
  /\ inbox = [w \in Waiter |-> {}] /\ hears = {}
  /\ cut = {} /\ undone = {} /\ givenUp = {}

Goes(w, s) == pc' = [pc EXCEPT ![w] = s]

(* UNLISTEN, and the connection is closed. *)
Hangs(w) == hears' = hears \ {w} /\ inbox' = [inbox EXCEPT ![w] = {}]

-----------------------------------------------------------------------------
(* post_rbac_workspace, rbac_create_ungrouped_hosts_workspace. *)
CreateWorkspace(w) ==
  /\ pc[w] = "start"
  /\ topic' = IF Contains(topic, Wants[w]) THEN topic ELSE Append(topic, Wants[w])
  /\ Goes(w, "listen")
  /\ UNCHANGED <<changes, rows, consumer, inbox, hears, history>>

(* Mutant: no LISTEN before the look-up. *)
ListenNever(w) ==
  /\ pc[w] = "listen"
  /\ Goes(w, "check")
  /\ UNCHANGED <<topicVars, rows, consumer, inbox, hears, history>>

(* RBAC renames or deletes another workspace. *)
ChangeWorkspace ==
  /\ changes < MaxChanges
  /\ changes' = changes + 1 /\ topic' = Append(topic, Change)
  /\ UNCHANGED <<rows, consumer, waiting, history>>

(* LISTEN, on a connection of its own. *)
Listen(w) ==
  /\ pc[w] = "listen"
  /\ hears' = hears \union {w}
  /\ Goes(w, "check")
  /\ UNCHANGED <<topicVars, rows, consumer, inbox, history>>

(* Mutant: the group is not looked up before the wait. *)
CheckNothing(w) ==
  /\ pc[w] = "check"
  /\ Goes(w, "wait")
  /\ UNCHANGED <<topicVars, rows, consumer, inbox, hears, history>>

(* The message may have been consumed already: the group is looked up.     *)
CheckGroup(w) ==
  /\ pc[w] = "check"
  /\ IF Wants[w] \in rows
     THEN Goes(w, "done") /\ Hangs(w)
     ELSE Goes(w, "wait") /\ UNCHANGED <<hears, inbox>>
  /\ UNCHANGED <<topicVars, rows, consumer, history>>

(* One round of the loop: notifications of other workspaces are dropped.   *)
Poll(w) ==
  /\ pc[w] = "wait" /\ inbox[w] # {}
  /\ IF Wants[w] \in inbox[w]
     THEN Goes(w, "done") /\ Hangs(w)
     ELSE inbox' = [inbox EXCEPT ![w] = {}] /\ UNCHANGED <<pc, hears>>
  /\ UNCHANGED <<topicVars, rows, consumer, history>>

(* TimeoutError: 503, and the message of an ingesting consumer fails.      *)
TimeOut(w) ==
  /\ pc[w] = "wait"
  /\ Goes(w, "late") /\ Hangs(w)
  /\ UNCHANGED <<topicVars, rows, consumer, history>>

-----------------------------------------------------------------------------
ConsumeBatch ==
  /\ at = "poll"
  /\ \E n \in 1..BatchMax :
       /\ position + n <= Len(topic)
       /\ batch' = SubSeq(topic, position + 1, position + n)
       /\ position' = position + n
  /\ unread' = batch'
  /\ at' = "handle"
  /\ UNCHANGED <<topicVars, rows, offset, attempt, added, fresh, waiting, history>>

(* A create message: a group that exists is skipped (IntegrityError in the *)
(* savepoint), with no result.                                             *)
HandleCreate ==
  /\ at = "handle" /\ unread # <<>> /\ Head(unread) \in Workspace
  /\ LET new == {Head(unread)} \ (rows \union added)
     IN  added' = added \union new /\ fresh' = fresh \union new
  /\ unread' = Tail(unread)
  /\ UNCHANGED <<topicVars, rows, position, offset, at, batch, attempt, waiting, history>>

(* An update or a deletion: session_guard commits the session of the batch *)
(* with what is pending in it, or rolls all of it back and the error is    *)
(* swallowed, with the earlier results kept; the update of a group that is *)
(* not there does nothing.                                                 *)
HandleChange ==
  /\ at = "handle" /\ unread # <<>> /\ Head(unread) = Change
  /\ \/ rows' = rows \union added /\ added' = {} /\ UNCHANGED undone
     \/ undone' = undone \union added /\ added' = {} /\ UNCHANGED rows
     \/ UNCHANGED <<rows, added, undone>>
  /\ unread' = Tail(unread)
  /\ UNCHANGED <<topicVars, position, offset, at, batch, attempt, fresh, waiting, cut, givenUp>>

(* Mutant: the batch is notified without the commit. *)
CommitNothing ==
  /\ at = "handle" /\ unread = <<>>
  /\ added' = {}
  /\ at' = "notify" /\ batch' = <<>> /\ attempt' = 1
  /\ UNCHANGED <<topicVars, rows, position, offset, unread, fresh, waiting, history>>

CommitBatch ==
  /\ at = "handle" /\ unread = <<>>
  /\ rows' = rows \union added /\ added' = {}
  /\ at' = "notify" /\ batch' = <<>> /\ attempt' = 1
  /\ UNCHANGED <<topicVars, position, offset, unread, fresh, waiting, history>>

(* _pg_notify_workspace, for one result. *)
Notify ==
  /\ at = "notify"
  /\ \E k \in fresh :
       /\ inbox' = [w \in Waiter |-> IF w \in hears THEN inbox[w] \union {k} ELSE inbox[w]]
       /\ fresh' = fresh \ {k}
  /\ UNCHANGED <<topicVars, rows, position, offset, at, batch, unread, attempt, added, pc, hears, history>>

(* Mutant: the message after the position is committed as read. *)
AcknowledgeNext ==
  /\ at = "notify" /\ fresh = {}
  /\ offset' = position + 1
  /\ at' = "poll"
  /\ UNCHANGED <<topicVars, rows, position, batch, unread, attempt, added, fresh, waiting, history>>

(* The position is committed, over batches given up before; the commit is  *)
(* left out when no message has a result, and its failure is only logged.  *)
Acknowledge ==
  /\ at = "notify" /\ fresh = {}
  /\ offset' \in {offset, position}
  /\ at' = "poll"
  /\ UNCHANGED <<topicVars, rows, position, batch, unread, attempt, added, fresh, waiting, history>>

(* What is forgotten when a batch breaks off: its transaction and results. *)
BreakOff ==
  /\ added' = {} /\ fresh' = {}
  /\ cut' = cut \union (fresh \intersect rows)

(* A batch rolled back is replayed, or given up after the last attempt:    *)
(* the consumer goes on with the next one.                                 *)
BatchFails ==
  /\ at = "handle"
  /\ BreakOff
  /\ IF attempt < MaxRetries
     THEN attempt' = attempt + 1 /\ unread' = batch /\ UNCHANGED <<at, batch, givenUp>>
     ELSE /\ at' = "poll" /\ batch' = <<>> /\ unread' = <<>> /\ attempt' = 1
          /\ givenUp' = givenUp \union (ToSet(batch) \intersect Workspace)
  /\ UNCHANGED <<topicVars, rows, position, offset, waiting, undone>>

(* The consumer is killed, and started again: what it has not committed    *)
(* the offset of comes again.                                              *)
Die ==
  /\ at # "down"
  /\ BreakOff
  /\ at' = "down" /\ batch' = <<>> /\ unread' = <<>> /\ attempt' = 1
  /\ UNCHANGED <<topicVars, rows, position, offset, waiting, undone, givenUp>>

Restart ==
  /\ at = "down"
  /\ at' = "poll" /\ position' = offset
  /\ UNCHANGED <<topicVars, rows, offset, batch, unread, attempt, added, fresh, waiting, history>>

Waits(w) == CreateWorkspace(w) \/ Listen(w) \/ CheckGroup(w) \/ Poll(w)
Consumes == ConsumeBatch \/ HandleCreate \/ HandleChange \/ CommitBatch \/ Notify \/ Acknowledge

WaitNext == \/ ChangeWorkspace \/ Consumes \/ BatchFails \/ Die \/ Restart
            \/ \E w \in Waiter : Waits(w) \/ TimeOut(w)

WaitSpec == WaitInit /\ [][WaitNext]_waitVars

(* Requests and the consumer run on, a consumer that is down is started    *)
(* again; failures, kills and timeouts may not come.                       *)
FairSpec == /\ WaitSpec /\ WF_waitVars(Consumes) /\ WF_waitVars(Restart)
            /\ \A w \in Waiter : WF_waitVars(Waits(w))

-----------------------------------------------------------------------------
(* No wake-up is lost: while a request waits for a group that is there, a  *)
(* notification has come or will come (LISTEN goes before the look-up,     *)
(* commit before NOTIFY), unless the group was there already when its      *)
(* batch broke off: committed by an update or a deletion of the same batch *)
(* that then failed, or by a consumer killed before NOTIFY. The replay     *)
(* skips it (IntegrityError) and notifies nobody.                          *)
WakeupPending ==
  \A w \in Waiter :
    pc[w] = "wait" /\ Wants[w] \in rows
      => Wants[w] \in inbox[w] \/ Wants[w] \in fresh \/ Wants[w] \in cut

(* A request that has its answer finds the group in the database: batches  *)
(* that are rolled back as a whole notify nobody. Exempt is a group an     *)
(* update or a deletion of the same batch has rolled back: its result is   *)
(* kept and notified (post_process_rows), though the row is not there.     *)
AnsweredIsThere == \A w \in Waiter : pc[w] = "done" => Wants[w] \in rows \union undone

(* Every request is answered, within its time or too late, over replayed   *)
(* batches and kills of the consumer that do not go on for ever. Left to   *)
(* its timeout, which fairness does not force, is only one whose group was *)
(* cut off, undone or given up.                                            *)
EveryWaiterServed ==
  \A w \in Waiter :
    \/ pc[w] = "start" ~> \/ pc[w] \in {"done", "late"}
                          \/ Wants[w] \in cut \union undone \union givenUp
    \/ []<>(at = "down")
=============================================================================
