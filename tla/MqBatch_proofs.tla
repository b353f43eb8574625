--------------------------- MODULE MqBatch_proofs ---------------------------
(* What the consumer loop guarantees for partitions, batches, retries and  *)
(* crashes of any number: it implements AtLeastOnce, and what was accepted *)
(* survives.                                                               *)
EXTENDS MqBatch, TLAPS

(* Where the batch is: behind the offset, with at most one result for each *)
(* message handled; between batches nothing is left of the last one.       *)
LoopInv ==
  /\ offset <= position
  /\ first <= position + 1
  /\ pc \in {"handle", "commit"} => offset < first /\ first <= position
  /\ pc = "handle" => at \in first..position /\ Len(rows) <= at - first
  /\ pc = "commit" => Len(rows) <= position + 1 - first
  /\ pc = "post"   => Len(rows) <= N
  /\ pc \in {"poll", "down"} => first = position + 1 /\ at = first /\ attempt = 1 /\ rows = <<>>

TypeInv == TypeOK /\ LoopInv

LEMMA TypeInit == Init => TypeInv
<1> SUFFICES ASSUME Init PROVE TypeInv
  OBVIOUS
<1> USE MqAssumption DEF Init, NoWrites, Message
<1>1. TypeOK
  BY DEF TypeOK, Many
<1>2. LoopInv
  BY DEF LoopInv
<1> QED
  BY <1>1, <1>2 DEF TypeInv

(* A handler with its place in the batch. *)
LEMMA HandleType ==
  ASSUME TypeInv, pc = "handle", Advance,
         txn' \in [Subject -> 0..N], db' \in [Subject -> 0..N],
         refused' \in {refused, refused \union {at}, refused \ {at}},
         \/ rows' = rows
         \/ \E row \in {"created", "updated", "plain", "none"} : AddResult(row)
  PROVE  TypeInv'
<1> USE MqAssumption DEF Message
<1>1. /\ at \in first..position /\ at \in Message /\ at' = at + 1
      /\ position \in 0..N /\ first \in 1..N + 1
      /\ UNCHANGED <<offset, position, first, attempt, settled, dropped, told, created, log>>
  BY DEF TypeInv, TypeOK, LoopInv, Advance, announced
<1>2. /\ rows' \in Seq(Result)
      /\ Len(rows') <= at' - first
  <2>1. CASE rows' = rows
    BY <1>1, <2>1 DEF TypeInv, TypeOK, LoopInv
  <2>2. CASE \E row \in {"created", "updated", "plain", "none"} : AddResult(row)
    <3> PICK row \in {"created", "updated", "plain", "none"} : AddResult(row)
      BY <2>2
    <3>1. [msg |-> at, row |-> row] \in Result
      BY <1>1 DEF Result
    <3>2. rows \in Seq(Result) /\ Len(rows) <= at - first /\ Len(rows) \in Nat
      BY DEF TypeInv, TypeOK, LoopInv
    <3>3. rows' \in Seq(Result) /\ Len(rows') = Len(rows) + 1
      BY <3>1, <3>2 DEF AddResult
    <3> QED
      BY <1>1, <3>2, <3>3
  <2> QED
    BY <2>1, <2>2
<1>3. pc' \in {"handle", "commit"} /\ (pc' = "handle" <=> at # position)
  BY DEF Advance
<1>4. TypeOK'
  <2>1. at' \in 1..N + 1 /\ refused' \subseteq Message
    BY <1>1 DEF TypeInv, TypeOK
  <2> QED
    BY <1>1, <1>2, <1>3, <2>1 DEF TypeInv, TypeOK
<1>5. LoopInv'
  <2>1. offset < first /\ first <= at /\ at <= position
    BY <1>1 DEF TypeInv, TypeOK, LoopInv
  <2>2. offset' \in 0..N
    BY <1>1 DEF TypeInv, TypeOK
  <2>3. Len(rows') \in Nat
    BY <1>2
  <2> QED
    BY <1>1, <1>2, <1>3, <2>1, <2>2, <2>3 DEF LoopInv
<1> QED
  BY <1>4, <1>5 DEF TypeInv

LEMMA RetryType == ASSUME TypeInv, pc \in {"handle", "commit"}, Retry PROVE TypeInv'
<1> USE MqAssumption DEF Message
<1>1. /\ UNCHANGED <<offset, position, db, settled, refused, told, created, log>>
      /\ txn' = NoWrites /\ rows' = <<>>
      /\ \/ /\ attempt < MaxRetries /\ attempt' = attempt + 1 /\ at' = first
            /\ pc' = "handle" /\ dropped' = dropped /\ first' = first
         \/ /\ dropped' = dropped \union Batch /\ pc' = "poll"
            /\ first' = position + 1 /\ at' = position + 1 /\ attempt' = 1
  BY DEF Retry, NextBatch, announced
<1>2. /\ offset \in 0..N /\ position \in 0..N /\ first \in 1..N + 1
      /\ offset < first /\ first <= position
  BY DEF TypeInv, TypeOK, LoopInv
<1>3. TypeOK'
  <2>1. txn' \in [Subject -> 0..N]
    BY <1>1 DEF NoWrites
  <2>2. Batch \subseteq Message
    BY <1>2 DEF Batch
  <2>3. attempt' \in 1..MaxRetries /\ at' \in 1..N + 1 /\ first' \in 1..N + 1
    BY <1>1, <1>2 DEF TypeInv, TypeOK
  <2>4. rows' \in Seq(Result)
    <3>1. rows \in Seq(Result) /\ <<>> \in Seq(Result)
      BY DEF TypeInv, TypeOK
    <3> QED
      BY <1>1, <3>1
  <2>5. dropped' \subseteq Message
    BY <1>1, <2>2 DEF TypeInv, TypeOK
  <2> QED
    BY <1>1, <2>1, <2>3, <2>4, <2>5 DEF TypeInv, TypeOK
<1>4. LoopInv'
  <2>1. CASE pc' = "handle"
    <3>1. at' = first /\ rows' = <<>> /\ Len(rows') = 0
      BY <1>1, <2>1
    <3> QED
      BY <1>1, <1>2, <2>1, <3>1 DEF LoopInv
  <2>2. CASE pc' = "poll"
    BY <1>1, <1>2, <2>2 DEF LoopInv
  <2> QED
    BY <1>1, <2>1, <2>2
<1> QED
  BY <1>3, <1>4 DEF TypeInv

(* Every handler that returns, whatever it has written. *)
LEMMA HandledType ==
  ASSUME TypeInv, Handle, ~HandleFails
  PROVE  TypeInv'
<1> USE MqAssumption DEF Handling, Accept, Refuse
<1>1. pc = "handle" /\ Advance
  BY DEF Handle, HandleUpsert, HandleCreate, HandleUpdate, HandleMissing, HandleDelete,
         HandleRefused, HandleStray, HandleGuardFails
<1>2. /\ txn \in [Subject -> 0..N] /\ db \in [Subject -> 0..N]
      /\ at \in 1..N /\ Committed \in [Subject -> 0..N] /\ NoWrites \in [Subject -> 0..N]
  BY <1>1 DEF TypeInv, TypeOK, LoopInv, Committed, Visible, NoWrites
<1>3. txn' \in [Subject -> 0..N]
  BY <1>2 DEF Handle, HandleUpsert, HandleCreate, HandleUpdate, HandleMissing, HandleDelete,
              HandleRefused, HandleStray, HandleGuardFails, stores
<1>4. db' \in [Subject -> 0..N]
  BY <1>2 DEF Handle, HandleUpsert, HandleCreate, HandleUpdate, HandleMissing, HandleDelete,
              HandleRefused, HandleStray, HandleGuardFails, stores
<1>5. refused' \in {refused, refused \union {at}, refused \ {at}}
  BY DEF Handle, HandleUpsert, HandleCreate, HandleUpdate, HandleMissing, HandleDelete,
         HandleRefused, HandleStray, HandleGuardFails
<1>6. \/ rows' = rows
      \/ \E row \in {"created", "updated", "plain", "none"} : AddResult(row)
  BY DEF Handle, HandleUpsert, HandleCreate, HandleUpdate, HandleMissing, HandleDelete,
         HandleRefused, HandleStray, HandleGuardFails
<1> QED
  BY <1>1, <1>3, <1>4, <1>5, <1>6, HandleType

LEMMA PollType == ASSUME TypeInv, Poll PROVE TypeInv'
<1> USE MqAssumption DEF Message
<1>1. PICK n \in 1..BatchMax : position + n <= N /\ position' = position + n
  BY DEF Poll
<1>2. /\ first' = position + 1 /\ at' = position + 1 /\ attempt' = 1
      /\ rows' = <<>> /\ pc' = "handle"
      /\ UNCHANGED <<offset, txn, db, settled, refused, dropped, told, created, log>>
  BY DEF Poll, batchVars, stores, ghosts, announced, TypeInv, LoopInv
<1>3. offset \in 0..N /\ position \in 0..N /\ offset <= position
  BY DEF TypeInv, TypeOK, LoopInv
<1>4. position' \in 0..N /\ first' \in 1..N + 1 /\ at' \in 1..N + 1 /\ attempt' \in 1..MaxRetries
  BY <1>1, <1>2, <1>3
<1>5. rows' \in Seq(Result) /\ Len(rows') = 0
  BY <1>2
<1>6. TypeOK'
  BY <1>2, <1>4, <1>5 DEF TypeInv, TypeOK
<1>7. LoopInv'
  BY <1>1, <1>2, <1>3, <1>5 DEF LoopInv
<1> QED
  BY <1>6, <1>7 DEF TypeInv

LEMMA CommitType == ASSUME TypeInv, CommitBatch PROVE TypeInv'
<1> USE MqAssumption DEF Message
<1>1. /\ pc = "commit" /\ db' = Committed /\ txn' = NoWrites
      /\ settled' = settled \union Batch /\ dropped' = dropped \ Batch
      /\ pc' = "post" /\ at' = 1
      /\ UNCHANGED <<offset, position, first, attempt, rows, refused, told, created, log>>
  BY DEF CommitBatch, announced
<1>2. Batch \subseteq Message /\ Len(rows) <= N /\ first <= position /\ offset < first
  <2>1. Len(rows) \in Nat
    BY DEF TypeInv, TypeOK
  <2> QED
    BY <1>1, <2>1 DEF TypeInv, TypeOK, LoopInv, Batch
<1>3. Committed \in [Subject -> 0..N] /\ NoWrites \in [Subject -> 0..N]
  BY DEF TypeInv, TypeOK, Committed, Visible, NoWrites
<1>4. TypeOK'
  BY <1>1, <1>2, <1>3 DEF TypeInv, TypeOK
<1>5. LoopInv'
  BY <1>1, <1>2 DEF TypeInv, TypeOK, LoopInv
<1> QED
  BY <1>4, <1>5 DEF TypeInv

(* The first result still to be announced. *)
LEMMA NextResult ==
  ASSUME TypeInv, pc = "post", at <= Len(rows)
  PROVE  rows[at] \in Result /\ at \in 1..N
<1>1. at \in 1..N + 1 /\ rows \in Seq(Result) /\ Len(rows) <= N /\ Len(rows) \in Nat /\ N \in Nat
  BY MqAssumption DEF TypeInv, TypeOK, LoopInv
<1>2. at \in 1..Len(rows)
  BY <1>1
<1> QED
  BY <1>1, <1>2

LEMMA AnnounceType == ASSUME TypeInv, Announce PROVE TypeInv'
<1> USE MqAssumption DEF Message
<1>1. /\ pc = "post" /\ at' = at + 1
      /\ UNCHANGED <<offset, position, pc, first, attempt, rows, txn, db, settled, refused, dropped, log>>
  BY DEF Announce, stores, ghosts
<1>2. rows[at] \in Result /\ at \in 1..N
  BY NextResult DEF Announce
<1>3. rows[at].msg \in Message /\ log[rows[at].msg].subject \in Subject
  <2>1. log \in Logs /\ rows[at].msg \in Message
    BY <1>2 DEF TypeInv, TypeOK, Result
  <2> QED
    BY <2>1
<1>4. told' \subseteq Message
  <2>1. told \subseteq Message
    BY DEF TypeInv, TypeOK
  <2>2. \/ told' = told
        \/ told' = told \union {rows[at].msg}
    BY DEF Announce, announced
  <2> QED
    BY <1>3, <2>1, <2>2
<1>5. created' \in [Subject -> 0..2]
  <2>1. created \in [Subject -> 0..2]
    BY DEF TypeInv, TypeOK, Many
  <2>2. \/ created' = created
        \/ created' = [created EXCEPT ![log[rows[at].msg].subject] = IF @ = 2 THEN 2 ELSE @ + 1]
    BY DEF Announce, announced, Many
  <2> QED
    BY <1>3, <2>1, <2>2
<1>6. TypeOK'
  <2>1. at' \in 1..N + 1
    BY <1>1, <1>2
  <2> QED
    BY <1>1, <1>4, <1>5, <2>1 DEF TypeInv, TypeOK, Many
<1>7. LoopInv'
  BY <1>1 DEF TypeInv, LoopInv
<1> QED
  BY <1>6, <1>7 DEF TypeInv

LEMMA TypeStep == TypeInv /\ [Next]_vars => TypeInv'
<1> SUFFICES ASSUME TypeInv, [Next]_vars PROVE TypeInv'
  OBVIOUS
<1> USE MqAssumption
<1>1. CASE Poll
  BY <1>1, PollType
<1>2. CASE Handle /\ ~HandleFails
  BY <1>2, HandledType
<1>3. CASE HandleFails \/ CommitFails
  BY <1>3, RetryType DEF HandleFails, CommitFails
<1>4. CASE CommitBatch
  BY <1>4, CommitType
<1>5. CASE Announce
  BY <1>5, AnnounceType
<1>6. CASE Announced
  BY <1>6 DEF Announced, TypeInv, TypeOK, LoopInv, batchVars, stores, ghosts, announced
<1>7. CASE Acknowledge \/ Crash
  <2>1. /\ \/ /\ pc' = "poll" /\ offset' \in {offset, position} /\ position' = position
              /\ txn' = txn
           \/ pc' = "down" /\ offset' = offset /\ position' = offset /\ txn' = NoWrites
        /\ first' = position' + 1 /\ at' = first' /\ attempt' = 1 /\ rows' = <<>>
        /\ UNCHANGED <<db, settled, refused, dropped, told, created, log>>
    BY <1>7 DEF Acknowledge, Crash, NextBatch, stores, ghosts, announced
  <2>2. /\ offset' \in 0..N /\ position' \in 0..N /\ first' \in 1..N + 1 /\ at' \in 1..N + 1
        /\ attempt' \in 1..MaxRetries /\ offset' <= position' /\ N \in Nat
    BY <2>1 DEF TypeInv, TypeOK, LoopInv
  <2>3. rows' \in Seq(Result) /\ txn' \in [Subject -> 0..N]
    BY <2>1, <2>2 DEF NoWrites, TypeInv, TypeOK
  <2>4. TypeOK'
    BY <2>1, <2>2, <2>3 DEF TypeInv, TypeOK
  <2>5. LoopInv'
    <3>1. /\ pc' \in {"poll", "down"} /\ pc' # "handle" /\ pc' # "commit" /\ pc' # "post"
          /\ pc' \notin {"handle", "commit"}
      BY <2>1
    <3>2. /\ offset' <= position' /\ first' <= position' + 1
          /\ first' = position' + 1 /\ at' = first' /\ attempt' = 1 /\ rows' = <<>>
      <4>1. first' = position' + 1 /\ at' = first' /\ attempt' = 1 /\ rows' = <<>>
        BY <2>1
      <4>2. offset' <= position' /\ position' \in Nat
        BY <2>2
      <4>3. first' <= position' + 1
        <5>1. \A x \in Nat : x + 1 <= x + 1
          OBVIOUS
        <5> QED
          BY <4>1, <4>2, <5>1
      <4> QED
        BY <4>1, <4>2, <4>3, Zenon
    <3> QED
      BY <3>1, <3>2, Zenon DEF LoopInv
  <2> QED
    BY <2>4, <2>5 DEF TypeInv
<1>8. CASE Restart
  BY <1>8 DEF Restart, TypeInv, TypeOK, LoopInv, batchVars, stores, ghosts, announced
<1>9. CASE UNCHANGED vars
  BY <1>9 DEF vars, TypeInv, TypeOK, LoopInv, batchVars, stores, ghosts, announced
<1> QED
  BY <1>1, <1>2, <1>3, <1>4, <1>5, <1>6, <1>7, <1>8, <1>9 DEF Next

(* Every reachable state of the loop is well typed. *)
THEOREM TypeCorrect == Spec => []TypeOK
<1>1. TypeInv => TypeOK
  BY DEF TypeInv
<1> QED
  BY <1>1, TypeInit, TypeStep, PTL DEF Spec

-----------------------------------------------------------------------------
(* What has been decided: everything before the batch and below the        *)
(* offset, and the batch itself once it is announced.                      *)
Done == settled \union dropped

DoneInv ==
  /\ 1..first - 1 \subseteq Done
  /\ 1..offset \subseteq Done
  /\ pc \in {"poll", "post", "ack"} => 1..position \subseteq Done

LEMMA DoneInit == Init => DoneInv
BY DEF Init, DoneInv, Done

(* A handler decides nothing. *)
LEMMA HandledDone ==
  ASSUME TypeInv, DoneInv, Handle, ~HandleFails
  PROVE  DoneInv' /\ UNCHANGED <<offset, Done>>
<1>1. /\ UNCHANGED <<offset, position, first, settled, dropped>>
      /\ pc' \in {"commit", "handle"}
  BY DEF Handle, HandleUpsert, HandleCreate, HandleUpdate, HandleMissing, HandleDelete,
         HandleRefused, HandleStray, HandleGuardFails, Advance
<1> QED
  BY <1>1 DEF DoneInv, Done

(* The batch is committed, or given up: then it is decided. *)
LEMMA BatchDone ==
  ASSUME TypeInv, DoneInv, CommitBatch \/ HandleFails \/ CommitFails
  PROVE  /\ DoneInv' /\ UNCHANGED offset
         /\ \E ms \in SUBSET (1..N) : Done' = Done \union ms
<1>1. /\ UNCHANGED <<offset, position>>
      /\ \/ Done' = Done \union Batch /\ first' \in {first, position + 1}
         \/ Done' = Done /\ pc' = "handle" /\ first' = first
  BY DEF CommitBatch, HandleFails, CommitFails, Retry, NextBatch, Done, announced
<1>2. /\ N \in Nat /\ first \in 1..N + 1 /\ position \in 0..N
      /\ Batch \subseteq 1..N /\ 1..position \subseteq (1..first - 1) \union Batch
  BY MqAssumption DEF TypeInv, TypeOK, Batch
<1>3. DoneInv'
  BY <1>1, <1>2 DEF DoneInv
<1>4. \E ms \in SUBSET (1..N) : Done' = Done \union ms
  <2>1. CASE Done' = Done \union Batch
    BY <1>2, <2>1
  <2>2. CASE Done' = Done
    <3>1. Done' = Done \union {}
      BY <2>2
    <3> QED
      BY <3>1
  <2> QED
    BY <1>1, <2>1, <2>2
<1> QED
  BY <1>1, <1>3, <1>4

LEMMA DoneStep ==
  ASSUME TypeInv, DoneInv, [Next]_vars
  PROVE  DoneInv' /\ [Delivery!Next]_(Delivery!vars)
<1> USE MqAssumption DEF Delivery!vars, Delivery!Next, Done
<1>1. CASE Poll
  <2>1. first' = first /\ pc' = "handle" /\ UNCHANGED <<offset, settled, dropped>>
    BY <1>1 DEF Poll, ghosts, batchVars
  <2> QED
    BY <2>1 DEF DoneInv
<1>2. CASE Handle /\ ~HandleFails
  BY <1>2, HandledDone
<1>3. CASE CommitBatch \/ HandleFails \/ CommitFails
  BY <1>3, BatchDone DEF Delivery!Decide
<1>4. CASE Announce
  BY <1>4 DEF Announce, DoneInv, ghosts
<1>5. CASE Announced
  BY <1>5 DEF Announced, DoneInv, ghosts, batchVars
<1>6. CASE Acknowledge
  <2>1. /\ pc = "ack" /\ pc' = "poll" /\ UNCHANGED <<position, settled, dropped>>
        /\ offset' \in {offset, position} /\ first' = position + 1
    BY <1>6 DEF Acknowledge, NextBatch, ghosts
  <2>2. DoneInv'
    BY <2>1 DEF DoneInv, TypeInv, TypeOK
  <2>3. offset' \in offset..N
    BY <2>1 DEF TypeInv, TypeOK, LoopInv
  <2>4. 1..offset' \subseteq settled \union dropped
    BY <2>2, <2>1 DEF DoneInv
  <2>5. Delivery!Acknowledge
    BY <2>1, <2>3, <2>4 DEF Delivery!Acknowledge
  <2> QED
    BY <2>2, <2>5
<1>7. CASE Crash
  <2>1. pc' = "down" /\ first' = offset + 1 /\ UNCHANGED <<offset, settled, dropped>>
    BY <1>7 DEF Crash, NextBatch, ghosts
  <2> QED
    BY <2>1 DEF DoneInv, TypeInv, TypeOK
<1>8. CASE Restart
  <2>1. /\ UNCHANGED <<offset, position, first, settled, dropped>> /\ pc = "down"
        /\ position \in 0..N /\ first = position + 1
    BY <1>8 DEF Restart, ghosts, batchVars, TypeInv, TypeOK, LoopInv
  <2> QED
    BY <2>1 DEF DoneInv
<1>9. CASE UNCHANGED vars
  BY <1>9 DEF vars, DoneInv, batchVars, ghosts
<1> QED
  BY <1>1, <1>2, <1>3, <1>4, <1>5, <1>6, <1>7, <1>8, <1>9 DEF Next

(* The loop delivers at least once: its offset and the messages it has     *)
(* decided behave as AtLeastOnce says.                                     *)
THEOREM DeliveryCorrect == Spec => DeliverySpec
<1>1. Init => Delivery!Init
  BY DEF Init, Delivery!Init
<1>2. TypeInv /\ DoneInv /\ [Next]_vars => DoneInv' /\ [Delivery!Next]_(Delivery!vars)
  BY DoneStep
<1> QED
  BY <1>1, <1>2, TypeInit, TypeStep, DoneInit, PTL DEF Spec, DeliverySpec, Delivery!Spec

-----------------------------------------------------------------------------
(* On a topic of reports: a transaction writes messages of its batch only, *)
(* which are behind everything acknowledged, and what was accepted so far  *)
(* is written or overwritten by a later report.                            *)
Reports == \A m \in Message : log[m].kind = "upsert"

Holds(rs, m) == rs[log[m].subject] >= m

DurableInv ==
  /\ \A k \in Subject : txn[k] # 0 => pc \in {"handle", "commit"} /\ txn[k] \in first..position
  /\ \A m \in (1..first - 1) \ (refused \union dropped) : Holds(db, m)
  /\ \A m \in (1..offset) \ (refused \union dropped) : Holds(db, m)
  /\ pc = "handle" => \A m \in (first..at - 1) \ refused : Holds(Committed, m)
  /\ pc = "commit" => \A m \in Batch \ refused : Holds(Committed, m)
  /\ pc \in {"poll", "post", "ack"} =>
       \A m \in (1..position) \ (refused \union dropped) : Holds(db, m)

LEMMA DurableInit == Init => DurableInv
BY DEF Init, DurableInv, NoWrites

(* A transaction that starts again has lost nothing committed. *)
LEMMA CommittedWithout ==
  ASSUME txn = NoWrites, db \in [Subject -> 0..N]
  PROVE  Committed = db
BY DEF Committed, Visible, NoWrites

(* On such a topic a handler writes the row of its message, or refuses it. *)
LEMMA ReportHandled ==
  ASSUME TypeInv, Reports, Handle, ~HandleFails
  PROVE  /\ pc = "handle" /\ Advance /\ db' = db
         /\ \/ /\ txn' = [txn EXCEPT ![log[at].subject] = at] /\ refused' = refused \ {at}
               /\ AddResult(IF Visible(log[at].subject) = 0 THEN "created" ELSE "updated")
            \/ /\ txn' = [txn EXCEPT ![log[at].subject] = at] /\ refused' = refused \union {at}
               /\ rows' = rows
            \/ /\ txn' = txn /\ refused' = refused \union {at} /\ rows' = rows
<1>1. pc = "handle" /\ Advance
  BY DEF Handle, HandleUpsert, HandleCreate, HandleUpdate, HandleMissing, HandleDelete,
         HandleRefused, HandleStray, HandleGuardFails, Handling
<1>2. at \in Message
  BY <1>1, MqAssumption DEF TypeInv, TypeOK, LoopInv, Message
<1>3. log[at].kind = "upsert"
  BY <1>2 DEF Reports
<1>4. HandleUpsert \/ HandleRefused \/ HandleStray
  BY <1>3 DEF Handle, HandleCreate, HandleUpdate, HandleMissing, HandleDelete,
              HandleGuardFails, Handling
<1> QED
  BY <1>1, <1>4 DEF HandleUpsert, HandleRefused, HandleStray, Accept, Refuse, stores

LEMMA HandledDurable ==
  ASSUME TypeInv, DurableInv, Reports, Handle, ~HandleFails
  PROVE  DurableInv'
<1> DEFINE k == log[at].subject
<1>1. /\ pc = "handle" /\ Advance /\ db' = db
      /\ \/ txn' = [txn EXCEPT ![k] = at] /\ refused' = refused \ {at}
         \/ txn' = [txn EXCEPT ![k] = at] /\ refused' = refused \union {at}
         \/ txn' = txn /\ refused' = refused \union {at}
  BY ReportHandled
<1>2. /\ at \in first..position /\ at' = at + 1 /\ offset < first
      /\ pc' = IF at = position THEN "commit" ELSE "handle"
      /\ UNCHANGED <<offset, position, first, dropped, log>>
  BY <1>1 DEF Advance, TypeInv, LoopInv
<1>3. /\ N \in Nat /\ first \in 1..N + 1 /\ position \in 0..N /\ offset \in 0..N
      /\ txn \in [Subject -> 0..N] /\ db \in [Subject -> 0..N]
      /\ \A m \in 1..N : log[m].subject \in Subject
  BY MqAssumption DEF TypeInv, TypeOK, Message
<1>4. k \in Subject /\ at \in 1..N
  BY <1>2, <1>3
<1>5. \A j \in Subject : txn'[j] # 0 => txn'[j] \in first..position
  BY <1>1, <1>2, <1>3, <1>4 DEF DurableInv
<1>6. \A m \in (1..first - 1) \ (refused' \union dropped) : Holds(db, m)
  BY <1>1, <1>2, <1>3 DEF DurableInv
<1>7. \A m \in (1..offset) \ (refused' \union dropped) : Holds(db, m)
  BY <1>1, <1>2, <1>3 DEF DurableInv
<1>8. \A m \in (first..at) \ refused' : Holds(Committed', m)
  <2> SUFFICES ASSUME NEW m \in (first..at) \ refused' PROVE Holds(Committed', m)
    OBVIOUS
  <2>1. m \in 1..N /\ log[m].subject \in Subject
    BY <1>2, <1>3
  <2>2. /\ Committed'[log[m].subject] = IF txn'[log[m].subject] # 0 THEN txn'[log[m].subject] ELSE db[log[m].subject]
        /\ Committed[log[m].subject] = IF txn[log[m].subject] # 0 THEN txn[log[m].subject] ELSE db[log[m].subject]
    BY <1>1, <2>1 DEF Committed, Visible
  <2>3. CASE m = at
    <3>1. txn'[k] = at
      BY <1>1, <1>3, <1>4, <2>3
    <3> QED
      BY <1>2, <1>4, <2>2, <2>3, <3>1 DEF Holds
  <2>4. CASE m # at
    <3>1. m \in (first..at - 1) \ refused
      BY <1>1, <1>2, <1>3, <2>4
    <3>2. Committed[log[m].subject] >= m
      BY <1>1, <3>1 DEF DurableInv, Holds
    <3>3. txn'[log[m].subject] \in {at, txn[log[m].subject]}
      BY <1>1, <1>3, <1>4, <2>1
    <3> QED
      BY <1>2, <1>3, <1>4, <2>1, <2>2, <3>1, <3>2, <3>3 DEF Holds
  <2> QED
    BY <2>3, <2>4
<1>9. UNCHANGED <<log, db, offset, first, position, dropped>> /\ at' - 1 = at /\ pc' \in {"handle", "commit"}
  BY <1>1, <1>2, <1>3, <1>4
<1>10. pc' = "commit" => Batch' = first..at
  BY <1>2 DEF Batch
<1> QED
  BY <1>5, <1>6, <1>7, <1>8, <1>9, <1>10 DEF DurableInv, Holds

LEMMA RetryDurable ==
  ASSUME TypeInv, DurableInv, HandleFails \/ CommitFails
  PROVE  DurableInv'
<1>1. /\ UNCHANGED <<offset, position, db, refused, log>> /\ txn' = NoWrites
      /\ \/ pc' = "handle" /\ at' = first /\ dropped' = dropped /\ first' = first
         \/ pc' = "poll" /\ dropped' = dropped \union Batch /\ first' = position + 1
  BY DEF HandleFails, CommitFails, Retry, NextBatch
<1>2. first \in 1..N + 1 /\ position \in 0..N /\ offset \in 0..N /\ N \in Nat
  BY MqAssumption DEF TypeInv, TypeOK
<1>3. \A k \in Subject : txn'[k] = 0
  BY <1>1 DEF NoWrites
<1>4. /\ \A m \in (1..first - 1) \ (refused \union dropped') : Holds(db, m)
      /\ \A m \in (1..offset) \ (refused \union dropped') : Holds(db, m)
  BY <1>1 DEF DurableInv
<1>5. pc' = "poll" => \A m \in (1..position) \ (refused \union dropped') : Holds(db, m)
  BY <1>1, <1>2, <1>4 DEF Batch
<1> QED
  BY <1>1, <1>2, <1>3, <1>4, <1>5 DEF DurableInv, Holds

(* The commit overwrites rows with later messages only. *)
LEMMA CommitDurable ==
  ASSUME TypeInv, DurableInv, CommitBatch
  PROVE  DurableInv'
<1>1. /\ pc = "commit" /\ pc' = "post" /\ db' = Committed /\ txn' = NoWrites
      /\ dropped' = dropped \ Batch
      /\ UNCHANGED <<offset, position, first, refused, log>>
  BY DEF CommitBatch
<1>2. /\ first \in 1..N + 1 /\ position \in 0..N /\ offset \in 0..N /\ N \in Nat
      /\ offset < first /\ first <= position
      /\ txn \in [Subject -> 0..N] /\ db \in [Subject -> 0..N]
      /\ \A m \in 1..N : log[m].subject \in Subject
  BY <1>1, MqAssumption DEF TypeInv, TypeOK, LoopInv, Message
<1>3. \A k \in Subject : txn'[k] = 0
  BY <1>1 DEF NoWrites
<1>4. \A m \in 1..first - 1 : Holds(db, m) => Holds(Committed, m)
  <2> SUFFICES ASSUME NEW m \in 1..first - 1, Holds(db, m) PROVE Holds(Committed, m)
    OBVIOUS
  <2>1. log[m].subject \in Subject
    BY <1>2
  <2>2. Committed[log[m].subject] = IF txn[log[m].subject] # 0 THEN txn[log[m].subject] ELSE db[log[m].subject]
    BY <2>1 DEF Committed, Visible
  <2>3. txn[log[m].subject] # 0 => txn[log[m].subject] \in first..position
    BY <2>1 DEF DurableInv
  <2> QED
    BY <1>2, <2>1, <2>2, <2>3 DEF Holds
<1>5. \A m \in (1..first - 1) \ (refused \union dropped') : Holds(Committed, m)
  <2>1. \A m \in 1..first - 1 : m \notin Batch
    BY <1>2 DEF Batch
  <2> QED
    BY <1>1, <1>4, <2>1 DEF DurableInv
<1>6. \A m \in (1..offset) \ (refused \union dropped') : Holds(Committed, m)
  BY <1>2, <1>5
<1>7. \A m \in (1..position) \ (refused \union dropped') : Holds(Committed, m)
  <2>1. \A m \in 1..position : m \in 1..first - 1 \/ m \in Batch
    BY <1>2 DEF Batch
  <2>2. \A m \in Batch \ refused : Holds(Committed, m)
    BY <1>1 DEF DurableInv
  <2> QED
    BY <1>5, <2>1, <2>2
<1>8. \A m : Holds(Committed, m) => Holds(db, m)'
  BY <1>1 DEF Holds
<1> QED
  BY <1>1, <1>3, <1>5, <1>6, <1>7, <1>8 DEF DurableInv

LEMMA DurableStep ==
  ASSUME TypeInv, DurableInv, Reports, [Next]_vars
  PROVE  DurableInv'
<1>0. /\ first \in 1..N + 1 /\ position \in 0..N /\ offset \in 0..N /\ N \in Nat
      /\ offset <= position /\ txn \in [Subject -> 0..N] /\ db \in [Subject -> 0..N]
  BY MqAssumption DEF TypeInv, TypeOK, LoopInv
<1>1. CASE Poll
  <2>1. /\ pc = "poll" /\ pc' = "handle" /\ first' = position + 1 /\ at' = position + 1
        /\ UNCHANGED <<offset, txn, db, refused, dropped, log>>
    BY <1>1 DEF Poll, batchVars, stores, ghosts, TypeInv, LoopInv
  <2>2. \A k \in Subject : txn[k] = 0
    BY <2>1 DEF DurableInv
  <2> QED
    BY <1>0, <2>1, <2>2 DEF DurableInv, Holds
<1>2. CASE Handle /\ ~HandleFails
  BY <1>2, HandledDurable
<1>3. CASE HandleFails \/ CommitFails
  BY <1>3, RetryDurable
<1>4. CASE CommitBatch
  BY <1>4, CommitDurable
<1>5. CASE Announce \/ Announced
  <2>1. /\ pc = "post" /\ pc' \in {"post", "ack"}
        /\ UNCHANGED <<offset, position, first, txn, db, refused, dropped, log>>
    BY <1>5 DEF Announce, Announced, stores, ghosts, batchVars
  <2> QED
    BY <2>1 DEF DurableInv, Holds
<1>6. CASE Acknowledge
  <2>1. /\ pc = "ack" /\ pc' = "poll" /\ offset' \in {offset, position} /\ first' = position + 1
        /\ UNCHANGED <<position, txn, db, refused, dropped, log>>
    BY <1>6 DEF Acknowledge, NextBatch, stores, ghosts
  <2> QED
    BY <1>0, <2>1 DEF DurableInv, Holds
<1>7. CASE Crash
  <2>1. /\ pc' = "down" /\ txn' = NoWrites /\ first' = offset + 1
        /\ UNCHANGED <<offset, db, refused, dropped, log>>
    BY <1>7 DEF Crash, NextBatch, ghosts
  <2> QED
    BY <1>0, <2>1 DEF DurableInv, Holds, NoWrites
<1>8. CASE Restart
  <2>1. /\ pc = "down" /\ pc' = "poll" /\ first = position + 1
        /\ UNCHANGED <<offset, position, first, txn, db, refused, dropped, log>>
    BY <1>8 DEF Restart, batchVars, stores, ghosts, TypeInv, LoopInv
  <2> QED
    BY <1>0, <2>1 DEF DurableInv, Holds
<1>9. CASE UNCHANGED vars
  BY <1>9 DEF vars, DurableInv, Holds, Committed, Visible, Batch, stores, ghosts, batchVars
<1> QED
  BY <1>1, <1>2, <1>3, <1>4, <1>5, <1>6, <1>7, <1>8, <1>9 DEF Next

(* The messages of a partition are reports, all or none, and stay so. *)
LEMMA ReportsOrNone ==
  ASSUME TypeInv
  PROVE  Reports \/ \A m \in Message : log[m].kind # "upsert"
BY MqAssumption DEF TypeInv, TypeOK, Reports

LEMMA ReportsStay == Reports' /\ [Next]_vars => Reports
<1> SUFFICES ASSUME [Next]_vars PROVE log' = log
  BY DEF Reports
<1> QED
  BY DEF Next, vars, Poll, Handle, HandleUpsert, HandleCreate, HandleUpdate, HandleMissing,
         HandleDelete, HandleRefused, HandleStray, HandleGuardFails, HandleFails, Retry, NextBatch, Advance,
         CommitFails, CommitBatch, Announce, Announced, Acknowledge, Crash, Restart

(* A report the offset has passed is in the database, by itself or by a    *)
(* later report about its host, unless it was refused or given up.         *)
THEOREM DurableCorrect == Spec => []AcceptedIsDurable
<1> DEFINE Inv == Reports => DurableInv
<1>1. Init => Inv
  BY DurableInit
<1>2. TypeInv /\ Inv /\ [Next]_vars => Inv'
  BY DurableStep, ReportsStay
<1>3. TypeInv /\ Inv => AcceptedIsDurable
  <2> SUFFICES ASSUME TypeInv, Inv, NEW m \in (1..offset) \ (refused \union dropped),
                      log[m].kind = "upsert"
               PROVE  db[log[m].subject] >= m
    BY DEF AcceptedIsDurable
  <2>1. m \in Message
    BY MqAssumption DEF TypeInv, TypeOK, Message
  <2>2. DurableInv
    BY <2>1, ReportsOrNone
  <2> QED
    BY <2>2 DEF DurableInv, Holds
<1> QED
  BY <1>1, <1>2, <1>3, TypeInit, TypeStep, PTL DEF Spec

-----------------------------------------------------------------------------
(* On a topic of reports: whatever is handled has a result until it is     *)
(* announced.                                                              *)
Listed(rs, m, i) == i \in 1..Len(rs) /\ rs[i].msg = m

AnnouncedInv ==
  /\ \A i \in 1..Len(rows) : rows[i].row \in {"created", "updated"}
  /\ \A m \in (1..first - 1) \ (refused \union dropped) : m \in told
  /\ \A m \in (1..offset) \ (refused \union dropped) : m \in told
  /\ pc = "handle" => \A m \in (first..at - 1) \ refused : \E i \in Nat : Listed(rows, m, i)
  /\ pc = "commit" => \A m \in Batch \ refused : \E i \in Nat : Listed(rows, m, i)
  /\ pc = "post" => \A m \in Batch \ (refused \union dropped) :
       m \in told \/ \E i \in Nat : i >= at /\ Listed(rows, m, i)
  /\ pc \in {"poll", "ack"} =>
       \A m \in (1..position) \ (refused \union dropped) : m \in told

LEMMA AnnouncedInit == Init => AnnouncedInv
BY DEF Init, AnnouncedInv

(* The results after a handler: those before it, and perhaps its own. *)
LEMMA ResultAdded ==
  ASSUME TypeInv, pc = "handle", NEW row \in {"created", "updated", "plain", "none"}, AddResult(row)
  PROVE  /\ Len(rows) \in Nat /\ Len(rows') = Len(rows) + 1
         /\ \A i \in 1..Len(rows) : rows'[i] = rows[i]
         /\ rows'[Len(rows) + 1] = [msg |-> at, row |-> row]
<1>1. rows \in Seq(Result)
  BY DEF TypeInv, TypeOK
<1>2. [msg |-> at, row |-> row] \in Result
  BY MqAssumption DEF TypeInv, TypeOK, LoopInv, Result, Message
<1> QED
  BY <1>1, <1>2 DEF AddResult

LEMMA HandledAnnounced ==
  ASSUME TypeInv, AnnouncedInv, Reports, Handle, ~HandleFails
  PROVE  AnnouncedInv'
<1>1. /\ pc = "handle" /\ Advance
      /\ \/ /\ refused' = refused \ {at}
            /\ \E row \in {"created", "updated"} : AddResult(row)
         \/ refused' = refused \union {at} /\ rows' = rows
  BY ReportHandled
<1>2. /\ at \in first..position /\ at' = at + 1 /\ offset < first
      /\ pc' = IF at = position THEN "commit" ELSE "handle"
      /\ UNCHANGED <<offset, position, first, dropped, told, log>>
  BY <1>1 DEF Advance, TypeInv, LoopInv, announced
<1>3. N \in Nat /\ first \in 1..N + 1 /\ position \in 0..N /\ offset \in 0..N /\ Len(rows) \in Nat
  BY MqAssumption DEF TypeInv, TypeOK
<1>4. /\ \A m \in (1..first - 1) \ (refused' \union dropped) : m \in told
      /\ \A m \in (1..offset) \ (refused' \union dropped) : m \in told
  BY <1>1, <1>2, <1>3 DEF AnnouncedInv
<1>5. /\ \A i \in 1..Len(rows') : rows'[i].row \in {"created", "updated"}
      /\ \A m, i : Listed(rows, m, i) => Listed(rows', m, i)
      /\ at \notin refused' => \E i \in Nat : Listed(rows', at, i)
  <2>1. CASE rows' = rows /\ refused' = refused \union {at}
    BY <2>1 DEF AnnouncedInv, Listed
  <2>2. CASE \E row \in {"created", "updated"} : AddResult(row)
    <3> PICK row \in {"created", "updated"} : AddResult(row)
      BY <2>2
    <3>1. /\ Len(rows') = Len(rows) + 1
          /\ \A i \in 1..Len(rows) : rows'[i] = rows[i]
          /\ rows'[Len(rows) + 1] = [msg |-> at, row |-> row]
      BY <1>1, ResultAdded
    <3>2. \A i \in 1..Len(rows') : rows'[i].row \in {"created", "updated"}
      BY <1>3, <3>1 DEF AnnouncedInv
    <3>3. \A m, i : Listed(rows, m, i) => Listed(rows', m, i)
      BY <1>3, <3>1 DEF Listed
    <3>4. Listed(rows', at, Len(rows) + 1)
      BY <1>3, <3>1 DEF Listed
    <3> QED
      BY <1>3, <3>2, <3>3, <3>4
  <2> QED
    BY <1>1, <2>1, <2>2
<1>6. \A m \in (first..at) \ refused' : \E i \in Nat : Listed(rows', m, i)
  <2> SUFFICES ASSUME NEW m \in (first..at) \ refused', m # at PROVE \E i \in Nat : Listed(rows', m, i)
    BY <1>5
  <2>1. m \in (first..at - 1) \ refused
    BY <1>1, <1>2, <1>3
  <2> QED
    BY <1>1, <1>5, <2>1 DEF AnnouncedInv
<1>7. at' - 1 = at /\ pc' \in {"handle", "commit"} /\ (pc' = "commit" => Batch' = first..at)
  BY <1>2, <1>3 DEF Batch
<1> QED
  BY <1>2, <1>4, <1>5, <1>6, <1>7 DEF AnnouncedInv

LEMMA RetryAnnounced ==
  ASSUME TypeInv, AnnouncedInv, HandleFails \/ CommitFails
  PROVE  AnnouncedInv'
<1>1. /\ UNCHANGED <<offset, position, refused, told, log>> /\ rows' = <<>>
      /\ \/ pc' = "handle" /\ at' = first /\ dropped' = dropped /\ first' = first
         \/ pc' = "poll" /\ dropped' = dropped \union Batch /\ first' = position + 1
  BY DEF HandleFails, CommitFails, Retry, NextBatch, announced
<1>2. first \in 1..N + 1 /\ position \in 0..N /\ offset \in 0..N /\ N \in Nat
  BY MqAssumption DEF TypeInv, TypeOK
<1>3. \A i \in 1..Len(rows') : rows'[i].row \in {"created", "updated"}
  BY <1>1 DEF AnnouncedInv
<1>4. /\ \A m \in (1..first - 1) \ (refused \union dropped') : m \in told
      /\ \A m \in (1..offset) \ (refused \union dropped') : m \in told
  BY <1>1 DEF AnnouncedInv
<1>5. pc' = "poll" => \A m \in (1..position) \ (refused \union dropped') : m \in told
  BY <1>1, <1>2, <1>4 DEF Batch
<1> QED
  BY <1>1, <1>2, <1>3, <1>4, <1>5 DEF AnnouncedInv

LEMMA CommitAnnounced ==
  ASSUME TypeInv, AnnouncedInv, CommitBatch
  PROVE  AnnouncedInv'
<1>1. /\ pc = "commit" /\ pc' = "post" /\ at' = 1 /\ dropped' = dropped \ Batch
      /\ UNCHANGED <<offset, position, first, rows, refused, told, log>>
  BY DEF CommitBatch, announced
<1>2. /\ first \in 1..N + 1 /\ position \in 0..N /\ offset \in 0..N /\ N \in Nat
      /\ offset < first /\ Len(rows) \in Nat
  BY <1>1, MqAssumption DEF TypeInv, TypeOK, LoopInv
<1>3. \A m \in (1..first - 1) \ (refused \union dropped') : m \in told
  BY <1>1, <1>2 DEF AnnouncedInv, Batch
<1>4. \A m \in (1..offset) \ (refused \union dropped') : m \in told
  BY <1>2, <1>3
<1>5. \A m \in Batch \ refused : \E i \in Nat : i >= 1 /\ Listed(rows, m, i)
  BY <1>1, <1>2 DEF AnnouncedInv, Listed
<1>6. Batch' = Batch
  BY <1>1 DEF Batch
<1> QED
  BY <1>1, <1>3, <1>4, <1>5, <1>6 DEF AnnouncedInv

(* One result is announced, or its failure logged. *)
LEMMA AnnounceStep ==
  ASSUME TypeInv, AnnouncedInv, Announce
  PROVE  AnnouncedInv'
<1>1. /\ pc = "post" /\ at <= Len(rows) /\ at' = at + 1
      /\ UNCHANGED <<offset, position, pc, first, rows, refused, dropped, log>>
  BY DEF Announce, ghosts
<1>2. rows[at] \in Result /\ at \in 1..N /\ rows[at].msg \in Message /\ Len(rows) \in Nat
  BY <1>1, NextResult DEF Result, TypeInv, TypeOK
<1>3. at \in 1..Len(rows)
  BY <1>1, <1>2
<1>4. rows[at].row \in {"created", "updated"}
  BY <1>3 DEF AnnouncedInv
<1>5. /\ rows[at].msg \in told'
      /\ \A m \in Message : m \in told => m \in told'
  <2>1. told' = told \union {rows[at].msg}
    BY <1>4 DEF Announce
  <2>2. told \subseteq Message
    BY DEF TypeInv, TypeOK
  <2> QED
    BY <1>2, <2>1, <2>2
<1>6. /\ N \in Nat /\ Message = 1..N /\ first \in 1..N + 1 /\ position \in 0..N /\ offset \in 0..N
  BY MqAssumption DEF TypeInv, TypeOK, Message
<1>7. \A m \in Batch \ (refused \union dropped) :
        m \in told' \/ \E i \in Nat : i >= at + 1 /\ Listed(rows, m, i)
  <2> SUFFICES ASSUME NEW m \in Batch \ (refused \union dropped), m \notin told'
               PROVE  \E i \in Nat : i >= at + 1 /\ Listed(rows, m, i)
    OBVIOUS
  <2>1. m \in Message
    BY <1>6 DEF Batch
  <2>2. PICK i \in Nat : i >= at /\ Listed(rows, m, i)
    BY <1>1, <1>5, <2>1 DEF AnnouncedInv
  <2>3. i # at
    BY <1>5, <2>1, <2>2 DEF Listed
  <2> QED
    BY <1>2, <2>2, <2>3
<1>8. /\ \A m \in (1..first - 1) \ (refused \union dropped) : m \in told'
      /\ \A m \in (1..offset) \ (refused \union dropped) : m \in told'
  BY <1>5, <1>6 DEF AnnouncedInv
<1>9. /\ Batch' = Batch
      /\ \A i \in 1..Len(rows) : rows[i].row \in {"created", "updated"}
  BY <1>1 DEF Batch, AnnouncedInv
<1> QED
  BY <1>1, <1>7, <1>8, <1>9 DEF AnnouncedInv

(* No result is left: the whole batch is announced. *)
LEMMA AnnouncedAll ==
  ASSUME TypeInv, AnnouncedInv, Announced
  PROVE  AnnouncedInv'
<1>1. /\ pc = "post" /\ at > Len(rows) /\ pc' = "ack"
      /\ UNCHANGED <<offset, position, first, rows, refused, dropped, told, log>>
  BY DEF Announced, batchVars, ghosts, announced
<1>2. /\ N \in Nat /\ first \in 1..N + 1 /\ position \in 0..N /\ at \in 1..N + 1 /\ Len(rows) \in Nat
  BY MqAssumption DEF TypeInv, TypeOK
<1>3. \A m \in Batch \ (refused \union dropped) : m \in told
  BY <1>1, <1>2 DEF AnnouncedInv, Listed
<1>4. \A m \in (1..position) \ (refused \union dropped) : m \in told
  BY <1>2, <1>3 DEF AnnouncedInv, Batch
<1> QED
  BY <1>1, <1>4 DEF AnnouncedInv

LEMMA AnnouncedStep ==
  ASSUME TypeInv, AnnouncedInv, Reports, [Next]_vars
  PROVE  AnnouncedInv'
<1>0. N \in Nat /\ first \in 1..N + 1 /\ position \in 0..N /\ offset \in 0..N /\ offset <= position
  BY MqAssumption DEF TypeInv, TypeOK, LoopInv
<1>1. CASE Poll
  <2>1. /\ pc = "poll" /\ pc' = "handle" /\ first' = position + 1 /\ at' = position + 1
        /\ rows' = <<>> /\ UNCHANGED <<offset, refused, dropped, told, log>>
    BY <1>1 DEF Poll, batchVars, ghosts, announced, TypeInv, LoopInv
  <2> QED
    BY <1>0, <2>1 DEF AnnouncedInv
<1>2. CASE Handle /\ ~HandleFails
  BY <1>2, HandledAnnounced
<1>3. CASE HandleFails \/ CommitFails
  BY <1>3, RetryAnnounced
<1>4. CASE CommitBatch
  BY <1>4, CommitAnnounced
<1>5. CASE Announce
  BY <1>5, AnnounceStep
<1>6. CASE Announced
  BY <1>6, AnnouncedAll
<1>7. CASE Acknowledge
  <2>1. /\ pc = "ack" /\ pc' = "poll" /\ offset' \in {offset, position} /\ first' = position + 1
        /\ rows' = <<>> /\ UNCHANGED <<position, refused, dropped, told, log>>
    BY <1>7 DEF Acknowledge, NextBatch, ghosts, announced
  <2> QED
    BY <1>0, <2>1 DEF AnnouncedInv
<1>8. CASE Crash
  <2>1. /\ pc' = "down" /\ first' = offset + 1
        /\ rows' = <<>> /\ UNCHANGED <<offset, refused, dropped, told, log>>
    BY <1>8 DEF Crash, NextBatch, ghosts, announced
  <2> QED
    BY <1>0, <2>1 DEF AnnouncedInv
<1>9. CASE Restart
  <2>1. /\ pc = "down" /\ pc' = "poll" /\ first = position + 1
        /\ UNCHANGED <<offset, position, first, rows, refused, dropped, told, log>>
    BY <1>9 DEF Restart, batchVars, ghosts, announced, TypeInv, LoopInv
  <2> QED
    BY <1>0, <2>1 DEF AnnouncedInv
<1>10. CASE UNCHANGED vars
  BY <1>10 DEF vars, AnnouncedInv, Batch, batchVars, ghosts, announced
<1> QED
  BY <1>1, <1>2, <1>3, <1>4, <1>5, <1>6, <1>7, <1>8, <1>9, <1>10 DEF Next

(* The event of an accepted host is produced, or its failure logged, before*)
(* the offset passes the message.                                          *)
THEOREM AnnouncedCorrect == Spec => []AnnouncedBeforeOffset
<1> DEFINE Inv == Reports => AnnouncedInv
<1>1. Init => Inv
  BY AnnouncedInit
<1>2. TypeInv /\ Inv /\ [Next]_vars => Inv'
  BY AnnouncedStep, ReportsStay
<1>3. TypeInv /\ Inv => AnnouncedBeforeOffset
  <2> SUFFICES ASSUME TypeInv, Inv, NEW m \in (1..offset) \ (refused \union dropped),
                      log[m].kind = "upsert"
               PROVE  m \in told
    BY DEF AnnouncedBeforeOffset
  <2>1. m \in Message
    BY MqAssumption DEF TypeInv, TypeOK, Message
  <2>2. AnnouncedInv
    BY <2>1, ReportsOrNone
  <2> QED
    BY <2>2 DEF AnnouncedInv
<1> QED
  BY <1>1, <1>2, <1>3, TypeInit, TypeStep, PTL DEF Spec

-----------------------------------------------------------------------------
(* On a topic of reports: a host is new in one result at most, which is    *)
(* listed before its row is in the database and announced after.           *)
New(i) == i \in 1..Len(rows) /\ rows[i].row = "created"

About(i) == log[rows[i].msg].subject

CreatedInv ==
  /\ \A k \in Subject : created[k] <= 1 /\ (db[k] = 0 => created[k] = 0)
  /\ pc \in {"handle", "commit"} =>
       \A i \in Nat : New(i) => db[About(i)] = 0 /\ txn[About(i)] # 0
  /\ pc \in {"handle", "commit", "post"} =>
       \A i, j \in Nat : New(i) /\ New(j) /\ About(i) = About(j) => i = j
  /\ pc = "post" =>
       \A i \in Nat : New(i) /\ i >= at => created[About(i)] = 0 /\ db[About(i)] # 0

LEMMA CreatedInit == Init => CreatedInv
BY DEF Init, CreatedInv, NoWrites

LEMMA AboutSubject == ASSUME TypeInv, NEW i, New(i) PROVE About(i) \in Subject
<1>1. rows \in Seq(Result) /\ log \in Logs
  BY DEF TypeInv, TypeOK
<1>2. rows[i] \in Result
  BY <1>1 DEF New
<1>3. rows[i].msg \in Message
  BY <1>2 DEF Result
<1> QED
  BY <1>1, <1>3, MqAssumption DEF About

LEMMA HandledCreated ==
  ASSUME TypeInv, CreatedInv, Reports, Handle, ~HandleFails
  PROVE  CreatedInv'
<1> DEFINE k == log[at].subject
<1>1. /\ pc = "handle" /\ Advance /\ db' = db
      /\ \/ /\ txn' = [txn EXCEPT ![k] = at]
            /\ AddResult(IF Visible(k) = 0 THEN "created" ELSE "updated")
         \/ txn' = [txn EXCEPT ![k] = at] /\ rows' = rows
         \/ txn' = txn /\ rows' = rows
  BY ReportHandled
<1>2. /\ pc' \in {"handle", "commit"} /\ UNCHANGED <<created, log>>
  BY <1>1 DEF Advance, announced
<1>3. /\ at \in 1..N /\ k \in Subject /\ txn \in [Subject -> 0..N] /\ Len(rows) \in Nat
  BY <1>1, MqAssumption DEF TypeInv, TypeOK, LoopInv, Message
<1>4. \A j \in Subject : txn[j] # 0 => txn'[j] # 0
  BY <1>1, <1>3
<1>5. CASE rows' = rows
  <2>1. \A i : (New(i)' <=> New(i)) /\ About(i)' = About(i)
    BY <1>2, <1>5 DEF New, About
  <2>2. \A i \in Nat : New(i)' => db'[About(i)'] = 0 /\ txn'[About(i)'] # 0
    BY <1>1, <1>4, <2>1, AboutSubject DEF CreatedInv
  <2>3. \A i, j \in Nat : New(i)' /\ New(j)' /\ About(i)' = About(j)' => i = j
    BY <1>1, <2>1 DEF CreatedInv
  <2> QED
    BY <1>1, <1>2, <2>2, <2>3 DEF CreatedInv
<1>6. CASE rows' # rows
  <2> DEFINE row == IF Visible(k) = 0 THEN "created" ELSE "updated"
  <2> PICK last \in Nat : last = Len(rows) + 1
    BY <1>3
  <2>1. /\ txn' = [txn EXCEPT ![k] = at]
        /\ Len(rows') = last
        /\ \A i \in 1..Len(rows) : rows'[i] = rows[i]
        /\ rows'[last] = [msg |-> at, row |-> row]
    BY <1>1, <1>6, ResultAdded
  <2>2. txn'[k] # 0
    BY <1>3, <2>1
  <2>3. About(last)' = k
    BY <1>2, <2>1 DEF About
  <2>4. \A i \in Nat : New(i)' /\ i # last => New(i) /\ About(i)' = About(i)
    BY <1>2, <1>3, <2>1 DEF New, About
  <2>5. New(last)' => db[k] = 0 /\ txn[k] = 0
    <3>1. New(last)' => row = "created"
      BY <2>1 DEF New
    <3> QED
      BY <3>1 DEF Visible
  <2>6. \A i \in Nat : New(i)' => db'[About(i)'] = 0 /\ txn'[About(i)'] # 0
    <3> SUFFICES ASSUME NEW i \in Nat, New(i)'
                 PROVE  db'[About(i)'] = 0 /\ txn'[About(i)'] # 0
      OBVIOUS
    <3>1. CASE i = last
      BY <1>1, <2>2, <2>3, <2>5, <3>1
    <3>2. CASE i # last
      BY <1>1, <1>4, <2>4, <3>2, AboutSubject DEF CreatedInv
    <3> QED
      BY <3>1, <3>2
  <2>7. \A i \in Nat : New(i)' /\ New(last)' /\ About(i)' = About(last)' => i = last
    <3> SUFFICES ASSUME NEW i \in Nat, New(i)', New(last)', About(i)' = k, i # last
                 PROVE  FALSE
      BY <2>3
    <3>1. New(i) /\ About(i) = k
      BY <2>4
    <3>2. txn[k] # 0
      BY <1>1, <3>1 DEF CreatedInv
    <3> QED
      BY <2>5, <3>2
  <2>8. \A i, j \in Nat : New(i)' /\ New(j)' /\ About(i)' = About(j)' => i = j
    <3> SUFFICES ASSUME NEW i \in Nat, NEW j \in Nat, New(i)', New(j)', About(i)' = About(j)'
                 PROVE  i = j
      OBVIOUS
    <3>1. CASE i = last \/ j = last
      BY <2>7, <3>1
    <3>2. CASE i # last /\ j # last
      BY <1>1, <2>4, <3>2 DEF CreatedInv
    <3> QED
      BY <3>1, <3>2
  <2> QED
    BY <1>1, <1>2, <2>6, <2>8 DEF CreatedInv
<1> QED
  BY <1>5, <1>6

LEMMA CommitCreated ==
  ASSUME TypeInv, CreatedInv, CommitBatch
  PROVE  CreatedInv'
<1>1. /\ pc = "commit" /\ pc' = "post" /\ at' = 1 /\ db' = Committed
      /\ UNCHANGED <<rows, created, log>>
  BY DEF CommitBatch, announced
<1>2. \A i : (New(i)' <=> New(i)) /\ About(i)' = About(i)
  BY <1>1 DEF New, About
<1>3. \A k \in Subject : /\ db'[k] = 0 => db[k] = 0
                         /\ txn[k] # 0 => db'[k] # 0
  BY <1>1 DEF Committed, Visible
<1>4. \A i \in Nat : New(i)' => created'[About(i)'] = 0 /\ db'[About(i)'] # 0
  BY <1>1, <1>2, <1>3, AboutSubject DEF CreatedInv
<1>5. \A i, j \in Nat : New(i)' /\ New(j)' /\ About(i)' = About(j)' => i = j
  BY <1>1, <1>2 DEF CreatedInv
<1> QED
  BY <1>1, <1>3, <1>4, <1>5 DEF CreatedInv

LEMMA AnnounceCreated ==
  ASSUME TypeInv, CreatedInv, Announce
  PROVE  CreatedInv'
<1>1. /\ pc = "post" /\ at <= Len(rows) /\ at' = at + 1
      /\ UNCHANGED <<pc, rows, db, log>>
      /\ \/ created' = created
         \/ /\ rows[at].row = "created"
            /\ created' = [created EXCEPT ![About(at)] = IF @ = 2 THEN 2 ELSE @ + 1]
  BY DEF Announce, stores, announced, About, Many
<1>2. at \in 1..N /\ Len(rows) \in Nat /\ created \in [Subject -> 0..2] /\ N \in Nat
  BY <1>1, NextResult, MqAssumption DEF TypeInv, TypeOK, Many
<1>3. \A i : (New(i)' <=> New(i)) /\ About(i)' = About(i)
  BY <1>1 DEF New, About
<1>4. CASE created' = created
  BY <1>1, <1>2, <1>3, <1>4 DEF CreatedInv
<1>5. CASE rows[at].row = "created" /\ created' = [created EXCEPT ![About(at)] = IF @ = 2 THEN 2 ELSE @ + 1]
  <2>1. New(at)
    BY <1>1, <1>2, <1>5 DEF New
  <2>2. created[About(at)] = 0 /\ db[About(at)] # 0 /\ About(at) \in Subject
    BY <1>1, <1>2, <2>1, AboutSubject DEF CreatedInv
  <2>3. \A k \in Subject : created'[k] = IF k = About(at) THEN 1 ELSE created[k]
    BY <1>2, <1>5, <2>2
  <2>4. \A k \in Subject : created'[k] <= 1 /\ (db'[k] = 0 => created'[k] = 0)
    BY <1>1, <2>2, <2>3 DEF CreatedInv
  <2>5. \A i \in Nat : New(i)' /\ i >= at' => created'[About(i)'] = 0 /\ db'[About(i)'] # 0
    <3> SUFFICES ASSUME NEW i \in Nat, New(i), i >= at + 1
                 PROVE  created'[About(i)] = 0 /\ db[About(i)] # 0
      BY <1>1, <1>3
    <3>1. About(i) # About(at)
      BY <1>1, <1>2, <2>1 DEF CreatedInv
    <3>2. created[About(i)] = 0 /\ db[About(i)] # 0
      BY <1>1, <1>2 DEF CreatedInv
    <3> QED
      BY <2>3, <3>1, <3>2, AboutSubject
  <2>6. \A i, j \in Nat : New(i)' /\ New(j)' /\ About(i)' = About(j)' => i = j
    BY <1>1, <1>3 DEF CreatedInv
  <2> QED
    BY <1>1, <2>4, <2>5, <2>6 DEF CreatedInv
<1> QED
  BY <1>1, <1>4, <1>5

LEMMA CreatedStep ==
  ASSUME TypeInv, CreatedInv, Reports, [Next]_vars
  PROVE  CreatedInv'
<1>1. CASE Poll
  <2>1. pc' = "handle" /\ rows' = <<>> /\ UNCHANGED <<db, created>>
    BY <1>1 DEF Poll, batchVars, stores, announced, TypeInv, LoopInv
  <2> QED
    BY <2>1 DEF CreatedInv, New
<1>2. CASE Handle /\ ~HandleFails
  BY <1>2, HandledCreated
<1>3. CASE HandleFails \/ CommitFails
  <2>1. /\ UNCHANGED <<db, created>>
        /\ (pc' = "handle" /\ rows' = <<>>) \/ pc' = "poll"
    BY <1>3 DEF HandleFails, CommitFails, Retry, announced
  <2> QED
    BY <2>1 DEF CreatedInv, New
<1>4. CASE CommitBatch
  BY <1>4, CommitCreated
<1>5. CASE Announce
  BY <1>5, AnnounceCreated
<1>6. CASE Announced \/ Acknowledge \/ Crash \/ Restart
  <2>1. pc' \in {"ack", "poll", "down"} /\ UNCHANGED <<db, created>>
    BY <1>6 DEF Announced, Acknowledge, Crash, Restart, stores, announced
  <2> QED
    BY <2>1 DEF CreatedInv
<1>7. CASE UNCHANGED vars
  BY <1>7 DEF vars, CreatedInv, New, About, batchVars, stores, announced
<1> QED
  BY <1>1, <1>2, <1>3, <1>4, <1>5, <1>6, <1>7 DEF Next

(* A host is announced as created at most once, whatever is replayed. *)
THEOREM CreatedCorrect == Spec => []CreatedOnce
<1> DEFINE Inv == Reports => CreatedInv
<1>1. Init => Inv
  BY CreatedInit
<1>2. TypeInv /\ Inv /\ [Next]_vars => Inv'
  BY CreatedStep, ReportsStay
<1>3. TypeInv /\ Inv => CreatedOnce
  <2> SUFFICES ASSUME TypeInv, Inv, NEW m \in Message, log[m].kind = "upsert"
               PROVE  created[log[m].subject] <= 1
    BY DEF CreatedOnce
  <2>1. log[m].subject \in Subject
    BY MqAssumption DEF TypeInv, TypeOK
  <2>2. CreatedInv
    BY ReportsOrNone
  <2> QED
    BY <2>1, <2>2 DEF CreatedInv
<1> QED
  BY <1>1, <1>2, <1>3, TypeInit, TypeStep, PTL DEF Spec

=============================================================================
