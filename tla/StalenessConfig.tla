--------------------------- MODULE StalenessConfig ---------------------------
(***************************************************************************)
(* The staleness configuration of an organisation: a row of its own, or    *)
(* the system defaults, read through two caches (get_staleness_obj,        *)
(* StalenessCache) and changed by POST, PATCH and DELETE requests that     *)
(* validate against what they read there (api/staleness.py).               *)
(*                                                                         *)
(* PostgreSQL is external: the row is unique, each write of it is one      *)
(* statement and its commit. So is Redis: one entry that expires, and      *)
(* calls that fail, which the code logs and ignores (api/cache.py). A read *)
(* or a request is short against the time to live, so time passes between  *)
(* them only; the time of a consumer's batch or of a job does pass.        *)
(***************************************************************************)
EXTENDS StalenessStates

CONSTANTS Consumer,   \* message consumers: an in-process cache per batch
          Job,        \* jobs, without it
          Writer,     \* API requests that change the configuration
          Default,    \* the system defaults, in seconds
          Bodies,     \* what a POST or PATCH carries: some of the fields
          Tolerance,  \* DEFAULT_STALENESS_EQUIVALENCE_TOLERANCE_SECONDS
          TTL,        \* staleness_cache_timeout
          MaxTime,    \* bound: seconds that pass
          MaxWrites,  \* bound: requests
          None

Value == {Default[f] : f \in Field} \union UNION {{b[f] : f \in DOMAIN b} : b \in Bodies}
Triple == [Field -> Value]

Configs == {c \in Triple : Ordered(c)}

Thread  == Consumer \union Job
Process == Thread \union Writer
Time    == 0..MaxTime

ASSUME ConfigAssumption ==
  /\ Default \in [Field -> Nat] /\ Ordered(Default)
  /\ \A b \in Bodies : DOMAIN b \subseteq Field /\ \A f \in DOMAIN b : b[f] \in Nat
  /\ Tolerance \in Nat /\ TTL \in Nat \ {0}
  /\ MaxTime \in Nat /\ MaxWrites \in Nat
  /\ Consumer \cap Job = {} /\ Thread \cap Writer = {}
  /\ None \notin Triple \union Time
  /\ None \notin [config : Triple, until : Nat]

VARIABLES
  now,
  row,     \* the row of the table staleness, None without
  entry,   \* the entry in Redis
  batch,   \* per consumer: its entry in the batch cache
  pc,      \* per process: what it does next
  val,     \* per process: the configuration it has read, or validated
  began,   \* per thread: when its batch, or its run, began
  left,    \* per configuration: when it was last replaced, None never
  writes

caches == <<entry, batch>>
cvars  == <<now, row, caches, pc, val, began, left, writes>>

ConfigTypeOK ==
  /\ now \in Time
  /\ row \in Triple \union {None}
  /\ entry \in [config : Triple, until : 0..(MaxTime + TTL)] \union {None}
  /\ batch \in [Consumer -> Triple \union {None}]
  /\ \A c \in Consumer : pc[c] = "idle" => batch[c] = None
  /\ pc \in [Process -> {"idle", "look", "fill", "have", "batch", "work", "forget"}]
  /\ val \in [Process -> Triple \union {None}]
  /\ began \in [Thread -> Time]
  /\ left \in [Configs -> Time \union {None}]
  /\ writes \in 0..MaxWrites

ConfigInit ==
  /\ now = 0
  /\ row \in Configs \union {None}
  /\ entry = None
  /\ batch = [c \in Consumer |-> None]
  /\ pc = [p \in Process |-> "idle"]
  /\ val = [p \in Process |-> None]
  /\ began = [t \in Thread |-> 0]
  /\ left = [c \in Configs |-> None]
  /\ writes = 0

InForce == IF row = None THEN Default ELSE row

(* The configuration c was in force at t or later. *)
InForceSince(c, t) == c = InForce \/ (left[c] # None /\ left[c] >= t)

Goes(p, s)    == pc' = [pc EXCEPT ![p] = s]
Gets(p, c, s) == Goes(p, s) /\ val' = [val EXCEPT ![p] = c]
Ends(p)       == Gets(p, None, "idle")

-----------------------------------------------------------------------------
(* get_staleness_obj: the batch cache, then Redis, then the table, whose   *)
(* answer is put into both. Only a consumer has a batch cache.             *)
Looks(p) == pc[p] \in {"look", "batch"}

Cached(p, c) ==
  batch' = IF p \in Consumer THEN [batch EXCEPT ![p] = c] ELSE batch

LookInBatch(p) ==
  /\ p \in Consumer /\ Looks(p) /\ batch[p] # None
  /\ Gets(p, batch[p], "have")
  /\ UNCHANGED <<now, row, caches, began, left, writes>>

LookInRedis(p) ==
  /\ Looks(p) /\ (p \in Consumer => batch[p] = None)
  /\ \/ /\ entry # None
        /\ Gets(p, entry.config, "have")
        /\ Cached(p, entry.config)
     \/ Gets(p, InForce, "fill") /\ UNCHANGED batch    \* a miss, or Redis fails
  /\ UNCHANGED <<now, row, entry, began, left, writes>>

(* Mutant: the entry has no expiry. *)
FillForLong(p) ==
  /\ pc[p] = "fill"
  /\ Goes(p, "have")
  /\ Cached(p, val[p])
  /\ entry' \in {entry, [config |-> val[p], until |-> MaxTime + TTL]}
  /\ UNCHANGED <<now, row, val, began, left, writes>>

Fill(p) ==
  /\ pc[p] = "fill"
  /\ Goes(p, "have")
  /\ Cached(p, val[p])
  /\ entry' \in {entry, [config |-> val[p], until |-> now + TTL]}
  /\ UNCHANGED <<now, row, val, began, left, writes>>

Read(p) == LookInBatch(p) \/ LookInRedis(p) \/ Fill(p)

(* A consumer's batch, with StalenessCache(). *)
BeginBatch(c) ==
  /\ pc[c] = "idle"
  /\ Goes(c, "batch")
  /\ began' = [began EXCEPT ![c] = now]
  /\ UNCHANGED <<now, row, caches, val, left, writes>>

(* Mutant: the batch cache outlives the batch. *)
EndBatchKeeping(c) ==
  /\ pc[c] = "batch"
  /\ Goes(c, "idle")
  /\ began' = [began EXCEPT ![c] = 0]
  /\ UNCHANGED <<now, row, caches, val, left, writes>>

EndBatch(c) ==
  /\ pc[c] = "batch"
  /\ Goes(c, "idle")
  /\ batch' = [batch EXCEPT ![c] = None]
  /\ began' = [began EXCEPT ![c] = 0]
  /\ UNCHANGED <<now, row, entry, val, left, writes>>

-----------------------------------------------------------------------------
(* Requests. A POST or PATCH reads the configuration first; the look at    *)
(* the row and the write of it are one step.                               *)
BeginRequest(w) ==
  /\ pc[w] = "idle" /\ writes < MaxWrites
  /\ Goes(w, "look")
  /\ writes' = writes + 1
  /\ UNCHANGED <<now, row, caches, val, began, left>>

(* What is validated, and written whole: the body over what was read. *)
Merged(c, body) == [f \in Field |-> IF f \in DOMAIN body THEN body[f] ELSE c[f]]

Equivalent(c) ==
  \A f \in Field : c[f] - Default[f] < Tolerance /\ Default[f] - c[f] < Tolerance

Replace(new) ==
  /\ row' = new
  /\ left' = [left EXCEPT ![InForce] = now]

(* remove_staleness_if_exists; without a row the cache is left alone. *)
Remove(w) ==
  IF row # None THEN Replace(None) /\ Gets(w, None, "forget")
                ELSE UNCHANGED <<row, left>> /\ Ends(w)

Refuse(w) ==
  /\ pc[w] = "have"
  /\ \E body \in Bodies : ~Ordered(Merged(val[w], body))
  /\ Ends(w)
  /\ UNCHANGED <<now, row, caches, began, left, writes>>

(* create_staleness: org_id is unique, the loser leaves the cache alone. *)
Create(w, body) ==
  LET new == Merged(val[w], body) IN
  /\ pc[w] = "have" /\ Ordered(new)
  /\ \/ Equivalent(new) /\ Remove(w)
     \/ ~Equivalent(new) /\ row = None /\ Replace(new) /\ Gets(w, None, "forget")
     \/ ~Equivalent(new) /\ row # None /\ UNCHANGED <<row, left>> /\ Ends(w)
  /\ UNCHANGED <<now, caches, began, writes>>

(* Mutant: only the fields of the body are written. *)
UpdateFields(w, body) ==
  LET new == Merged(val[w], body) IN
  /\ pc[w] = "have" /\ Ordered(new)
  /\ \/ row # None /\ Equivalent(new) /\ Remove(w)
     \/ row # None /\ ~Equivalent(new) /\ Replace(Merged(row, body)) /\ Gets(w, None, "forget")
     \/ row = None /\ UNCHANGED <<row, left>> /\ Gets(w, None, "forget")
  /\ UNCHANGED <<now, caches, began, writes>>

(* update_staleness; without a row nothing is written, the answer is 404.  *)
Update(w, body) ==
  LET new == Merged(val[w], body) IN
  /\ pc[w] = "have" /\ Ordered(new)
  /\ \/ row # None /\ Equivalent(new) /\ Remove(w)
     \/ row # None /\ ~Equivalent(new) /\ Replace(new) /\ Gets(w, None, "forget")
     \/ row = None /\ UNCHANGED <<row, left>> /\ Gets(w, None, "forget")
  /\ UNCHANGED <<now, caches, began, writes>>

(* delete_staleness *)
Delete(w) ==
  /\ pc[w] = "idle" /\ writes < MaxWrites
  /\ Remove(w)
  /\ writes' = writes + 1
  /\ UNCHANGED <<now, caches, began>>

(* StalenessCache.delete, after the commit. *)
Forget(w) ==
  /\ pc[w] = "forget"
  /\ entry' \in {None, entry}
  /\ Goes(w, "idle")
  /\ UNCHANGED <<now, row, batch, val, began, left, writes>>

Change(w) ==
  \/ BeginRequest(w) \/ Refuse(w) \/ Delete(w) \/ Forget(w)
  \/ \E body \in Bodies : Create(w, body) \/ Update(w, body)

(* Time passes for threads that are not reading, and between requests;    *)
(* Redis drops the entry that expires.                                     *)
Tick ==
  /\ now < MaxTime
  /\ \A p \in Process : pc[p] \in {"idle", "batch", "work"}
  /\ now' = now + 1
  /\ entry' = IF entry # None /\ entry.until <= now' THEN None ELSE entry
  /\ UNCHANGED <<row, batch, pc, val, began, left, writes>>

-----------------------------------------------------------------------------
(* Whatever requests overlap, the row is a whole configuration that was    *)
(* validated: its times are in order (docs/index.md, Host Staleness and    *)
(* Culling; _validate_input_data and patch_staleness).                     *)
ConfigOrdered == row # None => Ordered(row)
=============================================================================
