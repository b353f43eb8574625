---------------------------- MODULE SystemCache ----------------------------
(***************************************************************************)
(* The insights-client cache of one host (api/cache.py): Redis holds       *)
(* answers to GET /hosts under keys that end in a generation, and a        *)
(* counter with the present generation. Writers invalidate by incrementing *)
(* the counter. Readers of the API fill the cache with what they queried,  *)
(* the ingress consumer with what it committed. Entries and counter have   *)
(* the same time to live, TTL. No other host shares the key.               *)
(*                                                                         *)
(* GET requests query a read replica, which shows the commits of the       *)
(* primary in their order and some time later; the primary answers when it *)
(* fails. Without a replica (INVENTORY_API_USE_READREPLICA) they query the *)
(* primary: a replica that shows each commit at once.                      *)
(*                                                                         *)
(* Redis is external: get, set, incr and expiry are atomic, and any of     *)
(* them may fail, which the code logs and ignores. Requests are short      *)
(* against TTL: time passes when none is under way.                        *)
(***************************************************************************)
EXTENDS Naturals

CONSTANTS Reader,      \* GET /hosts requests
          Patcher,     \* API writers: commit, then invalidate
          Ingester,    \* consumers: commit, then refresh the cache
          Remover,     \* host deletion: invalidate, then commit
          Key,         \* "plain", and a key per forwarded identity
          TTL,         \* cache_insights_client_system_timeout_sec
          RedisFails,  \* whether Redis may fail to answer
          MaxVersion,  \* bound: commits to the host, and invalidations
          MaxTime,     \* bound: ticks of the clock
          None

Proc    == Reader \union Patcher \union Ingester \union Remover
Version == 1..MaxVersion
Gen     == 0..MaxVersion
Time    == 0..MaxTime + TTL

VARIABLES
  version,  \* commits to the host so far; the row is what the last one left
  alive,    \* whether the row exists
  shown,    \* the last commit that the replica shows
  until,    \* history: when the replica ceased to show each version, or None
  entries,  \* Redis: the answer stored for a key and a generation (by: history)
  counter,  \* Redis: the generation counter
  now,
  step,     \* per process: what it does next
  held,     \* per process: the key, generation and version it has read
  floor,    \* history: the last version shown, of those whose writer has invalidated
  lapsed    \* history: when the counter last expired, None if it has not

redis == <<entries, counter>>
host  == <<version, alive, shown, until>>
marks == <<floor, lapsed>>
vars  == <<host, redis, now, step, held, marks>>

Entry   == [version : Version, expires : Time, by : Reader \union Ingester]
Counter == [gen : Gen, expires : Time]
Held    == [key : Key, gen : Gen, version : Gen]

ASSUME CacheAssumption ==
  /\ TTL \in Nat \ {0}
  /\ MaxVersion \in Nat \ {0}
  /\ MaxTime \in Nat
  /\ "plain" \in Key
  /\ RedisFails \in BOOLEAN
  /\ Reader \cap Ingester = {}
  /\ None \notin Time \union Entry \union Counter

TypeOK ==
  /\ version \in Version /\ alive \in BOOLEAN
  /\ shown   \in 1..version
  /\ until   \in [Version -> Time \union {None}]
  /\ entries \in [Key \X Gen -> Entry \union {None}]
  /\ counter \in Counter \union {None}
  /\ now     \in 0..MaxTime
  /\ step    \in [Proc -> {"idle", "query", "put", "invalidate", "locate", "commit", "done"}]
  /\ held    \in [Proc -> Held]
  /\ floor   \in Gen
  /\ lapsed  \in Time \union {None}

Nothing == [key |-> "plain", gen |-> 0, version |-> 0]

Init ==
  /\ version = 1 /\ alive = TRUE /\ shown = 1
  /\ until = [v \in Version |-> None]
  /\ entries = [e \in Key \X Gen |-> None]
  /\ counter = None
  /\ now = 0
  /\ step = [p \in Proc |-> "idle"]
  /\ held = [p \in Proc |-> Nothing]
  /\ floor = 0 /\ lapsed = None

Generation == IF counter = None THEN 0 ELSE counter.gen

-----------------------------------------------------------------------------
Goes(p, s)  == step' = [step EXCEPT ![p] = s]
Holds(p, h) == held' = [held EXCEPT ![p] = h]

(* Mutant: the counter is initialised without a time to live. *)
ReadGenerationForLong ==
  counter' = IF counter = None THEN [gen |-> 0, expires |-> now + MaxTime + TTL + 1] ELSE counter

(* get_system_cache_generation: an absent counter is set to 0 (SET NX). *)
ReadGeneration ==
  counter' = IF counter = None THEN [gen |-> 0, expires |-> now + TTL] ELSE counter

(* Mutant: an entry is written with no time to live of its own. *)
StoreForLong(p) ==
  entries' = [entries EXCEPT ![<<held[p].key, held[p].gen>>] =
    [version |-> held[p].version, expires |-> MaxTime + TTL, by |-> p]]

(* set_cached_system. *)
Store(p) ==
  entries' = [entries EXCEPT ![<<held[p].key, held[p].gen>>] =
    [version |-> held[p].version, expires |-> now + TTL, by |-> p]]

(* Mutant: the counter is not incremented, only kept alive. *)
IncrementLost == counter' = [gen |-> Generation, expires |-> now + TTL]

(* INCR and EXPIRE of the counter. *)
Increment ==
  /\ Generation < MaxVersion
  /\ counter' = [gen |-> Generation + 1, expires |-> now + TTL]

(* A commit that changes the host. *)
CommitVersion ==
  /\ version < MaxVersion
  /\ version' = version + 1
  /\ UNCHANGED <<shown, until>>

(* The replica replays commits. *)
Replay ==
  /\ shown' \in shown + 1..version
  /\ until' = [v \in Version |-> IF v \in shown..shown' - 1 THEN now ELSE until[v]]
  /\ UNCHANGED <<version, alive, redis, now, step, held, marks>>

(* get_host_list, a hit: answered from the cache, nothing changes but the  *)
(* counter. A miss: the key is kept for the answer of the database.        *)
Look(r, key) ==
  /\ step[r] = "idle"
  /\ ReadGeneration
  /\ IF entries[<<key, Generation>>] = None
       THEN Goes(r, "query") /\ Holds(r, [key |-> key, gen |-> Generation, version |-> 0])
       ELSE UNCHANGED <<step, held>>
  /\ UNCHANGED <<host, entries, now, marks>>

(* The counter cannot be read: the look-up goes on with generation 0.      *)
LookFails(r, key) ==
  /\ RedisFails /\ step[r] = "idle"
  /\ IF entries[<<key, 0>>] = None
       THEN Goes(r, "query") /\ Holds(r, [key |-> key, gen |-> 0, version |-> 0])
       ELSE UNCHANGED <<step, held>>
  /\ UNCHANGED <<host, redis, now, marks>>

(* The replica is queried, or the primary when that fails; an answer       *)
(* without hosts is not cached.                                            *)
QueryHost(r) ==
  /\ step[r] = "query"
  /\ \E v \in {shown, version} :
       IF v < version \/ alive
         THEN Goes(r, "put") /\ Holds(r, [held[r] EXCEPT !.version = v])
         ELSE Goes(r, "idle") /\ Holds(r, Nothing)
  /\ UNCHANGED <<host, redis, now, marks>>

(* Readers and ingesters: the host they hold is cached, or Redis fails. *)
PutHost(p) ==
  /\ step[p] = "put"
  /\ Goes(p, "idle") /\ Holds(p, Nothing)
  /\ \/ Store(p)
     \/ RedisFails /\ UNCHANGED entries
  /\ UNCHANGED <<host, counter, now, marks>>

(* PATCH, facts, checkin: commit, then delete_cached_system_keys. *)
CommitPatch(p) ==
  /\ step[p] = "idle" /\ alive
  /\ CommitVersion
  /\ Goes(p, "invalidate") /\ Holds(p, [Nothing EXCEPT !.version = version + 1])
  /\ UNCHANGED <<alive, redis, now, marks>>

InvalidatePatched(p) ==
  /\ step[p] = "invalidate"
  /\ Increment
  /\ floor' = LET v == IF held[p].version > shown THEN shown ELSE held[p].version
              IN  IF v > floor THEN v ELSE floor
  /\ Goes(p, "idle") /\ Holds(p, Nothing)
  /\ UNCHANGED <<host, entries, now, lapsed>>

(* "System cache invalidation failed": logged, the request goes on. *)
InvalidateFails(p) ==
  /\ RedisFails /\ step[p] = "invalidate"
  /\ IF p \in Remover THEN Goes(p, "commit") ELSE Goes(p, "idle")
  /\ Holds(p, Nothing)
  /\ UNCHANGED <<host, redis, now, marks>>

(* The consumer commits a batch that updates the host, which it serializes.*)
CommitIngest(i) ==
  /\ step[i] = "idle" /\ alive
  /\ CommitVersion
  /\ Goes(i, "locate") /\ Holds(i, [Nothing EXCEPT !.version = version + 1])
  /\ UNCHANGED <<alive, redis, now, marks>>

(* cache_ingested_system: the generation is read (0 if it cannot), the     *)
(* entry of the plain key is then overwritten (PutHost).                   *)
LocateEntry(i) ==
  /\ step[i] = "locate"
  /\ \/ ReadGeneration /\ Holds(i, [held[i] EXCEPT !.gen = Generation])
     \/ RedisFails /\ UNCHANGED counter /\ Holds(i, [held[i] EXCEPT !.gen = 0])
  /\ Goes(i, "put")
  /\ UNCHANGED <<host, entries, now, marks>>

(* delete_hosts: flushed, announced and invalidated, then committed. *)
StartDelete(d) ==
  /\ step[d] = "idle" /\ alive
  /\ Goes(d, "invalidate")
  /\ UNCHANGED <<host, redis, now, held, marks>>

InvalidateDeleted(d) ==
  /\ step[d] = "invalidate"
  /\ Increment
  /\ Goes(d, "commit")
  /\ UNCHANGED <<host, entries, now, held, marks>>

CommitDelete(d) ==
  /\ step[d] = "commit"
  /\ IF alive THEN CommitVersion /\ alive' = FALSE ELSE UNCHANGED host
  /\ Goes(d, "done")
  /\ UNCHANGED <<redis, now, held, marks>>

(* Time passes between requests, and Redis drops what has expired. *)
Tick ==
  /\ now < MaxTime
  /\ \A p \in Proc : step[p] \in {"idle", "done"}
  /\ now' = now + 1
  /\ entries' = [e \in DOMAIN entries |->
       IF entries[e] # None /\ entries[e].expires <= now' THEN None ELSE entries[e]]
  /\ IF counter # None /\ counter.expires <= now'
       THEN counter' = None /\ lapsed' = now'
       ELSE UNCHANGED <<counter, lapsed>>
  /\ UNCHANGED <<host, step, held, floor>>

Next ==
  \/ \E r \in Reader : \/ \E key \in Key : Look(r, key) \/ LookFails(r, key)
                       \/ QueryHost(r)
  \/ \E p \in Reader \union Ingester : PutHost(p)
  \/ \E p \in Patcher : CommitPatch(p) \/ InvalidatePatched(p)
  \/ \E p \in Patcher \union Remover : InvalidateFails(p)
  \/ \E i \in Ingester : CommitIngest(i) \/ LocateEntry(i)
  \/ \E d \in Remover : StartDelete(d) \/ InvalidateDeleted(d) \/ CommitDelete(d)
  \/ Replay
  \/ Tick

Spec == Init /\ [][Next]_vars

-----------------------------------------------------------------------------
(* Whatever fails or races, an answer of the cache is what the database of *)
(* the readers showed at most TTL ago, or newer, a deleted host included:  *)
(* an entry names a version that was not superseded there when it was      *)
(* stored. (A reader between the invalidation and the commit of a deletion *)
(* stores the host under the new generation.)                              *)
StaleAtMostTTL ==
  \A e \in DOMAIN entries :
    entries[e] # None =>
      LET v == entries[e].version IN until[v] = None \/ now - until[v] <= TTL

(* What a reader has stored under the present generation is no older than  *)
(* the last version whose writer has invalidated the cache, or than what   *)
(* the readers' database showed of it at that moment: a slow reader stores *)
(* its old answer under the old generation, a replica that lags behind the *)
(* invalidation does not go back. For TTL after the counter has expired,   *)
(* while entries of its former life last, it is otherwise. A reader that   *)
(* cannot read the counter may still hit the entries of generation 0, and  *)
(* a consumer overtaken between its commit and the refresh stores an old   *)
(* host under the new generation: StaleAtMostTTL bounds those.             *)
FreshAfterInvalidation ==
  lapsed = None \/ now - lapsed >= TTL =>
    \A key \in Key :
      LET e == entries[<<key, Generation>>]
      IN e # None /\ e.by \in Reader => e.version >= floor
=============================================================================
