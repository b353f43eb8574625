------------------------- MODULE SystemCache_proofs -------------------------
(***************************************************************************)
(* Invariants of SystemCache, for any number of readers, writers and keys, *)
(* any time to live, and whatever calls of Redis fail.                     *)
(***************************************************************************)
EXTENDS SystemCache, TLAPS

(* The inductive invariant. A version a process is about to store is not   *)
(* superseded on the replica, or only since the present second; an entry therefore expires    *)
(* before its version has been superseded for TTL. Entries and readers     *)
(* belong to a generation that is not ahead of the counter; those of the   *)
(* present generation have seen the last invalidated version, except       *)
(* entries of a former life of the counter.                                *)
Current(v) == v \in Version /\ until[v] \in {None, now}

RowInv ==
  /\ \A v \in Version : v >= shown => until[v] = None
  /\ floor <= shown
  /\ lapsed # None => lapsed <= now

HeldInv ==
  \A p \in Proc :
    /\ held[p].version <= version
    /\ step[p] \in {"query", "put"} => held[p].gen <= Generation
    /\ step[p] \in {"locate", "put"} => Current(held[p].version)
    /\ step[p] = "put" /\ p \in Reader /\ held[p].gen = Generation => held[p].version >= floor

EntryInv ==
  \A key \in Key, g \in Gen :
    LET e == entries[<<key, g>>]
    IN e # None =>
         /\ e.expires > now /\ e.expires <= now + TTL
         /\ until[e.version] = None \/ until[e.version] + TTL >= e.expires
         /\ lapsed = None \/ e.expires >= lapsed + TTL =>
              /\ g <= Generation
              /\ g = Generation /\ e.by \in Reader => e.version >= floor

Inv == TypeOK /\ RowInv /\ HeldInv /\ EntryInv

LEMMA Facts ==
  ASSUME TypeOK
  PROVE  /\ TTL \in Nat \ {0} /\ MaxVersion \in Nat \ {0} /\ MaxTime \in Nat
         /\ Version \subseteq Gen /\ Gen \subseteq Nat /\ Time \subseteq Nat
         /\ None \notin Time /\ None \notin Entry /\ None \notin Counter
         /\ Generation \in Gen /\ now \in Time /\ now + TTL \in Time
BY CacheAssumption DEF TypeOK, Version, Gen, Time, Generation, Counter

LEMMA InitInv == Init => Inv
<1> SUFFICES ASSUME Init PROVE Inv OBVIOUS
<1>1. TypeOK
  BY CacheAssumption DEF Init, TypeOK, Version, Gen, Time, Held, Nothing
<1>2. RowInv /\ HeldInv
  BY CacheAssumption DEF Init, RowInv, HeldInv, Nothing, Version
<1>3. EntryInv BY DEF Init, EntryInv
<1>. QED BY <1>1, <1>2, <1>3 DEF Inv

(* What the two calls of Redis about the counter do to the generation. *)
LEMMA ReadKeeps ==
  ASSUME TypeOK, ReadGeneration
  PROVE  Generation' = Generation /\ counter' \in Counter \union {None}
<1>1. [gen |-> 0, expires |-> now + TTL] \in Counter BY Facts, CacheAssumption DEF Counter, Gen
<1>2. [gen |-> 0, expires |-> now + TTL] # None BY <1>1, Facts
<1>. QED BY <1>1, <1>2 DEF ReadGeneration, Generation, TypeOK

LEMMA IncrementMoves ==
  ASSUME TypeOK, Increment
  PROVE  Generation' = Generation + 1 /\ counter' \in Counter /\ Generation' \in Gen
<1> DEFINE c == [gen |-> Generation + 1, expires |-> now + TTL]
<1>1. c \in Counter BY Facts DEF Counter, Gen, Increment
<1>2. c # None BY <1>1, Facts
<1>. QED BY <1>1, <1>2 DEF Increment, Generation, Counter

(* A process that changes nothing but where it is and what it holds, in a  *)
(* generation that stays.                                                  *)
LEMMA MoveKeeps ==
  ASSUME Inv, NEW p \in Proc, NEW s, NEW h \in Held,
         UNCHANGED <<host, entries, now, marks>>,
         Generation' = Generation, counter' \in Counter \union {None},
         s \in {"idle", "query", "put", "invalidate", "locate", "commit", "done"},
         step' = [step EXCEPT ![p] = s], held' = [held EXCEPT ![p] = h],
         h.version <= version,
         s \in {"query", "put"} => h.gen <= Generation,
         s \in {"locate", "put"} => Current(h.version),
         s = "put" /\ p \in Reader /\ h.gen = Generation => h.version >= floor
  PROVE  Inv'
<1>1. UNCHANGED <<version, alive, shown, until, floor, lapsed>> BY DEF host, marks
<1>2. TypeOK' BY <1>1 DEF Inv, TypeOK
<1>3. RowInv' BY <1>1 DEF Inv, RowInv
<1>4. HeldInv' BY <1>1 DEF Inv, TypeOK, HeldInv, Current
<1>5. EntryInv' BY <1>1 DEF Inv, EntryInv
<1>. QED BY <1>2, <1>3, <1>4, <1>5 DEF Inv

LEMMA NothingHeld == Nothing \in Held /\ Nothing.version = 0 /\ Nothing.gen = 0
BY CacheAssumption DEF Nothing, Held, Gen

(* A commit moves the version of the primary alone, and its own is not yet *)
(* superseded.                                                             *)
LEMMA CommitKeeps ==
  ASSUME Inv, CommitVersion, UNCHANGED <<redis, now, marks>>, alive' \in BOOLEAN,
         NEW p \in Proc, NEW s \in {"invalidate", "locate", "done"}, NEW h \in Held,
         step' = [step EXCEPT ![p] = s], held' = [held EXCEPT ![p] = h],
         h.version <= version + 1, s = "locate" => h.version = version + 1
  PROVE  Inv'
<1>0. TypeOK /\ RowInv /\ HeldInv /\ EntryInv BY DEF Inv
<1>1. /\ version < MaxVersion /\ version' = version + 1
      /\ UNCHANGED <<shown, until, entries, counter, now, floor, lapsed>>
  BY DEF CommitVersion, redis, marks
<1>2. Generation' = Generation BY <1>1 DEF Generation
<1>3. /\ version \in Nat /\ version \in Version /\ version + 1 \in Version
      /\ shown \in 1..version /\ shown \in Nat
  BY <1>0, <1>1, Facts DEF TypeOK, Version
<1>4. TypeOK'
  <2>1. version' \in Version /\ shown' \in 1..version'
    BY <1>1, <1>3
  <2>2. /\ step' \in [Proc -> {"idle", "query", "put", "invalidate", "locate", "commit", "done"}]
        /\ held' \in [Proc -> Held]
    BY <1>0 DEF TypeOK
  <2>. QED BY <1>0, <1>1, <2>1, <2>2 DEF TypeOK
<1>5. RowInv'
  BY <1>0, <1>1 DEF RowInv
<1>6. Current(version + 1)
  BY <1>0, <1>3 DEF RowInv, Current
<1>7. HeldInv'
  <2> SUFFICES ASSUME NEW q \in Proc
               PROVE  /\ held'[q].version <= version'
                      /\ step'[q] \in {"query", "put"} => held'[q].gen <= Generation
                      /\ step'[q] \in {"locate", "put"} => Current(held'[q].version)
                      /\ step'[q] = "put" /\ q \in Reader /\ held'[q].gen = Generation
                           => held'[q].version >= floor
    BY <1>1, <1>2 DEF HeldInv, Current
  <2>1. CASE q = p
    <3>1. step'[q] = s /\ held'[q] = h BY <2>1, <1>0 DEF TypeOK
    <3>. QED BY <3>1, <1>1, <1>6
  <2>2. CASE q # p
    <3>1. step'[q] = step[q] /\ held'[q] = held[q] BY <2>2, <1>0 DEF TypeOK
    <3>2. held[q].version \in Nat BY <1>0, Facts DEF TypeOK, Held
    <3>. QED BY <3>1, <3>2, <1>0, <1>1, <1>3 DEF HeldInv
  <2>. QED BY <2>1, <2>2
<1>8. EntryInv'
  BY <1>0, <1>1, <1>2 DEF EntryInv
<1>. QED BY <1>4, <1>5, <1>7, <1>8 DEF Inv

(* The replica supersedes versions as of now: whoever holds one holds what *)
(* was shown until now, and entries of it live for TTL more at most.       *)
LEMMA ReplayKeeps == ASSUME Inv, Replay PROVE Inv'
<1>0. TypeOK /\ RowInv /\ HeldInv /\ EntryInv BY DEF Inv
<1>1. /\ shown' \in shown + 1..version
      /\ until' = [v \in Version |-> IF v \in shown..shown' - 1 THEN now ELSE until[v]]
      /\ UNCHANGED <<version, alive, entries, counter, now, step, held, floor, lapsed>>
  BY DEF Replay, redis, marks
<1>2. Generation' = Generation BY <1>1 DEF Generation
<1>3. /\ version \in Nat /\ shown \in Nat /\ shown >= 1 /\ shown' \in Nat /\ floor \in Nat
      /\ shown' > shown /\ shown' <= version
      /\ now \in Time /\ now \in Nat /\ TTL \in Nat /\ now # None
      /\ until \in [Version -> Time \union {None}]
      /\ \A v \in Version : v \in Nat
  BY <1>0, <1>1, Facts DEF TypeOK, Version, Gen, Time
<1>4. \A v \in Version : until'[v] \in {now, until[v]}
  BY <1>1
<1>5. TypeOK'
  <2>1. shown' \in 1..version' BY <1>1, <1>3
  <2>2. until' \in [Version -> Time \union {None}] BY <1>1, <1>3
  <2>. QED BY <1>0, <1>1, <2>1, <2>2 DEF TypeOK
<1>6. RowInv'
  <2>1. \A v \in Version : v >= shown' => until'[v] = None
    BY <1>0, <1>1, <1>3 DEF RowInv
  <2>2. floor <= shown' BY <1>0, <1>3 DEF RowInv
  <2>. QED BY <1>0, <1>1, <2>1, <2>2 DEF RowInv
<1>7. HeldInv'
  <2>1. \A v : Current(v) => Current(v)' BY <1>1, <1>4 DEF Current
  <2>. QED BY <1>0, <1>1, <1>2, <2>1 DEF HeldInv
<1>8. EntryInv'
  <2> SUFFICES ASSUME NEW key \in Key, NEW g \in Gen, entries[<<key, g>>] # None
               PROVE  LET e == entries[<<key, g>>] IN
                        /\ e.expires > now /\ e.expires <= now + TTL
                        /\ until'[e.version] = None \/ until'[e.version] + TTL >= e.expires
                        /\ lapsed = None \/ e.expires >= lapsed + TTL =>
                             /\ g <= Generation
                             /\ g = Generation /\ e.by \in Reader => e.version >= floor
    BY <1>1, <1>2 DEF EntryInv
  <2>1. entries[<<key, g>>] \in Entry BY <1>0 DEF TypeOK
  <2>2. entries[<<key, g>>].version \in Version /\ entries[<<key, g>>].expires \in Nat
    BY <2>1, <1>0, Facts DEF Entry
  <2>3. until'[entries[<<key, g>>].version] \in {now, until[entries[<<key, g>>].version]}
    BY <1>4, <2>2
  <2>. QED BY <2>2, <2>3, <1>0, <1>3 DEF EntryInv
<1>. QED BY <1>5, <1>6, <1>7, <1>8 DEF Inv

(* The host is cached by who holds it. *)
LEMMA PutKeeps ==
  ASSUME Inv, NEW p \in Reader \union Ingester, PutHost(p)
  PROVE  Inv'
<1> DEFINE key0 == held[p].key
           g0 == held[p].gen
           new == [version |-> held[p].version, expires |-> now + TTL, by |-> p]
<1>0. TypeOK /\ RowInv /\ HeldInv /\ EntryInv /\ p \in Proc BY DEF Inv, Proc
<1>1. /\ step[p] = "put"
      /\ step' = [step EXCEPT ![p] = "idle"] /\ held' = [held EXCEPT ![p] = Nothing]
      /\ UNCHANGED <<version, alive, shown, until, counter, now, floor, lapsed>>
  BY DEF PutHost, Goes, Holds, host, marks
<1>2. Generation' = Generation BY <1>1 DEF Generation
<1>3. CASE UNCHANGED entries
  <2>1. counter' \in Counter \union {None} /\ UNCHANGED <<host, marks>>
    BY <1>0, <1>1 DEF TypeOK, host, marks
  <2>2. Nothing.version <= version BY <1>0, Facts, NothingHeld DEF TypeOK
  <2>. QED BY <1>0, <1>1, <1>2, <1>3, <2>1, <2>2, NothingHeld, MoveKeeps
<1>4. CASE Store(p)
  <2>1. /\ held[p] \in Held /\ key0 \in Key /\ g0 \in Gen
        /\ g0 <= Generation /\ Current(held[p].version)
        /\ p \in Reader /\ g0 = Generation => held[p].version >= floor
    BY <1>0, <1>1 DEF TypeOK, HeldInv, Held
  <2>2. new \in Entry /\ new # None BY <1>0, <2>1, Facts DEF Entry, Current
  <2>3. entries' = [entries EXCEPT ![<<key0, g0>>] = new] BY <1>4 DEF Store
  <2>4. TypeOK'
    <3>1. entries' \in [Key \X Gen -> Entry \union {None}] BY <1>0, <2>1, <2>2, <2>3 DEF TypeOK
    <3>2. /\ step' \in [Proc -> {"idle", "query", "put", "invalidate", "locate", "commit", "done"}]
          /\ held' \in [Proc -> Held]
      BY <1>0, <1>1, NothingHeld DEF TypeOK
    <3>. QED BY <1>0, <1>1, <3>1, <3>2 DEF TypeOK
  <2>5. RowInv' BY <1>0, <1>1 DEF RowInv
  <2>6. HeldInv'
    <3>1. 0 <= version BY <1>0, Facts DEF TypeOK
    <3>. QED BY <1>0, <1>1, <1>2, <3>1, NothingHeld DEF HeldInv, TypeOK, Current
  <2>7. EntryInv'
    <3> SUFFICES ASSUME NEW key \in Key, NEW g \in Gen, entries'[<<key, g>>] # None
                 PROVE  LET e == entries'[<<key, g>>] IN
                          /\ e.expires > now /\ e.expires <= now + TTL
                          /\ until[e.version] = None \/ until[e.version] + TTL >= e.expires
                          /\ lapsed = None \/ e.expires >= lapsed + TTL =>
                               /\ g <= Generation
                               /\ g = Generation /\ e.by \in Reader => e.version >= floor
      BY <1>1, <1>2 DEF EntryInv
    <3>1. CASE key = key0 /\ g = g0
      <4>1. entries'[<<key, g>>] = new BY <1>0, <2>1, <2>3, <3>1 DEF TypeOK
      <4>2. now \in Nat /\ TTL \in Nat \ {0} BY <1>0, Facts
      <4>3. new.expires = now + TTL /\ new.version = held[p].version /\ new.by = p OBVIOUS
      <4>4. until[new.version] = None \/ until[new.version] + TTL >= new.expires
        BY <2>1, <4>2, <4>3 DEF Current
      <4>5. now + TTL > now /\ now + TTL <= now + TTL BY <4>2
      <4>. QED BY <2>1, <3>1, <4>1, <4>3, <4>4, <4>5
    <3>2. CASE ~(key = key0 /\ g = g0)
      <4>1. entries'[<<key, g>>] = entries[<<key, g>>]
        <5>1. <<key, g>> # <<key0, g0>> BY <3>2
        <5>. QED BY <1>0, <2>3, <5>1 DEF TypeOK
      <4>. QED BY <1>0, <4>1 DEF EntryInv
    <3>. QED BY <3>1, <3>2
  <2>. QED BY <2>4, <2>5, <2>6, <2>7 DEF Inv
<1>. QED BY <1>3, <1>4 DEF PutHost

(* An invalidation leaves what is stored and held behind the counter. *)
LEMMA IncrementKeeps ==
  ASSUME Inv, Increment, UNCHANGED <<host, entries, now, lapsed>>,
         NEW p \in Proc, NEW s \in {"idle", "commit"}, NEW h \in Held,
         step' = [step EXCEPT ![p] = s], held' = [held EXCEPT ![p] = h],
         h.version <= version, floor' \in Gen, floor' <= shown
  PROVE  Inv'
<1>0. TypeOK /\ RowInv /\ HeldInv /\ EntryInv BY DEF Inv
<1>1. UNCHANGED <<version, alive, shown, until>> BY DEF host
<1>2. /\ Generation' = Generation + 1 /\ counter' \in Counter
      /\ Generation \in Nat
  BY <1>0, IncrementMoves, Facts
<1>3. TypeOK'
  <2>1. /\ step' \in [Proc -> {"idle", "query", "put", "invalidate", "locate", "commit", "done"}]
        /\ held' \in [Proc -> Held]
    BY <1>0 DEF TypeOK
  <2>. QED BY <1>0, <1>1, <1>2, <2>1 DEF TypeOK
<1>4. RowInv' BY <1>0, <1>1 DEF RowInv
<1>5. HeldInv'
  <2> SUFFICES ASSUME NEW q \in Proc
               PROVE  /\ held'[q].version <= version
                      /\ step'[q] \in {"query", "put"} => held'[q].gen < Generation'
                      /\ step'[q] \in {"locate", "put"} => Current(held'[q].version)
    <3>1. \A q \in Proc : held'[q].gen \in Nat BY <1>0, <1>3, Facts DEF TypeOK, Held
    <3>2. UNCHANGED <<until, now, version>> BY <1>1
    <3>. QED BY <1>2, <3>1, <3>2 DEF HeldInv, Current
  <2>1. CASE q = p
    <3>1. step'[q] = s /\ held'[q] = h BY <2>1, <1>0 DEF TypeOK
    <3>. QED BY <3>1
  <2>2. CASE q # p
    <3>1. step'[q] = step[q] /\ held'[q] = held[q] BY <2>2, <1>0 DEF TypeOK
    <3>2. held[q].gen \in Nat BY <1>0, Facts DEF TypeOK, Held
    <3>3. /\ held[q].version <= version
          /\ step[q] \in {"query", "put"} => held[q].gen <= Generation
          /\ step[q] \in {"locate", "put"} => Current(held[q].version)
      BY <1>0 DEF HeldInv
    <3>4. held[q].gen <= Generation => held[q].gen < Generation' BY <3>2, <1>2
    <3>. QED BY <3>1, <3>3, <3>4
  <2>. QED BY <2>1, <2>2
<1>6. EntryInv'
  <2>1. \A g \in Gen : g \in Nat BY <1>0, Facts
  <2>. QED BY <1>0, <1>1, <1>2, <2>1 DEF EntryInv
<1>. QED BY <1>3, <1>4, <1>5, <1>6 DEF Inv

(* When the clock ticks nobody holds anything; entries that were of the    *)
(* counter's life are of a former one once it expires.                     *)
LEMMA TickKeeps == ASSUME Inv, Tick PROVE Inv'
<1>0. TypeOK /\ RowInv /\ HeldInv /\ EntryInv BY DEF Inv
<1>1. /\ UNCHANGED <<version, alive, shown, until, step, held, floor>>
      /\ now' = now + 1 /\ now < MaxTime
      /\ \A p \in Proc : step[p] \in {"idle", "done"}
      /\ entries' = [e \in DOMAIN entries |->
           IF entries[e] # None /\ entries[e].expires <= now' THEN None ELSE entries[e]]
      /\ \/ counter' = None /\ lapsed' = now'
         \/ UNCHANGED <<counter, lapsed>>
  BY DEF Tick, host
<1>2. now \in Nat /\ TTL \in Nat \ {0} /\ now' \in Nat /\ now' # None /\ now' \in 0..MaxTime
      /\ now' \in Time
  BY <1>0, <1>1, Facts DEF TypeOK, Time
<1>3. DOMAIN entries = Key \X Gen BY <1>0 DEF TypeOK
<1>4. TypeOK'
  <2>1. entries' \in [Key \X Gen -> Entry \union {None}] BY <1>0, <1>1, <1>3 DEF TypeOK
  <2>2. counter' \in Counter \union {None} /\ lapsed' \in Time \union {None}
    BY <1>0, <1>1, <1>2 DEF TypeOK
  <2>. QED BY <1>0, <1>1, <1>2, <2>1, <2>2 DEF TypeOK
<1>5. RowInv'
  <2>1. lapsed # None => lapsed \in Nat BY <1>0, Facts DEF TypeOK
  <2>. QED BY <1>0, <1>1, <1>2, <2>1 DEF RowInv
<1>6. HeldInv' BY <1>0, <1>1 DEF HeldInv
<1>7. EntryInv'
  <2> SUFFICES ASSUME NEW key \in Key, NEW g \in Gen, entries'[<<key, g>>] # None
               PROVE  LET e == entries'[<<key, g>>] IN
                        /\ e.expires > now' /\ e.expires <= now' + TTL
                        /\ until[e.version] = None \/ until[e.version] + TTL >= e.expires
                        /\ lapsed' = None \/ e.expires >= lapsed' + TTL =>
                             /\ g <= Generation'
                             /\ g = Generation' /\ e.by \in Reader => e.version >= floor
    BY <1>1 DEF EntryInv
  <2>1. /\ entries'[<<key, g>>] = entries[<<key, g>>] /\ entries[<<key, g>>] # None
        /\ ~(entries[<<key, g>>].expires <= now')
    BY <1>1, <1>3
  <2>2. entries[<<key, g>>] \in Entry BY <1>0, <2>1 DEF TypeOK
  <2>3. entries[<<key, g>>].expires \in Nat BY <1>0, <2>2, Facts DEF Entry
  <2>4. CASE counter' = None /\ lapsed' = now'
    BY <1>0, <1>1, <1>2, <2>1, <2>3, <2>4 DEF EntryInv
  <2>5. CASE UNCHANGED <<counter, lapsed>>
    <3>1. Generation' = Generation BY <2>5 DEF Generation
    <3>. QED BY <1>0, <1>1, <1>2, <2>1, <2>3, <2>5, <3>1 DEF EntryInv
  <2>. QED BY <1>1, <2>4, <2>5
<1>. QED BY <1>4, <1>5, <1>6, <1>7 DEF Inv

LEMMA ReaderKeeps ==
  ASSUME Inv, NEW r \in Reader, NEW key \in Key, Look(r, key) \/ LookFails(r, key) \/ QueryHost(r)
  PROVE  Inv'
<1>0. /\ TypeOK /\ RowInv /\ r \in Proc /\ version \in Nat /\ Generation \in Nat /\ Generation \in Gen
      /\ held[r] \in Held /\ step[r] \in {"idle", "query", "put", "invalidate", "locate", "commit", "done"}
  BY Facts DEF Inv, Proc, TypeOK
<1>1. CASE Look(r, key)
  <2>1. Generation' = Generation /\ counter' \in Counter \union {None}
        /\ UNCHANGED <<host, entries, now, marks>>
    BY <1>0, <1>1, ReadKeeps DEF Look
  <2>2. CASE UNCHANGED <<step, held>>
    <3>1. step' = [step EXCEPT ![r] = step[r]] /\ held' = [held EXCEPT ![r] = held[r]]
          /\ step[r] = "idle" /\ held[r].version <= version
      BY <1>0, <1>1, <2>2 DEF TypeOK, Look, Inv, HeldInv
    <3>. QED BY <1>0, <2>1, <3>1, MoveKeeps
  <2>3. CASE Goes(r, "query") /\ Holds(r, [key |-> key, gen |-> Generation, version |-> 0])
    <3> DEFINE h == [key |-> key, gen |-> Generation, version |-> 0]
    <3>1. h \in Held BY <1>0, CacheAssumption DEF Held, Gen
    <3>2. h.version <= version /\ h.gen <= Generation BY <1>0
    <3>3. step' = [step EXCEPT ![r] = "query"] /\ held' = [held EXCEPT ![r] = h]
      BY <2>3 DEF Goes, Holds
    <3> HIDE DEF h
    <3>. QED BY <1>0, <2>1, <3>1, <3>2, <3>3, MoveKeeps
  <2>. QED BY <1>1, <2>2, <2>3 DEF Look
<1>2. CASE LookFails(r, key) /\ UNCHANGED <<step, held>>
  <2>1. Generation' = Generation /\ counter' \in Counter \union {None}
        /\ UNCHANGED <<host, entries, now, marks>>
    BY <1>0, <1>2 DEF LookFails, redis, Generation, TypeOK
  <2>2. step' = [step EXCEPT ![r] = step[r]] /\ held' = [held EXCEPT ![r] = held[r]]
        /\ step[r] = "idle" /\ held[r].version <= version
    BY <1>0, <1>2 DEF TypeOK, LookFails, Inv, HeldInv
  <2>. QED BY <1>0, <2>1, <2>2, MoveKeeps
<1>3. CASE LookFails(r, key) /\ ~UNCHANGED <<step, held>>
  <2> DEFINE h == [key |-> key, gen |-> 0, version |-> 0]
  <2>1. h \in Held BY CacheAssumption DEF Held, Gen
  <2>2. UNCHANGED <<entries, counter>> /\ Generation' = Generation /\ counter' \in Counter \union {None}
    BY <1>0, <1>3 DEF LookFails, redis, Generation, TypeOK
  <2>3. h.version <= version /\ h.gen <= Generation BY <1>0, Facts DEF Gen
  <2>4. /\ step' = [step EXCEPT ![r] = "query"] /\ held' = [held EXCEPT ![r] = h]
        /\ UNCHANGED <<host, now, marks>>
    BY <1>3 DEF LookFails, Goes, Holds
  <2> HIDE DEF h
  <2>. QED BY <1>0, <2>1, <2>2, <2>3, <2>4, MoveKeeps
<1>4. CASE QueryHost(r)
  <2>1. UNCHANGED <<entries, counter>> /\ Generation' = Generation /\ counter' \in Counter \union {None}
        /\ UNCHANGED <<host, now, marks>>
    BY <1>0, <1>4 DEF QueryHost, redis, Generation, TypeOK
  <2>2. PICK v \in {shown, version} :
          \/ Goes(r, "put") /\ Holds(r, [held[r] EXCEPT !.version = v])
          \/ Goes(r, "idle") /\ Holds(r, Nothing)
    BY <1>4 DEF QueryHost
  <2>3. CASE Goes(r, "idle") /\ Holds(r, Nothing)
    <3>1. Nothing.version <= version BY <1>0, NothingHeld
    <3>. QED BY <1>0, <2>1, <2>3, <3>1, NothingHeld, MoveKeeps DEF Goes, Holds
  <2>4. CASE Goes(r, "put") /\ Holds(r, [held[r] EXCEPT !.version = v])
    <3>1. PICK h : h = [held[r] EXCEPT !.version = v] OBVIOUS
    <3>2. v \in Version /\ v >= shown /\ v <= version /\ shown \in Nat /\ v \in Nat
      <4>1. version \in 1..MaxVersion /\ shown \in 1..version /\ MaxVersion \in Nat
        BY <1>0, Facts DEF TypeOK, Version
      <4>2. shown \in Nat /\ version \in Nat /\ shown <= version /\ shown \in 1..MaxVersion
        BY <4>1
      <4>3. CASE v = shown BY <4>1, <4>2, <4>3 DEF Version
      <4>4. CASE v = version BY <4>1, <4>2, <4>4 DEF Version
      <4>. QED BY <2>2, <4>3, <4>4
    <3>3. h \in Held /\ h.version = v /\ h.gen = held[r].gen
      BY <1>0, <3>1, <3>2, Facts DEF Held
    <3>4. held[r].gen <= Generation BY <1>0, <1>4 DEF Inv, HeldInv, QueryHost
    <3>5. Current(v) BY <1>0, <3>2 DEF RowInv, Current
    <3>6. v >= floor
      <4>1. floor <= shown /\ floor \in Nat BY <1>0, Facts DEF RowInv, TypeOK
      <4>. QED BY <3>2, <4>1
    <3>7. step' = [step EXCEPT ![r] = "put"] /\ held' = [held EXCEPT ![r] = h]
      BY <2>4, <3>1 DEF Goes, Holds
    <3>8. h.version <= version /\ h.gen <= Generation /\ Current(h.version) /\ h.version >= floor
      BY <3>2, <3>3, <3>4, <3>5, <3>6
    <3>. QED BY <1>0, <2>1, <3>3, <3>7, <3>8, MoveKeeps
  <2>. QED BY <2>2, <2>3, <2>4
<1>. QED BY <1>1, <1>2, <1>3, <1>4

LEMMA PatcherKeeps ==
  ASSUME Inv, NEW p \in Proc,
         \/ p \in Patcher /\ (CommitPatch(p) \/ InvalidatePatched(p))
         \/ InvalidateFails(p)
  PROVE  Inv'
<1>0. /\ TypeOK /\ RowInv /\ HeldInv /\ version \in Nat /\ version \in Version /\ floor \in Gen
      /\ held[p].version \in Gen /\ held[p].version <= version /\ Nothing.version <= version
  BY Facts, NothingHeld DEF Inv, TypeOK, HeldInv, Held
<1>1. CASE p \in Patcher /\ CommitPatch(p)
  <2> DEFINE h == [Nothing EXCEPT !.version = version + 1]
  <2>1. CommitVersion /\ UNCHANGED <<alive, redis, now, marks>>
        /\ step' = [step EXCEPT ![p] = "invalidate"] /\ held' = [held EXCEPT ![p] = h]
    BY <1>1 DEF CommitPatch, Goes, Holds
  <2>2. h \in Held /\ h.version = version + 1
    BY <1>0, <2>1, CacheAssumption DEF Held, Nothing, Gen, CommitVersion
  <2>3. alive' \in BOOLEAN BY <1>0, <2>1 DEF TypeOK
  <2> HIDE DEF h
  <2>4. h.version <= version + 1 BY <1>0, <2>2
  <2>. QED BY <2>1, <2>2, <2>3, <2>4, CommitKeeps
<1>2. CASE p \in Patcher /\ InvalidatePatched(p)
  <2>1. shown \in Gen /\ shown \in Nat /\ floor \in Nat /\ held[p].version \in Nat
    BY <1>0, Facts DEF TypeOK, Gen, Version
  <2>2. floor' \in Gen /\ floor' <= shown
    BY <1>0, <1>2, <2>1 DEF RowInv, InvalidatePatched
  <2>. QED BY <1>0, <1>2, <2>2, NothingHeld, IncrementKeeps DEF InvalidatePatched, Goes, Holds
<1>3. CASE InvalidateFails(p)
  <2>1. UNCHANGED <<entries, counter>> /\ Generation' = Generation /\ counter' \in Counter \union {None}
    BY <1>0, <1>3 DEF InvalidateFails, redis, Generation, TypeOK
  <2>2. PICK s \in {"commit", "idle"} : Goes(p, s) BY <1>3 DEF InvalidateFails
  <2>. QED BY <1>0, <1>3, <2>1, <2>2, NothingHeld, MoveKeeps DEF InvalidateFails, Goes, Holds
<1>. QED BY <1>1, <1>2, <1>3

LEMMA IngesterKeeps ==
  ASSUME Inv, NEW i \in Ingester, CommitIngest(i) \/ LocateEntry(i)
  PROVE  Inv'
<1>0. /\ TypeOK /\ RowInv /\ HeldInv /\ i \in Proc /\ version \in Nat /\ version \in Version
      /\ held[i] \in Held /\ Generation \in Gen /\ Generation \in Nat /\ i \notin Reader
  BY Facts, CacheAssumption DEF Inv, TypeOK, Proc
<1>1. CASE CommitIngest(i)
  <2> DEFINE h == [Nothing EXCEPT !.version = version + 1]
  <2>1. CommitVersion /\ UNCHANGED <<alive, redis, now, marks>>
        /\ step' = [step EXCEPT ![i] = "locate"] /\ held' = [held EXCEPT ![i] = h]
    BY <1>1 DEF CommitIngest, Goes, Holds
  <2>2. h \in Held /\ h.version = version + 1
    BY <1>0, <2>1, CacheAssumption DEF Held, Nothing, Gen, CommitVersion
  <2>3. alive' \in BOOLEAN BY <1>0, <2>1 DEF TypeOK
  <2> HIDE DEF h
  <2>4. h.version <= version + 1 BY <1>0, <2>2
  <2>. QED BY <1>0, <2>1, <2>2, <2>3, <2>4, CommitKeeps
<1>2. CASE LocateEntry(i)
  <2>1. PICK g \in Gen :
          /\ g <= Generation /\ Generation' = Generation /\ counter' \in Counter \union {None}
          /\ held' = [held EXCEPT ![i] = [held[i] EXCEPT !.gen = g]]
    <3>1. CASE ReadGeneration /\ Holds(i, [held[i] EXCEPT !.gen = Generation])
      <4>1. Generation' = Generation /\ counter' \in Counter \union {None}
        BY <1>0, <3>1, ReadKeeps
      <4>2. Generation \in Gen /\ Generation <= Generation BY <1>0
      <4>3. held' = [held EXCEPT ![i] = [held[i] EXCEPT !.gen = Generation]] BY <3>1 DEF Holds
      <4>. QED BY <4>1, <4>2, <4>3
    <3>2. CASE UNCHANGED counter /\ Holds(i, [held[i] EXCEPT !.gen = 0])
      <4>1. 0 \in Gen /\ 0 <= Generation BY <1>0, CacheAssumption DEF Gen
      <4>2. Generation' = Generation /\ counter' \in Counter \union {None}
        BY <1>0, <3>2 DEF Generation, TypeOK
      <4>. QED BY <3>2, <4>1, <4>2 DEF Holds
    <3>. QED BY <1>2, <3>1, <3>2 DEF LocateEntry
  <2>2. /\ UNCHANGED <<host, entries, now, marks>> /\ step[i] = "locate"
        /\ step' = [step EXCEPT ![i] = "put"]
    BY <1>2 DEF LocateEntry, Goes
  <2>3. PICK h : h = [held[i] EXCEPT !.gen = g] OBVIOUS
  <2>4. h \in Held /\ h.gen = g /\ h.version = held[i].version BY <1>0, <2>3 DEF Held
  <2>5. Current(held[i].version) /\ held[i].version <= version BY <1>0, <2>2 DEF HeldInv
  <2>6. held' = [held EXCEPT ![i] = h] BY <2>1, <2>3
  <2>. QED BY <1>0, <2>1, <2>2, <2>4, <2>5, <2>6, MoveKeeps
<1>. QED BY <1>1, <1>2

LEMMA RemoverKeeps ==
  ASSUME Inv, NEW d \in Remover, StartDelete(d) \/ InvalidateDeleted(d) \/ CommitDelete(d)
  PROVE  Inv'
<1>0. /\ TypeOK /\ RowInv /\ HeldInv /\ d \in Proc /\ version \in Nat /\ floor \in Gen
      /\ held[d] \in Held /\ held[d].version <= version /\ held[d].version \in Nat
      /\ held = [held EXCEPT ![d] = held[d]] /\ floor <= shown
  BY Facts DEF Inv, TypeOK, Proc, HeldInv, Held, RowInv
<1>1. ASSUME NEW s \in {"invalidate", "done"}, Goes(d, s), UNCHANGED <<host, redis, now, held, marks>>
      PROVE  Inv'
  <2>1. UNCHANGED <<entries, counter>> /\ Generation' = Generation /\ counter' \in Counter \union {None}
    BY <1>0, <1>1 DEF redis, Generation, TypeOK
  <2>2. step' = [step EXCEPT ![d] = s] /\ held' = [held EXCEPT ![d] = held[d]]
    BY <1>0, <1>1 DEF Goes
  <2>. QED BY <1>0, <1>1, <2>1, <2>2, MoveKeeps
<1>2. CASE StartDelete(d) BY <1>1, <1>2 DEF StartDelete
<1>3. CASE InvalidateDeleted(d)
  <2>1. /\ Increment /\ UNCHANGED <<host, entries, now, floor, lapsed>>
        /\ step' = [step EXCEPT ![d] = "commit"] /\ held' = [held EXCEPT ![d] = held[d]]
    BY <1>0, <1>3 DEF InvalidateDeleted, Goes, marks
  <2>. QED BY <1>0, <2>1, IncrementKeeps
<1>4. CASE CommitDelete(d)
  <2>1. /\ UNCHANGED <<redis, now, marks>>
        /\ step' = [step EXCEPT ![d] = "done"] /\ held' = [held EXCEPT ![d] = held[d]]
    BY <1>0, <1>4 DEF CommitDelete, Goes
  <2>2. CASE ~alive BY <1>1, <1>4, <2>2 DEF CommitDelete
  <2>3. CASE alive
    <3>1. CommitVersion /\ alive' \in BOOLEAN BY <1>4, <2>3 DEF CommitDelete
    <3>2. held[d].version <= version + 1 BY <1>0
    <3>. QED BY <1>0, <2>1, <3>1, <3>2, CommitKeeps
  <2>. QED BY <2>2, <2>3
<1>. QED BY <1>2, <1>3, <1>4

LEMMA NextInv == Inv /\ [Next]_vars => Inv'
<1> SUFFICES ASSUME Inv, [Next]_vars PROVE Inv' OBVIOUS
<1>1. CASE UNCHANGED vars
  BY <1>1 DEF vars, host, redis, marks, Inv, TypeOK, RowInv, HeldInv, EntryInv, Current, Generation
<1>2. \A p \in Patcher \union Remover : p \in Proc BY DEF Proc
<1>3. \A r \in Reader : QueryHost(r) => Inv'
  BY ReaderKeeps, CacheAssumption
<1>. QED BY <1>1, <1>2, <1>3, ReaderKeeps, PutKeeps, PatcherKeeps, IngesterKeeps, RemoverKeeps, ReplayKeeps,
     TickKeeps DEF Next

LEMMA Invariant == Spec => []Inv
BY InitInv, NextInv, PTL DEF Spec

(* Type correctness. *)
THEOREM TypeCorrect == Spec => []TypeOK
<1>1. Inv => TypeOK BY DEF Inv
<1>. QED BY <1>1, Invariant, PTL

(* No answer of the cache is staler than its time to live and what the     *)
(* replica lags behind, for any processes and failures (set_cached_system  *)
(* expires what it stores).                                                *)
THEOREM StaleCorrect == Spec => []StaleAtMostTTL
<1>1. Inv => StaleAtMostTTL
  <2> SUFFICES ASSUME Inv, NEW key \in Key, NEW g \in Gen, entries[<<key, g>>] # None
               PROVE  LET v == entries[<<key, g>>].version
                      IN until[v] = None \/ now - until[v] <= TTL
    BY DEF StaleAtMostTTL, Inv, TypeOK
  <2>1. entries[<<key, g>>] \in Entry BY DEF Inv, TypeOK
  <2>2. entries[<<key, g>>].version \in Version /\ entries[<<key, g>>].expires \in Nat
    BY <2>1, Facts DEF Inv, Entry
  <2>3. until[entries[<<key, g>>].version] \in Nat \union {None}
    BY <2>2, Facts DEF Inv, TypeOK
  <2>4. now \in Nat /\ TTL \in Nat BY Facts DEF Inv
  <2>. QED BY <2>2, <2>3, <2>4 DEF Inv, EntryInv
<1>. QED BY <1>1, Invariant, PTL

(* What readers store under the present generation is not behind what the  *)
(* replica showed at an invalidation: the generation separates a slow      *)
(* reader's answer from those after it (get_system_cache_generation,       *)
(* delete_cached_system_keys).                                             *)
THEOREM FreshCorrect == Spec => []FreshAfterInvalidation
<1>1. Inv => FreshAfterInvalidation
  <2> SUFFICES ASSUME Inv, lapsed = None \/ now - lapsed >= TTL, NEW key \in Key,
                      entries[<<key, Generation>>] # None, entries[<<key, Generation>>].by \in Reader
               PROVE  entries[<<key, Generation>>].version >= floor
    BY DEF FreshAfterInvalidation
  <2> DEFINE e == entries[<<key, Generation>>]
  <2>1. Generation \in Gen /\ now \in Nat /\ TTL \in Nat /\ (lapsed # None => lapsed \in Nat)
    BY Facts DEF Inv, TypeOK
  <2>2. e \in Entry BY <2>1 DEF Inv, TypeOK
  <2>3. e.expires \in Nat BY <2>2, Facts DEF Inv, Entry
  <2>4. e.expires > now BY <2>1 DEF Inv, EntryInv
  <2>5. lapsed = None \/ e.expires >= lapsed + TTL BY <2>1, <2>3, <2>4
  <2>. QED BY <2>1, <2>5 DEF Inv, EntryInv
<1>. QED BY <1>1, Invariant, PTL
=============================================================================
