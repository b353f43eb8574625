------------------------- MODULE HostCulling_proofs -------------------------
(***************************************************************************)
(* The states and filters of StalenessStates agree; invariants of          *)
(* HostCulling.                                                            *)
(***************************************************************************)
EXTENDS HostCulling, TLAPS

(* The state of a host is that of one position, between the times that     *)
(* bound it.                                                               *)
LEMMA StatePosition ==
  ASSUME NEW c \in [Field -> Int], Ordered(c), NEW seen \in Int, NEW t \in Int
  PROVE  \E i \in 1..4 :
           /\ State[i] = StateOf(c, seen, t)
           /\ i > 1 => t >= seen + c[Ending[i - 1]]
           /\ i < 4 => t < seen + c[Ending[i]]
<1> DEFINE idle == t - seen
<1>0. c["stale"] \in Int /\ c["warning"] \in Int /\ c["delete"] \in Int BY DEF Field
<1>1. CASE idle < c["stale"]
  <2>1. StateOf(c, seen, t) = "fresh" BY <1>0, <1>1 DEF StateOf, Ordered
  <2>. QED BY <1>0, <1>1, <2>1 DEF State, Ending
<1>2. CASE idle >= c["stale"] /\ idle < c["warning"]
  <2>1. StateOf(c, seen, t) = "stale" BY <1>0, <1>2 DEF StateOf, Ordered
  <2>. QED BY <1>0, <1>2, <2>1 DEF State, Ending
<1>3. CASE idle >= c["warning"] /\ idle < c["delete"]
  <2>1. StateOf(c, seen, t) = "stale_warning" BY <1>0, <1>3 DEF StateOf, Ordered
  <2>. QED BY <1>0, <1>3, <2>1 DEF State, Ending
<1>4. CASE idle >= c["delete"]
  <2>1. StateOf(c, seen, t) = "culled" BY <1>0, <1>4 DEF StateOf, Ordered
  <2>. QED BY <1>0, <1>4, <2>1 DEF State, Ending
<1>. QED BY <1>0, <1>1, <1>2, <1>3, <1>4 DEF Ordered

(* A set of states that has the state of a position has a run around it.   *)
LEMMA RunAround ==
  ASSUME NEW S \in SUBSET States, NEW i \in 1..4, State[i] \in S
  PROVE  \E r \in Runs[S] : r[1] <= i /\ i <= r[2]
<1> DEFINE has(k) == k \in 1..4 /\ State[k] \in S
<1>1. \E a \in 1..i : (\A k \in a..i : has(k)) /\ ~has(a - 1)
  BY SMTT(30)
<1>2. \E b \in i..4 : (\A k \in i..b : has(k)) /\ ~has(b + 1)
  BY SMTT(30)
<1>3. PICK a \in 1..i : (\A k \in a..i : has(k)) /\ ~has(a - 1) BY <1>1
<1>4. PICK b \in i..4 : (\A k \in i..b : has(k)) /\ ~has(b + 1) BY <1>2
<1>5. \A k \in a..b : has(k) BY <1>3, <1>4
<1>6. <<a, b>> \in Runs[S]
  BY <1>3, <1>4, <1>5 DEF Runs
<1>. QED BY <1>6

(* Up to the time of the selection both filters, that over last_check_in + *)
(* time and that over now - time, select exactly the hosts whose state is  *)
(* in the set (combined_filter, staleness_to_conditions): what the API     *)
(* shows as culled is what the consumer passes over and the reaper         *)
(* deletes, on the boundaries too. Of the hosts that have checked in later *)
(* than that (the clock of another machine, a report between now and the   *)
(* query) the filter of the jobs selects none, not even for the set with   *)
(* fresh, the state the API shows them in (stale_timestamp_filter).        *)
THEOREM FiltersAgree ==
  ASSUME NEW c \in [Field -> Int], Ordered(c), NEW S \in SUBSET States,
         NEW seen \in Int, NEW t \in Int
  PROVE  /\ Selects(c, S, seen, t) <=> StateOf(c, seen, t) \in S
         /\ SelectedByJob(c, S, seen, t) => StateOf(c, seen, t) \in S
         /\ seen <= t /\ StateOf(c, seen, t) \in S => SelectedByJob(c, S, seen, t)
         /\ seen > t /\ 0 <= c["stale"] => ~SelectedByJob(c, S, seen, t)
<1> DEFINE B(k) == c[Ending[k]]
<1>0. /\ B(1) \in Int /\ B(2) \in Int /\ B(3) \in Int
      /\ B(1) < B(2) /\ B(2) < B(3)
  BY DEF Field, Ordered, Ending
<1>1. PICK i \in 1..4 :
           /\ State[i] = StateOf(c, seen, t)
           /\ i > 1 => t >= seen + B(i - 1)
           /\ i < 4 => t < seen + B(i)
  BY StatePosition
<1>2. \A k, m \in 1..3 : B(k) \in Int /\ (k <= m => B(k) <= B(m))
  <2>1. \A k \in 1..3 : k = 1 \/ k = 2 \/ k = 3 OBVIOUS
  <2>. HIDE DEF B
  <2>. QED BY <1>0, <2>1
<1> HIDE DEF B
<1>3. \A r \in Runs[S] : /\ r[1] \in 1..4 /\ r[2] \in 1..4 /\ r[1] <= r[2]
                         /\ \A k \in r[1]..r[2] : State[k] \in S
  BY DEF Runs
<1>4. \A r \in Runs[S] :
         (/\ r[1] > 1 => t >= seen + B(r[1] - 1)
          /\ r[2] < 4 => t < seen + B(r[2])) <=> i \in r[1]..r[2]
  <2> SUFFICES ASSUME NEW r \in Runs[S]
               PROVE  (/\ r[1] > 1 => t >= seen + B(r[1] - 1)
                       /\ r[2] < 4 => t < seen + B(r[2])) <=> i \in r[1]..r[2]
    OBVIOUS
  <2>0. r[1] \in 1..4 /\ r[2] \in 1..4 /\ r[1] <= r[2] BY <1>3
  <2>1. CASE i < r[1] BY <1>1, <1>2, <2>0, <2>1
  <2>2. CASE i > r[2] BY <1>1, <1>2, <2>0, <2>2
  <2>3. CASE r[1] <= i /\ i <= r[2] BY <1>1, <1>2, <2>0, <2>3
  <2>. QED BY <2>0, <2>1, <2>2, <2>3
<1>5. (\E r \in Runs[S] : i \in r[1]..r[2]) <=> State[i] \in S
  BY <1>3, RunAround
<1>6. Selects(c, S, seen, t) <=> \E r \in Runs[S] : i \in r[1]..r[2]
  BY <1>4 DEF Selects, B
<1>7. \A r \in Runs[S] :
         (/\ r[1] > 1 => seen <= t - c[Ending[r[1] - 1]]
          /\ r[2] < 4 => seen > t - c[Ending[r[2]]])
         <=> i \in r[1]..r[2]
  <2> SUFFICES ASSUME NEW r \in Runs[S]
               PROVE (/\ r[1] > 1 => seen <= t - B(r[1] - 1)
                      /\ r[2] < 4 => seen > t - B(r[2])) <=> i \in r[1]..r[2]
    BY DEF B
  <2>0. r[1] \in 1..4 /\ r[2] \in 1..4 BY <1>3
  <2>1. r[1] > 1 => (seen <= t - B(r[1] - 1) <=> t >= seen + B(r[1] - 1)) BY <1>2, <2>0
  <2>2. r[2] < 4 => (seen > t - B(r[2]) <=> t < seen + B(r[2])) BY <1>2, <2>0
  <2>. QED BY <1>4, <2>1, <2>2
<1> DEFINE Bounded(r) == /\ r[1] > 1 => seen <= t - c[Ending[r[1] - 1]]
                         /\ r[2] < 4 => seen > t - c[Ending[r[2]]]
<1>8. SelectedByJob(c, S, seen, t) <=>
         \E r \in Runs[S] : Bounded(r) /\ (r[1] = 1 => seen <= t)
  <2> SUFFICES ASSUME NEW r \in Runs[S]
               PROVE  (/\ seen <= IF r[1] = 1 THEN t ELSE t - c[Ending[r[1] - 1]]
                       /\ r[2] < 4 => seen > t - c[Ending[r[2]]])
                      <=> Bounded(r) /\ (r[1] = 1 => seen <= t)
    BY DEF SelectedByJob
  <2>1. CASE r[1] = 1 BY <2>1
  <2>2. CASE r[1] # 1
    <3>1. r[1] > 1 BY <1>3, <2>2
    <3>. QED BY <2>2, <3>1
  <2>. QED BY <2>1, <2>2
<1>9. \A r \in Runs[S] : Bounded(r) <=> i \in r[1]..r[2] BY <1>7
<1> HIDE DEF Bounded
<1>10. ASSUME seen > t, 0 <= c["stale"], NEW r \in Runs[S], Bounded(r), r[1] = 1 => seen <= t
       PROVE  FALSE
  <2>1. 0 <= B(1) BY <1>10 DEF B, Ending
  <2>2. r[1] # 1 /\ r[1] \in 1..4 /\ r[2] \in 1..4 /\ i >= r[1] BY <1>3, <1>9, <1>10
  <2>3. t >= seen + B(i - 1) /\ i - 1 \in 1..3 BY <1>1, <2>2
  <2>4. B(1) \in Int /\ B(i - 1) \in Int /\ B(1) <= B(i - 1) BY <1>2, <2>3
  <2>. QED BY <1>10, <2>1, <2>3, <2>4
<1>. QED BY <1>1, <1>5, <1>6, <1>8, <1>9, <1>10
-----------------------------------------------------------------------------
(* The inductive invariant: what is read, cached or used was validated, and *)
(* was in force late enough.                                               *)
RowInv  == row \in Configs \union {None}
TimeInv == /\ \A t \in Thread : began[t] <= now
           /\ \A c \in Configs : left[c] # None => left[c] <= now
ReadInv == \A p \in Process : pc[p] \in {"fill", "have", "work"} => val[p] \in Configs

EntryInv ==
  entry # None => /\ entry.config \in Configs
                  /\ entry.until > now /\ entry.until <= now + TTL
                  /\ InForceSince(entry.config, entry.until - TTL)
BatchInv ==
  \A c \in Consumer : batch[c] # None =>
     batch[c] \in Configs /\ InForceSince(batch[c], began[c] - TTL)
FillInv == \A p \in Process : pc[p] = "fill" => InForceSince(val[p], now)
UseInv  == \A t \in Thread : pc[t] \in {"have", "work"} => InForceSince(val[t], began[t] - TTL)

Inv == /\ TypeOK /\ RowInv /\ TimeInv /\ ReadInv
       /\ EntryInv /\ BatchInv /\ FillInv /\ UseInv

LEMMA Facts ==
  /\ Configs \subseteq Triple /\ Default \in Configs /\ None \notin Triple
  /\ \A c \in Configs : Ordered(c)
  /\ \A c \in Triple : c \in [Field -> Int]
  /\ TTL \in Nat /\ TTL > 0 /\ MaxTime \in Nat /\ Time \subseteq Int /\ None \notin Time
  /\ \A r \in [config : Triple, until : Nat] : r # None
  /\ Consumer \cap Job = {} /\ Thread \cap Writer = {}
  /\ Consumer \subseteq Thread /\ Job \subseteq Thread /\ Thread \subseteq Process
  /\ Writer \subseteq Process
<1>1. Default \in Configs
  BY ConfigAssumption DEF Configs, Triple, Value
<1>2. Value \subseteq Int
  BY ConfigAssumption DEF Value, Field
<1>3. \A c \in Triple : c \in [Field -> Int]
  BY <1>2 DEF Triple
<1>. QED BY <1>1, <1>3, ConfigAssumption DEF Configs, Time, Thread, Process

LEMMA MergedIsTriple ==
  ASSUME NEW c \in Triple, NEW body \in Bodies
  PROVE  Merged(c, body) \in Triple
BY ConfigAssumption DEF Merged, Triple, Value

LEMMA InForceIsConfig == RowInv => InForce \in Configs
BY Facts DEF RowInv, InForce

(* What a step may do to the table. *)
RowChange ==
  \/ UNCHANGED <<row, left>>
  \/ now' = now /\ \E new \in Configs \union {None} : Replace(new)

(* A configuration in force since a time stays so when it is replaced. *)
LEMMA SinceKept ==
  ASSUME TypeOK, RowInv, TimeInv, RowChange,
         NEW c \in Configs, NEW t \in Int, t <= now, InForceSince(c, t)
  PROVE  c = InForce' \/ (left'[c] # None /\ left'[c] >= t)
<1>1. CASE UNCHANGED <<row, left>>
  BY <1>1 DEF InForceSince, InForce
<1>2. CASE \E new \in Configs \union {None} : Replace(new)
  <2>1. InForce \in Configs BY InForceIsConfig
  <2>2. left' = [left EXCEPT ![InForce] = now] BY <1>2 DEF Replace
  <2>3. left \in [Configs -> Time \union {None}] /\ now \in Time
    BY DEF TypeOK, ConfigTypeOK
  <2>4. CASE c = InForce
    <3>1. left'[c] = now /\ now # None BY <2>1, <2>2, <2>3, <2>4, Facts
    <3>. QED BY <3>1
  <2>5. CASE c # InForce
    <3>1. left'[c] = left[c] BY <2>1, <2>2, <2>3, <2>5
    <3>. QED BY <2>5, <3>1 DEF InForceSince
  <2>. QED BY <2>4, <2>5
<1>. QED BY <1>1, <1>2 DEF RowChange

LEMMA SinceEarlier ==
  ASSUME TypeOK, NEW c \in Configs, NEW t \in Int, NEW u \in Int, u <= t, InForceSince(c, t)
  PROVE  InForceSince(c, u)
<1>1. left[c] \in Time \union {None} BY DEF TypeOK, ConfigTypeOK
<1>2. CASE c = InForce BY <1>2 DEF InForceSince
<1>3. CASE left[c] # None /\ left[c] >= t
  <2>1. left[c] \in Int BY <1>1, <1>3, Facts
  <2>2. left[c] >= u BY <1>3, <2>1
  <2>. QED BY <1>3, <2>2 DEF InForceSince
<1>. QED BY <1>2, <1>3 DEF InForceSince

(* The configuration in force now, and one that is left now. *)
LEMMA SinceNow ==
  ASSUME TypeOK, RowInv PROVE InForce \in Configs /\ InForceSince(InForce, now)
BY InForceIsConfig DEF InForceSince

LEMMA InitInv == Init => Inv
<1> SUFFICES ASSUME Init PROVE Inv OBVIOUS
<1> USE DEF Init, ConfigInit
<1>1. TypeOK
  <2>1. 0 \in Time BY Facts DEF Time
  <2>2. row \in Triple \union {None} BY Facts
  <2>3. 0 \in 0..MaxWrites BY ConfigAssumption
  <2>. QED BY <2>1, <2>2, <2>3 DEF TypeOK, ConfigTypeOK
<1>2. RowInv BY DEF RowInv
<1>3. TimeInv
  BY Facts DEF TimeInv
<1>4. ReadInv BY DEF ReadInv
<1>5. EntryInv /\ BatchInv BY DEF EntryInv, BatchInv
<1>6. FillInv BY DEF FillInv
<1>7. UseInv BY Facts DEF UseInv
<1>. QED BY <1>1, <1>2, <1>3, <1>4, <1>5, <1>6, <1>7 DEF Inv

(* What each part of the invariant needs of a step that does not touch it. *)
LEMMA Frames ==
  ASSUME Inv, RowChange, now' \in Time, now' >= now
  PROVE  /\ RowInv'
         /\ left' \in [Configs -> Time \union {None}]
         /\ \A c \in Configs : left'[c] # None => left'[c] <= now'
         /\ UNCHANGED <<now, entry>> => EntryInv'
         /\ UNCHANGED <<batch, began>> => BatchInv'
         /\ now' = now /\ (\A p \in Process : pc'[p] = "fill" => pc[p] = "fill" /\ val'[p] = val[p])
              => FillInv'
         /\ (\A t \in Thread : pc'[t] \in {"have", "work"} =>
                /\ pc[t] \in {"have", "work"}
                /\ val'[t] = val[t] /\ began'[t] = began[t]) => UseInv'
<1> DEFINE Still(c, t) == c = InForce' \/ (left'[c] # None /\ left'[c] >= t)
<1>0. \A c \in Configs, t \in Int : t <= now /\ InForceSince(c, t) => Still(c, t)
  BY SinceKept DEF Inv
<1>1. /\ now \in Int /\ began \in [Thread -> Int] /\ TTL \in Int /\ TTL > 0
      /\ left \in [Configs -> Time \union {None}] /\ now \in Time
      /\ \A t \in Thread : began[t] - TTL \in Int /\ began[t] - TTL <= now
  <2>1. began \in [Thread -> Int] /\ now \in Int BY Facts DEF Inv, TypeOK, ConfigTypeOK
  <2>. QED BY <2>1, Facts DEF Inv, TypeOK, ConfigTypeOK, TimeInv
<1>2. RowInv'
  BY DEF RowChange, RowInv, Replace, Inv
<1>3. /\ left' \in [Configs -> Time \union {None}]
      /\ \A c \in Configs : left'[c] # None => left'[c] <= now'
  <2>1. CASE UNCHANGED left
    <3>1. \A c \in Configs : left[c] # None => left[c] \in Int /\ left[c] <= now
      BY <1>1, Facts DEF Inv, TimeInv
    <3>. QED BY <1>1, <2>1, <3>1, Facts
  <2>2. CASE now' = now /\ left' = [left EXCEPT ![InForce] = now]
    <3>. QED BY <1>1, <2>2, InForceIsConfig DEF Inv, TimeInv
  <2>. QED BY <2>1, <2>2 DEF RowChange, Replace
<1>4. ASSUME UNCHANGED <<now, entry>> PROVE EntryInv'
  <2> SUFFICES ASSUME entry # None
               PROVE /\ entry.config \in Configs
                     /\ entry.until > now /\ entry.until <= now + TTL
                     /\ Still(entry.config, entry.until - TTL)
    BY <1>4 DEF EntryInv, InForceSince
  <2>1. entry.until \in Int
    BY Facts DEF Inv, TypeOK, ConfigTypeOK
  <2>. QED BY <1>0, <1>1, <2>1 DEF Inv, EntryInv
<1>5. ASSUME UNCHANGED <<batch, began>> PROVE BatchInv'
  <2> SUFFICES ASSUME NEW c \in Consumer, batch[c] # None
               PROVE  batch[c] \in Configs /\ Still(batch[c], began[c] - TTL)
    BY <1>5 DEF BatchInv, InForceSince
  <2>. QED BY <1>0, <1>1, Facts DEF Inv, BatchInv
<1>6. ASSUME now' = now, \A p \in Process : pc'[p] = "fill" => pc[p] = "fill" /\ val'[p] = val[p]
      PROVE  FillInv'
  <2> SUFFICES ASSUME NEW p \in Process, pc'[p] = "fill" PROVE Still(val'[p], now)
    BY <1>6 DEF FillInv, InForceSince
  <2>1. val[p] \in Configs /\ InForceSince(val[p], now) BY <1>6 DEF Inv, FillInv, ReadInv
  <2>. QED BY <1>0, <1>1, <1>6, <2>1
<1>7. ASSUME \A t \in Thread : pc'[t] \in {"have", "work"} =>
                /\ pc[t] \in {"have", "work"}
                /\ val'[t] = val[t] /\ began'[t] = began[t]
      PROVE  UseInv'
  <2> SUFFICES ASSUME NEW t \in Thread, pc'[t] \in {"have", "work"}
               PROVE  Still(val'[t], began'[t] - TTL)
    BY DEF UseInv, InForceSince
  <2>1. val[t] \in Configs /\ InForceSince(val[t], began[t] - TTL)
    BY <1>7, Facts DEF Inv, UseInv, ReadInv
  <2>. QED BY <1>0, <1>1, <1>7, <2>1
<1>. QED BY <1>2, <1>3, <1>4, <1>5, <1>6, <1>7

LEMMA Types ==
  ASSUME Inv
  PROVE  /\ now \in Time /\ now \in Int /\ InForce \in Configs /\ InForceSince(InForce, now)
         /\ pc \in [Process -> {"idle", "look", "fill", "have", "batch", "work", "forget"}]
         /\ val \in [Process -> Triple \union {None}]
         /\ began \in [Thread -> Time] /\ \A t \in Thread : began[t] \in Int /\ began[t] <= now
         /\ batch \in [Consumer -> Triple \union {None}]
         /\ entry \in [config : Triple, until : 0..(MaxTime + TTL)] \union {None}
         /\ \A c \in Consumer : pc[c] = "idle" => batch[c] = None
         /\ writes \in 0..MaxWrites
         /\ checked \in [Host -> Time] /\ alive \in [Host -> BOOLEAN]
BY SinceNow, Facts DEF Inv, TypeOK, ConfigTypeOK, TimeInv

(* A read that changes only its process and the batch cache. *)
LEMMA ReadKeeps ==
  ASSUME Inv, NEW p \in Process, Read(p), UNCHANGED hvars
  PROVE  Inv'
<1> USE Types, Facts
<1>0. /\ UNCHANGED <<now, row, began, left, writes>> /\ RowChange /\ now' >= now
      /\ UNCHANGED <<checked, alive>>
  BY DEF Read, LookInBatch, LookInRedis, Fill, RowChange, hvars, caches
<1>1. CASE LookInBatch(p)
  <2>1. /\ p \in Consumer /\ batch[p] # None
        /\ pc' = [pc EXCEPT ![p] = "have"] /\ val' = [val EXCEPT ![p] = batch[p]]
        /\ UNCHANGED <<entry, batch>>
    BY <1>1 DEF LookInBatch, Gets, Goes, caches
  <2>2. batch[p] \in Configs /\ InForceSince(batch[p], began[p] - TTL)
    BY <2>1 DEF Inv, BatchInv
  <2>3. TypeOK'
    BY <1>0, <2>1, <2>2, Frames DEF Inv, TypeOK, ConfigTypeOK
  <2>4. ReadInv' BY <2>1, <2>2 DEF Inv, ReadInv
  <2>5. UseInv'
    BY <1>0, <2>1, <2>2 DEF Inv, UseInv, InForceSince, InForce
  <2>6. FillInv' BY <1>0, <2>1, Frames
  <2>. QED BY <1>0, <2>1, <2>3, <2>4, <2>5, <2>6, Frames DEF Inv, TimeInv
<1>2. CASE LookInRedis(p) /\ pc'[p] = "have"
  <2>1. /\ entry # None
        /\ pc' = [pc EXCEPT ![p] = "have"] /\ val' = [val EXCEPT ![p] = entry.config]
        /\ UNCHANGED entry
        /\ batch' = IF p \in Consumer THEN [batch EXCEPT ![p] = entry.config] ELSE batch
    BY <1>2 DEF LookInRedis, Gets, Goes, Cached
  <2>2. /\ entry.config \in Configs
        /\ \A t \in Thread : InForceSince(entry.config, began[t] - TTL)
    <3>1. entry.until \in Int BY <2>1
    <3>2. entry.config \in Configs /\ InForceSince(entry.config, entry.until - TTL)
      BY <2>1 DEF Inv, EntryInv
    <3>3. \A t \in Thread : began[t] - TTL <= entry.until - TTL
      BY <2>1, <3>1 DEF Inv, EntryInv
    <3>. QED BY <3>1, <3>2, <3>3, SinceEarlier DEF Inv
  <2>3. TypeOK'
    BY <1>0, <2>1, <2>2, Frames DEF Inv, TypeOK, ConfigTypeOK
  <2>4. ReadInv' BY <2>1, <2>2 DEF Inv, ReadInv
  <2>5. UseInv'
    BY <1>0, <2>1, <2>2 DEF Inv, UseInv, InForceSince, InForce
  <2>6. BatchInv'
    BY <1>0, <2>1, <2>2 DEF Inv, BatchInv, InForceSince, InForce
  <2>7. FillInv' BY <1>0, <2>1, Frames
  <2>. QED BY <1>0, <2>1, <2>3, <2>4, <2>5, <2>6, <2>7, Frames DEF Inv, TimeInv
<1>3. CASE LookInRedis(p) /\ pc'[p] = "fill"
  <2>1. /\ pc' = [pc EXCEPT ![p] = "fill"] /\ val' = [val EXCEPT ![p] = InForce]
        /\ UNCHANGED <<entry, batch>>
    BY <1>3 DEF LookInRedis, Gets, Goes, Cached
  <2>2. TypeOK'
    BY <1>0, <2>1, Frames DEF Inv, TypeOK, ConfigTypeOK
  <2>3. ReadInv' BY <2>1 DEF Inv, ReadInv
  <2>4. FillInv'
    BY <1>0, <2>1 DEF Inv, FillInv, InForceSince, InForce
  <2>5. UseInv' BY <1>0, <2>1, Frames
  <2>. QED BY <1>0, <2>1, <2>2, <2>3, <2>4, <2>5, Frames DEF Inv, TimeInv
<1>4. CASE Fill(p)
  <2>1. /\ pc[p] = "fill" /\ pc' = [pc EXCEPT ![p] = "have"] /\ UNCHANGED val
        /\ entry' \in {entry, [config |-> val[p], until |-> now + TTL]}
        /\ batch' = IF p \in Consumer THEN [batch EXCEPT ![p] = val[p]] ELSE batch
    BY <1>4 DEF Fill, Goes, Cached
  <2>2. /\ val[p] \in Configs /\ InForceSince(val[p], now)
        /\ \A t \in Thread : InForceSince(val[p], began[t] - TTL)
    <3>1. val[p] \in Configs /\ InForceSince(val[p], now)
      BY <2>1 DEF Inv, FillInv, ReadInv
    <3>2. \A t \in Thread : began[t] - TTL \in Int /\ began[t] - TTL <= now
      OBVIOUS
    <3>. QED BY <3>1, <3>2, SinceEarlier DEF Inv
  <2>3. now + TTL \in 0..(MaxTime + TTL) /\ now + TTL > now /\ (now + TTL) - TTL = now
    BY DEF Time
  <2>4. TypeOK'
    <3>1. entry' \in [config : Triple, until : 0..(MaxTime + TTL)] \union {None}
      BY <2>1, <2>2, <2>3
    <3>2. batch' \in [Consumer -> Triple \union {None}] BY <2>1, <2>2
    <3>. QED BY <1>0, <2>1, <3>1, <3>2, Frames DEF Inv, TypeOK, ConfigTypeOK
  <2>5. ReadInv' BY <2>1, <2>2 DEF Inv, ReadInv
  <2>6. UseInv'
    BY <1>0, <2>1, <2>2 DEF Inv, UseInv, InForceSince, InForce
  <2>7. BatchInv'
    BY <1>0, <2>1, <2>2 DEF Inv, BatchInv, InForceSince, InForce
  <2>8. FillInv' BY <1>0, <2>1, Frames
  <2>9. EntryInv'
    <3>1. CASE entry' = entry BY <1>0, <3>1, Frames
    <3>2. CASE entry' = [config |-> val[p], until |-> now + TTL]
      BY <1>0, <2>2, <2>3, <3>2 DEF EntryInv, InForceSince, InForce
    <3>. QED BY <2>1, <3>1, <3>2
  <2>. QED BY <1>0, <2>1, <2>4, <2>5, <2>6, <2>7, <2>8, <2>9, Frames DEF Inv, TimeInv
<1>. QED
  <2>1. ASSUME LookInRedis(p) PROVE pc'[p] \in {"have", "fill"}
    BY <2>1 DEF LookInRedis, Gets, Goes
  <2>. QED BY <2>1, <1>1, <1>2, <1>3, <1>4 DEF Read

LEMMA BatchKeeps ==
  ASSUME Inv, NEW c \in Consumer, BeginBatch(c) \/ EndBatch(c), UNCHANGED hvars
  PROVE  Inv'
<1> USE Types, Facts
<1>0. /\ UNCHANGED <<now, row, entry, val, left, writes, checked, alive>>
      /\ RowChange /\ now' >= now
  BY DEF BeginBatch, EndBatch, RowChange, hvars, caches
<1>1. /\ pc'[c] \in {"batch", "idle"} /\ pc' = [pc EXCEPT ![c] = pc'[c]]
      /\ began'[c] \in {0, now} /\ began' = [began EXCEPT ![c] = began'[c]]
      /\ batch' \in [Consumer -> Triple \union {None}]
      /\ \A d \in Consumer : batch'[d] # None => batch'[d] = batch[d] /\ d # c
      /\ \A d \in Consumer : pc'[d] = "idle" => batch'[d] = None
  <2>1. CASE BeginBatch(c)
    <3>1. pc[c] = "idle" /\ batch[c] = None BY <2>1 DEF BeginBatch
    <3>. QED BY <2>1, <3>1 DEF BeginBatch, Goes, caches
  <2>2. CASE EndBatch(c) BY <2>2 DEF EndBatch, Goes
  <2>. QED BY <2>1, <2>2
<1>2. TypeOK'
  BY <1>0, <1>1, Frames, SMTT(60) DEF Inv, TypeOK, ConfigTypeOK, Time
<1>3. TimeInv'
  <2>1. \A t \in Thread : began'[t] <= now
    BY <1>1 DEF Time
  <2>. QED BY <1>0, <2>1, Frames DEF TimeInv
<1>4. ReadInv' BY <1>0, <1>1 DEF Inv, ReadInv
<1>5. BatchInv'
  <2>1. \A d \in Consumer \ {c} : began'[d] = began[d] BY <1>1
  <2>. QED BY <1>0, <1>1, <2>1 DEF Inv, BatchInv, InForceSince, InForce
<1>6. FillInv' /\ UseInv'
  <2>1. \A p \in Process : pc'[p] \in {"fill", "have", "work"} => p # c /\ pc'[p] = pc[p]
    BY <1>1
  <2>. QED BY <1>0, <1>1, <2>1, Frames
<1>. QED BY <1>0, <1>2, <1>3, <1>4, <1>5, <1>6, Frames DEF Inv

(* Whatever a request does, the row is a validated configuration. *)
LEMMA ChangeKeeps ==
  ASSUME Inv, NEW w \in Writer, Change(w), UNCHANGED hvars
  PROVE  Inv'
<1> USE Types, Facts
<1>1. /\ UNCHANGED <<now, batch, began, checked, alive>>
      /\ writes' \in 0..MaxWrites
      /\ entry' \in {None, entry}
      /\ pc'[w] \in {"idle", "look", "forget"} /\ pc' = [pc EXCEPT ![w] = pc'[w]]
      /\ \A p \in Process \ {w} : val'[p] = val[p]
      /\ val' \in [Process -> Triple \union {None}]
      /\ RowChange
  <2>0. writes < MaxWrites => writes + 1 \in 0..MaxWrites BY ConfigAssumption
  <2>1. CASE BeginRequest(w)
    <3>1. writes' \in 0..MaxWrites BY <2>0, <2>1 DEF BeginRequest
    <3>2. /\ UNCHANGED <<now, row, entry, batch, val, began, left, checked, alive>>
          /\ pc' = [pc EXCEPT ![w] = "look"]
      BY <2>1 DEF BeginRequest, Goes, caches, hvars
    <3>. QED BY <3>1, <3>2 DEF RowChange
  <2>2. CASE Refuse(w)
    BY <2>2 DEF Refuse, Ends, Gets, Goes, caches, hvars, RowChange
  <2>3. ASSUME Remove(w), UNCHANGED now
        PROVE  /\ RowChange
               /\ pc'[w] \in {"idle", "forget"} /\ pc' = [pc EXCEPT ![w] = pc'[w]]
               /\ val' = [val EXCEPT ![w] = None]
    BY <2>3 DEF Remove, Ends, Gets, Goes, RowChange
  <2>4. CASE Delete(w)
    BY <2>0, <2>3, <2>4 DEF Delete, caches, hvars
  <2>5. CASE Forget(w)
    BY <2>5 DEF Forget, Goes, hvars, RowChange
  <2>6. ASSUME NEW body \in Bodies, Create(w, body) \/ Update(w, body)
        PROVE  /\ RowChange
               /\ pc'[w] \in {"idle", "forget"} /\ pc' = [pc EXCEPT ![w] = pc'[w]]
               /\ val' = [val EXCEPT ![w] = None]
               /\ UNCHANGED <<now, entry, batch, began, writes>>
    <3> DEFINE new == Merged(val[w], body)
    <3>1. pc[w] = "have" /\ Ordered(new) BY <2>6 DEF Create, Update
    <3>2. val[w] \in Configs BY <3>1 DEF Inv, ReadInv
    <3>3. new \in Configs BY <3>1, <3>2, MergedIsTriple DEF Configs
    <3> HIDE DEF new
    <3>4. UNCHANGED <<now, entry, batch, began, writes>> BY <2>6 DEF Create, Update, caches
    <3>5. \/ Remove(w)
          \/ Replace(new) /\ Gets(w, None, "forget")
          \/ UNCHANGED <<row, left>> /\ Ends(w)
          \/ UNCHANGED <<row, left>> /\ Gets(w, None, "forget")
      BY <2>6 DEF Create, Update, new
    <3>. QED BY <2>3, <3>3, <3>4, <3>5 DEF Ends, Gets, Goes, RowChange
  <2>. QED BY <2>1, <2>2, <2>4, <2>5, <2>6 DEF Change, hvars
<1>2. w \notin Thread OBVIOUS
<1>3. TypeOK'
  <2>1. row' \in Triple \union {None} BY <1>1, Frames DEF RowInv
  <2>2. \A c \in Consumer : pc'[c] = pc[c] BY <1>1, <1>2
  <2>3. pc' \in [Process -> {"idle", "look", "fill", "have", "batch", "work", "forget"}]
    BY <1>1
  <2>. QED BY <1>1, <2>1, <2>2, <2>3, Frames DEF Inv, TypeOK, ConfigTypeOK
<1>4. \A p \in Process : pc'[p] \in {"fill", "have", "work"} => p # w /\ pc'[p] = pc[p]
  BY <1>1
<1>5. ReadInv' BY <1>1, <1>4 DEF Inv, ReadInv
<1>6. EntryInv'
  <2>1. CASE entry' = None BY <2>1 DEF EntryInv
  <2>2. CASE entry' = entry BY <1>1, <2>2, Frames
  <2>. QED BY <1>1, <2>1, <2>2
<1>7. FillInv' /\ UseInv' /\ BatchInv' /\ RowInv' BY <1>1, <1>4, Frames
<1>. QED BY <1>1, <1>3, <1>5, <1>6, <1>7, Frames DEF Inv, TimeInv

LEMMA TickKeeps ==
  ASSUME Inv, Tick, UNCHANGED hvars
  PROVE  Inv'
<1> USE Types, Facts
<1>1. /\ now < MaxTime /\ now' = now + 1 /\ RowChange
      /\ UNCHANGED <<row, batch, pc, val, began, left, writes, checked, alive>>
      /\ \A p \in Process : pc[p] \in {"idle", "batch", "work"}
      /\ entry' = IF entry # None /\ entry.until <= now + 1 THEN None ELSE entry
  BY DEF Tick, hvars, RowChange
<1>2. now' \in Time /\ now' >= now BY <1>1 DEF Time
<1>3. TypeOK' BY <1>1, <1>2 DEF Inv, TypeOK, ConfigTypeOK
<1>4. TimeInv' BY <1>1, <1>2, Frames DEF TimeInv
<1>5. ReadInv' /\ FillInv' BY <1>1 DEF Inv, ReadInv, FillInv
<1>6. EntryInv'
  <2>1. ASSUME entry # None, entry.until > now + 1
        PROVE  /\ entry.config \in Configs /\ InForceSince(entry.config, entry.until - TTL)
               /\ entry.until <= (now + 1) + TTL
    <3>1. entry.until \in Int BY <2>1
    <3>. QED BY <2>1, <3>1 DEF Inv, EntryInv
  <2>2. entry' # None => entry # None /\ entry' = entry /\ entry.until > now + 1
    <3>1. entry # None => entry.until \in Int OBVIOUS
    <3>. QED BY <1>1, <3>1
  <2>. QED BY <1>1, <2>1, <2>2 DEF EntryInv, InForceSince, InForce
<1>. QED BY <1>1, <1>2, <1>3, <1>4, <1>5, <1>6, Frames DEF Inv

LEMMA IngestKeeps ==
  ASSUME Inv, NEW c \in Consumer, NEW h \in Host, Ingest(c, h)
  PROVE  Inv'
<1> USE Types, Facts
<1>1. /\ UNCHANGED <<now, row, entry, batch, began, left, writes, alive>> /\ RowChange
      /\ pc' = [pc EXCEPT ![c] = "batch"] /\ val' = [val EXCEPT ![c] = None]
      /\ checked' \in [Host -> Time]
  <2>1. checked' \in [Host -> Time]
    BY DEF Ingest
  <2>. QED BY <2>1 DEF Ingest, Gets, Goes, caches, RowChange
<1>2. TypeOK' BY <1>1 DEF Inv, TypeOK, ConfigTypeOK
<1>3. \A p \in Process : pc'[p] \in {"fill", "have", "work"} =>
        pc'[p] = pc[p] /\ val'[p] = val[p]
  BY <1>1
<1>4. ReadInv' BY <1>3 DEF Inv, ReadInv
<1>5. EntryInv' /\ BatchInv' /\ FillInv' /\ UseInv' BY <1>1, <1>3, Frames
<1>. QED BY <1>1, <1>2, <1>4, <1>5, Frames DEF Inv, TimeInv

LEMMA JobKeeps ==
  ASSUME Inv, NEW j \in Job,
         StartJob(j) \/ StartReaping(j) \/ EndReaping(j) \/ \E h \in Host : Reap(j, h)
  PROVE  Inv'
<1> USE Types, Facts
<1>1. /\ UNCHANGED <<now, row, entry, batch, left, writes, checked>> /\ RowChange
      /\ pc' = [pc EXCEPT ![j] = pc'[j]] /\ val' = [val EXCEPT ![j] = val'[j]]
      /\ began' = [began EXCEPT ![j] = began'[j]] /\ began'[j] \in {began[j], now, 0}
      /\ alive' \in [Host -> BOOLEAN]
  <2>1. CASE StartJob(j)
    <3>1. /\ UNCHANGED <<now, row, entry, batch, left, writes, checked, alive>>
          /\ began' = [began EXCEPT ![j] = now]
      BY <2>1 DEF StartJob, caches, hvars
    <3>2. CASE row # None /\ Goes(j, "look") /\ UNCHANGED val
      BY <3>1, <3>2 DEF Goes, RowChange
    <3>3. CASE row = None /\ Gets(j, Default, "have")
      BY <3>1, <3>3 DEF Gets, Goes, RowChange
    <3>. QED BY <2>1, <3>2, <3>3 DEF StartJob
  <2>2. CASE StartReaping(j)
    BY <2>2 DEF StartReaping, Goes, caches, hvars, RowChange
  <2>3. CASE EndReaping(j)
    BY <2>3 DEF EndReaping, Ends, Gets, Goes, caches, hvars, RowChange
  <2>4. CASE \E h \in Host : Reap(j, h)
    BY <2>4 DEF Reap, cvars, caches, RowChange
  <2>. QED BY <2>1, <2>2, <2>3, <2>4
<1>2. \/ pc'[j] \in {"look", "idle"} /\ val'[j] \in {val[j], None}
      \/ pc'[j] = "have" /\ val'[j] = Default /\ row = None /\ began'[j] = now
      \/ pc'[j] = "work" /\ pc[j] \in {"have", "work"} /\ val'[j] = val[j] /\ began'[j] = began[j]
  <2>1. CASE StartJob(j)
    BY <2>1 DEF StartJob, Gets, Goes
  <2>2. CASE StartReaping(j)
    BY <2>2 DEF StartReaping, Goes
  <2>3. CASE EndReaping(j)
    BY <2>3 DEF EndReaping, Ends, Gets, Goes
  <2>4. CASE \E h \in Host : Reap(j, h)
    BY <2>4 DEF Reap, cvars
  <2>. QED BY <2>1, <2>2, <2>3, <2>4
<1>3. TypeOK'
  <2>1. began'[j] \in Time BY <1>1 DEF Time
  <2>2. \A c \in Consumer : pc'[c] = pc[c] BY <1>1
  <2>. QED BY <1>1, <1>2, <2>1, <2>2, SMTT(60) DEF Inv, TypeOK, ConfigTypeOK
<1>4. TimeInv'
  <2>1. \A t \in Thread : began'[t] <= now BY <1>1 DEF Time
  <2>. QED BY <1>1, <2>1, Frames DEF TimeInv
<1>5. ReadInv' BY <1>1, <1>2 DEF Inv, ReadInv
<1>6. EntryInv' /\ FillInv' BY <1>1, <1>2, Frames
<1>7. BatchInv' BY <1>1 DEF Inv, BatchInv, InForceSince, InForce
<1>8. UseInv'
  <2>1. now >= now - TTL OBVIOUS
  <2>2. row = None => InForceSince(Default, now - TTL)
    BY DEF InForceSince, InForce
  <2>3. \A t \in Thread \ {j} : pc'[t] = pc[t] /\ val'[t] = val[t] /\ began'[t] = began[t]
    BY <1>1
  <2>4. UNCHANGED <<row, left>> BY <1>1
  <2>5. ASSUME NEW t \in Thread, pc'[t] \in {"have", "work"}
        PROVE  InForceSince(val'[t], began'[t] - TTL)
    BY <1>2, <2>2, <2>3, <2>5 DEF Inv, UseInv
  <2>. QED BY <2>4, <2>5 DEF UseInv, InForceSince, InForce
<1>. QED BY <1>1, <1>3, <1>4, <1>5, <1>6, <1>7, <1>8, Frames DEF Inv

LEMMA NextInv == Inv /\ [Next]_vars => Inv'
<1> SUFFICES ASSUME Inv, [Next]_vars PROVE Inv' OBVIOUS
<1>1. CASE ConfigNext /\ UNCHANGED hvars
  <2>1. Consumer \subseteq Process /\ Writer \subseteq Process BY Facts
  <2>. QED BY <1>1, ReadKeeps, BatchKeeps, ChangeKeeps, TickKeeps DEF ConfigNext
<1>2. CASE \E c \in Consumer, h \in Host : Ingest(c, h) BY <1>2, IngestKeeps
<1>3. CASE \/ \E j \in Job : StartJob(j) \/ StartReaping(j) \/ EndReaping(j)
           \/ \E j \in Job, h \in Host : Reap(j, h)
  BY <1>3, JobKeeps
<1>4. CASE UNCHANGED vars
  <2>1. UNCHANGED <<now, row, entry, batch, pc, val, began, left, writes, checked, alive>>
    BY <1>4 DEF vars, cvars, hvars, caches
  <2>2. TypeOK' BY <2>1 DEF Inv, TypeOK, ConfigTypeOK
  <2>. QED BY <2>1, <2>2 DEF Inv, RowInv, TimeInv, ReadInv, EntryInv, BatchInv, FillInv,
                             UseInv, InForceSince, InForce
<1>. QED BY <1>1, <1>2, <1>3, <1>4 DEF Next

LEMMA Invariant == Spec => []Inv
BY InitInv, NextInv, PTL DEF Spec

(* Type correctness; a consumer keeps no configuration between batches     *)
(* (ThreadLocalBatchCache).                                                *)
THEOREM TypeCorrect == Spec => []TypeOK
<1>1. Inv => TypeOK BY DEF Inv
<1>. QED BY <1>1, Invariant, PTL

(* The row is in order whatever requests overlap and whatever they have    *)
(* read in a cache (_validate_input_data).                                 *)
THEOREM ConfigCorrect == Spec => []ConfigOrdered
<1>1. Inv => ConfigOrdered BY Facts DEF Inv, RowInv, ConfigOrdered
<1>. QED BY <1>1, Invariant, PTL

(* Hosts are given up by a configuration in force not longer ago than the  *)
(* time to live of the cache (get_staleness_obj in the jobs and in         *)
(* find_non_culled_hosts).                                                 *)
THEOREM GivenUpCorrect == Spec => GivenUpInForce
<1>1. ASSUME Inv, NEW j \in Job, NEW h \in Host, Reap(j, h)
      PROVE  \E c \in Configs : /\ InForceSince(c, began[j] - TTL)
                               /\ checked[h] + c["delete"] <= began[j]
  <2>1. /\ val[j] \in Configs /\ InForceSince(val[j], began[j] - TTL)
        /\ SelectedByJob(val[j], {"culled"}, checked[h], began[j])
    BY <1>1, Facts DEF Reap, Inv, ReadInv, UseInv
  <2>2. /\ val[j] \in [Field -> Int] /\ Ordered(val[j])
        /\ checked[h] \in Int /\ began[j] \in Int /\ val[j]["delete"] \in Int
    <3>1. val[j] \in [Field -> Int] /\ Ordered(val[j]) BY <2>1, Facts
    <3>2. checked[h] \in Int /\ began[j] \in Int BY <1>1, Types, Facts
    <3>. QED BY <3>1, <3>2 DEF Field
  <2>3. {"culled"} \subseteq States BY DEF States, State
  <2>4. StateOf(val[j], checked[h], began[j]) = "culled" BY <2>1, <2>2, <2>3, FiltersAgree
  <2>5. began[j] - checked[h] >= val[j]["delete"]
    <3>1. /\ val[j]["stale"] \in Int /\ val[j]["warning"] \in Int BY <2>2 DEF Field
    <3>. QED BY <2>2, <2>4, <3>1 DEF StateOf, Ordered
  <2>. QED BY <2>1, <2>2, <2>5
<1>2. ASSUME Inv, NEW c \in Consumer, NEW h \in Host, Ingest(c, h), checked'[h] # now
      PROVE  \E x \in Configs : /\ InForceSince(x, began[c] - TTL)
                               /\ StateOf(x, checked[h], now) = "culled"
  <2>1. val[c] \in Configs /\ InForceSince(val[c], began[c] - TTL)
    BY <1>2, Facts DEF Ingest, Inv, ReadInv, UseInv
  <2>2. checked[h] \in Int /\ now \in Int /\ val[c] \in [Field -> Int] /\ Ordered(val[c])
    BY <1>2, <2>1, Types, Facts
  <2>3. Selects(val[c], {"culled"}, checked[h], now)
    BY <1>2, Types DEF Ingest
  <2>4. {"culled"} \subseteq States BY DEF States, State
  <2>5. StateOf(val[c], checked[h], now) = "culled" BY <2>2, <2>3, <2>4, FiltersAgree
  <2>. QED BY <2>1, <2>5
<1>3. Inv /\ [Next]_vars =>
        [/\ \A j \in Job, h \in Host : Reap(j, h) =>
          \E c \in Configs : /\ InForceSince(c, began[j] - TTL)
                            /\ checked[h] + c["delete"] <= began[j]
         /\ \A c \in Consumer, h \in Host :
          Ingest(c, h) /\ checked'[h] # now =>
            \E x \in Configs : /\ InForceSince(x, began[c] - TTL)
                              /\ StateOf(x, checked[h], now) = "culled"]_vars
  BY <1>1, <1>2
<1>. QED BY <1>3, Invariant, PTL DEF Spec, GivenUpInForce
=============================================================================
