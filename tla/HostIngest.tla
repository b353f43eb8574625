----------------------------- MODULE HostIngest -----------------------------
(***************************************************************************)
(* Host deduplication: how a reported host finds the host it updates       *)
(* (add_host and find_existing_host of lib/host_repository.py), run by     *)
(* consumers that handle batches of reports, each in a database            *)
(* transaction of its own, READ COMMITTED and with no unique constraint on *)
(* the facts.                                                              *)
(*                                                                         *)
(* provider_id and provider_type come together (CanonicalFactsSchema), so  *)
(* the fact "provider" is the pair: two pairs that differ conflict. A host *)
(* without insights_id is stored with the default one, which conflicts.    *)
(***************************************************************************)
EXTENDS Naturals, Sequences, SequencesExt

CONSTANTS Consumer,
          Host,        \* host ids
          Vals,        \* the values of each fact
          IdFacts,     \* ID_FACTS, or ID_FACTS_USE_SUBMAN_ID, by priority
          Reports,     \* bound: the reports that come
          BatchMax,    \* bound of mq_db_batch_max_messages
          MaxWrites,   \* bound: reports written
          None         \* no value, no write

Fact == {"provider", "subman", "insights"}

Facts  == {r \in [Fact -> {None} \union UNION {Vals[f] : f \in Fact}] :
             \A f \in Fact : r[f] \in Vals[f] \union {None}}

(* A report carries at least one ID fact (Host.__init__). *)
Report == {r \in Facts : \E f \in Fact : r[f] # None}

Row  == [facts : Facts, at : Nat, live : BOOLEAN]
Todo == [host : Host, sets : Facts, report : Report, creates : BOOLEAN]

ASSUME IngestAssumption ==
  /\ Vals \in [Fact -> SUBSET UNION {Vals[f] : f \in Fact}]
  /\ IdFacts \in {<<"provider", "subman", "insights">>, <<"subman">>}
  /\ Reports \subseteq Report
  /\ BatchMax \in Nat \ {0}
  /\ MaxWrites \in Nat
  /\ None \notin Host \union Facts \union Row \union Todo

VARIABLES
  config, \* the flag hbi.dedup-ignore-insights-id, mq_db_batch_max_messages
  db,     \* committed hosts: facts, modified_on, not culled; None: no row
  txn,    \* the rows each consumer has written and not committed
  batch,  \* the hosts of processed_rows, oldest first
  objects,\* the facts of each consumer's objects: as loaded, then as assigned
  texts,  \* the hosts whose insights_id was assigned, as text, in the batch
  todo,   \* the host matched or created, to be flushed
  clock,  \* modified_on of the last write
  gone,   \* hosts whose row was deleted
  met     \* history: hosts and provider ids two consumers had at once

vars == <<config, db, txn, batch, objects, texts, todo, clock, gone, met>>

Config == [strict : BOOLEAN, batch : 1..BatchMax]

TypeOK ==
  /\ config \in Config
  /\ db    \in [Host -> Row \union {None}]
  /\ txn   \in [Consumer -> [Host -> Row \union {None}]]
  /\ batch \in [Consumer -> Seq(Host)]
  /\ objects \in [Consumer -> [Host -> Facts \union {None}]]
  /\ texts \in [Consumer -> SUBSET Host]
  /\ todo  \in [Consumer -> Todo \union {None}]
  /\ clock \in Nat
  /\ gone \subseteq Host
  /\ met \subseteq Host \union Vals["provider"]

NoRows == [h \in Host |-> None]

Visible(c, h) == IF txn[c][h] # None THEN txn[c][h] ELSE db[h]

-----------------------------------------------------------------------------
(* A stored fact that has a value and disagrees (the default insights_id   *)
(* is a value): contains_no_incorrect_facts_filter.                        *)
Disagrees(facts, r, f) == facts[f] # r[f] /\ (facts[f] # None \/ f = "insights")

(* Mutant: the immutable facts are searched alone, not with the others. *)
TogetherWithoutProvider(r, f) ==
  {g \in {f} \union (IF config.strict /\ f = "insights" THEN {"subman"} ELSE {}) : r[g] # None}

(* The facts searched together with an ID fact: the immutable ones and,    *)
(* for insights_id under the flag, the subscription manager id.            *)
Together(r, f) ==
  {g \in {f} \union ({"provider"} \cap ToSet(IdFacts))
             \union (IF config.strict /\ f = "insights" THEN {"subman"} ELSE {}) : r[g] # None}

Matches(facts, r, f) ==
  /\ \A g \in Together(r, f) : ~Disagrees(facts, r, g)
  /\ \E g \in Together(r, f) : facts[g] = r[g]

(* The batch's own hosts, as objects: insights_id as loaded from the        *)
(* database is a UUID, and equals no text.                                 *)
MatchesInMemory(c, h, r, f) ==
  /\ Matches(objects[c][h], r, f)
  /\ f = "insights" => h \in texts[c]

(* The ID facts of a report, as positions of IdFacts, strongest first      *)
(* (extract_immutable_and_id_facts).                                       *)
Keys(r) == {i \in DOMAIN IdFacts : r[IdFacts[i]] # None}

(* Mutant: the search starts at the weakest ID fact. *)
LastFound(r, found) ==
  LET hits == {i \in Keys(r) : found[IdFacts[i]] # None}
  IN IF hits = {} THEN None ELSE found[IdFacts[Max(hits)]]

(* Found by the first key with a match; None without any. *)
FirstFound(r, found) ==
  LET hits == {i \in Keys(r) : found[IdFacts[i]] # None}
  IN IF hits = {} THEN None ELSE found[IdFacts[Min(hits)]]

(* The first host of the batch that matches; culled hosts are not left out.*)
FindInMemory(c, r) ==
  LET found == [f \in Fact |->
        LET hits == {i \in DOMAIN batch[c] : MatchesInMemory(c, batch[c][i], r, f)}
        IN IF hits = {} THEN None ELSE batch[c][Min(hits)]]
  IN FirstFound(r, found)

(* Mutant: culled hosts are matched too. *)
CandidatesWithCulled(c, r, f) ==
  {h \in Host : Visible(c, h) # None /\ Matches(Visible(c, h).facts, r, f)}

Candidates(c, r, f) ==
  {h \in Host : /\ Visible(c, h) # None
                /\ Visible(c, h).live
                /\ Matches(Visible(c, h).facts, r, f)}

(* The most recently modified host that is not culled and matches. *)
FindInDb(c, r) ==
  LET found == [f \in Fact |->
        LET hits == Candidates(c, r, f)
        IN IF hits = {} THEN None
           ELSE CHOOSE h \in hits : \A g \in hits : Visible(c, g).at <= Visible(c, h).at]
  IN FirstFound(r, found)

FindExisting(c, r) ==
  IF FindInMemory(c, r) # None THEN FindInMemory(c, r) ELSE FindInDb(c, r)

-----------------------------------------------------------------------------
Init ==
  /\ config \in Config
  /\ db = NoRows
  /\ txn = [c \in Consumer |-> NoRows]
  /\ batch = [c \in Consumer |-> <<>>]
  /\ objects = [c \in Consumer |-> NoRows]
  /\ texts = [c \in Consumer |-> {}]
  /\ todo = [c \in Consumer |-> None]
  /\ clock = 0
  /\ gone = {} /\ met = {}

Unused(h) == db[h] = None /\ h \notin gone /\ \A c \in Consumer : txn[c][h] = None
                            /\ (todo[c] # None => todo[c].host # h)

(* Mutant: insights_id is assigned to the wrong column. *)
NewFactsSwapped(facts, r) ==
  [f \in Fact |-> IF facts[f] = r[f] THEN None
                  ELSE IF f = "subman" THEN r["insights"] ELSE r[f]]

(* The columns an update assigns: update_canonical_facts_columns.          *)
NewFacts(facts, r) == [f \in Fact |-> IF facts[f] # r[f] THEN r[f] ELSE None]

Assigned(facts, sets) == [f \in Fact |-> IF sets[f] # None THEN sets[f] ELSE facts[f]]

(* A row the session has an object for is not loaded again. *)
Object(c, h) == IF objects[c][h] # None THEN objects[c][h] ELSE Visible(c, h).facts

(* The hosts a consumer has loaded or made, and their provider ids. *)
InHand(objs) ==
  LET hosts == {h \in Host : objs[h] # None}
  IN hosts \union ({objs[h]["provider"] : h \in hosts} \ {None})

(* add_host: the search, then the object is changed or made, in memory.    *)
AddHost(c, r) ==
  /\ todo[c] = None
  /\ Len(batch[c]) < config.batch
  /\ clock + Quantify(Consumer, LAMBDA d : todo[d] # None) < MaxWrites
  /\ LET h    == FindExisting(c, r)
         sets == NewFacts(Object(c, h), r)
     IN IF h # None
          THEN /\ todo' = [todo EXCEPT ![c] =
                    [host |-> h, sets |-> sets, report |-> r, creates |-> FALSE]]
               /\ objects' = [objects EXCEPT ![c][h] = Assigned(Object(c, h), sets)]
          ELSE \E new \in Host :
                 /\ Unused(new)
                 /\ todo' = [todo EXCEPT ![c] =
                      [host |-> new, sets |-> r, report |-> r, creates |-> TRUE]]
                 /\ objects' = [objects EXCEPT ![c][new] = r]
  /\ met' = met \union UNION {InHand(objects'[c]) \cap InHand(objects[d]) : d \in Consumer \ {c}}
  /\ UNCHANGED <<db, txn, batch, texts, clock, config, gone>>

(* The flush after the report: an UPDATE waits for the row lock and writes *)
(* the assigned columns onto the row as it then is. If that was deleted    *)
(* meanwhile it fails, and the batch with it.                              *)
FlushHost(c) ==
  /\ todo[c] # None
  /\ LET h    == todo[c].host
         sets == todo[c].sets
         old  == Visible(c, h)
         new  == IF todo[c].creates THEN sets ELSE Assigned(old.facts, sets)
     IN /\ \A d \in Consumer \ {c} : txn[d][h] = None
        /\ todo[c].creates \/ old # None
        /\ txn' = [txn EXCEPT ![c][h] = [facts |-> new, at |-> clock + 1, live |-> TRUE]]
        /\ batch' = [batch EXCEPT ![c] = Append(@, h)]
        /\ texts' = [texts EXCEPT ![c] = IF sets["insights"] # None THEN @ \union {h} ELSE @]
  /\ todo' = [todo EXCEPT ![c] = None]
  /\ clock' = clock + 1
  /\ UNCHANGED <<db, objects, config, gone, met>>

EndBatch(c) ==
  /\ txn'   = [txn EXCEPT ![c] = NoRows]
  /\ batch' = [batch EXCEPT ![c] = <<>>]
  /\ objects' = [objects EXCEPT ![c] = NoRows]
  /\ texts' = [texts EXCEPT ![c] = {}]
  /\ todo'  = [todo EXCEPT ![c] = None]
  /\ UNCHANGED <<clock, config, gone, met>>

CommitBatch(c) ==
  /\ todo[c] = None /\ batch[c] # <<>>
  /\ db' = [h \in Host |-> Visible(c, h)]
  /\ EndBatch(c)

(* A deadlock, a failed flush, a dead process: the batch is rolled back.   *)
(* Its replay is a batch of its own.                                       *)
AbortBatch(c) ==
  /\ todo[c] # None \/ batch[c] # <<>>
  /\ EndBatch(c)
  /\ UNCHANGED db

(* A host that has not checked in for long enough is culled. *)
Cull(h) ==
  /\ db[h] # None /\ db[h].live
  /\ db' = [db EXCEPT ![h].live = FALSE]
  /\ UNCHANGED <<txn, batch, objects, texts, todo, clock, config, gone, met>>

Next ==
  \/ \E c \in Consumer :
       \/ \E r \in Reports : AddHost(c, r)
       \/ FlushHost(c) \/ CommitBatch(c) \/ AbortBatch(c)
  \/ \E h \in Host : Cull(h)

Spec == Init /\ [][Next]_vars

-----------------------------------------------------------------------------
(* provider_id is immutable (docs/index.md; IMMUTABLE_ID_FACTS): once a    *)
(* host has one, no report changes it, unless two consumers have had that  *)
(* host at once. Nothing guards it then: a consumer that loaded the host   *)
(* before it had one overwrites it.                                        *)
ProviderImmutable ==
  [][\A h \in Host \ met :
       db[h] # None /\ db[h].facts["provider"] # None
         => db'[h] = None \/ db'[h].facts["provider"] = db[h].facts["provider"]]_vars

(* With batches of one report, no two hosts that are not culled have the   *)
(* same provider_id (find_existing_host), unless two consumers have had    *)
(* reports or hosts with it at once, or have had one of the hosts: no      *)
(* constraint of the table keeps it unique.                                *)
ProviderUnique ==
  config.batch = 1 =>
    \A h, g \in Host \ met :
      /\ h # g /\ None \notin {db[h], db[g]}
      /\ db[h].live /\ db[g].live
      /\ db[h].facts["provider"] \notin met \union {None}
      => db[h].facts["provider"] # db[g].facts["provider"]

(* What the search is for, in the words of docs/index.md: a host fits a    *)
(* report by an ID fact both have with the same value, unless it has       *)
(* another provider_id (or, under the flag, another subscription manager   *)
(* id). The host updated is one that fits by the strongest fact that fits  *)
(* any host, and the last modified of those; without any, a new one. So it *)
(* is unless a host of the batch matches, which takes precedence.          *)
Fits(c, h, r, f) ==
  /\ Visible(c, h) # None /\ Visible(c, h).live
  /\ LET facts == Visible(c, h).facts IN
       /\ f \in ToSet(IdFacts) /\ r[f] # None /\ facts[f] = r[f]
       /\ "provider" \in ToSet(IdFacts) /\ r["provider"] # None
            => facts["provider"] \in {None, r["provider"]}
       /\ config.strict /\ f = "insights" /\ r["subman"] # None
            => facts["subman"] \in {None, r["subman"]}

StrongestFit ==
  [][\A c \in Consumer :
       LET t == todo'[c]
           better(f, g) == \E i, j \in DOMAIN IdFacts : i < j /\ IdFacts[i] = f /\ IdFacts[j] = g
       IN todo[c] = None /\ t # None =>
            \/ FindInMemory(c, t.report) # None
            \/ t.creates /\ \A h \in Host, f \in Fact : ~Fits(c, h, t.report, f)
            \/ \E f \in Fact :
                 /\ Fits(c, t.host, t.report, f)
                 /\ \A h \in Host, g \in Fact :
                      Fits(c, h, t.report, g) =>
                        \/ better(f, g)
                        \/ f = g /\ Visible(c, h).at <= Visible(c, t.host).at]_vars
=============================================================================
