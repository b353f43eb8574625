------------------------------ MODULE DedupJob ------------------------------
(***************************************************************************)
(* The job that deletes duplicate hosts (jobs/host_delete_duplicates.py)   *)
(* beside the consumers of HostIngest. It goes through the hosts by id in  *)
(* chunks, searches for the matches of each host of a chunk by the facts   *)
(* it loaded, culled or not, and then deletes all but the newest of every  *)
(* search. last_check_in grows with modified_on here: nobody patches.      *)
(***************************************************************************)
EXTENDS HostIngest, FiniteSets

CONSTANTS ChunkSize,  \* script_chunk_size
          JobFrom     \* bound: reports written before the job starts

ASSUME JobAssumption == ChunkSize \in Nat \ {0} /\ JobFrom \in Nat

VARIABLES
  pc,       \* of the job, which runs once
  chunk,    \* hosts of the chunk to search for, with the facts as loaded
  marked,   \* hosts to delete
  scanned,  \* hosts of this chunk and those before
  before,   \* the committed hosts when the job began
  quiet     \* nothing was committed by others since

jobVars == <<pc, chunk, marked, scanned, before, quiet>>

JobTypeOK ==
  /\ TypeOK
  /\ pc \in {"idle", "scan", "done"}
  /\ DOMAIN chunk \subseteq scanned /\ \A h \in DOMAIN chunk : chunk[h] \in Facts
  /\ scanned \subseteq Host
  /\ marked \subseteq Host
  /\ before \in [Host -> Row \union {None}]
  /\ quiet \in BOOLEAN

JobInit ==
  /\ Init
  /\ pc = "idle" /\ chunk = <<>> /\ marked = {} /\ scanned = {}
  /\ before = NoRows /\ quiet = TRUE

Hosts == {h \in Host : db[h] # None}

(* find_matching_hosts: those found by the first key with a match. *)
Matching(rows, r) ==
  LET found == [f \in Fact |->
        {h \in Host : rows[h] # None /\ Matches(rows[h].facts, r, f)}]
      hits  == {i \in Keys(r) : found[IdFacts[i]] # {}}
  IN IF hits = {} THEN {} ELSE found[IdFacts[Min(hits)]]

(* All but the first, ordered by last_check_in. *)
Older(rows, found) == {h \in found : \E g \in found : rows[g].at > rows[h].at}

(* Bounds: it starts between batches of one report, late in the history.   *)
StartJob ==
  /\ pc = "idle" /\ Hosts # {}
  /\ config.batch = 1 /\ ~config.strict /\ clock >= JobFrom
  /\ \A c \in Consumer : todo[c] = None /\ batch[c] = <<>>
  /\ pc' = "scan"
  /\ before' = db /\ quiet' = TRUE
  /\ UNCHANGED <<vars, chunk, marked, scanned>>

(* The next hosts by id; the order of ids is any. A host created meanwhile *)
(* may come before or after.                                               *)
NextChunk ==
  /\ pc = "scan" /\ chunk = <<>> /\ marked = {}
  /\ \E S \in SUBSET (Hosts \ scanned) :
       /\ Cardinality(S) = ChunkSize \/ (Cardinality(S) \in 1..ChunkSize /\ S = Hosts \ scanned)
       /\ chunk' = [h \in S |-> db[h].facts]
       /\ scanned' = scanned \union S
  /\ UNCHANGED <<vars, pc, marked, before, quiet>>

(* Mutant: all matches but the host itself are duplicates. *)
SearchOthers(h) ==
  /\ h \in DOMAIN chunk
  /\ marked' = marked \union (Matching(db, chunk[h]) \ {h})
  /\ chunk' = [g \in DOMAIN chunk \ {h} |-> chunk[g]]
  /\ UNCHANGED <<vars, pc, scanned, before, quiet>>

Search(h) ==
  /\ h \in DOMAIN chunk
  /\ marked' = marked \union Older(db, Matching(db, chunk[h]))
  /\ chunk' = [g \in DOMAIN chunk \ {h} |-> chunk[g]]
  /\ UNCHANGED <<vars, pc, scanned, before, quiet>>

(* delete_batch: a transaction for each script_chunk_size of them; it      *)
(* waits for the locks of consumers.                                       *)
DeleteBatch ==
  /\ chunk = <<>> /\ marked # {}
  /\ \E S \in SUBSET marked :
       /\ Cardinality(S) = ChunkSize \/ (Cardinality(S) < ChunkSize /\ S = marked)
       /\ \A h \in S, c \in Consumer : txn[c][h] = None
       /\ db' = [h \in Host |-> IF h \in S THEN None ELSE db[h]]
       /\ gone' = gone \union S
       /\ marked' = marked \ S
  /\ UNCHANGED <<config, txn, batch, objects, texts, todo, clock, met, pc, chunk, scanned, before, quiet>>

(* No host is left with a greater id. *)
FinishJob ==
  /\ pc = "scan" /\ chunk = <<>> /\ marked = {}
  /\ \A h \in Hosts \ scanned : before[h] = None
  /\ pc' = "done"
  /\ UNCHANGED <<vars, chunk, marked, scanned, before, quiet>>

(* An interrupt between chunks, or an exception: Kafka is not there. *)
AbortJob ==
  /\ pc = "scan"
  /\ pc' = "done" /\ chunk' = <<>> /\ marked' = {} /\ scanned' = {}
  /\ before' = NoRows /\ quiet' = FALSE
  /\ UNCHANGED vars

(* Bound: nothing happens after the run, and no host is culled during it,  *)
(* which the job does not see.                                             *)
IngestNext ==
  \/ pc # "done" /\ \E c \in Consumer :
       \/ \E r \in Reports : AddHost(c, r)
       \/ FlushHost(c) \/ AbortBatch(c)
  \/ pc = "idle" /\ \E h \in Host : Cull(h)

JobNext ==
  \/ IngestNext /\ UNCHANGED jobVars
  \/ /\ pc # "done" /\ \E c \in Consumer : CommitBatch(c)
     /\ quiet' = (pc = "idle")
     /\ UNCHANGED <<pc, chunk, marked, scanned, before>>
  \/ StartJob \/ NextChunk \/ DeleteBatch \/ FinishJob \/ AbortJob
  \/ \E h \in Host : Search(h)

JobSpec == JobInit /\ [][JobNext]_<<vars, jobVars>>

-----------------------------------------------------------------------------
(* After a run in which nothing else was committed no host has a duplicate *)
(* any more, and every host deleted has a newer one that was left, if not  *)
(* a match of its own then through a chain of matches each newer than the  *)
(* last: matching is not transitive (matching_hosts[1:], collected over a  *)
(* chunk). Matches are those of the start.                                 *)
DuplicatesGone ==
  pc = "done" /\ quiet =>
    LET newer(h) == {g \in Host : \E k \in Host :
          /\ None \notin {before[h], before[g], before[k]}
          /\ {h, g} \subseteq Matching(before, before[k].facts)
          /\ before[g].at > before[h].at}
    IN /\ \A h \in Hosts : Matching(db, db[h].facts) = {h}
       /\ \A h \in Host, S \in SUBSET Host :
            /\ before[h] # None /\ h \in S
            /\ \A g \in S : newer(g) \subseteq S
            => S \cap Hosts # {}
=============================================================================
