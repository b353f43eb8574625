---------------------------- MODULE HostCulling ----------------------------
(***************************************************************************)
(* Who gives hosts up by the staleness configuration: the consumer, that   *)
(* makes a new host of a report about a culled one, and the reaper, that   *)
(* deletes culled hosts (jobs/host_reaper.py). One organisation. The       *)
(* events of a deletion are in HostEvents.                                 *)
(***************************************************************************)
EXTENDS StalenessConfig

CONSTANTS Host

VARIABLES
  checked,  \* last_check_in of each host
  alive     \* whether its row exists

hvars == <<checked, alive>>
vars  == <<cvars, hvars>>

TypeOK ==
  /\ ConfigTypeOK
  /\ checked \in [Host -> Time]
  /\ alive \in [Host -> BOOLEAN]

Init ==
  /\ ConfigInit
  /\ checked = [h \in Host |-> 0]
  /\ alive = [h \in Host |-> TRUE]

-----------------------------------------------------------------------------
(* A report about a host: the host is updated, unless it is culled; then   *)
(* a new host is made, and this one is left to the reaper.                 *)
Ingest(c, h) ==
  /\ c \in Consumer /\ pc[c] = "have" /\ alive[h]
  /\ checked' = IF Selects(val[c], {"culled"}, checked[h], now) THEN checked
                ELSE [checked EXCEPT ![h] = now]
  /\ Gets(c, None, "batch")
  /\ UNCHANGED <<now, row, caches, began, left, writes, alive>>

(* The reaper lists the organisations with a row and reads the             *)
(* configuration of those through the cache; the others have the defaults. *)
StartJob(j) ==
  /\ j \in Job /\ pc[j] = "idle"
  /\ IF row # None THEN Goes(j, "look") /\ UNCHANGED val ELSE Gets(j, Default, "have")
  /\ began' = [began EXCEPT ![j] = now]
  /\ UNCHANGED <<now, row, caches, left, writes, hvars>>

(* find_hosts_in_state: the filter is built once, for all chunks, with the *)
(* configuration and the time of the start.                                *)
StartReaping(j) ==
  /\ j \in Job /\ pc[j] = "have"
  /\ Goes(j, "work")
  /\ UNCHANGED <<now, row, caches, val, began, left, writes, hvars>>

Reap(j, h) ==
  /\ j \in Job /\ pc[j] = "work"
  /\ alive[h] /\ SelectedByJob(val[j], {"culled"}, checked[h], began[j])
  /\ alive' = [alive EXCEPT ![h] = FALSE]
  /\ UNCHANGED <<cvars, checked>>

(* No host is left, or the job is interrupted. *)
EndReaping(j) ==
  /\ j \in Job /\ pc[j] = "work"
  /\ Ends(j)
  /\ began' = [began EXCEPT ![j] = 0]
  /\ UNCHANGED <<now, row, caches, left, writes, hvars>>

ConfigNext ==
  \/ \E p \in Process : Read(p)
  \/ \E c \in Consumer : BeginBatch(c) \/ EndBatch(c)
  \/ \E w \in Writer : Change(w)
  \/ Tick

Next ==
  \/ ConfigNext /\ UNCHANGED hvars
  \/ \E c \in Consumer, h \in Host : Ingest(c, h)
  \/ \E j \in Job : StartJob(j) \/ StartReaping(j) \/ EndReaping(j)
  \/ \E j \in Job, h \in Host : Reap(j, h)

Spec == Init /\ [][Next]_vars

-----------------------------------------------------------------------------
(* Whoever gives a host up, the reaper that deletes it or the consumer     *)
(* that makes a new host of its report, does so by a configuration that    *)
(* was in force at most the time to live of the cache before its run, or   *)
(* batch, began, however requests, reads and failures of Redis overlap     *)
(* (get_staleness_obj in the jobs and in find_non_culled_hosts).           *)
GivenUpInForce ==
  [][/\ \A j \in Job, h \in Host : Reap(j, h) =>
          \E c \in Configs : /\ InForceSince(c, began[j] - TTL)
                            /\ checked[h] + c["delete"] <= began[j]
     /\ \A c \in Consumer, h \in Host :
          Ingest(c, h) /\ checked'[h] # now =>
            \E x \in Configs : /\ InForceSince(x, began[c] - TTL)
                              /\ StateOf(x, checked[h], now) = "culled"]_vars
=============================================================================
