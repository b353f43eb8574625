------------------------- MODULE StaleNotifications -------------------------
(***************************************************************************)
(* The job that notifies of hosts that have become stale since its last    *)
(* successful run (jobs/generate_stale_host_notifications.py), beside      *)
(* hosts that check in. One organisation with a configuration nobody       *)
(* changes; time is finer than the seconds the job counts in.              *)
(***************************************************************************)
EXTENDS StalenessStates

CONSTANTS Host,
          Config,   \* the configuration, in ticks
          Second,   \* ticks of a second
          MaxTime   \* bound: ticks that pass

Time == 0..MaxTime

Many == 2    \* bound: more notifications count as two

ASSUME NotifyAssumption ==
  /\ Config \in [Field -> Nat \ {0}] /\ Ordered(Config)
  /\ Second \in Nat \ {0} /\ MaxTime \in Nat

VARIABLES
  now,
  checked,  \* last_check_in of each host
  pc,       \* of the job
  began,    \* its start, job_start_time
  found,    \* the hosts it has still to tell about
  told,     \* notifications about a host since it last checked in
  missed,   \* history: hosts passed over, or whose notification was not
            \* delivered, since they last checked in
  last,     \* last_succeeded
  runs,     \* history: last_succeeded, with those before
  cut       \* a run was cut short: its hosts are told about again

vars == <<now, checked, pc, began, found, told, missed, last, runs, cut>>

TypeOK ==
  /\ now \in Time
  /\ checked \in [Host -> Time]
  /\ pc \in {"idle", "work"} /\ (pc = "idle" => found = {})
  /\ began \in Time
  /\ found \subseteq Host
  /\ told \in [Host -> 0..Many] /\ missed \subseteq Host
  /\ last \in runs /\ runs \subseteq Time
  /\ cut \in BOOLEAN

Init ==
  /\ now = 0 /\ checked = [h \in Host |-> 0]
  /\ pc = "idle" /\ began = 0 /\ found = {}
  /\ told = [h \in Host |-> 0] /\ missed = {}
  /\ last = 0 /\ runs = {0} /\ cut = FALSE

Tick ==
  /\ now < MaxTime
  /\ now' = now + 1
  /\ UNCHANGED <<checked, pc, began, found, told, missed, last, runs, cut>>

(* Host._update_last_check_in_date: the host reports. *)
CheckIn(h) ==
  /\ StateOf(Config, checked[h], now) # "culled"
  /\ checked' = [checked EXCEPT ![h] = now]
  /\ told' = [told EXCEPT ![h] = 0] /\ missed' = missed \ {h}
  /\ UNCHANGED <<now, pc, began, found, last, runs, cut>>

(* Mutant: the seconds since the last run are rounded up. *)
LastRunUp(t) == ((t - last + Second - 1) \div Second) * Second

(* _last_run_time_diff_in_sec truncates to seconds. *)
LastRun(t) == ((t - last) \div Second) * Second

(* find_stale_host_in_window *)
InWindow(h) ==
  LET end == now - Config["stale"]
  IN checked[h] > end - LastRun(now) /\ checked[h] <= end

(* Without hosts the run ends, and last_succeeded stays as it is.          *)
Start ==
  /\ pc = "idle"
  /\ found' = {h \in Host : InWindow(h)}
  /\ IF found' = {} THEN UNCHANGED <<pc, began>> ELSE pc' = "work" /\ began' = now
  /\ UNCHANGED <<now, checked, told, missed, last, runs, cut>>

(* The host is one of those the run is about: a host that has checked in   *)
(* since it was selected is told about all the same, which is not counted  *)
(* for its new absence.                                                    *)
Absent(h) == checked[h] + Config["stale"] <= began

(* send_notification waits for the delivery.                               *)
Notify(h) ==
  /\ pc = "work" /\ h \in found
  /\ found' = found \ {h}
  /\ told' = IF Absent(h) THEN [told EXCEPT ![h] = IF @ = Many THEN Many ELSE @ + 1] ELSE told
  /\ UNCHANGED <<now, checked, pc, began, missed, last, runs, cut>>

(* A host that does not pass the schema is passed over with a warning; a   *)
(* notification that is not delivered is logged by the callback, and the   *)
(* answer of write_event is ignored. The run goes on.                      *)
Miss(h) ==
  /\ pc = "work" /\ h \in found
  /\ found' = found \ {h}
  /\ missed' = IF Absent(h) THEN missed \union {h} ELSE missed
  /\ UNCHANGED <<now, checked, pc, began, told, last, runs, cut>>

End ==
  /\ pc = "work" /\ found = {}
  /\ pc' = "idle" /\ began' = 0
  /\ last' = began /\ runs' = runs \union {began}
  /\ UNCHANGED <<now, checked, found, told, missed, cut>>

(* Mutant: the hosts that are left stay selected. *)
FailKeeping ==
  /\ pc = "work"
  /\ pc' = "idle" /\ began' = 0 /\ cut' = TRUE
  /\ UNCHANGED <<now, checked, found, told, missed, last, runs>>

(* Another exception, or a kill: last_succeeded stays. *)
Fail ==
  /\ pc = "work"
  /\ pc' = "idle" /\ began' = 0 /\ found' = {} /\ cut' = TRUE
  /\ UNCHANGED <<now, checked, told, missed, last, runs>>

Next ==
  \/ Tick \/ Start \/ End \/ Fail
  \/ \E h \in Host : CheckIn(h) \/ Notify(h) \/ Miss(h)

Spec == Init /\ [][Next]_vars

-----------------------------------------------------------------------------
(* However often runs find nothing, overlap with check-ins or are cut      *)
(* short: a host that stays away and was stale by the last successful run  *)
(* has been told about, or passed over or not reached with a warning in    *)
(* the log, unless it became stale in the fraction of a second that the    *)
(* truncated window of the run after loses. It has its turn once, if no    *)
(* run was cut short: it is not told about twice, and a host whose turn    *)
(* was missed is not told about later either, since the run counts as      *)
(* successful (_last_run_time_diff_in_sec, find_stale_host_in_window, run).*)
NotifiedOnce ==
  \A h \in Host :
    LET stale == checked[h] + Config["stale"]
    IN /\ told[h] > 1 \/ (told[h] = 1 /\ h \in missed) => cut
       /\ stale <= last /\ (\A t \in runs : stale \notin (t + 1)..(t + Second - 1))
            => told[h] >= 1 \/ h \in missed
=============================================================================
