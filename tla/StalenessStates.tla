--------------------------- MODULE StalenessStates ---------------------------
(***************************************************************************)
(* The staleness state of a host under a configuration, and the two        *)
(* filters that select hosts by sets of states: the one of the API and of  *)
(* the search of a reported host (app/staleness_states.py), over           *)
(* last_check_in + time, and the one of the jobs and of the check-ins of   *)
(* reporters (app/culling.py, staleness_to_conditions), over now - time.   *)
(*                                                                         *)
(* A configuration is a record of the three times, in the unit of time of  *)
(* its user; t is the time, and checked the last check-in.                 *)
(***************************************************************************)
EXTENDS Integers

Field == {"stale", "warning", "delete"}

(* validate_staleness: each time is less than the next. *)
Ordered(c) == c["stale"] < c["warning"] /\ c["warning"] < c["delete"]

State  == <<"fresh", "stale", "stale_warning", "culled">>
States == {State[i] : i \in 1..4}

(* The field whose time ends a state (_boundary). *)
Ending == <<"stale", "warning", "delete">>

StateOf(c, checked, t) ==
  LET idle == t - checked
  IN CASE idle < c["stale"] -> "fresh"
       [] idle >= c["stale"] /\ idle < c["warning"] -> "stale"
       [] idle >= c["warning"] /\ idle < c["delete"] -> "stale_warning"
       [] idle >= c["delete"] -> "culled"

(* The maximal runs of adjacent states of a set, as <<first, last>>. *)
Runs ==
  [S \in SUBSET States |->
     LET has(i) == i \in 1..4 /\ State[i] \in S
     IN {r \in (1..4) \X (1..4) :
           /\ r[1] <= r[2] /\ \A i \in r[1]..r[2] : has(i)
           /\ ~has(r[1] - 1) /\ ~has(r[2] + 1)}]

(* combined_filter *)
Selects(c, S, checked, t) ==
  \E r \in Runs[S] :
    /\ r[1] > 1 => t >= checked + c[Ending[r[1] - 1]]
    /\ r[2] < 4 => t < checked + c[Ending[r[2]]]

(* staleness_to_conditions; Conditions give (gt, lte) of a state, and      *)
(* stale_timestamp_filter puts now for the lte that fresh does not give.   *)
SelectedByJob(c, S, checked, t) ==
  \E r \in Runs[S] :
    /\ checked <= IF r[1] = 1 THEN t ELSE t - c[Ending[r[1] - 1]]
    /\ r[2] < 4 => checked > t - c[Ending[r[2]]]
=============================================================================
