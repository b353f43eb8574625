------------------------------- MODULE Groups -------------------------------
(***************************************************************************)
(* Hosts in groups (lib/group_repository.py). Membership is stored twice:  *)
(* in the table hosts_groups (assoc) and in the column groups of the host  *)
(* (column), which consumers of the events and the replica read. Requests  *)
(* of the API and workspace messages change both in one transaction of     *)
(* several statements, READ COMMITTED; nothing in the schema keeps a host  *)
(* in one group.                                                           *)
(*                                                                         *)
(* A request is a program of statements, todo, that its reads extend. A    *)
(* DELETE or UPDATE picks its rows first and gets their locks later, and   *)
(* then skips rows that are gone: it does not see rows inserted meanwhile. *)
(* PostgreSQL is external; waiting is a guard, and a deadlock, a broken    *)
(* constraint or a lost connection is Fail.                                *)
(***************************************************************************)
EXTENDS Naturals, Sequences, SequencesExt

CONSTANTS Proc,         \* API requests and the workspace consumer
          Host,
          Group,
          Ungrouped,    \* the "ungrouped hosts" group: never deleted
          Kinds,        \* the requests that run
          Overlapping,  \* the kinds, or pairs of kinds, that may run at once
          MaxRequests,  \* bound: requests started
          None,         \* a host not created yet; nothing written
          Absent        \* a deleted host

ASSUME GroupsAssumption ==
  /\ Ungrouped \in Group
  /\ Kinds \subseteq {"add", "remove", "patch", "rename", "update", "delete"}
  /\ \A pair \in Overlapping : pair \subseteq Kinds
  /\ MaxRequests \in Nat
  /\ None # Absent /\ {None, Absent} \cap Group = {}

Assoc == Host \X Group

VARIABLES
  groups,   \* the groups that exist
  assoc,    \* hosts_groups
  column,   \* Host.groups of each host, None or Absent without a row
  todo,     \* per request: the statements it has still to run
  request,  \* the kind of request each runs, or "idle"
  ins,      \* per request: associations inserted, not committed
  del,      \* per request: associations deleted, not committed
  cols,     \* per request: columns written, not committed
  held,     \* per request: group rows updated, not committed
  gone,     \* per request: group rows deleted, not committed
  tries,    \* per request: attempts of _remove_all_hosts_from_group
  news,     \* per process: the groups its hosts are to be announced with
  late,     \* the kind of the committed request each still announces, or "idle"
  started,  \* requests begun
  rbacV2    \* is_rbac_v2_enabled: groups are not timestamped here

tables  == <<groups, assoc, column>>
writes  == <<ins, del, cols, held, gone>>
events  == <<news, late>>
setting == <<started, rbacV2>>
vars    == <<tables, todo, request, writes, tries, events, setting>>

Statement ==
  [do : {"check", "detach", "attach", "drop", "leave", "touch", "load", "store",
         "gather", "try", "release", "ungroup"}, group : Group, on : SUBSET Host]
  \union [do : {"erase"}, group : Group, on : SUBSET Assoc]

TypeOK ==
  /\ groups \subseteq Group /\ assoc \subseteq Assoc
  /\ column \in [Host -> Group \union {None, Absent}]
  /\ todo \in [Proc -> Seq(Statement)]
  /\ request \in [Proc -> Kinds \union {"idle"}]
  /\ ins \in [Proc -> SUBSET Assoc] /\ del \in [Proc -> SUBSET Assoc]
  /\ cols \in [Proc -> [Host -> Group \union {None}]]
  /\ held \in [Proc -> SUBSET Group] /\ gone \in [Proc -> SUBSET Group]
  /\ tries \in [Proc -> 0..3]
  /\ news \in [Proc -> [Host -> Group \union {None}]]
  /\ late \in [Proc -> Kinds \union {"idle"}]
  /\ started \in 0..MaxRequests
  /\ rbacV2 \in BOOLEAN

NoCols == [h \in Host |-> None]

Row(h)          == column[h] \notin {None, Absent}
Seen(p)         == (assoc \ del[p]) \union ins[p]
SeenColumn(p, h) == IF cols[p][h] # None THEN cols[p][h] ELSE column[h]
Members(p, g)   == {h \in Host : <<h, g>> \in Seen(p)}
Others(p)       == Proc \ {p}

-----------------------------------------------------------------------------
(* Programs. *)
S(what, g, on) == [do |-> what, group |-> g, on |-> on]

(* _update_group_update_time: with RBAC v2 the workspace is not HBI's.     *)
Timestamp(g) == IF rbacV2 THEN <<>> ELSE <<S("touch", g, {})>>

(* _add_hosts_to_group, _remove_hosts_from_group and                       *)
(* _update_hosts_for_group_changes.                                        *)
AddHosts(g, hs)    == <<S("check", g, hs)>> \o Timestamp(g)
DropHosts(g, hs)   == <<S("drop", g, hs)>> \o Timestamp(g)
UpdateHosts(g, hs) == IF hs = {} THEN <<>> ELSE <<S("load", g, hs)>>

(* patch_group with host_ids: the members are read first, by themselves.   *)
Patch(p, g, new) ==
  LET existing == Members(p, g)
      removed  == existing \ new
  IN AddHosts(g, new \ existing) \o DropHosts(g, removed) \o AddHosts(Ungrouped, removed)
       \o <<S("touch", g, {})>> \o UpdateHosts(Ungrouped, removed) \o UpdateHosts(g, new)

(* Mutant: the group row is not written before the hosts are. *)
RenameUntouched(p, g) == UpdateHosts(g, Members(p, g))

(* patch_group with a name only. *)
Rename(p, g) == <<S("touch", g, {})>> \o UpdateHosts(g, Members(p, g))

(* Mutant: the associations are passed on, not their host_id. *)
DeleteGroupAssocs(p, g) ==
  <<S("gather", g, {}), S("ungroup", g, {})>>
    \o UpdateHosts(Ungrouped, {a \in Seen(p) : a[2] = g})

(* delete_group_list: the hosts to update are read before those to move.   *)
DeleteGroup(p, g) ==
  <<S("gather", g, {}), S("ungroup", g, {})>> \o UpdateHosts(Ungrouped, Members(p, g))

-----------------------------------------------------------------------------
Init ==
  /\ groups = Group
  /\ column \in [Host -> Group \union {None}]
  /\ assoc = {a \in Assoc : column[a[1]] = a[2]}
  /\ todo = [p \in Proc |-> <<>>] /\ request = [p \in Proc |-> "idle"]
  /\ ins = [p \in Proc |-> {}] /\ del = [p \in Proc |-> {}]
  /\ cols = [p \in Proc |-> NoCols]
  /\ held = [p \in Proc |-> {}] /\ gone = [p \in Proc |-> {}]
  /\ tries = [p \in Proc |-> 0] /\ started = 0 /\ rbacV2 \in BOOLEAN
  /\ news = [p \in Proc |-> NoCols] /\ late = [p \in Proc |-> "idle"]

(* A request about a group the API has found; those that would change the  *)
(* ungrouped group itself are refused.                                     *)
Begin(p, kind, g, hs) ==
  /\ request[p] = "idle" /\ late[p] = "idle" /\ started < MaxRequests
  /\ \A q \in Others(p), other \in Kinds :
       other \in {request[q], late[q]} => {kind, other} \in Overlapping
  /\ g \in groups
  /\ g = Ungrouped => kind = "add"
  /\ kind \in {"add", "remove"} => hs # {}
  /\ kind \in {"rename", "update", "delete"} => hs = {}
  /\ todo' = [todo EXCEPT ![p] =
       CASE kind = "add"    -> AddHosts(g, hs) \o UpdateHosts(g, hs)
         [] kind = "remove" -> <<S("leave", g, hs)>>
         [] kind = "patch"  -> Patch(p, g, hs)
         [] kind \in {"rename", "update"} -> Rename(p, g)
         [] kind = "delete" -> DeleteGroup(p, g)]
  /\ request' = [request EXCEPT ![p] = kind]
  /\ started' = started + 1
  /\ UNCHANGED <<tables, writes, tries, events, rbacV2>>

Runs(p, what) == todo[p] # <<>> /\ Head(todo[p]).do = what

(* The statement is done; those it has led to come next. *)
Then(p, next) == todo' = [todo EXCEPT ![p] = next \o Tail(@)]

(* validate_add_host_list_to_group and the query for present associations. *)
Check(p) ==
  /\ Runs(p, "check")
  /\ LET s == Head(todo[p]) IN
       /\ \A h \in s.on : Row(h)
       /\ Then(p, <<S("detach", s.group, s.on), S("attach", s.group, s.on \ Members(p, s.group))>>)
  /\ UNCHANGED <<tables, request, writes, tries, events, setting>>

(* Mutant: only the association with the ungrouped group is deleted.      *)
DetachUngrouped(p) ==
  /\ Runs(p, "detach")
  /\ LET s == Head(todo[p])
     IN Then(p, <<S("erase", s.group, {a \in Seen(p) : a[1] \in s.on /\ a[2] = Ungrouped /\ a[2] # s.group})>>)
  /\ UNCHANGED <<tables, request, writes, tries, events, setting>>

(* The associations with other groups are picked, then deleted (Erase).    *)
Detach(p) ==
  /\ Runs(p, "detach")
  /\ LET s == Head(todo[p])
     IN Then(p, <<S("erase", s.group, {a \in Seen(p) : a[1] \in s.on /\ a[2] # s.group})>>)
  /\ UNCHANGED <<tables, request, writes, tries, events, setting>>

(* _remove_hosts_from_group: the associations are picked; none without the *)
(* group.                                                                  *)
Drop(p) ==
  /\ Runs(p, "drop")
  /\ LET s == Head(todo[p])
     IN Then(p, <<S("erase", s.group, {a \in Seen(p) : a[1] \in s.on /\ a[2] = s.group /\ a[2] \in groups})>>)
  /\ UNCHANGED <<tables, request, writes, tries, events, setting>>

(* remove_hosts_from_group: the hosts picked move to the ungrouped group   *)
(* (an association somebody else deleted counts as removed all the same).  *)
Leave(p) ==
  /\ Runs(p, "leave")
  /\ LET s       == Head(todo[p])
         picked  == {a \in Seen(p) : a[1] \in s.on /\ a[2] = s.group /\ a[2] \in groups}
         removed == {a[1] : a \in picked}
     IN Then(p, <<S("erase", s.group, picked)>> \o Timestamp(s.group)
                  \o AddHosts(Ungrouped, removed) \o UpdateHosts(Ungrouped, removed))
  /\ UNCHANGED <<tables, request, writes, tries, events, setting>>

(* DELETE waits for whoever deletes the same rows, skips rows gone by then.*)
Erase(p) ==
  /\ Runs(p, "erase")
  /\ LET picked == Head(todo[p]).on IN
       /\ \A q \in Others(p) : del[q] \cap picked = {}
       /\ del' = [del EXCEPT ![p] = @ \union (picked \cap assoc)]
       /\ ins' = [ins EXCEPT ![p] = @ \ picked]
  /\ Then(p, <<>>)
  /\ UNCHANGED <<tables, request, cols, held, gone, tries, events, setting>>

(* INSERT: the key is free, host and group are there and stay (the foreign *)
(* keys lock them); whoever inserts or deletes the same is waited for.     *)
Attach(p) ==
  /\ Runs(p, "attach")
  /\ LET g   == Head(todo[p]).group
         new == {<<h, g>> : h \in Head(todo[p]).on}
     IN /\ new \cap Seen(p) = {}
        /\ new # {} => g \in groups
        /\ \A a \in new : Row(a[1])
        /\ \A q \in Others(p) : /\ new \cap (ins[q] \union del[q]) = {}
                                /\ new # {} => g \notin gone[q]
        /\ ins' = [ins EXCEPT ![p] = @ \union new]
  /\ Then(p, <<>>)
  /\ UNCHANGED <<tables, request, del, cols, held, gone, tries, events, setting>>

(* UPDATE of the group row: its timestamp or its name. *)
Touch(p) ==
  /\ Runs(p, "touch")
  /\ LET g == Head(todo[p]).group IN
       /\ \A q \in Others(p) : g \notin held[q] \union gone[q]
       /\ held' = [held EXCEPT ![p] = @ \union ({g} \cap groups)]
  /\ Then(p, <<>>)
  /\ UNCHANGED <<tables, request, ins, del, cols, gone, tries, events, setting>>

(* The group is serialized and the hosts that exist are loaded. A host is  *)
(* written if its column changes: the id, or the name, timestamp or count  *)
(* that go with it. The events will carry the same group.                  *)
Load(p) ==
  /\ Runs(p, "load")
  /\ LET s      == Head(todo[p])
         found  == {h \in s.on : Row(h)}
         differ == {h \in found : SeenColumn(p, h) # s.group}
     IN /\ s.group \in groups
        /\ \E more \in SUBSET (found \ differ) :
             Then(p, <<S("store", s.group, differ \union more)>>)
        /\ news' = [news EXCEPT ![p] = [h \in Host |-> IF h \in s.on THEN s.group ELSE news[p][h]]]
  /\ UNCHANGED <<tables, request, writes, tries, late, setting>>

Store(p) ==
  /\ Runs(p, "store")
  /\ LET s == Head(todo[p]) IN
       /\ \A h \in s.on : Row(h) /\ \A q \in Others(p) : cols[q][h] = None
       /\ cols' = [cols EXCEPT ![p] = [h \in Host |-> IF h \in s.on THEN s.group ELSE cols[p][h]]]
  /\ Then(p, <<>>)
  /\ UNCHANGED <<tables, request, ins, del, held, gone, tries, events, setting>>

(* _remove_all_hosts_from_group: the members to move, if the group exists. *)
Gather(p) ==
  /\ Runs(p, "gather")
  /\ LET g == Head(todo[p]).group IN
       IF g \in groups /\ Members(p, g) # {}
         THEN Then(p, <<S("try", g, Members(p, g))>>)
         ELSE Then(p, <<>>)
  /\ UNCHANGED <<tables, request, writes, tries, events, setting>>

(* Mutant: the members leave the group and join no other. *)
TryLeaving(p) ==
  /\ Runs(p, "try")
  /\ tries' = [tries EXCEPT ![p] = @ + 1]
  /\ LET s == Head(todo[p])
     IN Then(p, DropHosts(s.group, s.on) \o <<S("release", s.group, s.on)>>)
  /\ UNCHANGED <<tables, request, writes, events, setting>>

(* An attempt, in a savepoint: the members that still exist are moved.     *)
Try(p) ==
  /\ Runs(p, "try")
  /\ tries' = [tries EXCEPT ![p] = @ + 1]
  /\ LET s        == Head(todo[p])
         existing == {h \in s.on : Row(h)}
     IN Then(p, DropHosts(s.group, existing) \o AddHosts(Ungrouped, existing)
                  \o <<S("release", s.group, s.on)>>)
  /\ UNCHANGED <<tables, request, writes, events, setting>>

Release(p) ==
  /\ Runs(p, "release")
  /\ tries' = [tries EXCEPT ![p] = 0]
  /\ Then(p, <<>>)
  /\ UNCHANGED <<tables, request, writes, events, setting>>

(* InventoryException of the check, IntegrityError of the INSERT. *)
Broken(p) ==
  /\ Runs(p, "check") \/ Runs(p, "attach")
  /\ LET s == Head(todo[p])
     IN \E h \in s.on : ~Row(h) \/ (s.do = "attach" /\ <<h, s.group>> \in assoc \ del[p])

(* A host deleted meanwhile breaks the attempt: back to the savepoint, and *)
(* again, three times at most. Nothing was written before it.              *)
Retry(p) ==
  /\ tries[p] \in 1..2 /\ Broken(p)
  /\ \E i \in DOMAIN todo[p] :
       /\ todo[p][i].do = "release"
       /\ todo' = [todo EXCEPT ![p] = <<[@[i] EXCEPT !.do = "try"]>> \o SubSeq(@, i + 1, Len(@))]
  /\ ins' = [ins EXCEPT ![p] = {}] /\ del' = [del EXCEPT ![p] = {}]
  /\ held' = [held EXCEPT ![p] = {}]
  /\ UNCHANGED <<tables, request, cols, gone, tries, events, setting>>

(* DELETE of the group row, which no association may name: whoever adds or *)
(* deletes one is waited for.                                              *)
Ungroup(p) ==
  /\ Runs(p, "ungroup")
  /\ LET g == Head(todo[p]).group IN
       /\ {a \in assoc \ del[p] : a[2] = g} = {}
       /\ \A q \in Others(p) : /\ g \notin held[q] \union gone[q]
                               /\ \A a \in ins[q] : a[2] # g
       /\ gone' = [gone EXCEPT ![p] = @ \union ({g} \cap groups)]
  /\ Then(p, <<>>)
  /\ UNCHANGED <<tables, request, ins, del, cols, held, tries, events, setting>>

Finish(p) ==
  /\ todo' = [todo EXCEPT ![p] = <<>>]
  /\ request' = [request EXCEPT ![p] = "idle"]
  /\ ins'  = [ins  EXCEPT ![p] = {}] /\ del' = [del EXCEPT ![p] = {}]
  /\ cols' = [cols EXCEPT ![p] = NoCols]
  /\ held' = [held EXCEPT ![p] = {}] /\ gone' = [gone EXCEPT ![p] = {}]
  /\ tries' = [tries EXCEPT ![p] = 0]
  /\ UNCHANGED setting

(* The end of session_guard. The events follow.                            *)
CommitRequest(p) ==
  /\ request[p] # "idle" /\ todo[p] = <<>>
  /\ groups' = groups \ gone[p]
  /\ assoc'  = (assoc \ del[p]) \union ins[p]
  /\ column' = [h \in Host |-> IF Row(h) THEN SeenColumn(p, h) ELSE column[h]]
  /\ late' = [late EXCEPT ![p] = request[p]]
  /\ Finish(p)
  /\ UNCHANGED news

(* An exception of any statement, a deadlock: session_guard rolls back.    *)
Fail(p) ==
  /\ request[p] # "idle"
  /\ news' = [news EXCEPT ![p] = NoCols]
  /\ Finish(p)
  /\ UNCHANGED <<tables, late>>

(* _produce_host_update_events loads the hosts again and assigns the groups*)
(* of before the commit. The session writes those that have changed since, *)
(* and commits them if it lives on: the batch of workspace messages, or the*)
(* removal of hosts from several groups, with the next group.              *)
Lasting == {"remove", "update", "delete"}

CommitEvents(p) ==
  /\ late[p] \in Lasting
  /\ \E on \in SUBSET {h \in Host : news[p][h] # None /\ Row(h)} :
       /\ \A h \in on, q \in Others(p) : cols[q][h] = None
       /\ column' = [h \in Host |-> IF h \in on THEN news[p][h] ELSE column[h]]
  /\ news' = [news EXCEPT ![p] = NoCols] /\ late' = [late EXCEPT ![p] = "idle"]
  /\ UNCHANGED <<groups, assoc, todo, request, writes, tries, setting>>

(* An API request drops its session, a batch may be rolled back. *)
EndEvents(p) ==
  /\ late[p] # "idle"
  /\ news' = [news EXCEPT ![p] = NoCols] /\ late' = [late EXCEPT ![p] = "idle"]
  /\ UNCHANGED <<tables, todo, request, writes, tries, setting>>

(* add_host: a new host goes to the ungrouped group. *)
CreateHost(h) ==
  /\ column[h] = None
  /\ column' = [column EXCEPT ![h] = Ungrouped]
  /\ assoc' = assoc \union {<<h, Ungrouped>>}
  /\ UNCHANGED <<groups, todo, request, writes, tries, events, setting>>

(* _delete_host, with the locks it waits for: the host's associations and  *)
(* its row go together.                                                    *)
RemoveHost(h) ==
  /\ Row(h)
  /\ \A p \in Proc : /\ cols[p][h] = None
                     /\ \A a \in ins[p] \union del[p] : a[1] # h
  /\ column' = [column EXCEPT ![h] = Absent]
  /\ assoc' = {a \in assoc : a[1] # h}
  /\ UNCHANGED <<groups, todo, request, writes, tries, events, setting>>

Run(p) ==
  \/ Check(p) \/ Detach(p) \/ Drop(p) \/ Leave(p) \/ Erase(p) \/ Attach(p) \/ Touch(p)
  \/ Load(p) \/ Store(p) \/ Gather(p) \/ Try(p) \/ Release(p) \/ Retry(p) \/ Ungroup(p)

Next ==
  \/ \E p \in Proc :
       \/ \E kind \in Kinds, g \in Group, hs \in SUBSET Host : Begin(p, kind, g, hs)
       \/ Run(p) \/ CommitRequest(p) \/ Fail(p) \/ CommitEvents(p) \/ EndEvents(p)
  \/ \E h \in Host : CreateHost(h) \/ RemoveHost(h)

Spec == Init /\ [][Next]_vars

-----------------------------------------------------------------------------
GroupsOf(h) == {g \in Group : <<h, g>> \in assoc}

(* The two records of membership agree: every host is in exactly the group *)
(* its column names. It takes requests one at a time, or removals, renames *)
(* and deletions of the API that overlap as Overlapping allows: the locks  *)
(* order them. A request counts until its events are out and its session   *)
(* is committed or dropped for the last time: a workspace message writes   *)
(* its groups once more when its batch is committed. An addition, or a     *)
(* renaming by message, that overlaps with anything can break it.          *)
InSync == \A h \in Host : Row(h) => GroupsOf(h) = {column[h]}

(* Whoever is in a group when its deletion commits is ungrouped by it, be  *)
(* it moved, renamed or deleted meanwhile (docs/index.md: "All hosts need  *)
(* to belong to a group"; delete_group_list).                              *)
DeletedGroupUngroups ==
  [][\A h \in Host, g \in Group :
       <<h, g>> \in assoc /\ g \in groups \ groups' => <<h, Ungrouped>> \in assoc']_vars
=============================================================================
