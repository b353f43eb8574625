----------------------------- MODULE HostUpdate -----------------------------
(***************************************************************************)
(* One host over a sequence of reports and patches: its name, its tags in  *)
(* their two columns, the check-ins of its reporters and the owner of its  *)
(* system profile (Host in app/models/host.py, add_host). Which host a     *)
(* report is about is in HostIngest; the merge of workloads and the facts  *)
(* of namespaces are left out.                                             *)
(***************************************************************************)
EXTENDS Integers, Sequences, SequencesExt

CONSTANTS Reporter,
          Rhsm,      \* RHSM_REPORTERS
          Priority,  \* DISPLAY_NAME_PRIORITY_REPORTERS, without the API
          Older,     \* NEW_TO_OLD_REPORTER_MAP: the predecessor of a reporter
          API,       \* the reporter of a patch
          Name, Fqdn, Id,
          Namespace, Tag,
          Reports,   \* what reports carry: see UpdateAssumption
          Stale,     \* conventional_time_to_stale
          MaxTime,   \* bound: the time that passes
          Unset

Time == 0..MaxTime

ASSUME UpdateAssumption ==
  /\ Rhsm \subseteq Reporter /\ Priority \subseteq Reporter
  /\ DOMAIN Older \subseteq Reporter /\ \A r \in DOMAIN Older : Older[r] \in Reporter
  /\ \A m \in Reports :
       /\ m.reporter \in Reporter /\ m.name \in Name \union {Unset} /\ m.fqdn \in Fqdn \union {Unset}
       /\ DOMAIN m.tags \subseteq Namespace /\ \A n \in DOMAIN m.tags : m.tags[n] \subseteq Tag
       /\ m.deferred \in Reporter \union {Unset}
  /\ Stale \in Nat /\ MaxTime \in Nat
  /\ API \notin Reporter /\ Unset \notin Time \union Reporter \union Name \union Fqdn \union {API, Id}
  /\ IsFiniteSet(Tag)

VARIABLES
  now,
  fqdn, display,
  namer,    \* display_name_reporter
  tags,     \* per namespace its tags; none if it is not there
  alt,      \* tags_alt: per namespace its elements, which are adjacent
  per,      \* per_reporter_staleness: check-ins, Unset without
  profile,  \* whose system profile it is, and to whom the report deferred
  seen      \* when each reporter has last reported

nameVars   == <<fqdn, display, namer>>
tagVars    == <<tags, alt>>
repVars    == <<per, profile, seen>>
updateVars == <<now, nameVars, tagVars, repVars>>

UpdateTypeOK ==
  /\ now \in Time
  /\ fqdn \in Fqdn \union {Unset} /\ display \in Name \union Fqdn \union {Id}
  /\ namer \in Reporter \union {API, Unset}
  /\ tags \in [Namespace -> SUBSET Tag]
  /\ alt \in [Namespace -> Seq(Tag)]
  /\ \A n \in Namespace : \A i, k \in 1..Len(alt[n]) : alt[n][i] = alt[n][k] => i = k
  /\ per \in [Reporter -> Time \union {Unset}]
  /\ profile \in [by : Reporter, deferred : Reporter \union {Unset}]
  /\ seen \in [Reporter -> Time \union {Unset}]

-----------------------------------------------------------------------------
Given(t, n) == IF n \in DOMAIN t THEN t[n] ELSE {}

Flat(s) == SetToSeq(s)

(* create_new_host, with the defaults of the insert. *)
UpdateInit ==
  /\ now = 0
  /\ \E m \in Reports :
       /\ fqdn = m.fqdn
       /\ display = IF m.name # Unset THEN m.name ELSE IF m.fqdn # Unset THEN m.fqdn ELSE Id
       /\ namer = IF m.name # Unset THEN m.reporter ELSE Unset
       /\ tags = [n \in Namespace |-> Given(m.tags, n)]
       /\ alt = [n \in Namespace |-> Flat(Given(m.tags, n))]
       /\ per = [q \in Reporter |-> IF q = m.reporter THEN 0 ELSE Unset]
       /\ profile = [by |-> m.reporter, deferred |-> Unset]
       /\ seen = per

Tick == now < MaxTime /\ now' = now + 1 /\ UNCHANGED <<nameVars, tagVars, repVars>>

-----------------------------------------------------------------------------
(* _apply_display_name_fallback *)
Fallback(f) ==
  IF display \notin {fqdn, Id} THEN display
  ELSE IF f # Unset THEN f ELSE IF fqdn # Unset THEN fqdn ELSE Id

(* Mutant: the canonical facts are updated before the name. *)
UpdateNameLate(r, name, f) ==
  IF name # Unset THEN display' = name /\ namer' = r
  ELSE /\ display' = IF display \in {fqdn', Id}
                     THEN (IF f # Unset THEN f ELSE IF fqdn # Unset THEN fqdn ELSE Id)
                     ELSE display
       /\ UNCHANGED namer

(* update_display_name *)
UpdateName(r, name, f) ==
  CASE name = Unset -> display' = Fallback(f) /\ UNCHANGED namer
    [] name # Unset /\ r \in Rhsm /\ namer \in Priority \union {API} ->
         UNCHANGED <<display, namer>>
    [] OTHER -> display' = name /\ namer' = r

(* The elements that survive when a list is deleted from while it is       *)
(* enumerated: each deletion passes over the next one.                     *)
EverySecond(s) == [i \in 1..(Len(s) \div 2) |-> s[2 * i]]

(* Mutant: only the namespaces with tags are cleared before they are       *)
(* added again, and what is left is not looked at.                         *)
UpdateTagsAdding(t) ==
  /\ tags' = [n \in Namespace |-> IF n \in DOMAIN t THEN t[n] ELSE tags[n]]
  /\ alt' = [n \in Namespace |->
               IF Given(t, n) # {} THEN alt[n] \o Flat(t[n]) ELSE alt[n]]

(* _update_tags: a namespace with tags rebuilds tags_alt without those of  *)
(* the report, and adds them; a report of empty namespaces only deletes.   *)
UpdateTags(t) ==
  LET rebuilt == \E n \in DOMAIN t : t[n] # {}
  IN /\ tags' = [n \in Namespace |-> IF n \in DOMAIN t THEN t[n] ELSE tags[n]]
     /\ alt' = [n \in Namespace |->
                  IF n \notin DOMAIN t THEN alt[n]
                  ELSE IF rebuilt THEN Flat(t[n]) ELSE EverySecond(alt[n])]

(* reporter_stale *)
ReporterStale(r) == IF per[r] = Unset THEN TRUE ELSE now > per[r] + Stale

(* Mutant: the check-ins start anew with every report. *)
CheckInAlone(r) == per' = [q \in Reporter |-> IF q = r THEN now ELSE Unset]

(* _update_per_reporter_staleness *)
CheckIn(r) ==
  per' = [q \in Reporter |->
            IF q = r THEN now
            ELSE IF r \in DOMAIN Older /\ Older[r] = q THEN Unset ELSE per[q]]

(* add_host about the host: Host.update, with the system profile unless    *)
(* the reporter it defers to is not stale; a report may be without one.    *)
Report(m) ==
  /\ fqdn' = IF m.fqdn # Unset THEN m.fqdn ELSE fqdn
  /\ UpdateName(m.reporter, m.name, m.fqdn)
  /\ UpdateTags(m.tags)
  /\ \/ UNCHANGED profile
     \/ /\ m.deferred # Unset => ReporterStale(m.deferred)
        /\ profile' = [by |-> m.reporter, deferred |-> m.deferred]
  /\ CheckIn(m.reporter)
  /\ seen' = [seen EXCEPT ![m.reporter] = now]
  /\ UNCHANGED now

(* Host.patch: a name, or something else. *)
Patch(name) ==
  /\ UNCHANGED <<now, fqdn, tagVars, repVars>>
  /\ UpdateName(API, name, Unset)

UpdateNext ==
  \/ Tick
  \/ \E m \in Reports : Report(m)
  \/ \E name \in Name \union {Unset} : Patch(name)

UpdateSpec == UpdateInit /\ [][UpdateNext]_updateVars

-----------------------------------------------------------------------------
(* As long as nobody has given the host a name it goes by its fqdn, that   *)
(* of the last report that had one, or else by its id, whatever sequence   *)
(* of reports with and without fqdn and of patches it has seen             *)
(* (_apply_display_name_fallback compares with the fqdn before the report).*)
NameFollows == namer = Unset => display = IF fqdn # Unset THEN fqdn ELSE Id

(* Both columns of tags agree on every namespace the host has: a search by *)
(* tags_alt finds what the host shows, and nothing of an earlier report.   *)
(* What a namespace that was deleted has left in tags_alt is cleared when  *)
(* it comes again (_update_tags_alt; for namespaces that are not there     *)
(* _delete_tags_alt_namespace leaves elements).                            *)
TagsFound ==
  \A n \in Namespace : tags[n] # {} => ToSet(alt[n]) = tags[n] /\ Len(alt[n]) = Len(Flat(tags[n]))

(* A report that defers to a reporter takes the system profile over only   *)
(* if that reporter has been silent for the time to stale, however many    *)
(* others report in between, unless a reporter that replaces it has taken  *)
(* its place (docs/index.md, defer_to_reporter; reporter_stale over what   *)
(* _update_per_reporter_staleness has kept).                               *)
DeferredKept ==
  [][LET d == profile'.deferred
     IN profile' # profile /\ d # Unset =>
          \/ seen[d] = Unset \/ now > seen[d] + Stale
          \/ \E r \in DOMAIN Older : Older[r] = d /\ seen[r] # Unset /\ seen[r] >= seen[d]]_updateVars
=============================================================================
