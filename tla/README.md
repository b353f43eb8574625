# Host inventory: a TLA+ model

This directory models the Red Hat Insights host inventory (HBI), a service that
keeps one record per host of every organisation. It is written from the code in
`src/` (`app/`, `api/`, `lib/`, `jobs/`); line numbers are in `PROJECT.json`.
TLC checks the models on small instances; TLAPS proves the theorems for every
value of the constants.

## 1. Inventory

Several processes share one PostgreSQL database, one Redis and a Kafka cluster:
the API (`api/`), the message consumers (`app/queue/`), and the jobs (`jobs/`).
None of them takes an application-level lock. PostgreSQL runs READ COMMITTED,
and most tables have no constraint beyond their keys, so what is correct rests
on the order in which each process commits, announces and acknowledges.

| component | state | operations | hard behaviour | what makes it correct |
|---|---|---|---|---|
| **Outbox to Kessel** (`lib/host_outbox_events.py`, `lib/outbox_repository.py`) | identity map and `pending_ops` of each session, outbox table | flush listeners, `before_commit`, `after_commit`, `after_rollback` | sessions interleave on a host; stale identity map; a flush inside the commit; rollbacks | Kessel knows exactly the hosts of the database, with their reported columns |
| **Consumer loop** (`HBIMessageConsumerBase`, `app/queue/host_mq.py`) | Kafka position and offset, `processed_rows`, transaction | consume, handle, flush, commit, announce, acknowledge, retry | crash at any step, replay, swallowed exceptions, repository functions that commit the session themselves | at-least-once: nothing accepted is lost, everything is announced before it is acknowledged, nothing blocks for ever |
| **Host deduplication** (`lib/host_repository.py`, `app/models/host.py`) | canonical facts, rows of the batch | `add_host`, `find_existing_host`, `update_canonical_facts_columns` | batch against database, priorities of facts, culled hosts, two consumers | a report reaches the host its strongest fact identifies; `provider_id` never changes |
| **System cache** (`api/cache.py`, `api/host.py`) | answers by key and generation, generation counter | `set_cached_system`, generation reads, invalidation, `cache_ingested_system` | slow readers, a lagging read replica, Redis errors, expiry, invalidation before or after the commit | an answer is behind the readers' database for at most the time to live, and not behind what that showed at an invalidation |
| **Host events and deletion** (`lib/host_delete.py`, `app/queue/host_mq.py`) | row, its lock, events topic | update and event, delete event and delete, reaper | events and commits in different orders, processes killed in between | no host disappears unannounced; no event of what was not committed |
| **Groups** (`lib/group_repository.py`) | `hosts_groups` and `Host.groups`, two records of one fact | add, remove, patch, rename, delete | several statements per transaction, rows read first and locked later | both records agree; a host is in one group |
| **Waiting for a workspace** (`wait_for_workspace_event`) | LISTEN connections, workspace topic | create in RBAC, LISTEN, look up, poll; consumer inserts and NOTIFYs | lost wake-ups, a killed consumer, timeouts | a waiter is woken, and finds the row |
| **Staleness configuration** (`api/staleness.py`, `app/models/utils.py`, `lib/batch_cache.py`) | a row per organisation, a Redis entry, a cache per consumer batch | POST, PATCH, DELETE; read through | a request validates against what a cache answers; a read racing with a change puts the old row back | the row is in order; a change is seen within the time to live |
| **Staleness states and culling** (`app/staleness_states.py`, `app/culling.py`, `jobs/host_reaper.py`) | `last_check_in`; time windows | filters over sets of states, one over `last_check_in + time`, one over `now - time`; consumer and reaper give hosts up | boundaries; two filters for one notion; a configuration read long before its use | each host is in one state for everybody; nobody is given up by a configuration long replaced |
| **Deduplication job** (`jobs/host_delete_duplicates.py`) | none | scan by id in chunks, search, delete | matching is not transitive; matches are collected over a chunk; ingest goes on | no duplicate is left, and of each chain of duplicates a newer host |
| **Stale host notifications** (`jobs/generate_stale_host_notifications.py`) | time of the last successful run | select the window since then, notify | truncated window; runs cut short or without hosts; check-ins between | each host that stays away has its turn, once |
| **Names, tags and reporters** (`app/models/host.py`) | display name and who gave it, `tags` and `tags_alt`, check-ins per reporter, system profile | report, patch | a fallback recognised by comparing values, two representations, reporters that replace each other | no stale name, both columns agree, no profile taken from a live reporter |
| **Events topic rebuilder** (`jobs/rebuild_events_topic.py`) | position in the topic | for every event of a host that is gone, a delete event | updaters that still announce | every event it passes is repaired |
| Group jobs (`lib/host_synchronize.py`, `jobs/*ungrouped*`, `jobs/delete_empty_org_groups.py`) | as Groups | assign, synchronise, delete empty groups | commits without flush; API requests meanwhile | as Groups and Outbox |
| Application data, views, exports, host queries, access control, serialization, notifications, configuration, migrations | see `components` in `PROJECT.json` | mostly reads, conversions and calls of other services | little | not modelled, reasons there |

The components meet in the database and on Kafka. An ingress message goes through
the consumer loop, which calls deduplication, whose flush feeds the outbox, and
after the commit updates the system cache and writes an event. A group request
changes two records of membership, which feeds the outbox and, after the commit,
writes events and invalidates the cache. A deletion announces and invalidates
before it commits. A request that needs a workspace waits for the consumer loop
of the workspace topic. Consumers and jobs give hosts up by the staleness
configuration that requests change. Each module below takes one of these components, with
the steps of its neighbours that can interfere.

## 2. Plan

The order was by weight: first what everything that writes hosts relies on
(`Outbox`), then the loop that drives ingestion (`MqBatch`, with its abstract
specification `AtLeastOnce`), what it calls (`HostIngest`) and what it feeds
(`SystemCache`, `HostEvents`), the requests that relate two records (`Groups`,
`WorkspaceWait`), and last what decides over the life of a host:
`StalenessStates`, `StalenessConfig` and `HostCulling` on top of it, `HostUpdate`,
`StaleNotifications`, `DedupJob` on top of `HostIngest`, and the rebuilder in
`HostEvents`. Eight modules of theorems stand beside them: one per module of a
run, but `HostUpdate` is proved about in `HostEvents_proofs` (both are about one
host), `WorkspaceWait` in `Groups_proofs` (both are about requests on groups) and
`HostIngest` in `DedupJob_proofs`, whose specification has its steps.

| module | extends | composed with |
|---|---|---|
| `Outbox`, `MqBatch`, `HostIngest`, `SystemCache`, `HostEvents`, `Groups`, `WorkspaceWait`, `HostUpdate` | community modules | their neighbours as actions |
| `AtLeastOnce` | | instantiated by `MqBatch` |
| `StalenessConfig`, `StaleNotifications` | `StalenessStates` | |
| `HostCulling` | `StalenessConfig` | configuration, caches, consumers and reaper |
| `DedupJob` | `HostIngest` | the job beside the consumers |
| `MC...` | the module of a run | values of the constants |
| `..._proofs` | the modules they are about | |

What is left: savepoints in `Outbox`, group creation in `Groups`, and what is true
of `Groups` when an addition, or a renaming by message, overlaps with a request that
cannot undo it.

## 3. Modules

Each module names its bounds in the comments of its CONSTANTS. Operators named
with the comment "Mutant:" are plausible bugs, used only to see that the
properties notice them; no specification uses them.

### Outbox, Outbox_proofs, MCOutbox

A session of SQLAlchemy is `was` (attributes as last loaded or flushed), `now`
(as the program sees them), `work` (rows written, not committed) and `ops`
(`session.info["pending_ops"]`). `Load`, `Drop`, `Add`, `Assign`, `Delete` are
what a program does with objects; `Flush` writes changed columns and runs the
listeners (`Tracked` is what they remember, by `OUTBOX_TRIGGER_FIELDS`); `Commit`
runs `before_commit` (`Handled`, both the list path and the batched one, and
`Reloaded`, which keeps attributes of the identity map), commits, and forgets
what is left over; `Rollback` forgets. `kessel` is the state Kessel reaches when
Debezium has delivered the log: delivery is external, in commit order.

Row locks make `Flush` wait; an UPDATE writes the changed columns only, which is
what lets two sessions interleave. Savepoints are left out.

### MqBatch, AtLeastOnce, MCMqBatch

One consumer process on one partition. `Poll`, `Handle...`, `CommitBatch`,
`Announce`, `Announced`, `Acknowledge` are the steps of `_process_batch` and
`_run_batch`; `Retry` is the `except` of `event_loop`; `Crash` and `Restart` may
come anywhere and any number of times, so the model has the crash loop too: an
error of a flush or a commit that the loop does not catch ends each process that
rereads the message. The handlers are those of ingress messages (`upsert`) and of
workspace messages (`create` in a savepoint; `update` and `delete` through
repository functions whose `session_guard` commits, or rolls back, everything the
session holds). A handler may also raise before or after it has written
(`HandleRefused`, `HandleStray`, `HandleGuardFails`), which is swallowed. Announcements
of a creation count to two (`Many`).

`AtLeastOnce` is what a partition is promised; `DeliverySpec` states that
`MqBatch` implements it, with `acked <- offset` and
`done <- settled \union dropped`.

### HostIngest, MCHostIngest

The search of `add_host`: `Keys` are the places of a report's ID facts in the order
of priority, `FirstFound` takes the match of the first of them, `Together` are those
searched with one of them, `Matches` the compound condition,
`FindInMemory` the hosts of the batch (where an `insights_id` loaded from the
database is a UUID and equals no text), `FindInDb` the database. `AddHost`
searches and changes the object; `FlushHost` writes the columns that differed
(`NewFacts`) onto the row as it is by then; `CommitBatch`, `AbortBatch`, `Cull`.
Consumers are any number (`deploy/clowdapp.yml:2561` starts several, of several
topics), each with the objects of its own session: `objects` are their facts, which a
query does not load again (`Object`), so what differs is decided by them and not by
the row. `met` is a history: the hosts, and the provider ids, that two consumers
have had at once.
`config` is the flag `hbi.dedup-ignore-insights-id` and the batch size.

### DedupJob, DedupJob_proofs

The job of `host_delete_duplicates.py` beside the consumers of `HostIngest`. It
loads the next hosts by id (`NextChunk`, any order of ids), searches for the
matches of each by the facts it loaded (`Search`: the first ID fact with a
match, culled hosts too) and deletes all but the newest of every search
(`DeleteBatch`). A host that is deleted can still be in the transaction of a
consumer (`gone` in `HostIngest`: its UPDATE finds no row).

### HostUpdate, HostEvents_proofs, MCHostUpdate

One host over any sequence of reports and patches: `Report` is `Host.update` with
`UpdateName` (and its `Fallback`), `UpdateTags` (both columns, with the elements
that survive a deletion during enumeration, `EverySecond`), `CheckIn` (a
reporter's entry replaces that of its predecessor) and the system profile, taken
over unless the reporter it defers to is live (`ReporterStale`).

### SystemCache, SystemCache_proofs, MCSystemCache

Entries by key and generation, the counter, their expiry, the read replica that
GET requests query (`shown`, `Replay`; `RoutingSession` of
`app/models/database.py`), and the steps of a
reader (`Look`, `QueryHost`, `PutHost`), of an API writer (`CommitPatch`,
`InvalidatePatched`), of a consumer (`CommitIngest`, `LocateEntry`, `PutHost`)
and of a deletion (`StartDelete`, `InvalidateDeleted`, `CommitDelete`). Redis may
fail at each call, which the code logs and ignores; a counter that cannot be read
counts as generation 0 (`LookFails`, `LocateEntry`). Without a replica the readers
see each commit at once, which is `Replay` right after it. Time passes between
requests only: requests are short against the time to live.

### HostEvents, HostEvents_proofs, MCHostEvents

One row, its lock and the events topic. Consumers and API requests find, write,
commit, check `host_exists`, publish; deletions and the reaper select, write,
publish, commit. A delivery can fail, which is logged (`failed`). A consumer that
dies starts its message again; one whose batch meets an error of the database
starts it again up to `MaxRetries` times (`Retry`, `Again`) and then goes on
without it; a message whose handler raises is passed over (`Refuse`). An API
request that fails is not repeated. The rebuilder
(`StartRebuild`, `SyncEvent`) reads the topic from its beginning and produces a
delete event for each event of a host that is gone.

### Groups, Groups_proofs, MCGroups

A request is a program of SQL statements, `todo`, that its reads extend: `Check`,
`Detach`, `Erase`, `Attach`, `Touch`, `Load`, `Store`, and for removals and
deletions `Drop`, `Leave`, `Gather`, `Try` (a savepoint, three attempts),
`Ungroup`. A DELETE picks rows first and locks them later. `CommitRequest` is the
end of `session_guard`, `Fail` any exception or deadlock. After it
`_produce_host_update_events` loads the hosts again and assigns the groups that were
serialized before the commit (`news`); where that differs the session has a write
left. A session that lives on commits it (`CommitEvents`): the batch of the
workspace consumer, whose update and deletion messages are the requests `update` and
`delete`, and the removal of hosts from one group after another; other requests end
with it dropped (`EndEvents`). Hosts are created and
deleted meanwhile. A deletion deletes one group; the code loops over several.
`Overlapping` says which kinds of request may run at once; a request counts until
its events are out.

### WorkspaceWait, Groups_proofs, MCWorkspaceWait

Waiters create the workspace in RBAC, LISTEN, look the group up, poll, or time
out; the consumer loop handles its batch message by message, replays it, gives
it up, or is killed and reads on from its committed offset. A message is the creation
of a workspace or a `Change`, the update or deletion of another one, reduced to
what its `session_guard` does to the session of the batch (`HandleChange`): commit
what is pending, roll it back, or nothing. `cut`, `undone` and `givenUp` are
history: groups that were there when their batch broke off before NOTIFY, groups
rolled back by another message of their batch, groups of batches given up.
The deletion of the very workspace that is waited for is left out, and so is a create
message that its handler refuses. RBAC, Kafka and PostgreSQL's LISTEN/NOTIFY are
external.

### StalenessStates, StalenessConfig, HostCulling, HostCulling_proofs, MCHostCulling

`StalenessStates` has the state of a host as the documentation names it
(`StateOf`) and the two filters that select hosts by sets of states, translated
each from its own code: `Selects` (`combined_filter`) and `SelectedByJob`
(`staleness_to_conditions`). `StalenessConfig` has the row, the Redis entry and
the batch cache: `LookInBatch`, `LookInRedis`, `Fill` are `get_staleness_obj`;
`BeginRequest`, `Create`, `Update`, `Delete`, `Refuse` and `Forget` are the
requests, which validate the body merged over what a cache answers and write it
whole. `HostCulling` adds the hosts: `Ingest`, and the reaper, which keeps
configuration and time of its start for the whole run.

### StaleNotifications, StaleNotifications_proofs, MCStaleNotifications

Time in ticks that are finer than the seconds of the job. `Start` selects the
hosts in the window since `last`, truncated (`LastRun`); each has its turn by
`Notify`, or by `Miss` if it fails the schema or Kafka does not take the
notification, which the job logs and forgets; `End`, `Fail`; `CheckIn` at any time.

## 4. Runs

| run | instance | what it shows |
|---|---|---|
| `outbox_concurrent` | 2 sessions, 1 host, 3 columns (2 reported), 2 values | Whatever two sessions do, Kessel knows the host exactly when it has a row (`PresenceInSync`), the commit that changes a reported column reports the new value (`ChangeReported`), and pending operations are about rows the transaction wrote (`OpsOfOwnWrites`). As long as they do not overlap on the host, Kessel equals the database (`InSyncWhenIsolated`). |
| `mq_delivery` | 3 messages, 2 subjects, batches of 1 or 2, 2 attempts, any number of crashes; an ingress partition and two workspace partitions | The loop implements `AtLeastOnce` (`DeliverySpec`); accepted reports are durable once acknowledged, announced before they are, and announced as created once; every message consumed is decided, unless processes die again and again (`EveryMessageDecided`). |
| `ingest_batches` | 2 consumers, 3 hosts, 2 providers, 2 subscription manager ids, 1 insights id, batches of 1 or 2, flag on and off, 3 reports, then the job with chunks of 2 | A report reaches the host that the documented rule names (`StrongestFit`, when no host of the batch matches); a host keeps its provider id (`ProviderImmutable`), and no two have the same without batches (`ProviderUnique`), unless two consumers have had the host or the provider id at once; after a run of the job beside which nothing was committed no host has a match, and each host deleted has a newer one left (`DuplicatesGone`). |
| `cache_fresh` | 1 reader, 2 API writers, 1 consumer, 1 deletion, 3 versions, time to live 2, 4 ticks, a replica with any lag, Redis may fail | An entry is behind the replica for at most the time to live (`StaleAtMostTTL`); what readers store under the present generation is no older than what the replica showed of the last invalidated version at its invalidation (`FreshAfterInvalidation`). |
| `events_announced` | 1 consumer, 1 patch, 1 deletion, 1 reaper, 4 versions, 2 attempts, 1 kill or failed request, the rebuilder | `GoneIsAnnounced`, `EventsOfCommitted`, what the rebuilder has passed is repaired (`RebuildRepairs`), and, with fairness, `IngestAnnounced`. |
| `groups_moves` | 2 requests at a time, 4 in all, 2 hosts, 3 groups, RBAC v2 on and off | Requests one at a time, and overlapping removals, renames by the API and deletions, with the writes their events leave behind, keep both records of membership equal (`InSync`); a deletion ungroups whoever is left in the group (`DeletedGroupUngroups`). |
| `wait_served` | 2 waiters, 2 workspaces, 1 change of another, batches of 1 or 2, 2 attempts, any number of kills | A waiter misses no NOTIFY (`WakeupPending`, unless the group is `cut`), who is answered finds the row (`AnsweredIsThere`, unless it is `undone`), and, with fairness, nobody else but those of groups given up needs the timeout (`EveryWaiterServed`). |

| `staleness_culling` | 1 consumer, 1 reaper, 2 requests, 1 host, 3 bodies, time to live 1, 3 seconds, Redis may fail | The row stays in order (`ConfigOrdered`); who gives a host up does so by a configuration in force at most the time to live before its batch or run began (`GivenUpInForce`). |
| `stale_notified` | 2 hosts, 8 ticks of half a second | Who stays away has its turn, to be told about or missed, and once if no run is cut short, but for the fraction of a second a window loses (`NotifiedOnce`). |
| `host_reports` | 4 reporters (one of RHSM, one with priority, one that replaces another), 1 name, 2 fqdns, 2 namespaces, 2 tags, 2 ticks | `NameFollows`, `TagsFound`, `DeferredKept`. |

Two runs refute a statement of the documentation or a comment; the statements are
quoted under `findings`.

| run | statement | what happens |
|---|---|---|
| `outbox_bare_commit` | a change of `groups` creates an outbox entry | A commit without a flush (`lib/host_synchronize.py:145`, `lib/admin_hosts.py:92`) finds no pending operation in `before_commit`, and the entry is never written. |
| `mq_given_up` | a batch given up is redelivered on restart | The next batch of the same process commits an offset past it. |

Further disagreements came up while modelling and are not kept as runs:

* Outbox: the reload in `before_commit` reports a stale column when sessions
  overlap (`lib/host_outbox_events.py:224`).
* Consumers: a workspace created by a message is notified although a later
  message of the batch rolled it back, or is not notified when the batch is
  replayed after a later message committed it (`app/queue/host_mq.py:760`), so that
  a request is answered without the row or runs into its timeout with it; a
  consumer that loaded a host before it had a `provider_id` overwrites the one that
  another has assigned meanwhile (`app/models/host.py:457`), which `docs/index.md:487`
  says can never be updated, and two that search at once both create a host with it
  (`lib/host_repository.py:91`), for no constraint of the table keeps it unique; a host of
  the same batch that matches by a weaker fact is found before the one with the
  report's `provider_id` (`lib/host_repository.py:91`).
* Cache: after a deletion a reader between its invalidation and its commit stores
  the host again (`lib/host_delete.py:83`); the generation counter can expire
  before its entries (`api/cache.py:125`); a lagging replica lets a reader store the
  old host under the new generation (`app/models/database.py:20`), and a reader that
  cannot read the counter hits entries of generation 0 (`api/cache.py:107`); the
  consumer's refresh leaves the entry
  with a forwarded identity (`app/queue/host_mq.py:1441`).
* Events: an updated event can follow the delete event
  (`app/queue/host_mq.py:1484`), an update committed by a consumer that is then killed
  is never announced if its message is given up or refused when it comes again
  (`:705`), a delete event can be out for a host that stays,
  and the reaper can remove a host that has checked in again
  (`lib/host_delete.py:82-83`).
* Groups: two additions do not see each other's insert and leave a host in two
  groups (`lib/group_repository.py:157`); an addition beside a removal leaves it
  in none (`:154`), beside a deletion in the deleted group's name (`:392`), beside a
  rename in the wrong one (`:83`). A renaming by workspace message assigns its group
  to the hosts once more after its commit (`:102`), and the batch commits it
  (`app/queue/host_mq.py:412`, `:617`): the column of a host moved or ungrouped in
  between names the old group again.
* Staleness: the merge of a PATCH over a cached configuration takes the fields it
  does not name back to what the cache had (`api/staleness.py:73`).
* Tags: elements of a deleted namespace survive in `tags_alt`
  (`app/models/host.py:552`), so a search by them still finds the host.
* Deduplication job: a report between two searches of a chunk can turn the order
  of two matching hosts, and both are deleted
  (`jobs/host_delete_duplicates.py:136`).

The models have the steps; the properties are stated so that they hold, and say
where they stop.

### Bounds

Every hazard of the list takes at most two actors and a few steps of each, so
two sessions, two requests, a batch of two plus one message more, and one or two
failures show it (`mq_delivery` bounds neither failures nor crashes); each property was seen violated when the corresponding line of the code
is changed in a plausible way (`mutants`), so the instances are large enough for
the property to bite. Three messages are needed for a second batch after one
given up; two columns reported and one not, for a write that Kessel must not be
told of; three hosts, for two that match and a new one; times 0 to 4
with a TTL of 2, for a counter that expires, is born again and meets entries of
its former life. One key of the cache is enough: keys share nothing but the counter,
and the proofs are for any keys. Half a second is
the coarsest tick that has a fraction to lose. `Many` in `StaleNotifications` lets
more notifications count as two. In `ingest_batches` a report has a provider and a
subscription manager id, or an insights id with or without the latter (`Reports`), and
three are begun (`MaxWrites`): two that overlap, and one that finds what they left. The
job starts once, after
two reports (`JobFrom`), between batches of one, and nothing happens after it;
chunks of two hosts of three make it meet a chain across chunks. The rebuilder
runs once, when the host is gone and nobody else deletes it. Identical actors and values
are symmetric where no liveness property is checked; outbox runs with
`InSyncWhenIsolated` use no symmetry.

`CHECK_DEADLOCK FALSE` stands where the instance really ends: messages, versions
or requests are used up (`mq_*`, `events_announced`, `groups_moves`,
`ingest_batches`, `wait_served`). The other runs never end and are checked for
deadlock.

### Fairness

* `MqBatch`: weak fairness of the loop's own steps and of `Restart`. The loop is
  `while not interrupt()` and Kubernetes restarts the process; crashes and
  exceptions are not fair. Nothing makes the code succeed: a batch may fail each
  time, which is why "decided" includes given up, and processes may die at one
  message for ever, which `EveryMessageDecided` exempts: it is about failures the
  loop retries.
* `HostEvents`: strong fairness per process, because a process that waits for a
  row lock is granted it when it is free infinitely often: PostgreSQL queues
  waiters. Failures are bounded, not fair. `IngestAnnounced` exempts a message
  that is given up or refused after the consumer was killed.
* `WorkspaceWait`: weak fairness of the consumer's steps and of each waiter's
  own and of `Restart`, none of timeouts, failures and kills. The timeout of the
  code always comes; leaving it out lets `EveryWaiterServed` say who needs it: only
  those whose group was cut off, undone or given up, or while consumers are killed
  for ever.
* Elsewhere nothing must happen, and no fairness is assumed.

## 5. Proofs

`Outbox_proofs` proves, from `OutboxAssumption` (columns, and `None` and `Absent`
distinct from rows and payloads) and for any sets of sessions, hosts, columns
and values:

* `TypeCorrect`: `Spec => []TypeOK`. `TypeOK` is not inductive alone: that
  a flush produces a row needs `SessionInv`, which relates the identity map, the
  writes and the operations of each session.
* `OpsCorrect`: `Spec => []OpsOfOwnWrites`, a part of `SessionInv`.
* `PresenceCorrect`: `PresenceInSync`, for callers that flush (`~BareCommit`).
  `LockInv` adds that a row is written by one transaction at a time and that a row
  not yet in the database has an operation pending, so its commit reports it.
* `ChangeReportedCorrect`: `ChangeReported`, for callers that flush. `TellInv`:
  a reported column a transaction has changed has an operation pending, and
  the identity map holds the written value, even if its other columns are stale.
* `InSyncCorrect`: `InSyncWhenIsolated`, for callers that flush. `MapInv`: an
  image in the identity map mirrors the row, and a written row with no pending
  operation differs from the committed one in unreported columns only.
  `~BareCommit` is needed: `outbox_bare_commit` is the counterexample.

Both `before_commit` paths are covered, since `Batched` is any Boolean.

`MqBatch_proofs` proves, from `MqAssumption`, for any number of messages,
subjects, attempts and crashes, and any batch size:

* `TypeCorrect`: `Spec => []TypeOK`, with `LoopInv` (where the batch and the
  message to handle are, and at most one result per message handled).
* `DeliveryCorrect`: `Spec => DeliverySpec`, the refinement. `LoopInv` and
  `DoneInv`: all messages before the batch are decided, and so is the
  batch itself once it is announced.
* `DurableCorrect`: `Spec => []AcceptedIsDurable`. `DurableInv`: a batch writes
  only messages behind the offset, so a replay never takes a host back behind
  what was acknowledged.
* `AnnouncedCorrect`: `Spec => []AnnouncedBeforeOffset`. `AnnouncedInv`: every
  accepted message of the batch has a result until the result is announced.
* `CreatedCorrect`: `Spec => []CreatedOnce`. `CreatedInv`: one result at most
  calls a host new, its row is not in the database before the commit, and the
  announcement follows; so a replay finds the row, or nothing was announced.

The last three are about topics of reports (`Reports`); workspaces have topics of
their own (`MqAssumption`), of which the properties say nothing.

`HostCulling_proofs`, from `ConfigAssumption`, for any number of consumers, jobs,
requests and hosts, any bodies and any time to live:

* `FiltersAgree`, about the operators: for every ordered configuration, time and
  set of states `Selects` holds exactly if `StateOf` is in the set; so does
  `SelectedByJob` for a check-in up to that time, and never for a later one, which
  the API shows as fresh. It rests on `StatePosition` (a state is its place between two
  boundaries) and `RunAround` (each place of a set lies in one maximal run).
* `ConfigCorrect`: `ConfigOrdered`. `RowInv`, `EntryInv`, `BatchInv`: whatever is
  read anywhere is an ordered configuration.
* `GivenUpCorrect`: `Spec => GivenUpInForce`. `ReadInv`, `FillInv`, `EntryInv` and
  `UseInv` carry since when a value that was read, cached or kept for a run has
  been out of force: an entry of Redis for less than its life, one of the batch
  cache for what the entry was when the batch began.

`HostEvents_proofs`, from `EventsAssumption`, for any consumers, requests,
deletions and failures: `GoneCorrect`, `CommittedCorrect`, `RebuildCorrect` for
`GoneIsAnnounced`, `EventsOfCommitted`, `RebuildRepairs`. `LockInv`: a deletion
that is about to commit holds the lock and has announced the present version;
`HeldInv`: an updater announces a committed version; `CursorInv`: a rebuilder
runs when the host is gone.

`SystemCache_proofs`, from `CacheAssumption`, for any clients, keys and time to
live: `StaleCorrect` (`StaleAtMostTTL`) and `FreshCorrect`
(`FreshAfterInvalidation`), however far the replica lags behind. `HeldInv`: a
version that is about to be stored was not superseded on the replica before the
present second; `EntryInv`: an entry expires before its version has been superseded
there for `TTL`, belongs to no later generation than the counter's, and in the
counter's generation is no older than `floor`, unless it is of a former life of
the counter.

`DedupJob_proofs`, from `IngestAssumption` and `JobAssumption`, for any hosts,
values, reports, size of batches and of chunks:

* `StrongestCorrect`: `JobSpec => StrongestFit`, for any number of consumers, both
  orders of ID facts, the flag on or off. `TypeInv` has, beside the types, that no
  row is from the future and that a batch's hosts were written by it, so that the
  newest of the candidates exists and has a row. The search of the code (first key
  with a match, compound condition) is taken apart by lemmas and shown to select
  exactly a host that `Fits`.
* `ImmutableCorrect`: `JobSpec => ProviderImmutable`, and `UniqueCorrect`:
  `JobSpec => []ProviderUnique`, for any number of consumers, under `ByProvider` (the
  default order of ID facts; with `USE_SUBMAN_ID` nobody searches by the provider).
  `HandInv`: a session has objects for what it wrote or will write, and what two have
  at once is in `met`. `KeepInv`: what is written, or about to be, onto a host that
  has a provider keeps it, and the object has the provider of the row, so that a
  commit of another consumer changes neither unless the host is in `met`. `UniqueInv`:
  with batches of one a consumer sees what is committed, and the row it is about to
  write is apart from all others; two that commit the same provider id have had it at
  once. For what is in `met` both fail: each consumer assigns a provider the other does
  not see.
* `DuplicatesCorrect`: `JobSpec => []DuplicatesGone`, for any number of consumers,
  under `ByProvider`. `OriginInv`: no two hosts have rows of one time, and every row
  has an ID fact; `RunInv`: a host searched for has only matches that are marked or
  deleted, and whoever is marked or deleted has a newer host in a search it was
  found by. That a chain of those ends at a host that is left is well-founded
  recursion on the time of the rows, `Nat`.

`Groups_proofs`, from `GroupsAssumption`, for any hosts, groups, processes and
numbers of requests:

* `TypeCorrect`: `Spec => []TypeOK`, whatever requests overlap. `Shape`: programs
  keep their order (loads come last, an attempt is the head of its program), and
  there is an attempt to come whenever attempts are counted, so no fourth is made.
* `SyncCorrect`: `Spec => []InSync`, and `DeletionCorrect`:
  `Spec => DeletedGroupUngroups`, under `OnlyEmptying`: requests run alone, or
  removals, renamings by the API and deletions overlap as in `groups_moves` (two
  removals, two deletions, two renamings, a removal or a renaming with a deletion). That is
  where the code keeps the records equal; additions beside other requests do not
  (section 4). In `SyncInv` every request has an aim, the group it
  brings each host to: `Planned`, its statements follow the aim; `Written`, what
  it has written does; `ByKind`, removals and deletions aim at the ungrouped group
  alone, and a renaming holds the group's row before it writes hosts; `Reaches`,
  for a host that has an aim and is not yet there, a statement that will bring it
  there, or write its column, is still to run. Neither the programs left
  to run nor what is written says by itself what a commit will leave; together
  with the aim they do, and commits of the others leave it true (`GoodFrame`,
  `CommitSync`). What a request announces is its aim (`Tells`), and once committed it
  is what the column says (`Told`) until the session is through with it (`LateInv`):
  so the write its events leave behind changes nothing (`EventsSync`).

In the same module, from `WaitAssumption`, for any waiters and any sharing of
workspaces: `WaitTypeCorrect`, `WakeupCorrect` (`WakeupPending`) and
`AnsweredCorrect` (`AnsweredIsThere`). `BatchInv`: what is to be notified is
pending, committed or undone, and nothing is pending once it is notified; `WaitInv`:
who looks or waits listens, and hears only what is committed or undone.

In `HostEvents_proofs`, from `UpdateAssumption`, for any reporters, names and finite
set of tags: `NameCorrect`, `TagsCorrect`, `DeferredCorrect` for `NameFollows`,
`TagsFound`, `DeferredKept`. `SeenInv`: an entry of a reporter differs from its
last report only if a reporter that replaces it has reported since.

`StaleNotifications_proofs`, from `NotifyAssumption`, for any hosts, configuration
and ticks in a second: `NotifiedCorrect` (`NotifiedOnce`). `WindowInv`: whatever is
in the window of a run is in hand or has had its turn; `OnceInv`, `FoundInv`: who
has had its turn was stale by then, and is in no later window; `WindowEnds`:
a window loses less than a second.

Each of these modules also proves `TypeCorrect`, and `HostEvents_proofs`
`UpdateTypeCorrect` for `HostUpdate`.

Only model-checked: liveness. `EveryMessageDecided`, `IngestAnnounced` and
`EveryWaiterServed` stay with TLC, because liveness under fairness and statements
with ENABLED are out of the prover's reach, as is induction over data. Every
invariant and action property of the passing runs is a theorem, some of them
under the assumptions named above (`~BareCommit`, `ByProvider`, `OnlyEmptying`), which the instances of the runs satisfy.

## 6. Not modelled

Attributes that no property tells apart (facts by namespace, most of the system
profile, the contents of events) are abstracted away; so are logging, metrics
and the authorisation of requests. In the modules: savepoints of `Outbox` and
the listeners their rollback triggers; the deletion of several groups in one
request, the creation of groups and of the ungrouped group; `USE_SUBMAN_ID` and
its identity of host and subscription manager id; the merge of workloads; several
organisations (all state is per organisation); a configuration that changes
under `StaleNotifications`.

The components marked `not_modelled` in `PROJECT.json` have no state of their own
that a step of another could spoil: queries and filters (one SQL statement each;
a model would restate it), views, serialization and schemas (conversions),
access control and notifications (calls of other services), the export consumer
(a query and an upload in the loop of `MqBatch`), application data (an upsert
without condition), configuration and metrics, and the jobs and migrations that
were run once.

The map therefore covers a small share of the repository's lines. Most of its
Python, over a hundred thousand lines, is the API clients generated from the
OpenAPI document and the integration tests and data generators under
`src/iqe-host-inventory-plugin`, which call the service and are not part of it;
of the service itself (`app/`, `api/`, `lib/`, `jobs/`) most lines are the queries,
schemas and conversions above. The modules cover the parts where several
processes, or several steps, share state.
