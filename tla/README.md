# Verification of the photo-distribution platform

TLA+ models, TLC runs and TLAPS proofs for the services in `src/services`: a
multi-tenant backend (schools, staff, students, events, photos, galleries,
WhatsApp sharing) and an ML service (enrolment of reference faces, recognition
of students in event photos). `PROJECT.json` is the index: components, runs,
mutants, the map from definitions to source lines, findings, hazards and
theorems. This file is the text that goes with it.

    tlc -workers 2 -config pipeline_crash.cfg MCEventPipeline.tla
    tlc -workers 2 -config faiss_replicas.cfg MCFaissIndex.tla
    tlc -workers 2 -config student_lifecycle.cfg MCStudentLifecycle.tla
    tlc -workers 2 -config whatsapp_share.cfg MCWhatsAppShare.tla
    tlc -workers 2 -config gallery.cfg MCGallery.tla
    tlc -workers 2 -config accounts.cfg MCInsight.tla
    tlapm EventPipelineProofs.tla
    tlapm FaissIndexProofs.tla
    tlapm FaissContentsProofs.tla
    tlapm StudentLifecycleProofs.tla
    tlapm WhatsAppShareProofs.tla
    tlapm GalleryProofs.tla
    tlapm AccountsProofs.tla
    tlapm InsightProofs.tla

## 1. The system

Two Python services share one Postgres database, one Redis and one object
store; a Next.js frontend talks to the backend only. Every backend operation is
an async request handler whose database calls are one short transaction each:
between two awaits of one request, any step of any other request or worker may
happen. Nothing holds a database lock across awaits.

| Component | State it keeps | Operations | Hard behaviour |
|---|---|---|---|
| Event pipeline (`event_service`, `media_service`, `redis_producer`, `redis_streams`, `runner`, `inference.process_event`, `backend_store`) | `events.processing_status`, `enqueued_at`, `media.processing_status`, job stream, pending list, dead-letter stream | Process, register media, archive; reclaim, fetch, run, ack, nack, dead-letter; sweep | crashes, redelivery, two workers on one job, retries racing late results |
| Face index (`faiss_per_school`, `_index_store`, `_faiss_cache`, `_locks`, `_redis_locks`) | three files per school, an LRU of loaded indexes, an in-process or Redis lease lock | upsert, delete, search | three separate writes, a reader between them, a crash between them, a lease that expires under its holder |
| Student lifecycle (`student_service`, `enrollment`, `http_enrollment`) | `students` and user rows, reference photos, ML embeddings, matches, detections | create, set reference photo, (re)enrol, set status, delete, bulk variants | two stores without a transaction, compensation, an ML call that times out and still happens, erasure racing enrolment or inference |
| Matching (`decision`, `identify`, `inference.process`) | none (pure), then match and detection rows | threshold and gap, best per student, persist | boundary comparisons, two idempotent writes that are not atomic |
| Review and galleries (`review_service`, `gallery_service`, `postgres_match_corrections`, `ml_results`) | match corrections over the ML's matches | approve, reject, add, undo; student gallery, counts | overlay over rows that another service rewrites; counts computed by other queries than lists |
| Notifications (`notification_service`, `postgres_notification_reads`) | `notified_at`, `completed_at`, `auto_notify`, per-event read marks | notify, feed, mark read | timestamps compared across requests |
| WhatsApp sharing (`whatsapp_share_service`, `postgres_whatsapp_send_log`, `whatsapp_variant_reaper`) | send log, platform configuration, monthly cap, consent, public photo copies | send a student's photos, fan an event out, record, reap | the budget is read once for several photos, consent before they are sent; provider call between copy and log; a reaper beside both |
| Onboarding and accounts (`onboarding_service`, `auth_service`, `jwt_tokens`, `postgres_users`) | users, roles, status, `token_version`, teacher cap | invite, disable, resend, login, change password | check-then-act on counts (teacher cap, last active administrator), token version as read-modify-write |
| Rate limiting (`rate_limit/memory`, `rate_limit/redis_limiter`) | counters per window | acquire | window boundary |
| Delegation (`delegation_service`, `postgres_teacher_classes`) | which teachers look after which classes | set from either side, remove | classes and teachers that change between check and insert |
| Classes, categories, platform configuration | classes, tags, the platform's row | create, rename, delete, assign | a class deleted under an assignment or an import; partial saves |
| Audit trails (`admin_action_audit_service`, `audit_service`) | append-only logs of actions and downloads | record, page, export | best-effort entries after the write; paging beside new entries |
| Reads (`listing_service`, `analytics_service`, `dashboard_service`, `engagement_service`, `useInfiniteList`) | none | lists by column or count, reports | one answer made of several statements, one list of several requests |
| ML adapters (detectors, embedders, video extraction, media store) | none | pure numeric work | out of TLC's reach |
| Plumbing (settings, wiring, schemas, migrations, observability, CLI) | none | start-up | none |
| Frontend | what a page holds | lists, exports, bulk uploads | retries and clean-up in the browser |

What makes each component correct, in one line each:

- **Event pipeline** - a job that is acknowledged has run its photos; a job that
  leaves the stream otherwise is reported; `completed` is never undone by a late
  failure; every job settles.
- **Face index** - a search that no write overlaps answers what the files hold; a
  student whose delete was answered is not named, unless a save died halfway; failed downloads
  and dead saves apart, a finished write is lost only where the lock's provider
  reported a lapsed lease or a failed release.
- **Student lifecycle** - no row without its partner after any failure; an
  erasure that succeeded leaves nothing behind in either store, as far as the
  index's half-saved files let it.
- **Matching** - one row per student and medium, the best one; the gap rule
  compares distinct students.
- **Review and galleries** - what staff rejected is not shown; counts agree
  with lists.
- **Notifications** - an event is new to a student until they open it, and again
  after the next announcement.
- **WhatsApp** - the cap holds; only the willing get photos, and only theirs; answers
  are true; a link lives as long as it may be fetched.
- **Accounts** - a school keeps an active administrator and to its cap; no session
  outlives its password.
- **Lists, bulk work and reports** - reading a list to its last row misses nobody who
  stayed in place; every answer of a batch is true; the log tells how each student
  stands; the figures of a report add up.

Eight promises that the repository's documents make are refuted by what the code
does. Three of them (`strand`, `late_enrol`, `crossed_send`) are among the runs of
`PROJECT.json`; five more are configurations kept beside the runs, each of which TLC
ends with a violation in under a minute (`tlc -config half_saved.cfg MCFaissIndex`):

| Configuration | Module | Violates | Section |
|---|---|---|---|
| `half_saved.cfg` | `MCFaissIndex` | `ErasedStayErased` | 4 |
| `blank_download.cfg` | `MCFaissIndex` | `VersionsOnlyGrow` | 4 |
| `retried_delete.cfg` | `MCStudentLifecycle` | `RetriedDeleteIsComplete` | 5 |
| `confirmed_unlisted.cfg` | `MCGallery` | `OneRuleForAll` | 7 |
| `cut_short.cfg` | `MCInsight` | `ReadsEveryRow` | 8 |

## 2. Modules and their order

| # | Module | What it is | State |
|---|---|---|---|
| 1 | `JobLedger` | abstract: what the job queue and the event store promise | done |
| 1 | `EventPipeline` | the pipeline in detail; refines `JobLedger` | done |
| 1 | `EventPipelineProofs` | theorems about it | done |
| 1 | `MCEventPipeline` | instances for TLC | done |
| 2 | `FaceRoster` | abstract: what the face index promises | done |
| 2 | `FaissIndex`, `FaissIndexProofs`, `FaissContentsProofs`, `MCFaissIndex` | one school's index files, cache and lock; refines `FaceRoster` | done |
| 3 | `StudentLifecycle`, `StudentLifecycleProofs`, `MCStudentLifecycle` | create, enrol, delete across backend and ML | done |
| 4 | `WhatsAppShare`, `WhatsAppShareProofs`, `MCWhatsAppShare` | budget, consent, send log, public copies and the reaper | done |
| 5 | `Matching` | threshold and gap rule, best per student | done |
| 6 | `Gallery`, `GalleryProofs`, `MCGallery` | the workers' writes, corrections, galleries, the review lane, notifications, erasure; on `Matching` | done |
| 7 | `Accounts`, `AccountsProofs` | teacher cap, last active administrator, passwords and sessions | done |
| 8 | `Listings` | classes, delegation and the lists staff page through; on `Accounts` | done |
| 9 | `Office` | bulk work on students and the two logs; on `Listings` | done |
| 10 | `Insight`, `InsightProofs`, `MCInsight` | dashboards and analytics; on `Office` | done |

Each component's module is parameterised by constants with a named assumption,
has one action per operation or per await of an operation, and no RECURSIVE
operator, so that it can be proved about. Proofs live in `<Module>Proofs`.

How they compose. `EventPipeline` refines `JobLedger`, `FaissIndex` refines
`FaceRoster`. `StudentLifecycle` takes the face index at the promise of
`FaceRoster`, and a worker's run as three writes; `Gallery` has these writes in
full, with the decision of `Matching`, and the erasure of section 5 as far as
matches, corrections and logs are concerned. `WhatsAppShare` takes who appears
on what as a set, which `Gallery` explains. `Accounts`, `Listings`, `Office` and
`Insight` extend one another, because their requests share rows and sessions,
and take creation and deletion of a student (section 5) and a match (section 7)
as one step each.

Every invariant and action property of the passing runs has a theorem. `JobsSettle` and
`RequestsEnd` are liveness and stay with TLC.

## 3. Event pipeline

### How the model corresponds to the code

| Variables | Code |
|---|---|
| `evStatus`, `enqueuedAt`, `active` | `events.processing_status`, `events.enqueued_at` (as `_is_stale_in_flight` reads it), `events.status` |
| `media` | `media.processing_status`; `absent` and `uploading` before the row exists |
| `entry`, `jobEvent`, `deliveries` | one job message: where it is in the consumer group, its `event_id`, its delivery count |
| `dlq` | the dead-letter stream |
| `wpc`, `batch`, `leases`, `fresh`, `cur`, `todo` | one worker's `_consume_loop` with the generator `consume()` under it: the claimed messages, the leases still to be yielded, the lease in hand and the rest of its roster |
| `drained`, `marked` | one worker's `_dlq_loop`: what XRANGE returned and what is marked but not removed |
| `rpc`, `rEvent`, `rFailed` | one request in `EventService.process_event` |
| `owed`, `told`, `leased` | history, read by the properties only |

One action is one database statement or one Redis command. A worker's two loops
run beside each other (an `asyncio.TaskGroup`) and beside those of other
workers. `Crash` is a worker that dies anywhere and is started again; an error
of Redis inside `consume()` is the same step, because it leaves the generator
and cancels both loops. `BecomeIdle` is the passing of `claim_min_idle_ms`: it
may happen to a message whose worker is alive and busy, which is how two
workers come to run one job. `GoStale` is the passing of `inflight_stale_s`.

Abstracted: several events of one school stand for all tenants; a photo's
outcome is chosen freely (`process()` itself is not modelled here); a delivery
count beyond the limit is kept at limit + 1; messages are well formed (a
malformed one goes straight to the dead letters and names no event); the sweep
reads the whole dead-letter stream (the code reads at most 256 entries of it at
a time) in any order.

### Runs

| Run | Properties | What it shows |
|---|---|---|
| `pipeline_crash` | `DeadJobsAreNotLost`, `AckedJobsRanTheirPhotos`, `FailedEventsHadDeadLetters`, `HandOutsAreBounded`, `ImplementsLedger` | Two workers that may crash or fail a sweep at any step and an event that may be archived beside them, both running one job after a reclaim, with one redelivery allowed and an ack that may come between reading the count and writing the dead letter: no dead-lettered job is lost, a job nobody can finish is handed out a bounded number of times, an ack means that every owed photo had an outcome, failed means that a job was given up on, and the pipeline implements the ledger. |
| `pipeline_settle` | `TypeOK`, `JobsSettle`, `CompletedEventsStayUnfailed` | Two jobs of one event (the second after the event went stale) and a worker that keeps running after a bounded number of crashes: types hold, a late dead letter never fails a completed event, and every job is eventually acknowledged or its event told. |

Bounds. Every hazard of this component needs at most two workers, two jobs, one
request at a time, a crash or two and a few deliveries: two workers to race on one message,
two jobs to have a retry beside a dead letter or a batch beside a lease,
`MaxDeliveries = 1` so that the second delivery is the last (2 in
`pipeline_crash`, so that a reclaimed job can be within its limit), `ClaimBatch = 2` so that one claim returns two
messages. `pipeline_crash` allows two crashes and tells states apart by
`WithoutIdleRequests` (once its photo and its job are there, a request that is only
reading decides nothing, nor do the columns that only requests read). `MaxCopies` bounds the copies of one job on the dead-letter stream: a
crash between XADD and XACK makes a second one. `MaxJobs`, `MaxFaults`,
`MaxStale` and `MaxFlips` bound what users, failures and clocks may do; the
theorems hold for every value of them.

Fairness. The loops of a worker never stop (`Consume`, `Sweep`) and time passes
for every message (`BecomeIdle`); no fairness is put on users, uploads, faults
or on `Nack`. `WF` on the disjunction is enough: in each state the loop has one
next step. `JobsSettle` needs nothing else, because a job can be nacked or
crashed only as often as its delivery count allows.

### What is proved

`EventPipelineProofs` proves, for every value of the constants:

- `PipelineTypes`: `TypeOK`.
- `AcksAreEarned`: `AckedJobsRanTheirPhotos`. Alone it is not inductive: when a
  worker acknowledges, nothing says that its roster held the owed photos. The
  invariant `AckInv` adds that messages and requests name what exists
  (`References`), that owed photos are registered photos of the job's event
  (`OwedAreRegistered`), and that a running worker's roster still holds every
  owed photo without an outcome (`RosterCoversOwed`).
- `NoJobIsLost`: from `DeadInv`, which adds that between the two commands of
  `_to_dlq` the copy is on the dead-letter stream or has been told
  (`CopyBeforeUnlist`), what a sweep is about to remove has been told, and what is
  given up on was delivered too often (`GivenUpWereExhausted`).
- `PoisonIsContained`: `HandOutsAreBounded`. The delivery count is read by a command
  of its own (`KeepLease`, `GiveUp`), and a message that is no longer pending shows
  none, which `_delivery_count` reads as 0: a worker that had claimed a job before
  another one dead-lettered it runs it once more. So the bound is not
  `max_deliveries` but that and one for each other worker, which TLC reaches.
  `LeasesFollowDeliveries` counts the claims that are not decided yet (`Holders`)
  against the deliveries.
- `PipelineImplementsLedger`: with these invariants and `DrainedAreBuried`, every
  step is a step of `JobLedger` or a stutter. `Ack` is `Complete`, `DeadLetter`
  is `Bury`, `Unlist` is `Drop`, `MarkFailed` is `Tell`, `Enqueue` is `Submit`,
  `RunPhoto` is `Run`, and `Reclaim` is `Spend` for the jobs that it delivers once
  too often; everything else changes nothing the ledger can see. The ledger lets a
  spent job be buried after it is done, because a worker may acknowledge it between
  XPENDING and XADD; its event is then completed, and stays so when it is told
  (`CompletedEventsStayUnfailed`) unless a late `set_processing(queued)` came between.
- `FailuresAreTold`: `FailedEventsHadDeadLetters`. A failed event has a job that was
  told, told jobs were put on the dead-letter stream (`ToldWereSent`) and jobs keep
  their events (`EntriesStay`); only a sweep fails an event (`OnlySweepsFail`).
- `CompletedIsFinal`: `CompletedEventsStayUnfailed`, an action property: a sweep fails
  only what is `Failable`.

The only assumption is `PipelineAssumption` (every photo has an event, the
bounds are naturals, `MaxDeliveries` and `ClaimBatch` are at least 1, there is a
worker and there are finitely many).
Liveness (`JobsSettle`) is checked by TLC only: the prover has no fairness.

### Where the code and its documentation disagree

- `strand` (`EventsNeverStrand`): set_processing(queued) is unconditional and follows the XADD, so a fast worker's completed is overwritten by queued; with no outstanding photo, Process then refuses the event, stale or not. The docstring says "BP19a widens this so an event can never strand" (src/services/backend/src/backend/services/event_service.py:210).

## 4. Face index

### How the model corresponds to the code

| Variables | Code |
|---|---|
| `files` | `index.faiss`, `id_map.json` and `meta.json` of one school |
| `embedder` | the configured `embedder_version` |
| `lock`, `logged` | the school's write lock (`InProcLockProvider` or the Redis key `faiss:lock:<school>`), and whether `faiss_write_lock_lease_lost` or `faiss_write_lock_release_failed` was logged |
| `wpc`, `req` | one request in `upsert` or `delete` |
| `rpc`, `seen`, `cache`, `hits` | one process that searches: its place in `_get_fresh`, the version it read, its cache entry, its last answer |
| `step`, `buf` | how far a load or a save has come, and what a load has read |
| `stable`, `last` | history, read by the properties only |

One action is one file read or written, or one step between two awaits. The
rebuild (`_apply_upsert`, `_apply_delete`) runs under the lock on what was
loaded, so it is computed at the save. `MetaFirst` chooses the store: Supabase
downloads the meta file first, the local file system reads it last. A reader in
`HomeOf[w]` shares its process with writer `w`, whose `invalidate` empties its
cache; the others learn of a write only through the version.

A face stands for one embedding: whose it is, which enrolment computed it and
with which model. Scores and `top_k` are left out, so a search answers every
row it is shown; the properties say what an answer may not contain. A process
that dies is its requests giving up one by one, without a log entry. A release
may fail (`_RedisLockCtx.__aexit__` swallows every Redis error): whether it was
done or not, that is all that is logged, and a lock it leaves behind goes when
its lease ends (`Lapse`). Requests that fail or die before the first or after
the last file of their save are free in every run; only a save that breaks off
between two files counts as a fault, and the death of a process that has lost its
lease. The lock's queue is not modelled: any waiting request may be next.

`FaceRoster` is what the `VectorIndex` port promises: for each student the
enrolment its faces come from, changed at one instant. The refinement mapping
reads the files, or, while a writer is between its first and its last file, the
triple that writer loaded: the meta file is the commit point.

### Runs

| Run | Properties | What it shows |
|---|---|---|
| `faiss_replicas` | `TypeOK`, `QuietSearchesAreExact`, `ErasedStayErased`, `ImplementsRoster`, `VersionsOnlyGrow` | Two replicas rewrite a school's index and one of them or a third process searches it, over Supabase, while requests fail or die before or after their saves and releases fail: the three files implement one roster, the version never goes back, a search that no write overlaps is exact, and a student whose delete has answered is not named by any later search, whatever it overlaps. |
| `faiss_faults` | `ErasedFacesAreGone` | Over a local file system, requests fail or die anywhere (one of them between two of its files), the embedder is upgraded and students have two embeddings: until a save breaks off, an erased student leaves no face in the file. |
| `faiss_progress` | `LostWritesAreLogged`, `RequestsEnd` | Two replicas, students with up to two embeddings and an upgrade of the embedder; one save breaks off, one download fails, one lease is outlived by its holder, any release may fail and leave its lock: a finished write is lost only if the lock's provider has logged something, and every waiting request ends. |

Bounds. Two writers, one reader, two students and two or three requests: a write
needs a second one to lose against, and a cache needs two writes to be stale
in. `faiss_replicas` has no broken save, failed download or outlived lease: it shows
what the protocol gives without them (students are alike, so they may be permuted).
`half_saved` and `blank_download` add one of them each and show which promise it
takes away. `faiss_progress` has two embeddings a student and an upgrade, and no
reader, so it ends when its requests do. With
`MetaFirst = FALSE` (the local store) `QuietSearchesAreExact` does not hold: a
load that overlaps a save caches the old rows under the new version.

Fairness. `WF` on a writer's own steps: a request in a live process goes on. `SF`
on `Acquire`: `asyncio.Lock` serves its waiters in turn, and Redis's lock is
polled by each waiter until `blocking_timeout`, which ends the wait as well
(`AcquireFails`); a waiter that is never served is not a behaviour of
either. `WF` on `Lapse`: Redis ends a lease by its own clock. Nothing is assumed of
users, readers or faults.

### What is proved

For any number of students, writers, readers and requests, in `FaissIndexProofs`
(the lock, the versions, the types) and `FaissContentsProofs` (what the files hold).
Each theorem names the faults it excludes; each is false with them, as the runs or the
properties' own conditions show.

| Theorem | Property | Assumed |
|---|---|---|
| `TypesHold` | `TypeOK` | nothing |
| `LossesAreLogged` | `LostWritesAreLogged` | nothing |
| `WriteLockExcludes` | no two requests between acquire and release | no failed download, no outlived lease |
| `VersionsGrow` | `VersionsOnlyGrow` | the same |
| `ErasedLeaveTheFile` | `ErasedFacesAreGone` | the same |
| `FilesImplementTheRoster` | `ImplementsRoster` | `Calm`: also no save that breaks off |
| `ErasedAreNotFound` | `ErasedStayErased` | `Calm` and `MetaFirst` |
| `QuietSearchesStayExact` | `QuietSearchesAreExact` | `Calm`, `MetaFirst` and no change of the embedder |

The last one needs `MaxUpgrades = 0`: after an upgrade a search answers nothing until
the school is enrolled again.

The arguments:

- That a save writes one version more than it loaded is not enough: nobody may have
  saved in between. `WriteInv` says that whoever is between acquire and release holds
  the lock (`WritersHoldLock`) and that once a writer has read the meta file, its
  version is at least the one in the store (`RewritesNewest`); `HasMeta` says when that
  is, which differs between the two stores.
- Types: versions stay below the bound on requests because each is one request's
  (`NextVersion`), and index and id map are rewritten together, so that a rewrite finds
  every row it keeps (`Placed`).
- `Current` says what the files hold as long as nothing has gone wrong unseen
  (`Clean`: no save broken off, no failed download, and nothing logged unless no lease
  was ever lost): three files of one version (`FilesSound`), loads that have what the
  files have (`LoadsCurrent`), saves that add exactly their request to it
  (`SavesCurrent`), and no finished write missing (`WritesKept`).
- The refinement: every step but one keeps `RosterNow`; the write of the meta file changes it as
  `Enrol` or `Erase` of one student does.
- A search in progress is covered by `SearchInv`: what it has read and what its process's cache
  holds under a version is what the files held at that version (`SearchesCurrent`), so
  a version read after a delete brings no row of the deleted (`ErasedForgotten`).
  `QuietExact` adds that a search that nothing overlaps has the files as they are.

### Where the code and its documentation disagree

- `blank_download`, beside the runs (`VersionsOnlyGrow`): _download answers None on every exception, so an upsert whose download of the meta file fails rebuilds the school's index from nothing and saves it as version 1: every other student is gone from it, and caches of the old version 1 are served again. The comment says "treat as not present"; docs/06-faiss-lifecycle.md says "`meta.version` is a monotonically increasing integer bumped on every write" (src/services/ml_service/docs/06-faiss-lifecycle.md:18).
- `half_saved`, beside the runs (`ErasedStayErased`): A delete that died after the id map and before the meta file leaves the version as it was; its retry finds the student gone, returns without a write or an invalidation, and answers success, while every cache of that version goes on naming the student. decisions/0053 says "so **delete means gone**" (src/decisions/0053-product-build-BP8e-student-erasure.md:13).

## 5. Student lifecycle

### How the model corresponds to the code

| Variables | Code |
|---|---|
| `login`, `profile`, `photo`, `status` | the student's `users` row, `students` row, its `reference_photo_path` and `enrollment_status` |
| `objects` | the reference photos in the object store |
| `refs`, `face`, `matches`, `candidates` | `student_reference_photos`, the embeddings in the face index, rows of `matches` and of `face_detection_candidates` |
| `unmatched`, `stale` | the index and its id map differ in length, so that every load raises; a worker's cache may still name the student under the version the files have |
| `pc`, `op`, `path`, `old`, `result` | one request to `StudentService`: its place, its kind, the photo it posts, the photo its row had when it read it, the ML service's answer |
| `mpc`, `have` | the ML call of that request in `EnrollmentService`, and the URIs or embeddings it holds |
| `spc` | a worker in `process()` with a photo that shows the student |
| `marks`, `attached`, `mixed`, `beside`, `erased` | history, read by the properties only |

Students share no state here, so one student stands for all. One action is one
database statement, object deletion or ML call. The call is a process of its
own: when the backend's HTTP timeout ends the request's wait (`TimeOut`), the ML
service goes on. `Fault` is a statement or a call that fails, and `Crash` a
backend that dies. `JobFails` is not counted. A create that fails at the
profile is not counted either, so that its compensation can fail too.

`reference_photos.replace` is one transaction, in two steps here: its DELETE
sees what was committed when it ran, and nothing stops another replace from
committing in between (the table has no unique constraint). The face index is one
student's share of what section 4 models: a rewrite succeeds as a whole (the lock
keeps rewrites apart), cannot start from files that do not load (`LoadFails`), or
breaks off (`SaveBreaks`) with the files unmatched or with new contents under the old
version. In both cases caches of the old contents stay current, and in the second a
retried delete finds no rows, writes nothing and invalidates nothing. Which files a
broken rewrite leaves is section 4's subject, and so is what the rewrites of other
students do to this one's rows (see `blank_download` there). A photo stands for its thumbnail as well. A client posts a photo
it has just uploaded or the one it sees. The bulk upload of the frontend reaps
its upload after an error (`Reap`), which the model includes because the endpoint
deletes whatever path it is given, attached or not.

### Runs

| Run | Properties | What it shows |
|---|---|---|
| `student_lifecycle` | `TypeOK`, `LoginsHaveProfiles`, `PhotosFollowRows`, `EnrolledHaveFaces`, `EnrolledByShownPhoto`, `ErasureIsComplete` | Three requests, two at a time, any two of a failure or death, a call given up and a photo recognised: no half-made student, no row without its photo, no status without embeddings, and no erasure that leaves something behind, but for the matches that a broken rewrite of the index lets a stale cache make later. |

Bounds. Three requests: one to create, one to change, one to replace, repeat or
delete. `MaxActive = 2` of them (late calls included) under way when a new one
starts: every hazard listed is between two actors. One of the two photos has no
face, so that an enrolment can succeed and then fail or the other way round.
One fault, one timeout and one recognition reach every error path, and
`MaxMishaps = 2` allows any two of the three together; the theorems hold for any
number. Requests are bounded, so the runs end and deadlock
is not checked.

The conditions in the properties are the limits the code has, and each is
reached in the runs:

- `mixed`: with overlapping requests the loser's photo may stay
  (`ReplacedPhotosGone`, a part of
  `PhotosFollowRows` as `RowPhotoExists` is) and the status may be that of the other photo
  (`EnrolledByShownPhoto`). `RowPhotoExists` and `EnrolledHaveFaces` hold with
  overlapping requests.
- `marks`: what was logged (`compensating_delete_failed`,
  `orphaned_reference_photo`, `set_enrollment_failed`), a death, or a lost
  answer after which the client reaped an attached photo.
- `"save"` in `marks`: a rewrite of the index broke off. Until then an erasure that
  answered leaves no match or candidate; afterwards see `retried_delete`. URIs and
  embeddings are gone either way.
- `erased = "alone"`: nothing overlapped the delete. Otherwise see `late_enrol`, in
  which both photos have a face, so that the enrolment has embeddings to store.

### What is proved

`StudentLifecycleProofs`, for every value of the constants:

- `TypeCorrect`: `TypeOK`, with `Places`: the kind of each request bounds where
  it and its call can be (`Kinds`), a call starts once and ends once (`Calls`),
  and a photo is at hand where one is named (`Paths`).
- `EnrolledAreFindable`: `EnrolledHaveFaces`. Inductive with `Findable`, which
  speaks also of an answer on its way to the status, and `Upserts`: an upsert
  always has embeddings.
- `ErasureCompletes`: `ErasureIsComplete`. `Undisturbed` follows a delete that
  nothing has overlapped through its four stores (`ErasedSoFar`), with nobody
  beside it (`NobodyBeside`); `StaysErased` says that afterwards nothing is
  under way that could write, since requests that begin later find no student, and
  `StaleByBreaks` that a cache names the student afterwards only if a rewrite broke off.

- `LoginsKeepProfiles`: `LoginsHaveProfiles`. `Logins` says who may be without a
  profile: only a request that is still creating it or undoing that (`PendingAlone`,
  `LoginInHand`), and a row goes only with its login (`RowHasLogin`, `GoneByDelete`).
- `PhotosKeepToRows`: `PhotosFollowRows`. `Reaping` bounds what a request may still
  delete from the object store; `RowPhoto` keeps the row's own photo out of it; under
  requests one by one (`InOrder`, with their calls to the ML service) `Swept` says that a photo no row
  names is gone or is about to be deleted by the request that replaced it.
- `EnrolledAreShown`: `EnrolledByShownPhoto`. `Shown` follows one photo from the row
  through the call, the references and the faces to the status (`FaceShown`,
  `EnrolsShown`, `CallOnPath`, `StoredIsShown`).

All invariants of this component are proved, for every value of the bounds; only the
counterexamples of `late_enrol` and `retried_delete` are TLC's.

### Where the code and its documentation disagree

- `late_enrol` (`DeletedMeansGone`): An enrolment that outlived the backend's timeout goes on in the ML service beside a delete of the student. It stores its URI and its embeddings in stores that the delete has already emptied, the delete answers success, and with everything over both are there. (A recognition under way does the same with matches and candidates.) decisions/0053 says "BP8e closes those three gaps so **delete means gone** — a real, verifiable erasure" (src/decisions/0053-product-build-BP8e-student-erasure.md:13).
- `retried_delete`, beside the runs (`RetriedDeleteIsComplete`): A delete whose rewrite of the index breaks off before the version leaves every cache of that version current. The operator's retry finds no rows, rewrites nothing, empties the other stores and answers success; a worker with such a cache then finds the student in a photo and saves a match. The docstring says "must succeed so we never orphan ML data; an ML outage surfaces as a 502 and the operator retries" (src/services/backend/src/backend/services/student_service.py:875).

## 6. WhatsApp sharing

### How the model corresponds to the code

| Variables | Code |
|---|---|
| `config`, `saves` | the row of `platform_config`, and the saves of it under way: `upsert` reads the row and writes it back in a second statement |
| `consent`, `pairs` | a student's number and opt-in, or that the student is gone; who effectively appears on which photo (section 7 says how that comes about) |
| `log`, `month` | the "sent" rows of `whatsapp_send_log`; the UTC month the budget counts from |
| `variant`, `listing` | the public copy of a photo in the object store, and the keys `reap_whatsapp_variants` has listed as old |
| `pc`, `cur`, `queue`, `fanout`, `whole`, `asked`, `diverted`, `willing` | a request in `send_event_photos` or `send_student_photos`: its place, the student it is at, the recipients still to come, and what it read before |
| `opted`, `route`, `todo`, `left`, `item`, `status`, `report`, `outcome` | its locals for one student and the answer so far |
| `messages`, `unlogged`, `links`, `crossed`, `overlapped`, `okSince`, `inSince` | history, read by the properties only |

One action is the code between two awaits. A photo goes through `Upload` (the
copy), `Send` (the provider) and `Record` (the log), each of which can fail on
its own: the provider takes a message and its answer is lost (`SendFails`), the
row is not written (`RecordFails`), the process dies anywhere (`Crash`). Beside
them run consent and erasure, corrections, the turn of the month, partial saves
of the platform's configuration, and the reaper. The configuration diverts a
student's photos to the interim number as long as one is set, which asks for no
consent because the message goes to the school itself.

Abstracted: texts and templates; re-encoding and the provider's HTTP calls are
success or failure; the object store's listing is one step, as in the local
store (Supabase is asked folder by folder, at the client's page size).

### Runs

| Run | Properties | What it shows |
|---|---|---|
| `whatsapp_share` | `TypeOK`, `BudgetHolds`, `SendsAreEntitled`, `ReportsAreTrue`, `LinksStayLive` | Two send requests, single or fan-outs, of two photos over a budget of one, with one opt-out, erasure, correction, platform save, turn of the month, failure or crash at any step and a reaper beside them: the budget holds when budget checks do not overlap and is bounded when they do, only the willing and only their photos are sent, answers are true, and links stay live but for a send that crosses the reaper. |

Bounds. One student with two photos, two requests (each a single send or a
fan-out), a budget of one, one turn of the month and one mishap or change
beside them (`MaxMishaps`), and one administrator who may save once. Two
requests and a budget smaller than the photos are what every hazard of the
budget needs, one mishap what every error path needs; an object is old only if
a mishap was spent on its age, so the reaper is in the run as an alternative to
the failures. The requests are each served once: the system stops, and deadlock is
not checked. A run with two students and one photo was explored while the model
was written and showed nothing else.

The bound in `BudgetHolds` is the code's: requests that overlap can each spend
the whole cap, and the log may miss successes. `LinksStayLive` has one
exception, a send that overwrites a copy the reaper has already listed and loses
the fresh copy to it (`ReapDelete`); `crossed_send` shows it without the exception,
against what the reaper's module says of itself. The property also supposes
`LongRetention`: the reaper refuses only a retention that is not positive, and an
operator who passes one shorter than the links' lifetime lets it take objects
whose links are live. The defaults are 24 hours and 1 hour. A partial save of the
platform's configuration that overlaps another overwrites it with what it had
read, which nothing in the repository denies.

### What is proved

`WhatsAppShareProofs` proves all five invariants of the run, for any number of students, photos,
requests, saves, failures and any budget:

- `TypesHold`: `TypeOK`, with what a request knows at each step (`Knows`, `Routed`).
- `LinksAlwaysLive`: `LinksStayLive`, from `FreshWhileWanted`: with a long retention an object somebody may
  still fetch is fresh or is listed by a reaper that a send has crossed.
- `SendsStayEntitled`: `SendsAreEntitled`, from `AllEntitled`: what is planned, queued and
  in hand was somebody's on that photo when it was read, and consent was read then.
- `BudgetAlwaysHolds`: `BudgetHolds`. The log alone says nothing of requests past their
  check; `BudgetKept` counts what each of them has still to spend (`Slots`), what is
  between provider and log (`Flight`, `Balanced`), that of requests that did not
  overlap only one spends (`OneSpends`), and that each message is logged once
  (`OnceEach`).
- `ReportsStayTrue`: `ReportsAreTrue`, from `AnswersTrue`: the answer so far and the item in
  hand say what was sent and what was not.

Assumed are only the named assumptions on constants: a cap is a natural number or the
code's "not set", bounds are naturals, the sets are finite.

### Where the code and its documentation disagree

- `crossed_send` (`NeverReapsFresh`): The reaper deletes by key what it found old when it listed the prefix. A send that uploads over such a key in between makes the object fresh again, and the delete removes it under the link that the provider has just been given. The module says "it never deletes an object younger than ``retention`` (default 24h, well past the 1h signed-URL TTL), so it can't race a fresh send" (src/services/backend/src/backend/services/whatsapp_variant_reaper.py:9); decisions/0095 calls it "the load-bearing invariant" (src/decisions/0095-product-build-WhatsApp-W3a-variant-reaper.md:36).

## 7. Matching, review, galleries and notifications

`Matching` is pure: `Emitted` is `apply_threshold_and_gap` for one face (best
score per student, the threshold, the gap between the two first), `People` and
`Hit` what `identify_in_frames` makes of all faces of a photo. `Gallery` runs it.

### How the model corresponds to the code

| Variables | Code |
|---|---|
| `matches`, `detections` | the ML service's `matches` and its detection tree, down to the candidates that were emitted |
| `indexed`, `cached` | who the face index knows; whom it has forgotten but a worker's cached copy, of a version that still passes for current, may name |
| `erasing` | how far `EnrollmentService.delete` and then `delete_student` have come |
| `run` | a worker in `process()`: its photo, what the search showed it, which of its two writes is next |
| `corrections` | `match_corrections`: the verdict and the flag `resolves_review` |
| `event`, `seen`, `now` | `completed_at`, `notified_at`, `auto_notify`, the event's status; `notification_reads.seen_at`; the database's clock |
| `audit` | the download audit |
| `req` | a request of `ReviewService`, `GalleryService` or `NotificationService`: what it was asked, what it has read, its next statement |
| `ran`, `stray`, `churned`, `heldSince`, `stoodSince`, ... | history, read by the properties only |

Matches are the ML service's, corrections the backend's, and each read of a
request is a statement of its own: `ReadMatches`, then `ReadCorrections` (or
reads and the event), then the answer or the write. Between any two of them a
run saves its matches, another request its verdict, an erasure goes a step on,
a worker dies. A worker may start on any photo at any time: redelivery, two
Process requests that both passed the check of `event_service.py:223`, or a
roster read before another delivery completed the photo all come to that, so
their consequence for the rows is here and not in section 3.

Three rules overlay the corrections on the matches and are kept apart, because
the code has three: `OverPairs` for the listings, notifications and sends of an event
or a student, `OverMedia` for one photo (downloads and "not me"), `OnDetail` for
its detail page with faces.

Abstracted: one event; a search shows one of the scenes in `Views`, chosen at
will but among students whom the index or a copy of it knows; an event's status only as
active or not. The index is that of section 4 cut down to what a deletion does to it:
`Unindex` is a rewrite that goes through, and renews every copy; `UnindexBreaks` one
that stores the new vectors and rows and not the version, after which the retry finds
nothing of the student, writes nothing and leaves the copies alone. A break that leaves
vectors and rows unequal stops recognition and deletions alike (section 4) and is left out,
and so are enrolments, which would renew the copies too.

### Runs

| Run | Properties | What it shows |
|---|---|---|
| `gallery` | `TypeOK`, `ShownWereEntitled`, `MatchesAreSound`, `DashboardCountsTheLane`, `InboxIsTrue`, `ErasedLeaveNothing` | Two workers at one photo of two students, two requests and three runs, requests or changes in all, with erasures, crashes and switches at any step: answers made of two reads were true at some moment by the rule of their kind of request, matches go back to faces rightly decided whatever the order of deliveries, stored evidence never outruns its match, the dashboard counts the lane, the stamps say who has seen the event, and an erased student leaves nothing but what late runs and stale copies of the index bring back. |

Bounds. Two students, one photo, two workers, two requests, and three runs,
requests, changes or crashes begun in all (`MaxMoves`). The two scenes hold the cases
`decision.py` tells apart: a gap of exactly the limit, a hit below the threshold
beside a second face, a clear winner with hits of theirs on both sides of the other
student's; from any order of the two a row is improved, kept, flagged or not. The
properties speak of the reads of one request against everything else, so two
requests and three moves reach them, with the one exception named below; a fourth move multiplies the states by
more than ten. What may begin is bounded, so the run ends and deadlock is not
checked.

The conditions in the properties are the code's limits:

- `DashboardCountsTheLane` excludes `churned`: the stored flag says what the
  match was when the verdict was given. The dashboard clamps at zero.
- `ErasedLeaveNothing` excludes `stray`: a run that had recognised a student
  before the index forgot them writes late (`late_enrol` in section 5 is the same
  hazard for enrolments), and after a rewrite of the index that broke off a
  worker may still recognise them from its copy (`retried_delete` in section 5
  shows that the deletion nevertheless answers success).
- `ShownWereEntitled` says "at some moment of the request", by the rule the code has
  for that kind of request (`Belongs`). That these rules differ is a disagreement with
  the documentation, which `confirmed_unlisted` shows. A student's "not me" is
  overwritten by a staff verdict under way. The review lane
  has one exception (`churned`): it reads the flagged matches and then the
  corrections, so a match that loses its flag between the two, under a
  verdict that is then taken back, is shown although it was never in the lane. That
  takes four moves; the proof found it, and TLC confirms it with `MaxMoves = 4`.

### What is proved

`GalleryProofs` proves all six invariants of the run `gallery`, for any number of students, photos,
workers, requests and moves, and for any scenes with a finite number of faces
(`FiniteAssumption`, `ViewsAssumption`):

- Lemmas on `Matching`: `Emitted` names one or two students, who are of the scene; the
  first of a face is among them; `Hit` is a best score, so nobody's detection is surer
  than their hit.
- `TypesHold`: `TypeOK`, which needs what a request is about at each of its steps.
- `ErasedAreForgotten`: `ErasedLeaveNothing`. `Forgotten` says what an erasure has
  already removed, `Cleared` that nothing comes back, apart from what `stray` names; the
  copies of the index name nobody else (`cached` is part of `Typed`).
- `MatchesStaySound`: `MatchesAreSound`, from `RowsOfRuns`: each row is what some run
  decided, and no stored detection is surer than the row, also between a
  run's two writes.
- `DashboardCountsTrue`: `DashboardCountsTheLane`, from `FlagsKnown`: each correction,
  and each about to be written, knows the flag of its match.
- `InboxStaysTrue`: `InboxIsTrue`, from `StampsTrue` (`OpenedIsSeen`, `StampsRead`): what
  a request has read of stamps is what they were at a moment since it began.
- `ShownStayEntitled`: `ShownWereEntitled`, from `ReadsHold` (what has been read was so
  while the request ran) and `ShownSo`.

### Where the code and its documentation disagree

- `confirmed_unlisted`, beside the runs (`OneRuleForAll`): A confirmed correction without a match counts for downloads and "not me" (effective_media_student_ids, gallery_service.py:72-87) and not for the listings, notifications and sends (effective_event_pairs, effective_student_pairs, 90-127, where only an added one does). decisions/0042 gives one rule, "**(ML matches whose `(M, student)` verdict is NOT `rejected`) ∪ (`added`/`confirmed` corrections)**", and "applies the overlay to **all six reads** + the **download gate**" (src/decisions/0042-product-build-BP5-trust-accuracy.md:35-42); the gate's docstring has "an un-rejected match or an ``added`` correction, else 404" (src/services/backend/src/backend/services/gallery_service.py:376).

## 8. The school's office: accounts, lists, bulk work, reports

Four modules, each on top of the one before, are checked together because their
requests meet in the same rows:

- `Accounts`: staff, their passwords and sessions, the teacher cap, the last
  administrator.
- `Listings`: classes, who looks after them, and the lists staff page through.
- `Office`: work on many students at once, and the two logs.
- `Insight`: what students do with their photos, and the reports on it.

### How the models correspond to the code

| Variables | Code |
|---|---|
| `school`, `users` | the school's `status` and `max_teachers`; `users` rows: status, password, `token_version`, whether the hash is of an old cost, `last_login_at` |
| `issued`, `tokens` | passwords as numbers, each new one the next; the sessions handed out |
| `req` | a request of `OnboardingService` or `AuthService` and its locals |
| `groups`, `rows`, `home`, `links`, `shots` | classes, the `students` and `events` rows and their class, `teacher_classes`, the number of matches of a student or event |
| `clerk`, `walk` | a request of `ClassService`, `DelegationService` or `EventService`; a list as `useInfiniteList` reads it, one request per page, each of several reads |
| `pupils` | the students' logins |
| `desk` | a bulk request of `StudentService`: its rows still to come, its class cache, its answers |
| `trail`, `saves`, `scroll` | `admin_action_audit`, `download_audit`, and an export of one of them |
| `face`, `course`, `opens`, `early`, `sent` | `enrollment_status`; an event's stamps, status and photos; `notification_reads`, and those of months the trend no longer shows; the WhatsApp images of the month |
| `report` | a request for the dashboard, the school's analytics or the estate's, at its next read |
| `latest`, `crossed`, `peak`, `deeds`, `slips`, `handed`, `swapped` | history, read by the properties only, as are fields of `walk`, `scroll` and `report` (`fell`, `rose`, `beyond`, `due`, `were`, `left`, `faded`, ...) |

In `Accounts` one action is the code between two awaits. Administrators and
teachers are addresses that may become accounts; a session is honoured if its
user is active and has its version (`Accepts`), and every operation of the
office begins in such a session with the permission the router asks for
(`Permitted`). A password is a number that its owner knows; `set_password`
reads the row (`LoadRow`) and writes it back with the next version (`Stored`),
a login with an old hash renews it the same way.

In `Listings` a page is a request: the focus of a teacher, the rows, the total,
and for a list sorted by a count the counts, the ids and then the rows of the
page (`_count_sorted_page`). `Turned` asks for the next page as the hook and its button do:
not when the page reached the total it came with (`getKey`), and not when as many rows
are loaded as the first page announced (`reachedEnd`).
The clerk takes one row of a loop per step.

In `Office` a student stands for the login, the profile and the address. Each
row of a batch goes through its statements one by one, each of which may fail
(`Slip`) or be the last (`Break`, the request dies): the login, the profile or
the repair of a login without one, the audit entry, the class looked up or
created, its assignment. `Audit` never fails a request: `_record_action`
swallows the error.

In `Insight` a report reads what `Plan` lists, one statement at a time, and
`Summary`, `Analytics` and `Funnel` compute its figures from what was read. A
count is kept as the set counted, so that a property can ask who was in it.
`CreateStudent`, `DeleteStudent` and `Match` stand for sections 5 and 7 in one
step each.

Left out: names and addresses, limits of lengths; the cap of 10 000 rows on an
export; rows created in the same microsecond; the trends of a report by month
and term and the quality of matches (only the trend of first openings, the months
it shows taken together: `MonthDrops` is a month that falls out of the latest twelve when
another one gets a photo, an event's date or an opening); `engagement_service`; `set_mobile` and
`resolve_photo_targets`; the list of schools and event categories, which are the
same code over other rows.

### Runs

| Run | Properties | What it shows |
|---|---|---|
| `accounts` | `TypeOK`, `CountsHold`, `OldCredentialsAreDead`, `PagesMissNobody`, `AnswersAreTrue`, `TrailIsTrue`, `ReportsAddUp` | Seven scenes of one office: account operations by two administrators at once, lists read between changes of classes and rows, one beside the other, two batches with a mishap, a batch beside a change, and reports beside what they count. The cap and the last administrator hold up to requests caught between count and write; no session outlives its password; a list leaves out or repeats only whom a change has moved, or leaves out who stands below what its first page announced; every answer of a batch is true and every student's last entry in the log is how they stand; the figures of a report add up. |

Bounds. The four bounds (`MaxMoves`, `MaxTurns`, `MaxJobs`, `MaxNews`) are shared out by
`Scenes`: an initial state has begun with part of them already spent, and the
run is the union of seven scenes: three account operations; three list
operations; one of each; two batches; a batch beside a change to classes or
students; a report beside two changes of what it counts, or beside a change of who
is there. Everything together would be a product of unrelated things; the scenes are the
pairs that share rows. Two administrators, two teachers, two
students, three events (the third comes in ahead of a list under way), two classes, two slots for requests; `PageSize = 1`, so
that two rows are two pages; one statement that fails or request that dies
(`MaxSlips`), beside any number of failing profiles. Larger scenes (a
list change beside two reports' worth of changes; three failures) were explored beforehand
without a violation. Requests and administrators are interchangeable
(`Symmetry`); teachers, students, classes and events are not, since `Rank` orders
them. What may begin is bounded, so deadlock is not checked.

The conditions in the properties are the code's limits; all but the one marked
below are reached in the run:

- `CountsHold`: of two requests that overlap each counts before the other
  writes. The comment in `create_teacher` accepts this for the cap; for the
  last administrator it means that two administrators can disable each other, although
  decisions/0066:63-64 says of the guard that it "has no lockout/wrong-block path".
- `OldCredentialsAreDead`: two overlapping writes of one account's password lose
  one increment of the version, a login that renews an old hash can put the old
  password back over a change, and a reset between a change's write and its
  reload hands the old session a live token.
- `PagesMissNobody`: pages are offsets, so a row is left out when one ahead of it
  leaves (`fell`) and shown twice when one comes in (`rose`). The client stops when it
  has as many rows as the first page announced: whoever stands below that number by then
  (`beyond`) may be left out too, because a repeated row was counted for theirs. That
  is more than the hook's docstring allows, and `cut_short` shows it. After a loss the
  opposite may happen: `reachedEnd` stays false and the button loads nothing.
- `AnswersAreTrue`: an import whose repair fails leaves a login that blocks its
  address; a class deleted while an import runs leaves a dead id in its cache, and the
  rows after it lose their class without the answer saying so; two imports may
  create a class of the same name twice (documented; not reached here, where the class is there).
- `TrailIsTrue`: entries of two changes may be in the other order (`swapped`); a
  student deleted by two requests at once has two entries. The property says
  nothing of names: decisions/0086:83-87 and the comment in `delete_student`
  (student_service.py:890-894) want that "a deleted student's identity must not linger in
  the audit", and the deletion's own entry has no name, but `delete_student` takes no name
  out of the entries written before it.
- `ReportsAddUp`: the reads of a report are of different moments, so a sum may be
  ahead of a part by what came in between; "stalled" may be reported of a school
  that never was if an enrolled student left between two reads. Who has ever opened
  anything (`engaged`) is counted over all time, the trend of first openings over its
  latest twelve months only (`_TREND_MONTHS`): students whose openings are all older
  (`faded`) are in the one and not in the other.

### What is proved

`AccountsProofs` and `InsightProofs` prove all seven invariants, under the
next-state relation of the whole office, for any number of people, classes, events,
requests, pages and moves. The assumptions are those named in the modules: the sets and
bounds of the scenes, and that the mark of a row without a profile is no student
(`NoPupilAssumption`).

- `AccountsAreTyped`: the accounts' part of `TypeOK` (`Typed`: a request at work on an
  account finds its row).
- `CountsAlwaysHold`: `CountsHold`. `CreationsCounted` counts who is between count and
  write, so that the excess over the cap is bounded by the requests that overlapped;
  `DisablingsGuarded` says that whoever is about to disable an administrator alone has
  counted another one.
- `OldCredentialsStayDead`: `OldCredentialsAreDead`, from `CredentialsCurrent`, which
  relates each session and each password in hand to the version of its row.
- `TypesHold`: the rest of `TypeOK`, from `Shaped`: the shapes of all records, and
  `RowsHeld`: a login that a batch has made stays that batch's until its profile is there.
- `ListsMissNobody`: `PagesMissNobody`, from `Paged`. That a row was not left out is a
  matter of counting: one that is still to come has at least a page's worth of rows before
  it for every page read (`NoneMissed`), one already shown had fewer (`NoneTwice`), and a page
  holds as many rows as there are places on it, so that no more are loaded than fit on the
  pages read (`PageFits`, `PageSized`).
- `AnswersStayTrue`: `AnswersAreTrue`, from `Known`: answers and writes belong to rows the
  batch has done (`KeysTrue`), each answer says what was written (`TruthTold`),
  and a password that was set is in the batch's hand, promised in its answer, or lost with a
  request that died or a repair that failed (`PasswordsKnown`).

- `TrailStaysTrue`: `TrailIsTrue`. `LogCurrent` says of every student that was never
  overtaken that a change under way says how they stand, and that the last word of the log
  does if none is. `ExportKept` says of every entry an export still misses that more newer
  ones are in the log than the pages it has had can hold, so that each of these was full
  (`NewestFull`, from `NewerRanks`) and the export goes on.
- `FiguresStayTrue`: `ReportsAddUp`, from `ReportKnown`: what each read of a report was of
  (`ValuesAre`) and what was witnessed by then. The rest is counting (`NamesCounted`,
  `PartCovered`).

### Where the code and its documentation disagree

- `cut_short`, beside the runs (`ReadsEveryRow`): useInfiniteList calls the end reached when as many rows are loaded as the FIRST page announced (total = pages[0].total, reachedEnd = items.length >= total, use-infinite-list.ts:63-64), repeated rows included, and load-more.tsx:29-45 then asks for no more. Its docstring says it "flattens the pages, and stops requesting once every row is loaded" (src/frontend/lib/hooks/use-infinite-list.ts:28-29). With a row created ahead between two pages a repeated row is counted for one that was not shown: the run ends with an event that was in the list from beginning to end and was never loaded.

## Not modelled, and why

- **Rate limiting**: One counter per key and window, incremented in one transaction (Redis) or without an await (memory); a caller may pass twice its limit around a window boundary, as a fixed window does. The checks before the handlers change no state of theirs.
- **Object store and media store adapters**: Calls of the object store, each taken as one step that may fail where a module uses one (FaissIndex, StudentLifecycle, WhatsAppShare).
- **Detectors, embedders and video extraction**: Numeric code over images. What a search may come up with is chosen from scenes in Gallery.
- **HTTP API, schemas, settings and wiring**: Start-up and request plumbing without state of its own; the routes and permission checks that decide which requests there are appear in the modules whose operations they begin.
- **Database models and migrations**: Tables and their migrations; rows and constraints appear in the modules that use them.
- **Observability and command line**: Metrics, logs and one-shot commands.
- **In-process job queue**: A development stand-in for the Redis queue.
- **Frontend**: A client of the API. Its infinite list (Listings), its export of the logs (Office) and the reaping of a bulk upload (StudentLifecycle) are modelled with what they call; pages, forms and the upload queue, which retries single uploads and keeps nothing, are not.
