---------------------------- MODULE EventPipeline ----------------------------
(***************************************************************************)
(* The event pipeline: the backend's "Process" button puts one job per     *)
(* event on a Redis stream, ML workers consume the stream through a        *)
(* consumer group, run the photos of the event and write the status        *)
(* columns of the backend's own events and media rows.                     *)
(*                                                                         *)
(* Actors, all interleaving at the granularity of one database statement   *)
(* or one Redis command (the awaits of the code):                          *)
(*   - Callers: concurrent requests in EventService.process_event;         *)
(*   - Workers: each runs WorkerRunner._consume_loop over                  *)
(*     RedisStreamsJobQueue.consume and, beside it, WorkerRunner._dlq_loop;*)
(*   - uploaders (RegisterMedia), staff (SetStatus), and the clock         *)
(*     (BecomeIdle, GoStale).                                              *)
(* A stream entry whose XACK is done is never delivered again, so the XDEL *)
(* that follows it (ack, _to_dlq) is part of the same action.              *)
(***************************************************************************)
EXTENDS Naturals, FiniteSets

CONSTANTS
  Events,         \* events of one school
  Photos,         \* media rows that may be registered
  EventOf,        \* the event of each photo: [Photos -> Events]
  Workers,        \* ML worker processes
  Callers,        \* concurrent Process requests
  MaxJobs,        \* bound: XADDs to the job stream
  MaxCopies,      \* bound: copies of one job on the dead-letter stream at a time
  MaxFaults,      \* bound: worker crashes and failed dead-letter sweeps
  MaxStale,       \* bound: events that outlive inflight_stale_s
  MaxFlips,       \* bound: archive and restore operations
  MaxDeliveries,  \* max_deliveries of the queue
  ClaimBatch      \* claim_batch of XAUTOCLAIM

ASSUME PipelineAssumption ==
  /\ EventOf \in [Photos -> Events]
  /\ {MaxJobs, MaxCopies, MaxFaults, MaxStale, MaxFlips} \subseteq Nat
  /\ {MaxDeliveries, ClaimBatch} \subseteq Nat \ {0}
  /\ IsFiniteSet(Workers) /\ Workers # {}

Jobs        == 1..MaxJobs     \* stream message ids, in XADD order
DeadLetters == [job : Jobs, copy : 1..MaxCopies]
NoJob       == 0
NoEvent     == "no event"

VARIABLES
  \* backend database
  evStatus,    \* events.processing_status
  enqueuedAt,  \* events.enqueued_at, as _is_stale_in_flight sees it
  active,      \* events.status = ACTIVE
  media,       \* media.processing_status ("absent" and "uploading"
               \* before the row exists)
  \* Redis
  entry,       \* state of each stream message in the consumer group
  jobEvent,    \* its event_id field
  deliveries,  \* its delivery count (kept at MaxDeliveries + 1 once beyond)
  dlq,         \* the dead-letter stream: a set of DeadLetters
  \* each worker's consume loop
  wpc,         \* where the loop is
  batch,       \* messages XAUTOCLAIM returned, not yet looked at
  leases,      \* reclaimed leases still to be yielded
  fresh,       \* the current lease came from XREADGROUP
  cur,         \* message of the current lease
  todo,        \* photos of the roster still to be run
  \* each worker's dead-letter loop
  drained,     \* dead letters XRANGE returned, not yet marked
  marked,      \* the one whose event is marked failed, still to be removed
  \* each Process request
  rpc, rEvent, rFailed,
  \* bounded faults and history
  faults, stales, flips,
  owed,        \* history: photos registered when the job was XADDed
  told,        \* history: jobs for which mark_event_failed has run
  leased       \* history: how many leases were made of each message

dbVars     == <<evStatus, enqueuedAt, active>>
streamVars == <<entry, jobEvent, deliveries>>
loopVars   == <<wpc, batch, leases, fresh, cur, todo>>
sweepVars  == <<drained, marked>>
callVars   == <<rpc, rEvent, rFailed>>
boundVars  == <<faults, stales, flips>>
histVars   == <<owed, told, leased>>
vars == <<dbVars, media, streamVars, dlq, loopVars, sweepVars, callVars,
          boundVars, histVars>>

EventStates   == {"not_started", "queued", "processing", "completed", "failed"}
InFlight      == {"queued", "processing"}
\* Mutant: mark_event_failed without its only_from guard.
FailableUnguarded == {"not_started", "queued", "processing", "completed", "failed"}

Failable      == {"queued", "processing", "failed"}
PhotoStates   == {"absent", "uploading", "pending", "completed", "failed"}
\* "new": never delivered; "pending": delivered less than claim_min_idle_ms
\* ago; "idle": longer ago; "acked": XACKed by ack; "dead": XACKed by _to_dlq
EntryStates   == {"none", "new", "pending", "idle", "acked", "dead"}
LoopStates    == {"reclaim", "triage", "bury", "unlist", "fetch", "begin",
                  "roster", "photo", "ack"}

Oldest(S)     == CHOOSE i \in S : \A j \in S : i <= j
OldestN(S, n) == {i \in S : Cardinality({j \in S : j < i}) < n}

Unacked(i)    == entry[i] \in {"pending", "idle"}
HasRow(m)     == media[m] \notin {"absent", "uploading"}
Registered(e) == {m \in Photos : EventOf[m] = e /\ HasRow(m)}
Outstanding(e) == {m \in Registered(e) : media[m] \in {"pending", "failed"}}

Init ==
  /\ evStatus = [e \in Events |-> "not_started"]
  /\ enqueuedAt = [e \in Events |-> "never"]
  /\ active = [e \in Events |-> TRUE]
  /\ media = [m \in Photos |-> "absent"]
  /\ entry = [i \in Jobs |-> "none"]
  /\ jobEvent = [i \in Jobs |-> NoEvent]
  /\ deliveries = [i \in Jobs |-> 0]
  /\ dlq = {}
  /\ wpc = [w \in Workers |-> "reclaim"]
  /\ batch = [w \in Workers |-> {}]
  /\ leases = [w \in Workers |-> {}]
  /\ fresh = [w \in Workers |-> FALSE]
  /\ cur = [w \in Workers |-> NoJob]
  /\ todo = [w \in Workers |-> {}]
  /\ drained = [w \in Workers |-> {}]
  /\ marked = [w \in Workers |-> {}]
  /\ rpc = [c \in Callers |-> "free"]
  /\ rEvent = [c \in Callers |-> NoEvent]
  /\ rFailed = [c \in Callers |-> FALSE]
  /\ faults = 0 /\ stales = 0 /\ flips = 0
  /\ owed = [i \in Jobs |-> {}]
  /\ told = {}
  /\ leased = [i \in Jobs |-> 0]

-----------------------------------------------------------------------------
(* Uploads and event administration.                                       *)

\* register_media checks that the event is active ...
CheckActive(m) ==
  /\ media[m] = "absent"
  /\ active[EventOf[m]]
  /\ media' = [media EXCEPT ![m] = "uploading"]
  /\ UNCHANGED <<dbVars, streamVars, dlq, loopVars, sweepVars, callVars,
                 boundVars, histVars>>

\* ... and, some awaits later, inserts the row, pending by default.
RegisterMedia(m) ==
  /\ media[m] = "uploading"
  /\ media' = [media EXCEPT ![m] = "pending"]
  /\ UNCHANGED <<dbVars, streamVars, dlq, loopVars, sweepVars, callVars,
                 boundVars, histVars>>

\* Archive or restore: update and set_status_bulk write the status column
\* and leave the processing columns alone.
SetStatus(e) ==
  /\ flips < MaxFlips
  /\ flips' = flips + 1
  /\ active' = [active EXCEPT ![e] = ~active[e]]
  /\ UNCHANGED <<evStatus, enqueuedAt, media, streamVars, dlq, loopVars,
                 sweepVars, callVars, faults, stales, histVars>>

-----------------------------------------------------------------------------
(* EventService.process_event, one action per await.                       *)

InFlightRecently(e) == evStatus[e] \in InFlight /\ enqueuedAt[e] = "recent"

\* get_event and the two refusals that look only at the row it returned.
ReadEvent(c, e) ==
  /\ rpc[c] = "free"
  /\ active[e]
  /\ ~InFlightRecently(e)
  /\ rpc' = [rpc EXCEPT ![c] = "count"]
  /\ rEvent' = [rEvent EXCEPT ![c] = e]
  /\ rFailed' = [rFailed EXCEPT ![c] = (evStatus[e] = "failed")]
  /\ UNCHANGED <<dbVars, media, streamVars, dlq, loopVars, sweepVars,
                 boundVars, histVars>>

\* The locals of a request that has returned are gone.
Return(c) ==
  /\ rpc' = [rpc EXCEPT ![c] = "free"]
  /\ rEvent' = [rEvent EXCEPT ![c] = NoEvent]
  /\ rFailed' = [rFailed EXCEPT ![c] = FALSE]

\* status_counts: nothing outstanding is refused unless the row read earlier
\* was failed.
CountPhotos(c) ==
  /\ rpc[c] = "count"
  /\ \/ /\ Outstanding(rEvent[c]) # {} \/ rFailed[c]
        /\ rpc' = [rpc EXCEPT ![c] = "enqueue"]
        /\ UNCHANGED <<rEvent, rFailed>>
     \/ /\ Outstanding(rEvent[c]) = {} /\ ~rFailed[c]
        /\ Return(c)
  /\ UNCHANGED <<dbVars, media, streamVars, dlq, loopVars, sweepVars,
                 boundVars, histVars>>

\* RedisEventJobProducer.enqueue: XADD.
Enqueue(c) ==
  /\ rpc[c] = "enqueue"
  /\ \E i \in Jobs :
       /\ entry[i] = "none"
       /\ \A j \in Jobs : j < i => entry[j] # "none"
       /\ entry' = [entry EXCEPT ![i] = "new"]
       /\ jobEvent' = [jobEvent EXCEPT ![i] = rEvent[c]]
       /\ owed' = [owed EXCEPT ![i] = Registered(rEvent[c])]
  /\ rpc' = [rpc EXCEPT ![c] = "flip"]
  /\ UNCHANGED <<dbVars, media, deliveries, dlq, loopVars, sweepVars,
                 rEvent, rFailed, boundVars, told, leased>>

\* set_processing(QUEUED): an unconditional UPDATE that stamps enqueued_at.
SetQueued(c) ==
  /\ rpc[c] = "flip"
  /\ evStatus' = [evStatus EXCEPT ![rEvent[c]] = "queued"]
  /\ enqueuedAt' = [enqueuedAt EXCEPT ![rEvent[c]] = "recent"]
  /\ Return(c)
  /\ UNCHANGED <<active, media, streamVars, dlq, loopVars, sweepVars,
                 boundVars, histVars>>

\* The request ends early: Redis is down (UpstreamError), a statement fails,
\* or the backend process dies.
RequestFails(c) ==
  /\ rpc[c] # "free"
  /\ Return(c)
  /\ UNCHANGED <<dbVars, media, streamVars, dlq, loopVars, sweepVars,
                 boundVars, histVars>>

-----------------------------------------------------------------------------
(* RedisStreamsJobQueue.consume: reclaim what is idle, then read one new   *)
(* message, for ever.                                                      *)

\* Mutant: XAUTOCLAIM never finds anything (its idle threshold is not reached).
ReclaimNothing(w) ==
  /\ wpc[w] = "reclaim"
  /\ wpc' = [wpc EXCEPT ![w] = "fetch"]
  /\ UNCHANGED <<dbVars, media, streamVars, dlq, batch, leases, fresh, cur,
                 todo, sweepVars, callVars, boundVars, histVars>>

\* XAUTOCLAIM: up to claim_batch idle messages, oldest first, become this
\* worker's; each claim counts as a delivery and restarts the idle clock.
Reclaim(w) ==
  /\ wpc[w] = "reclaim"
  /\ LET claimed == OldestN({i \in Jobs : entry[i] = "idle"}, ClaimBatch)
     IN /\ entry' = [i \in Jobs |-> IF i \in claimed THEN "pending" ELSE entry[i]]
        /\ deliveries' = [i \in Jobs |->
             IF i \in claimed /\ deliveries[i] <= MaxDeliveries
               THEN deliveries[i] + 1 ELSE deliveries[i]]
        /\ batch' = [batch EXCEPT ![w] = claimed]
        /\ wpc' = [wpc EXCEPT ![w] = IF claimed = {} THEN "fetch" ELSE "triage"]
  /\ UNCHANGED <<dbVars, media, jobEvent, dlq, leases, fresh, cur, todo,
                 sweepVars, callVars, boundVars, histVars>>

\* _delivery_count: XPENDING for one message, 0 when it is no longer pending.
DeliveryCount(i) == IF Unacked(i) THEN deliveries[i] ELSE 0

\* The message of a lease; how often that happened is history.
Lease(i) == leased' = [leased EXCEPT ![i] = leased[i] + 1]

\* Mutant: a claimed message becomes a lease whatever its count.
KeepAnyLease(w) ==
  /\ wpc[w] = "triage" /\ batch[w] # {}
  /\ LET i == Oldest(batch[w])
     IN /\ batch' = [batch EXCEPT ![w] = batch[w] \ {i}]
        /\ leases' = [leases EXCEPT ![w] = leases[w] \cup {i}]
        /\ Lease(i)
  /\ UNCHANGED <<dbVars, media, streamVars, dlq, wpc, fresh, cur, todo,
                 sweepVars, callVars, boundVars, owed, told>>

\* XPENDING shows the next claimed message within max_deliveries, or finds
\* that another worker has taken it off the list: it becomes a lease.
KeepLease(w) ==
  /\ wpc[w] = "triage" /\ batch[w] # {}
  /\ LET i == Oldest(batch[w])
     IN /\ DeliveryCount(i) <= MaxDeliveries
        /\ batch' = [batch EXCEPT ![w] = batch[w] \ {i}]
        /\ leases' = [leases EXCEPT ![w] = leases[w] \cup {i}]
        /\ Lease(i)
  /\ UNCHANGED <<dbVars, media, streamVars, dlq, wpc, fresh, cur, todo,
                 sweepVars, callVars, boundVars, owed, told>>

\* XPENDING shows it beyond max_deliveries: it is given up on, whatever
\* becomes of it between this command and the next ones.
GiveUp(w) ==
  /\ wpc[w] = "triage" /\ batch[w] # {}
  /\ DeliveryCount(Oldest(batch[w])) > MaxDeliveries
  /\ wpc' = [wpc EXCEPT ![w] = "bury"]
  /\ UNCHANGED <<dbVars, media, streamVars, dlq, batch, leases, fresh, cur,
                 todo, sweepVars, callVars, boundVars, histVars>>

\* Dead letters that are on the stream or in the memory of a sweep.
KnownDead == dlq \cup UNION {drained[w] \cup marked[w] : w \in Workers}

\* XADD gives the copy an id that none of them has.
NewCopies(i) ==
  {d \in DeadLetters : /\ d.job = i /\ d \notin KnownDead
                       /\ \A n \in 1..(d.copy - 1) :
                            [job |-> i, copy |-> n] \in KnownDead}

\* _to_dlq, first command: copy the message to the dead-letter stream, also
\* when the worker that ran it has acknowledged it since the count was read.
DeadLetter(w) ==
  /\ wpc[w] = "bury"
  /\ \E d \in NewCopies(Oldest(batch[w])) : dlq' = dlq \cup {d}
  /\ wpc' = [wpc EXCEPT ![w] = "unlist"]
  /\ UNCHANGED <<dbVars, media, streamVars, batch, leases, fresh, cur, todo,
                 sweepVars, callVars, boundVars, histVars>>

\* _to_dlq, second command: XACK it off the job stream.
Unlist(w) ==
  /\ wpc[w] = "unlist"
  /\ LET i == Oldest(batch[w])
     IN /\ entry' = [entry EXCEPT ![i] = IF Unacked(i) THEN "dead" ELSE entry[i]]
        /\ batch' = [batch EXCEPT ![w] = batch[w] \ {i}]
  /\ wpc' = [wpc EXCEPT ![w] = "triage"]
  /\ UNCHANGED <<dbVars, media, jobEvent, deliveries, dlq, leases, fresh,
                 cur, todo, sweepVars, callVars, boundVars, histVars>>

\* Hand out the oldest lease of S; without one, go where the loop goes next.
Yield(w, S, next) ==
  \/ /\ S = {}
     /\ wpc' = [wpc EXCEPT ![w] = next]
     /\ cur' = [cur EXCEPT ![w] = NoJob]
     /\ UNCHANGED leases
  \/ /\ S # {}
     /\ wpc' = [wpc EXCEPT ![w] = "begin"]
     /\ cur' = [cur EXCEPT ![w] = Oldest(S)]
     /\ leases' = [leases EXCEPT ![w] = S \ {Oldest(S)}]

\* _reclaim_stuck is over: yield its first lease, or go on to XREADGROUP.
YieldReclaimed(w) ==
  /\ wpc[w] = "triage" /\ batch[w] = {}
  /\ Yield(w, leases[w], "fetch")
  /\ UNCHANGED <<dbVars, media, streamVars, dlq, batch, fresh, todo,
                 sweepVars, callVars, boundVars, histVars>>

\* XREADGROUP with count=1: the oldest message never delivered, or nothing
\* within block_ms.
Fetch(w) ==
  /\ wpc[w] = "fetch"
  /\ LET unseen == {i \in Jobs : entry[i] = "new"}
     IN \/ /\ unseen = {}
           /\ wpc' = [wpc EXCEPT ![w] = "reclaim"]
           /\ UNCHANGED <<entry, deliveries, cur, fresh, leased>>
        \/ /\ unseen # {}
           /\ entry' = [entry EXCEPT ![Oldest(unseen)] = "pending"]
           /\ deliveries' = [deliveries EXCEPT ![Oldest(unseen)] = 1]
           /\ cur' = [cur EXCEPT ![w] = Oldest(unseen)]
           /\ fresh' = [fresh EXCEPT ![w] = TRUE]
           /\ wpc' = [wpc EXCEPT ![w] = "begin"]
           /\ Lease(Oldest(unseen))
  /\ UNCHANGED <<dbVars, media, jobEvent, dlq, batch, leases, todo,
                 sweepVars, callVars, boundVars, owed, told>>

-----------------------------------------------------------------------------
(* WorkerRunner.handle over InferenceService.process_event.                *)

\* handle has returned: the consume loop resumes its generator, which is
\* inside the reclaimed batch or after XREADGROUP.
Resume(w) ==
  /\ Yield(w, leases[w], IF fresh[w] THEN "reclaim" ELSE "fetch")
  /\ fresh' = [fresh EXCEPT ![w] = FALSE]
  /\ todo' = [todo EXCEPT ![w] = {}]

\* Mutant: a status string the backend's CHECK constraint does not know.
BeginEventOffContract(w) ==
  /\ wpc[w] = "begin"
  /\ evStatus' = [evStatus EXCEPT ![jobEvent[cur[w]]] = "in_progress"]
  /\ wpc' = [wpc EXCEPT ![w] = "roster"]
  /\ UNCHANGED <<enqueuedAt, active, media, streamVars, dlq, batch, leases,
                 fresh, cur, todo, sweepVars, callVars, boundVars, histVars>>

\* mark_event_processing: an unconditional UPDATE.
BeginEvent(w) ==
  /\ wpc[w] = "begin"
  /\ evStatus' = [evStatus EXCEPT ![jobEvent[cur[w]]] = "processing"]
  /\ wpc' = [wpc EXCEPT ![w] = "roster"]
  /\ UNCHANGED <<enqueuedAt, active, media, streamVars, dlq, batch, leases,
                 fresh, cur, todo, sweepVars, callVars, boundVars, histVars>>

\* list_event_media: one SELECT; the photos it shows as completed are skipped.
ReadRoster(w) ==
  /\ wpc[w] = "roster"
  /\ todo' = [todo EXCEPT ![w] = Outstanding(jobEvent[cur[w]])]
  /\ wpc' = [wpc EXCEPT ![w] = "photo"]
  /\ UNCHANGED <<dbVars, media, streamVars, dlq, batch, leases, fresh, cur,
                 sweepVars, callVars, boundVars, histVars>>

\* Mutant: a version mismatch skips the photo instead of aborting the event.
RunPhotoOrSkip(w) ==
  /\ wpc[w] = "photo"
  /\ \E m \in todo[w] : \E result \in {"completed", "failed", media[m]} :
       /\ media' = [media EXCEPT ![m] = result]
       /\ todo' = [todo EXCEPT ![w] = todo[w] \ {m}]
  /\ UNCHANGED <<dbVars, streamVars, dlq, wpc, batch, leases, fresh, cur,
                 sweepVars, callVars, boundVars, histVars>>

\* process() on one photo and the status write that follows it: completed, or
\* failed when fetching, decoding or anything else raised. The roster is in
\* the order of random ids.
RunPhoto(w) ==
  /\ wpc[w] = "photo"
  /\ \E m \in todo[w], result \in {"completed", "failed"} :
       /\ media' = [media EXCEPT ![m] = result]
       /\ todo' = [todo EXCEPT ![w] = todo[w] \ {m}]
  /\ UNCHANGED <<dbVars, streamVars, dlq, wpc, batch, leases, fresh, cur,
                 sweepVars, callVars, boundVars, histVars>>

\* mark_event_completed: an unconditional UPDATE.
FinishEvent(w) ==
  /\ wpc[w] = "photo" /\ todo[w] = {}
  /\ evStatus' = [evStatus EXCEPT ![jobEvent[cur[w]]] = "completed"]
  /\ wpc' = [wpc EXCEPT ![w] = "ack"]
  /\ UNCHANGED <<enqueuedAt, active, media, streamVars, dlq, batch, leases,
                 fresh, cur, todo, sweepVars, callVars, boundVars, histVars>>

\* ack: XACK and XDEL; nothing happens to a message that is no longer pending.
Ack(w) ==
  /\ wpc[w] = "ack"
  /\ entry' = [entry EXCEPT ![cur[w]] =
                 IF Unacked(cur[w]) THEN "acked" ELSE entry[cur[w]]]
  /\ Resume(w)
  /\ UNCHANGED <<dbVars, media, jobEvent, deliveries, dlq, batch,
                 sweepVars, callVars, boundVars, histVars>>

\* Mutant: an error acknowledges the job, so that it is not redelivered.
NackAcks(w) ==
  /\ wpc[w] \in {"begin", "roster", "photo", "ack"}
  /\ entry' = [entry EXCEPT ![cur[w]] =
                 IF Unacked(cur[w]) THEN "acked" ELSE entry[cur[w]]]
  /\ Resume(w)
  /\ UNCHANGED <<dbVars, media, jobEvent, deliveries, dlq, batch, sweepVars,
                 callVars, boundVars, histVars>>

\* Mutant: an error marks the event failed at once, before any redelivery.
NackMarksFailed(w) ==
  /\ wpc[w] \in {"begin", "roster", "photo", "ack"}
  /\ evStatus' = [evStatus EXCEPT ![jobEvent[cur[w]]] = "failed"]
  /\ Resume(w)
  /\ UNCHANGED <<enqueuedAt, active, media, streamVars, dlq, batch, sweepVars,
                 callVars, boundVars, histVars>>

\* EmbeddingVersionMismatch or a failed statement: nack, which does nothing.
\* A failed XACK is logged by _consume_loop and has the same effect.
Nack(w) ==
  /\ wpc[w] \in {"begin", "roster", "photo", "ack"}
  /\ Resume(w)
  /\ UNCHANGED <<dbVars, media, streamVars, dlq, batch, sweepVars,
                 callVars, boundVars, histVars>>

-----------------------------------------------------------------------------
(* WorkerRunner._dlq_loop.                                                 *)

\* Mutant: the drain removes what it reads.
DrainAndRemove(w) ==
  /\ drained[w] = {} /\ marked[w] = {} /\ dlq # {}
  /\ drained' = [drained EXCEPT ![w] = dlq]
  /\ dlq' = {}
  /\ UNCHANGED <<dbVars, media, streamVars, loopVars, marked, callVars,
                 boundVars, histVars>>

\* drain_dead_letters: XRANGE, removing nothing.
Drain(w) ==
  /\ drained[w] = {} /\ marked[w] = {} /\ dlq # {}
  /\ drained' = [drained EXCEPT ![w] = dlq]
  /\ UNCHANGED <<dbVars, media, streamVars, dlq, loopVars, marked, callVars,
                 boundVars, histVars>>

\* mark_event_failed: an UPDATE of an event in one of the failable states. The
\* model sweeps in any order, the code in that of the stream ids.
MarkFailed(w) ==
  /\ marked[w] = {}
  /\ \E d \in drained[w] :
       LET e == jobEvent[d.job]
       IN /\ evStatus' = [evStatus EXCEPT ![e] =
                            IF evStatus[e] \in Failable THEN "failed" ELSE evStatus[e]]
          /\ told' = told \cup {d.job}
          /\ drained' = [drained EXCEPT ![w] = drained[w] \ {d}]
          /\ marked' = [marked EXCEPT ![w] = {d}]
  /\ UNCHANGED <<enqueuedAt, active, media, streamVars, dlq, loopVars,
                 callVars, boundVars, owed, leased>>

\* remove_dead_letter: XDEL.
RemoveDead(w) ==
  /\ marked[w] # {}
  /\ dlq' = dlq \ marked[w]
  /\ marked' = [marked EXCEPT ![w] = {}]
  /\ UNCHANGED <<dbVars, media, streamVars, loopVars, drained, callVars,
                 boundVars, histVars>>

\* The sweep forgets what it drained.
ForgetDrained(w) ==
  /\ drained' = [drained EXCEPT ![w] = {}]
  /\ marked' = [marked EXCEPT ![w] = {}]

\* A statement of the sweep fails: logged, and the next sweep starts over.
SweepFails(w) ==
  /\ drained[w] \cup marked[w] # {}
  /\ faults < MaxFaults
  /\ faults' = faults + 1
  /\ ForgetDrained(w)
  /\ UNCHANGED <<dbVars, media, streamVars, dlq, loopVars, callVars, stales,
                 flips, histVars>>

-----------------------------------------------------------------------------
(* The process and the clocks.                                             *)

\* A worker dies and a new one takes its place: both loops restart with
\* nothing in memory. An error of the queue inside consume() ends the same
\* way: it leaves the generator, and the TaskGroup cancels both loops.
Crash(w) ==
  /\ faults < MaxFaults
  /\ faults' = faults + 1
  /\ wpc' = [wpc EXCEPT ![w] = "reclaim"]
  /\ batch' = [batch EXCEPT ![w] = {}]
  /\ leases' = [leases EXCEPT ![w] = {}]
  /\ fresh' = [fresh EXCEPT ![w] = FALSE]
  /\ cur' = [cur EXCEPT ![w] = NoJob]
  /\ todo' = [todo EXCEPT ![w] = {}]
  /\ ForgetDrained(w)
  /\ UNCHANGED <<dbVars, media, streamVars, dlq, callVars, stales, flips,
                 histVars>>

\* claim_min_idle_ms pass without a delivery, whoever holds the message and
\* whether or not it is still being worked on.
BecomeIdle(i) ==
  /\ entry[i] = "pending"
  /\ entry' = [entry EXCEPT ![i] = "idle"]
  /\ UNCHANGED <<dbVars, media, jobEvent, deliveries, dlq, loopVars,
                 sweepVars, callVars, boundVars, histVars>>

\* inflight_stale_s pass since enqueued_at.
GoStale(e) ==
  /\ enqueuedAt[e] = "recent" /\ stales < MaxStale
  /\ enqueuedAt' = [enqueuedAt EXCEPT ![e] = "old"]
  /\ stales' = stales + 1
  /\ UNCHANGED <<evStatus, active, media, streamVars, dlq, loopVars,
                 sweepVars, callVars, faults, flips, histVars>>

-----------------------------------------------------------------------------
Consume(w) == \/ Reclaim(w) \/ KeepLease(w) \/ GiveUp(w)
              \/ DeadLetter(w) \/ Unlist(w)
              \/ YieldReclaimed(w) \/ Fetch(w)
              \/ BeginEvent(w) \/ ReadRoster(w) \/ RunPhoto(w)
              \/ FinishEvent(w) \/ Ack(w)

Sweep(w) == Drain(w) \/ MarkFailed(w) \/ RemoveDead(w)

Request(c) == \/ \E e \in Events : ReadEvent(c, e)
              \/ CountPhotos(c) \/ Enqueue(c) \/ SetQueued(c)

Next ==
  \/ \E m \in Photos : CheckActive(m) \/ RegisterMedia(m)
  \/ \E e \in Events : SetStatus(e) \/ GoStale(e)
  \/ \E c \in Callers : Request(c) \/ RequestFails(c)
  \/ \E w \in Workers : Consume(w) \/ Nack(w) \/ Sweep(w) \/ SweepFails(w) \/ Crash(w)
  \/ \E i \in Jobs : BecomeIdle(i)

Spec == Init /\ [][Next]_vars

\* The loops of a worker keep running and time passes; nothing makes users,
\* uploads or failures happen.
Fairness ==
  /\ \A w \in Workers : WF_vars(Consume(w)) /\ WF_vars(Sweep(w))
  /\ \A i \in Jobs : WF_vars(BecomeIdle(i))

FairSpec == Spec /\ Fairness

-----------------------------------------------------------------------------
\* Every variable keeps its type.
TypeOK ==
  /\ evStatus \in [Events -> EventStates]
  /\ enqueuedAt \in [Events -> {"never", "recent", "old"}]
  /\ active \in [Events -> BOOLEAN]
  /\ media \in [Photos -> PhotoStates]
  /\ entry \in [Jobs -> EntryStates]
  /\ jobEvent \in [Jobs -> Events \cup {NoEvent}]
  /\ deliveries \in [Jobs -> 0..(MaxDeliveries + 1)]
  /\ dlq \subseteq DeadLetters
  /\ wpc \in [Workers -> LoopStates]
  /\ batch \in [Workers -> SUBSET Jobs]
  /\ leases \in [Workers -> SUBSET Jobs]
  /\ fresh \in [Workers -> BOOLEAN]
  /\ cur \in [Workers -> Jobs \cup {NoJob}]
  /\ todo \in [Workers -> SUBSET Photos]
  /\ drained \in [Workers -> SUBSET DeadLetters]
  /\ marked \in [Workers -> SUBSET DeadLetters]
  /\ rpc \in [Callers -> {"free", "count", "enqueue", "flip"}]
  /\ rEvent \in [Callers -> Events \cup {NoEvent}]
  /\ rFailed \in [Callers -> BOOLEAN]
  /\ faults \in 0..MaxFaults
  /\ stales \in 0..MaxStale
  /\ flips \in 0..MaxFlips
  /\ owed \in [Jobs -> SUBSET Photos]
  /\ told \subseteq Jobs
  /\ leased \in [Jobs -> Nat]

\* A job is acknowledged only when every photo registered before it was put on
\* the stream has been run to an outcome, by this delivery or another one,
\* whatever crashed, was redelivered or was registered meanwhile
\* (WorkerRunner.handle acks after process_event; an error nacks).
AckedJobsRanTheirPhotos ==
  \A i \in Jobs : entry[i] = "acked" =>
    \A m \in owed[i] : media[m] \in {"completed", "failed"}

\* A job taken off the stream without an ack is never lost: its copy waits on
\* the dead-letter stream until mark_event_failed has run for it (XADD before
\* XACK in _to_dlq, mark before remove in the sweep).
DeadJobsAreNotLost ==
  \A i \in Jobs : entry[i] = "dead" => i \in told \/ \E d \in dlq : d.job = i

\* A job that fails or kills whoever runs it is handed out a bounded number of
\* times, whatever crashes between which commands: max_deliveries, and once more
\* for each other worker that had claimed it before it left the list, because
\* XPENDING shows such a worker nothing and _delivery_count answers 0.
HandOutsAreBounded ==
  \A i \in Jobs : leased[i] <= MaxDeliveries + Cardinality(Workers) - 1

\* A dead letter that outlives the retry of its event (a crash between mark
\* and remove, or a second worker's sweep) never turns a completed event into
\* a failed one (the guard of BackendEventStore.mark_event_failed).
CompletedEventsStayUnfailed ==
  [][\A e \in Events : evStatus[e] = "completed" => evStatus'[e] # "failed"]_vars

\* An event reads failed only when one of its jobs was dead-lettered: neither
\* a nack nor a crash shows a failure that a redelivery will repair.
FailedEventsHadDeadLetters ==
  \A e \in Events : evStatus[e] = "failed" => \E i \in told : jobEvent[i] = e

\* Every job put on the stream is, in the end, acknowledged with its photos
\* run, or reported by marking its event failed.
JobsSettle ==
  \A i \in Jobs : (entry[i] # "none") ~> (entry[i] = "acked" \/ i \in told)

-----------------------------------------------------------------------------
(* The inductive invariants behind the safety properties.                  *)

Handling == {"begin", "roster", "photo", "ack"}

\* Loops and requests only name messages and events that exist.
References ==
  /\ \A i \in Jobs : entry[i] # "none" => jobEvent[i] \in Events
  /\ \A w \in Workers : \A i \in batch[w] \cup leases[w] : entry[i] # "none"
  /\ \A w \in Workers : wpc[w] \in Handling =>
       cur[w] \in Jobs /\ entry[cur[w]] # "none"
  /\ \A c \in Callers : rpc[c] # "free" => rEvent[c] \in Events

\* What a job owes are registered photos of its event.
OwedAreRegistered ==
  \A i \in Jobs : \A m \in owed[i] :
    entry[i] # "none" /\ HasRow(m) /\ EventOf[m] = jobEvent[i]

\* The roster a worker still has to run holds every owed photo that has had no
\* outcome; after the roster, there is none.
RosterCoversOwed ==
  \A w \in Workers :
    /\ wpc[w] = "photo" =>
         \A m \in owed[cur[w]] : media[m] = "pending" => m \in todo[w]
    /\ wpc[w] = "ack" => \A m \in owed[cur[w]] : media[m] # "pending"

AckInv == References /\ OwedAreRegistered /\ RosterCoversOwed /\ AckedJobsRanTheirPhotos

\* What is being given up on, and what was, has been delivered too often.
GivenUpWereExhausted ==
  /\ \A w \in Workers : wpc[w] = "bury" =>
       batch[w] # {} /\ deliveries[Oldest(batch[w])] > MaxDeliveries
  /\ \A d \in dlq : deliveries[d.job] > MaxDeliveries
  /\ \A i \in Jobs : entry[i] \in {"none", "new"} => deliveries[i] = 0

\* Between its two commands, _to_dlq has left a copy that no sweep can drop
\* untold.
CopyBeforeUnlist ==
  /\ \A w \in Workers : wpc[w] = "unlist" =>
       /\ batch[w] # {}
       /\ LET i == Oldest(batch[w]) IN i \in told \/ \E d \in dlq : d.job = i
  /\ \A w \in Workers : \A d \in marked[w] : d.job \in told

\* What a sweep holds in memory is still a dead letter or has been told.
DrainedAreBuried ==
  \A w \in Workers : \A d \in drained[w] : d \in dlq \/ d.job \in told

DeadInv == GivenUpWereExhausted /\ CopyBeforeUnlist /\ DeadJobsAreNotLost

\* The workers that have claimed message i and not looked at its count.
Holders(i) == {w \in Workers : i \in batch[w]}

\* Each delivery makes one lease at the most. A claim that is not decided yet
\* may still become one: by its number, while the message is pending, and
\* whatever its number once it is not.
LeaseBound(i) ==
  LET claims == Cardinality(Holders(i))
  IN /\ entry[i] \in {"none", "new"} => leased[i] = 0 /\ claims = 0
     /\ Unacked(i) /\ deliveries[i] <= MaxDeliveries
          => leased[i] + claims <= deliveries[i]
     /\ Unacked(i) /\ deliveries[i] > MaxDeliveries => leased[i] <= MaxDeliveries
     /\ entry[i] \in {"acked", "dead"}
          => leased[i] + claims <= MaxDeliveries + Cardinality(Workers) - 1

LeasesFollowDeliveries ==
  /\ \A w \in Workers : wpc[w] \notin {"triage", "bury", "unlist"} => batch[w] = {}
  /\ \A i \in Jobs : LeaseBound(i)

-----------------------------------------------------------------------------
(* The pipeline implements the ledger.                                     *)

JobState(i) == CASE entry[i] = "none"  -> "none"
                 [] entry[i] = "acked" -> "done"
                 [] entry[i] = "dead"  -> "dropped"
                 [] OTHER              -> "open"

Ran    == {m \in Photos : media[m] \in {"completed", "failed"}}
Buried == told \cup {d.job : d \in dlq}

Spent  == {i \in Jobs : deliveries[i] > MaxDeliveries}

Ledger == INSTANCE JobLedger WITH
  state <- [i \in Jobs |-> JobState(i)], ran <- Ran, spent <- Spent, buried <- Buried

\* The pipeline keeps the promise of the ports (JobQueue, BackendEventStore):
\* every step of it is a step of the ledger or leaves the ledger alone.
ImplementsLedger == Ledger!Spec

-----------------------------------------------------------------------------
(* What the documentation says and the code does not do.                   *)

\* Nothing that could still change the status of e is under way.
Quiet(e) ==
  /\ \A i \in Jobs : jobEvent[i] = e =>
       /\ entry[i] \in {"acked", "dead"}
       /\ \A d \in dlq : d.job # i
       /\ \A w \in Workers :
            /\ cur[w] # i /\ i \notin leases[w] \cup batch[w]
            /\ \A d \in drained[w] : d.job # i
  /\ \A c \in Callers : rEvent[c] # e

\* "an event can never strand" (process_event, decisions/0069): an event left
\* queued or processing with nothing under way can be processed again, which
\* needs an outstanding photo.
EventsNeverStrand ==
  \A e \in Events : Quiet(e) /\ evStatus[e] \in InFlight => Outstanding(e) # {}

=============================================================================
