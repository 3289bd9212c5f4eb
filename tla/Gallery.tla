------------------------------- MODULE Gallery -------------------------------
(***************************************************************************)
(* Who appears on an event's photos, and who is told: the match rows the   *)
(* ML workers write, the corrections people lay over them, the listings,   *)
(* downloads and review lane read from both, the announcement of the       *)
(* event, and the erasure of a student from all of it.                     *)
(*                                                                         *)
(* One event of one school.  Matches belong to the ML service, corrections *)
(* to the backend: no transaction covers both, so a request reads the one, *)
(* then the other.  One action is the code between two awaits, except that *)
(* a request's tenancy and existence checks are one step, and the rows of  *)
(* the students it names are read together with the corrections.           *)
(***************************************************************************)
EXTENDS Matching, FiniteSets

CONSTANTS
  Students, Media,
  Views,      \* a sequence of what the search may make of a photo: scenes, see Matching
  Workers,    \* ML workers, each at one photo at a time
  Requests,   \* slots for backend requests, each serving one at a time
  NoStudent, NoMedia, NoRow,
  MaxMoves    \* bound on the requests, runs and changes begun

Pairs == Students \X Media

\* A scene goes by its number.
Scenes == DOMAIN Views
NoScene == 0

ASSUME NoneAssumption == NoStudent \notin Students /\ NoMedia \notin Media
ASSUME NoRowAssumption ==
  /\ NoRow \notin [score : Nat, review : BOOLEAN]
  /\ NoRow \notin [verdict : {"confirmed", "rejected", "added"}, resolves : BOOLEAN]
ASSUME FiniteAssumption == IsFiniteSet(Students) /\ IsFiniteSet(Media)
ASSUME BoundAssumption == MaxMoves \in Nat

\* The match record a scene makes for each of its people.
PeopleOf == [sc \in Scenes |-> [s \in People(Views[sc]) |-> Hit(Views[sc], s)]]

\* The detection tree of a photo, down to the candidates that were emitted.
DetectionRows == [student : Students, score : Nat]

\* The candidates the detections of a scene mark as emitted: every hit of a student whom
\* the face was taken for.
EvidenceOf == [sc \in Scenes |->
  UNION {{Views[sc][i][j] : j \in {k \in DOMAIN Views[sc][i] :
                                     Views[sc][i][k].student \in Emitted(Views[sc][i])}} :
           i \in DOMAIN Views[sc]}]

\* The students the index knew when it came up with a scene.
Known == [sc \in Scenes |->
  UNION {{Views[sc][i][j].student : j \in DOMAIN Views[sc][i]} : i \in DOMAIN Views[sc]}]

ASSUME ViewsAssumption == Views \in Seq(Seq(Seq(DetectionRows)))

VARIABLES
  matches,      \* per pair, the row of the deduped match
  detections,   \* per photo, the emitted candidates of its stored detections
  indexed,      \* the students the face index knows
  cached,       \* the students it has forgotten but a worker's copy of it may still name
  erasing,      \* per student, how far a deletion of them has come
  corrections,  \* per pair, the verdict laid over it
  event,        \* completed_at, notified_at (0 for never), auto_notify, active
  seen,         \* per student, notification_reads.seen_at (0 for never)
  audit,        \* the (student, photo) pairs of the download audit
  now,          \* the database's clock, one tick per stamp
  run,          \* per worker, the photo it is at and what it made of it
  req,          \* per slot, the request and its locals
  \* What happened, for the properties; the code keeps none of it.
  ran,          \* per photo, the scenes whose matches were saved
  stray,        \* students a run or a worker's copy knew on when the index forgot them
  churned,      \* a match changed under a correction, or under a request writing one
  heldSince,    \* per request, the pairs that could rightly be in its answer since it began
  stoodSince,   \* per request, how the event has stood for students since it began
  opened,       \* per student, the announcements opened since they were made
  moves

results == <<matches, detections, run, ran>>
inbox   == <<event, seen, now>>
history == <<stray, churned, opened>>
vars == <<results, indexed, cached, erasing, corrections, inbox, audit, req, history,
          heldSince, stoodSince, moves>>

MatchRows == [score : Nat, review : BOOLEAN]
CorrectionRows == [verdict : {"confirmed", "rejected", "added"}, resolves : BOOLEAN]

Exists(s) == erasing[s] # "gone"

Move == moves < MaxMoves /\ moves' = moves + 1

Matched(p) == matches[p] # NoRow
Flagged(p) == Matched(p) /\ matches[p].review

Verdict(p) == IF corrections[p] = NoRow THEN "none" ELSE corrections[p].verdict

------------------------------------------------------------------------------
(* The overlays: who appears, given matches read at one time and verdicts  *)
(* read at another.                                                        *)

\* Who appears on one photo: for downloads and a student's "not me".
OverMedia(matched, verdict) ==
  {p \in matched : verdict[p] # "rejected"}
    \cup {p \in Pairs : verdict[p] \in {"added", "confirmed"}}

\* A mutant: a match is listed whatever its verdict.
OverPairsForgetting(matched, verdict) ==
  matched \cup {p \in Pairs : verdict[p] = "added"}

\* The pairs of an event or of a student: for listings, notifications and sends.
OverPairs(matched, verdict) ==
  {p \in matched : verdict[p] # "rejected"} \cup {p \in Pairs : verdict[p] = "added"}

\* The photo's detail page for staff, rejections included.
OnDetail(matched, verdict) == matched \cup {p \in Pairs : verdict[p] = "added"}

\* The review lane: the ambiguous matches without a verdict.
InLane(flagged, verdict) == {p \in flagged : verdict[p] = "none"}

\* What a request of a kind makes of what it has read.
Overlay(kind, matched, flagged, verdict) ==
  CASE kind \in {"save", "notme"} -> OverMedia(matched, verdict)
    [] kind = "detail" -> OnDetail(matched, verdict)
    [] kind = "lane" -> InLane(flagged, verdict)
    [] OTHER -> OverPairs(matched, verdict)

AllMatched == {p \in Pairs : Matched(p)}
AllFlagged == {p \in Pairs : Flagged(p)}
Verdicts == [p \in Pairs |-> Verdict(p)]

AllResolved == {p \in Pairs : corrections[p] # NoRow /\ corrections[p].resolves}

\* The dashboard's count of open reviews: two counts, subtracted.
NeedsReview ==
  LET raw == Cardinality(AllFlagged)
      resolved == Cardinality(AllResolved)
  IN IF raw < resolved THEN 0 ELSE raw - resolved

------------------------------------------------------------------------------
(* When the event counts as announced, and as seen.                        *)

\* A mutant: the later of the two stamps.
LatestAnnouncedAt(e) ==
  IF e.auto /\ e.completed > e.notified THEN e.completed ELSE e.notified

\* A manual notification wins; else the completion, while auto_notify is on.
EffectiveAnnouncedAt(e) ==
  IF e.notified # 0 THEN e.notified ELSE IF e.auto THEN e.completed ELSE 0

IsSeen(at, announced) == at # 0 /\ announced # 0 /\ at >= announced

\* What a reader of both makes of them for one student.
Standing(at, announced) ==
  IF announced = 0 THEN "quiet" ELSE IF IsSeen(at, announced) THEN "seen" ELSE "new"

\* The same, from what happened: opened since it was announced, by hand or on its own.
Stands(s) ==
  LET by == IF event.notified # 0 THEN {"notified"}
            ELSE IF event.auto /\ event.completed # 0 THEN {"completed"} ELSE {}
  IN IF by = {} THEN "quiet" ELSE IF by \subseteq opened[s] THEN "seen" ELSE "new"

------------------------------------------------------------------------------
(* Initial states: a processed event, announced on its own.                *)

NoRequest ==
  [kind |-> "none", who |-> NoStudent, photo |-> NoMedia, verdict |-> "none",
   step |-> "idle", read |-> {}, flagged |-> {}, pairs |-> {}, no |-> {}, mark |-> 0,
   opens |-> [s \in Students |-> 0]]

NoRun == [photo |-> NoMedia, scene |-> NoScene, step |-> "idle"]

Init ==
  /\ \E made \in [Media -> Scenes] :
       /\ matches = [p \in Pairs |-> IF p[1] \in DOMAIN PeopleOf[made[p[2]]]
                                       THEN PeopleOf[made[p[2]]][p[1]] ELSE NoRow]
       /\ ran = [m \in Media |-> {made[m]}]
       /\ detections = [m \in Media |-> EvidenceOf[made[m]]]
  /\ indexed = Students /\ cached = {}
  /\ erasing = [s \in Students |-> "no"]
  /\ corrections = [p \in Pairs |-> NoRow]
  /\ event = [completed |-> 1, notified |-> 0, auto |-> TRUE, active |-> TRUE]
  /\ seen = [s \in Students |-> 0]
  /\ audit = {}
  /\ now = 1
  /\ run = [w \in Workers |-> NoRun]
  /\ req = [r \in Requests |-> NoRequest]
  /\ stray = {}
  /\ churned = FALSE
  /\ heldSince = [r \in Requests |-> {}]
  /\ stoodSince = [r \in Requests |-> {}]
  /\ opened = [s \in Students |-> {}]
  /\ moves = 0

------------------------------------------------------------------------------
(* What the properties remember of each step.                              *)

InScope(q, P) ==
  {p \in P : (q.who = NoStudent \/ p[1] = q.who) /\ (q.photo = NoMedia \/ p[2] = q.photo)}

Writes(q) == q.kind \in {"verdict", "add", "batch"}

\* Does a pair belong in the answer to a request of a kind, as things are now?
Belongs(kind, p) ==
  CASE kind = "lane" -> Flagged(p) /\ Verdict(p) = "none"
    [] kind = "detail" -> Matched(p) \/ Verdict(p) = "added"
    [] kind \in {"save", "notme"} ->
         Verdict(p) \in {"added", "confirmed"} \/ (Matched(p) /\ Verdict(p) # "rejected")
    [] OTHER -> Verdict(p) = "added" \/ (Matched(p) /\ Verdict(p) # "rejected")

Held(r) == {p \in InScope(req[r], Pairs) : Belongs(req[r].kind, p)}

Standings == Students \X {"quiet", "new", "seen"}

\* What the properties remember of each step.  A switch of auto_notify announces or
\* withdraws after the fact: a request it falls into may answer either way.
Witness ==
  /\ heldSince' = [r \in Requests |->
       IF req'[r].step \in {"idle", "undo"} \/ Writes(req'[r]) THEN {}
       ELSE heldSince[r] \cup Held(r)']
  /\ stoodSince' = [r \in Requests |->
       IF req'[r].kind \notin {"inbox", "roster"} THEN {}
       ELSE IF event'.auto # event.auto THEN Standings
       ELSE stoodSince[r] \cup {<<s, Stands(s)'>> : s \in Students}]

------------------------------------------------------------------------------
(* The ML worker's pass over a photo.                                      *)

\* Detect, embed, search and decide: nothing is written yet.
Recognise(w, m, sc) ==
  /\ Move
  /\ run[w].step = "idle"
  /\ Known[sc] \subseteq indexed \cup cached
  /\ run' = [run EXCEPT ![w] = [photo |-> m, scene |-> sc, step |-> "matches"]]
  /\ UNCHANGED <<matches, detections, ran, indexed, cached, erasing, corrections, inbox, audit,
                 req, history>>
  /\ Witness

\* A request that will write the verdict on a pair, from a match it has read.
Correcting(r, p) ==
  /\ req[r].step \in {"corrections", "write"}
  /\ req[r].kind \in {"verdict", "add", "batch", "notme"}
  /\ \/ p = <<req[r].who, req[r].photo>>
     \/ p \in req[r].pairs

\* The match of a pair changes, under a correction or a request that writes one.
Churn(P) ==
  churned' = (churned \/ \E p \in P : corrections[p] # NoRow
                                        \/ \E r \in Requests : Correcting(r, p))

\* A mutant: the row of the last run replaces that of any run before.
BetterLast(old, new) == TRUE

\* A row is replaced only by a higher score.
Better(old, new) == old = NoRow \/ new.score > old.score

\* The deduped matches, in one transaction, one row per person.
SaveMatches(w) ==
  /\ run[w].step = "matches"
  /\ LET m == run[w].photo
         new == PeopleOf[run[w].scene]
         wins == {p \in Pairs : /\ p[2] = m /\ p[1] \in DOMAIN new
                                /\ Better(matches[p], new[p[1]])}
     IN /\ matches' = [p \in Pairs |-> IF p \in wins THEN new[p[1]] ELSE matches[p]]
        /\ ran' = [ran EXCEPT ![m] = @ \cup {run[w].scene}]
        /\ Churn({p \in wins : matches[p] # new[p[1]]})
  /\ run' = [run EXCEPT ![w].step = "detections"]
  /\ UNCHANGED <<detections, indexed, cached, erasing, corrections, inbox, audit, req, stray,
                 opened, moves>>
  /\ Witness

\* The full detections, in another transaction, replacing those of the photo.
SaveDetections(w) ==
  /\ run[w].step = "detections"
  /\ detections' = [detections EXCEPT ![run[w].photo] = EvidenceOf[run[w].scene]]
  /\ run' = [run EXCEPT ![w] = NoRun]
  /\ UNCHANGED <<matches, ran, indexed, cached, erasing, corrections, inbox, audit, req,
                 history, moves>>
  /\ Witness

\* The worker dies, or a write fails: the job is delivered again some time.
WorkerDies(w) ==
  /\ run[w].step # "idle"
  /\ run' = [run EXCEPT ![w] = NoRun]
  /\ UNCHANGED <<matches, detections, ran, indexed, cached, erasing, corrections, inbox, audit,
                 req, history, moves>>
  /\ Witness

------------------------------------------------------------------------------
(* The erasure of a student: the ML side step by step, then the rows.      *)

Recognised(s) == {w \in Workers : run[w].step # "idle" /\ s \in DOMAIN PeopleOf[run[w].scene]}

\* The first step: the face index forgets the student.  With nothing of theirs left in it
\* nothing is written, and the workers' copies stay as they are.
Unindex(s) ==
  /\ Move
  /\ erasing[s] = "no"
  /\ erasing' = [erasing EXCEPT ![s] = "unindexed"]
  /\ indexed' = indexed \ {s}
  /\ cached' = IF s \in indexed THEN {} ELSE cached
  /\ stray' = IF Recognised(s) = {} THEN stray ELSE stray \cup {s}
  /\ UNCHANGED <<results, corrections, inbox, audit, req, churned, opened>>
  /\ Witness

\* The rewrite breaks off before the file that carries the version: the student is out of
\* the index, but copies of it still pass for current.
UnindexBreaks(s) ==
  /\ Move
  /\ erasing[s] = "no" /\ s \in indexed
  /\ indexed' = indexed \ {s}
  /\ cached' = cached \cup {s}
  /\ stray' = stray \cup {s}
  /\ UNCHANGED <<results, erasing, corrections, inbox, audit, req, churned, opened>>
  /\ Witness

PurgeMatches(s) ==
  /\ erasing[s] = "unindexed"
  /\ erasing' = [erasing EXCEPT ![s] = "unmatched"]
  /\ matches' = [p \in Pairs |-> IF p[1] = s THEN NoRow ELSE matches[p]]
  /\ Churn({p \in AllMatched : p[1] = s})
  /\ UNCHANGED <<detections, run, ran, indexed, cached, corrections, inbox, audit, req, stray,
                 opened, moves>>
  /\ Witness

\* Only the candidates go: the faces belong to the photo.
PurgeCandidates(s) ==
  /\ erasing[s] = "unmatched"
  /\ erasing' = [erasing EXCEPT ![s] = "purged"]
  /\ detections' = [m \in Media |-> {d \in detections[m] : d.student # s}]
  /\ UNCHANGED <<matches, run, ran, indexed, cached, corrections, inbox, audit, req, history,
                 moves>>
  /\ Witness

\* A mutant: the rows go whether or not the ML side is done.
DeleteRowAnyway(s) ==
  /\ erasing[s] \in {"unindexed", "unmatched", "purged"}
  /\ erasing' = [erasing EXCEPT ![s] = "gone"]
  /\ corrections' = [p \in Pairs |-> IF p[1] = s THEN NoRow ELSE corrections[p]]
  /\ seen' = [seen EXCEPT ![s] = 0]
  /\ audit' = {p \in audit : p[1] # s}
  /\ opened' = [opened EXCEPT ![s] = {}]
  /\ UNCHANGED <<results, indexed, cached, event, now, req, stray, churned, moves>>
  /\ Witness

\* The login's row goes, and by cascade the profile, its corrections and its reads; the
\* audit keeps its rows without the student.
DeleteRow(s) ==
  /\ erasing[s] = "purged"
  /\ erasing' = [erasing EXCEPT ![s] = "gone"]
  /\ corrections' = [p \in Pairs |-> IF p[1] = s THEN NoRow ELSE corrections[p]]
  /\ seen' = [seen EXCEPT ![s] = 0]
  /\ audit' = {p \in audit : p[1] # s}
  /\ opened' = [opened EXCEPT ![s] = {}]
  /\ UNCHANGED <<results, indexed, cached, event, now, req, stray, churned, moves>>
  /\ Witness

\* A step fails or the process dies: the erasure has to be asked for again.
ErasureStops(s) ==
  /\ erasing[s] \in {"unindexed", "unmatched", "purged"}
  /\ erasing' = [erasing EXCEPT ![s] = "no"]
  /\ UNCHANGED <<results, indexed, cached, corrections, inbox, audit, req, history, moves>>
  /\ Witness

------------------------------------------------------------------------------
(* The event.                                                              *)

\* A later photo run completes; the stamp only moves forward.
Complete ==
  /\ Move
  /\ now' = now + 1
  /\ event' = [event EXCEPT !.completed = now']
  /\ opened' = [s \in Students |-> opened[s] \ {"completed"}]
  /\ UNCHANGED <<results, indexed, cached, erasing, corrections, seen, audit, req, stray,
                 churned>>
  /\ Witness

\* Staff switch the automatic announcement, or archive the event, or bring it back.
SwitchEvent ==
  /\ Move
  /\ \/ event' = [event EXCEPT !.auto = ~@]
     \/ event' = [event EXCEPT !.active = ~@]
  /\ UNCHANGED <<results, indexed, cached, erasing, corrections, seen, now, audit, req,
                 history>>
  /\ Witness

\* A mutant: the time is the client's, whose clock is fast.
MarkSeenByClient(s) ==
  /\ Move
  /\ Exists(s)
  /\ now' = now + 1
  /\ seen' = [seen EXCEPT ![s] = now' + 1]
  /\ opened' = [opened EXCEPT ![s] = {"notified", "completed"}]
  /\ UNCHANGED <<results, indexed, cached, erasing, corrections, event, audit, req, stray,
                 churned>>
  /\ Witness

\* A student opens the event's photos.
MarkSeen(s) ==
  /\ Move
  /\ Exists(s)
  /\ now' = now + 1
  /\ seen' = [seen EXCEPT ![s] = now']
  /\ opened' = [opened EXCEPT ![s] = {"notified", "completed"}]
  /\ UNCHANGED <<results, indexed, cached, erasing, corrections, event, audit, req, stray,
                 churned>>
  /\ Witness

------------------------------------------------------------------------------
(* Requests.                                                               *)

Begin(r, q) ==
  /\ Move
  /\ req[r].step = "idle"
  /\ q.who # NoStudent => Exists(q.who)
  /\ req' = [req EXCEPT ![r] = q]
  /\ UNCHANGED <<results, indexed, cached, erasing, corrections, inbox, audit, history>>
  /\ Witness

\* Staff confirm or reject a match, or an appearance there is no match for.
BeginVerdict(r, s, m) ==
  \E v \in {"confirmed", "rejected"} :
    Begin(r, [NoRequest EXCEPT !.kind = "verdict", !.who = s, !.photo = m, !.verdict = v,
                               !.step = "matches"])

\* Staff add a student the matching missed.
BeginAdd(r, s, m) ==
  Begin(r, [NoRequest EXCEPT !.kind = "add", !.who = s, !.photo = m, !.verdict = "confirmed",
                             !.step = "matches"])

\* A student says of their own photo: this isn't me.
BeginNotMe(r, s, m) ==
  Begin(r, [NoRequest EXCEPT !.kind = "notme", !.who = s, !.photo = m, !.verdict = "rejected",
                             !.step = "matches"])

\* A student saves a photo.
BeginSave(r, s, m) ==
  Begin(r, [NoRequest EXCEPT !.kind = "save", !.who = s, !.photo = m, !.step = "matches"])

\* Staff take a correction back: no more than its existence is looked at.
BeginUndo(r, s, m) ==
  Begin(r, [NoRequest EXCEPT !.kind = "undo", !.who = s, !.photo = m, !.step = "undo"])

\* Several verdicts over the event's matches at once: N are rejected, the others confirmed.
BeginBatch(r, P, N) ==
  Begin(r, [NoRequest EXCEPT !.kind = "batch", !.pairs = P, !.no = N, !.step = "matches"])

\* The event's students, the photos of one of them, or the recipients of its photos.
BeginEventListing(r) ==
  Begin(r, [NoRequest EXCEPT !.kind = "listing", !.step = "matches"])

\* A student's events and photos, and with them their engagement.
BeginStudentListing(r, s) ==
  Begin(r, [NoRequest EXCEPT !.kind = "listing", !.who = s, !.step = "matches"])

\* The detail page of a photo.
BeginDetail(r, m) ==
  Begin(r, [NoRequest EXCEPT !.kind = "detail", !.photo = m, !.step = "matches"])

BeginLane(r) ==
  Begin(r, [NoRequest EXCEPT !.kind = "lane", !.step = "matches"])

BeginInbox(r, s) ==
  Begin(r, [NoRequest EXCEPT !.kind = "inbox", !.who = s, !.step = "matches"])

\* The roster of who has opened the event reads the event first.
BeginRoster(r) ==
  Begin(r, [NoRequest EXCEPT !.kind = "roster", !.mark = EffectiveAnnouncedAt(event),
                             !.step = "reads"])

\* A manual notification, of an event that is processed and not archived.
BeginNotify(r) ==
  /\ event.active /\ event.completed # 0
  /\ Begin(r, [NoRequest EXCEPT !.kind = "notify", !.step = "matches"])

\* A request ends, with its locals.
Done(r) == req' = [req EXCEPT ![r] = NoRequest]

\* Staff's writes go straight on from the matches; a batch drops pairs that are no match.
ReadMatches(r) ==
  /\ req[r].step = "matches"
  /\ LET q == req[r]
         pairs == IF q.kind = "batch" THEN q.pairs \cap AllMatched
                  ELSE IF Writes(q) THEN {<<q.who, q.photo>>} ELSE {}
     IN req' = [req EXCEPT ![r].read = InScope(q, AllMatched),
                           ![r].flagged = InScope(q, AllFlagged),
                           ![r].pairs = pairs,
                           ![r].step = IF Writes(q) THEN "write" ELSE "corrections"]
  /\ UNCHANGED <<results, indexed, cached, erasing, corrections, inbox, audit, history, moves>>
  /\ Witness

\* What the request makes of its two reads; a student's own request goes on only if the
\* photo is theirs.
ReadCorrections(r) ==
  /\ req[r].step = "corrections"
  /\ LET q == req[r]
         found == {p \in InScope(q, Overlay(q.kind, q.read, q.flagged, Verdicts)) : Exists(p[1])}
         then == CASE q.kind = "notme" -> "write"
                   [] q.kind = "save" -> "record"
                   [] q.kind = "notify" -> "stamp"
                   [] q.kind = "inbox" -> "reads"
                   [] OTHER -> "answer"
     IN IF q.kind \in {"notme", "save"} /\ found = {}
          THEN Done(r)
          ELSE req' = [req EXCEPT ![r].pairs = found, ![r].step = then, ![r].read = {},
                                  ![r].flagged = IF then = "write" THEN @ ELSE {}]
  /\ UNCHANGED <<results, indexed, cached, erasing, corrections, inbox, audit, history, moves>>
  /\ Witness

\* When the students opened the event.
ReadReads(r) ==
  /\ req[r].step = "reads"
  /\ req' = [req EXCEPT ![r].opens = seen,
                        ![r].step = IF req[r].kind = "inbox" THEN "event" ELSE "matches"]
  /\ UNCHANGED <<results, indexed, cached, erasing, corrections, inbox, audit, history, moves>>
  /\ Witness

\* The inbox reads the event last.
ReadEvent(r) ==
  /\ req[r].step = "event"
  /\ req' = [req EXCEPT ![r].mark = EffectiveAnnouncedAt(event), ![r].step = "answer"]
  /\ UNCHANGED <<results, indexed, cached, erasing, corrections, inbox, audit, history, moves>>
  /\ Witness

\* A student missed by the matching is added, one who is matched after all confirmed; each
\* item of a batch has its own verdict.
VerdictOf(q, p) ==
  IF q.kind = "batch" THEN IF p \in q.no THEN "rejected" ELSE "confirmed"
  ELSE IF q.kind # "add" THEN q.verdict ELSE IF p \in q.read THEN "confirmed" ELSE "added"

\* A mutant: only a rejection takes its match off the open reviews.
ResolvesByRejecting(q, p) == p \in q.flagged /\ VerdictOf(q, p) = "rejected"

\* A verdict on a flagged match takes it off the open reviews.
Resolves(q, p) == p \in q.flagged

\* One row per pair, written over; a student who is gone by now fails the request.
Write(r, p) ==
  /\ req[r].step = "write" /\ p \in req[r].pairs
  /\ IF Exists(p[1])
       THEN /\ corrections' = [corrections EXCEPT ![p] =
                  [verdict |-> VerdictOf(req[r], p), resolves |-> Resolves(req[r], p)]]
            /\ IF req[r].pairs = {p} THEN Done(r)
               ELSE req' = [req EXCEPT ![r].pairs = @ \ {p}]
       ELSE Done(r) /\ UNCHANGED corrections
  /\ UNCHANGED <<results, indexed, cached, erasing, inbox, audit, history, moves>>
  /\ Witness

Undo(r) ==
  /\ req[r].step = "undo"
  /\ corrections' = [corrections EXCEPT ![<<req[r].who, req[r].photo>>] = NoRow]
  /\ Done(r)
  /\ UNCHANGED <<results, indexed, cached, erasing, inbox, audit, history, moves>>
  /\ Witness

\* The audit row of a download; it names the student, who must still be there.
Record(r) ==
  /\ req[r].step = "record"
  /\ audit' = IF Exists(req[r].who) THEN audit \cup req[r].pairs ELSE audit
  /\ Done(r)
  /\ UNCHANGED <<results, indexed, cached, erasing, corrections, inbox, history, moves>>
  /\ Witness

\* The announcement is stamped before anyone is told of it.
Stamp(r) ==
  /\ req[r].step = "stamp"
  /\ now' = now + 1
  /\ event' = [event EXCEPT !.notified = now']
  /\ opened' = [s \in Students |-> opened[s] \ {"notified"}]
  /\ req' = [req EXCEPT ![r].step = "answer"]
  /\ UNCHANGED <<results, indexed, cached, erasing, corrections, seen, audit, stray, churned,
                 moves>>
  /\ Witness

\* The request ends: it has answered, or told the students, had nothing to do, or died.
End(r) ==
  /\ req[r].step # "idle"
  /\ Done(r)
  /\ UNCHANGED <<results, indexed, cached, erasing, corrections, inbox, audit, history, moves>>
  /\ Witness

------------------------------------------------------------------------------
WorkerStep(w) ==
  \/ \E m \in Media, sc \in Scenes : Recognise(w, m, sc)
  \/ SaveMatches(w) \/ SaveDetections(w) \/ WorkerDies(w)

ErasureStep(s) ==
  \/ Unindex(s) \/ UnindexBreaks(s) \/ PurgeMatches(s) \/ PurgeCandidates(s)
  \/ DeleteRow(s) \/ ErasureStops(s)

RequestStep(r) ==
  \/ \E s \in Students, m \in Media :
       \/ BeginVerdict(r, s, m) \/ BeginAdd(r, s, m) \/ BeginUndo(r, s, m)
       \/ BeginNotMe(r, s, m) \/ BeginSave(r, s, m)
  \/ \E P \in (SUBSET Pairs) \ {{}} : \E N \in SUBSET P : BeginBatch(r, P, N)
  \/ \E s \in Students : BeginStudentListing(r, s) \/ BeginInbox(r, s)
  \/ \E m \in Media : BeginDetail(r, m)
  \/ BeginEventListing(r) \/ BeginLane(r) \/ BeginRoster(r) \/ BeginNotify(r)
  \/ ReadMatches(r) \/ ReadCorrections(r) \/ ReadReads(r) \/ ReadEvent(r)
  \/ \E p \in Pairs : Write(r, p)
  \/ Undo(r) \/ Record(r) \/ Stamp(r) \/ End(r)

Next ==
  \/ \E w \in Workers : WorkerStep(w)
  \/ \E s \in Students : ErasureStep(s) \/ MarkSeen(s)
  \/ \E r \in Requests : RequestStep(r)
  \/ Complete \/ SwitchEvent

Spec == Init /\ [][Next]_vars

------------------------------------------------------------------------------
(* Properties.                                                             *)

RequestTyped(q) ==
  /\ q.kind \in {"none", "verdict", "add", "notme", "save", "undo", "batch", "listing",
                 "lane", "inbox", "detail", "roster", "notify"}
  /\ q.who \in Students \cup {NoStudent} /\ q.photo \in Media \cup {NoMedia}
  /\ q.verdict \in {"none", "confirmed", "rejected"}
  /\ q.step \in {"idle", "undo", "reads", "matches", "corrections", "write", "record",
                 "stamp", "event", "answer"}
  /\ q.read \subseteq Pairs /\ q.flagged \subseteq Pairs /\ q.pairs \subseteq Pairs
  /\ q.no \subseteq Pairs
  /\ q.mark \in Nat /\ q.opens \in [Students -> Nat]
  /\ q.step \in {"record", "undo"} => q.who \in Students

RowsTyped ==
  /\ matches \in [Pairs -> MatchRows \cup {NoRow}]
  /\ corrections \in [Pairs -> CorrectionRows \cup {NoRow}]

InboxTyped ==
  /\ event \in [completed : Nat, notified : Nat, auto : BOOLEAN, active : BOOLEAN]
  /\ now \in Nat /\ seen \in [Students -> Nat]
  /\ event.completed \in 1..now /\ event.notified \in 0..now
  /\ \A s \in Students : seen[s] \in 0..now

RunsTyped ==
  run \in [Workers -> [photo : Media \cup {NoMedia}, scene : Scenes \cup {NoScene},
                       step : {"idle", "matches", "detections"}]]

\* Every variable has the values the code can give it, and no stamp is ahead of the clock.
TypeOK ==
  /\ RowsTyped /\ InboxTyped /\ RunsTyped
  /\ \A m \in Media : detections[m] \subseteq DetectionRows
  /\ indexed \subseteq Students /\ cached \subseteq Students \ indexed
  /\ erasing \in [Students -> {"no", "unindexed", "unmatched", "purged", "gone"}]
  /\ audit \subseteq Pairs
  /\ \A r \in Requests : RequestTyped(req[r])
  /\ stray \subseteq Students /\ churned \in BOOLEAN /\ moves \in 0..MaxMoves

\* What a request lists, offers for download, counts as open, or announces is held together
\* from two reads of two databases; each pair in it was rightly there at some moment of the
\* request: nobody is shown a photo that was theirs neither before nor after, whatever runs
\* and corrections fell between the reads.  (A student being erased is out of it, and a lane
\* may show a match that lost its flag under a verdict which was then taken back.)
ShownWereEntitled ==
  \A r \in Requests :
    \/ req[r].step \in {"answer", "record", "stamp"}
    \/ req[r].step = "write" /\ req[r].kind = "notme"
    => \/ {p \in req[r].pairs : p[1] \in indexed} \subseteq heldSince[r]
       \/ req[r].kind = "lane" /\ churned

\* One rule says who appears: the photos a student may download are those that are listed
\* as theirs.
OneRuleForAll == OverPairs(AllMatched, Verdicts) = OverMedia(AllMatched, Verdicts)

\* A face was rightly taken for a student: it is their best hit and clears the threshold;
\* unflagged, no other student comes near; flagged, one does, and at most one is ahead.
TakenFor(face, s, row) ==
  LET others == {i \in DOMAIN face : Clears(face[i]) /\ face[i].student # s}
      ahead == {i \in others : face[i].score > row.score}
  IN /\ row.score >= Confidence
     /\ \E i \in DOMAIN face : face[i] = [student |-> s, score |-> row.score]
     /\ \A i \in DOMAIN face : face[i].student = s => face[i].score <= row.score
     /\ ~row.review => \A i \in others : row.score - face[i].score > GapLimit
     /\ row.review =>
          /\ Cardinality({face[i].student : i \in ahead}) <= 1
          /\ \A i \in ahead : face[i].score - row.score <= GapLimit
          /\ \E i \in others : row.score - face[i].score <= GapLimit

\* A face shows this candidate and nobody else as well.
Stands1st(face, i) ==
  /\ Clears(face[i])
  /\ \A j \in DOMAIN face : face[j].student # face[i].student => face[j].score < face[i].score

FacesSeen(m) == UNION {{Views[sc][i] : i \in DOMAIN Views[sc]} : sc \in ran[m]}

\* However often and in whatever order the deliveries of a photo are run, its match rows
\* are right: each goes back to a face rightly taken for the student, with that face's score
\* and flag, and whoever stood first in a face of any run has a row at least as good.
MatchesGoBackToFaces ==
  \A p \in Pairs : p[1] \in indexed =>
    /\ Matched(p) => \E face \in FacesSeen(p[2]) : TakenFor(face, p[1], matches[p])
    /\ \A face \in FacesSeen(p[2]) : \A j \in DOMAIN face :
         face[j].student = p[1] /\ Stands1st(face, j)
           => Matched(p) /\ matches[p].score >= face[j].score

\* The two writes of a run are not one transaction, and a crash or another delivery may fall
\* between them: even so no stored detection claims a student more surely than their match.
EvidenceHasMatches ==
  \A m \in Media : \A d \in detections[m] :
    d.student \in indexed => Matched(<<d.student, m>>) /\ matches[<<d.student, m>>].score >= d.score

\* What the runs of a photo leave behind, matches and evidence, is sound.
MatchesAreSound == MatchesGoBackToFaces /\ EvidenceHasMatches

\* The dashboard subtracts two counts and says how many reviews are open; that is how many
\* the review lane shows, through verdicts, second thoughts, "not me" and undo, as long as
\* no match changed under a correction and no erased student was matched again.
DashboardCountsTheLane ==
  ~churned /\ (\A p \in AllMatched : Exists(p[1]))
    => NeedsReview = Cardinality(InLane(AllFlagged, Verdicts))

\* An event is new to a student until they open it, and again after each announcement by
\* hand, or each completion if announced on its own: the stamps tell so at any time, and
\* the inbox and the roster, which read them one after the other, say what was so at some
\* moment of the request.
InboxIsTrue ==
  /\ \A s \in Students : Standing(seen[s], EffectiveAnnouncedAt(event)) = Stands(s)
  /\ \A r \in Requests :
       req[r].step = "answer" /\ req[r].kind \in {"inbox", "roster"}
         => \A p \in req[r].pairs :
              <<p[1], Standing(req[r].opens[p[1]], req[r].mark)>> \in stoodSince[r]

\* Once a student's row is gone nothing names them, whichever step of the deletion broke off
\* and was asked for again, and whatever requests and runs went on beside it - except what a
\* run that had recognised them before writes late, and what is recognised from a copy of
\* the index that a broken rewrite of it has left current.
ErasedLeaveNothing ==
  \A s \in Students : erasing[s] = "gone" =>
    /\ \A m \in Media : corrections[<<s, m>>] = NoRow /\ <<s, m>> \notin audit
    /\ seen[s] = 0
    /\ s \notin stray => \A m \in Media :
         ~Matched(<<s, m>>) /\ \A d \in detections[m] : d.student # s
=============================================================================
