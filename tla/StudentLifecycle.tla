-------------------------- MODULE StudentLifecycle --------------------------
(***************************************************************************)
(* One student in two services that share no transaction: the backend's    *)
(* login and profile rows, the reference photos in the object store, and   *)
(* the ML service's reference URIs, embeddings, matches and detection      *)
(* candidates. Students share none of these, so one student is enough.     *)
(*                                                                         *)
(* Actors, interleaving at each database statement and each call:          *)
(*   - Requests: the staff's create, photo, enrol and delete requests      *)
(*     (StudentService);                                                   *)
(*   - the ML call each request makes (EnrollmentService), which goes on   *)
(*     when the backend stops waiting for it;                              *)
(*   - a worker's recognition of the student in a photo (process).         *)
(* A photo stands for its object and the thumbnail made, named and deleted *)
(* with it. Names, passwords, classes, mobile numbers and the audit trail  *)
(* are left out; so is the enabled/disabled flag, which no step here reads.*)
(***************************************************************************)
EXTENDS Integers, FiniteSets

CONSTANTS
  Photos,        \* object paths, each minted for one upload
  Faceless,      \* the photos in which no face is detected
  MaxRequests,   \* bound: requests
  MaxActive,     \* bound: requests and calls under way when a request starts
  MaxFaults,     \* bound: failed statements, calls and deaths of the backend
  MaxTimeouts,   \* bound: ML calls the backend gives up waiting for
  MaxScans,      \* bound: photos of events in which the student is recognised
  MaxMishaps     \* bound: all of the last three together

NoPhoto == "no photo"

ASSUME StudentAssumption ==
  /\ Faceless \subseteq Photos /\ NoPhoto \notin Photos
  /\ MaxRequests \in Nat /\ MaxActive \in Nat
  /\ MaxFaults \in Nat /\ MaxTimeouts \in Nat /\ MaxScans \in Nat
  /\ MaxMishaps \in Nat

Requests == 1..MaxRequests

VARIABLES
  login,       \* the users row exists
  profile,     \* the students row: "none", "row" or "gone"
  photo,       \* its reference_photo_path
  status,      \* its enrollment_status
  objects,     \* reference photos in the object store
  refs,        \* student_reference_photos of the ML service
  face,        \* the photos whose embeddings the face index has
  unmatched,   \* the index and its id map differ in length: no load succeeds
  stale,       \* a worker's cache may name the student under a version kept
  matches,     \* the student has rows in matches
  candidates,  \* the student has rows in face_detection_candidates
  pc, op, path, old, result,  \* each request; old: the photo its row had
  mpc, have,   \* each request's ML call; have: URIs or embeddings at hand
  spc,         \* the worker's place in process()
  marks,       \* history: failures that were logged, "save" and "crash"
  attached,    \* history: photos the row has named
  mixed,       \* history: a request began before another had ended
  beside,      \* history: a delete has overlapped anything
  erased,      \* history: a delete has answered, "alone" or "beside" others
  faults, timeouts, scans

backendVars == <<login, profile, photo, status>>
indexVars   == <<face, unmatched, stale>>
mlVars      == <<refs, indexVars, matches, candidates>>
requestVars == <<pc, op, path, old, result>>
historyVars == <<marks, attached, mixed, beside, erased>>
boundVars   == <<faults, timeouts, scans>>
vars == <<backendVars, objects, mlVars, requestVars, mpc, have, spc,
          historyVars, boundVars>>

\* What the steps of one service leave alone in the other.
backend == <<backendVars, objects, op, path, old>>
ml      == <<mlVars, mpc, have, spc>>

Active(n)  == pc[n] \notin {"new", "done"}
Calling(n) == mpc[n] \notin {"none", "done"}
UnderWay   == {n \in Requests : Active(n) \/ Calling(n)}
Busy       == UnderWay # {}

-----------------------------------------------------------------------------
Init ==
  /\ login = FALSE /\ profile = "none" /\ photo = NoPhoto /\ status = "pending"
  /\ objects = {}
  /\ refs = {} /\ face = {} /\ unmatched = FALSE /\ stale = FALSE
  /\ matches = FALSE /\ candidates = FALSE
  /\ pc = [n \in Requests |-> "new"]
  /\ op = [n \in Requests |-> "none"]
  /\ path = [n \in Requests |-> NoPhoto]
  /\ old = [n \in Requests |-> NoPhoto]
  /\ result = [n \in Requests |-> "none"]
  /\ mpc = [n \in Requests |-> "none"]
  /\ have = [n \in Requests |-> {}]
  /\ spc = "idle"
  /\ marks = {} /\ attached = {} /\ mixed = FALSE
  /\ beside = [n \in Requests |-> FALSE]
  /\ erased = "no"
  /\ faults = 0 /\ timeouts = 0 /\ scans = 0

-----------------------------------------------------------------------------
\* Steps of a request.

Goto(n, place) == pc' = [pc EXCEPT ![n] = place]
Spare == faults + timeouts + scans < MaxMishaps
Fault ==
  /\ Spare /\ faults < MaxFaults /\ faults' = faults + 1
  /\ UNCHANGED <<timeouts, scans>>

\* A request for the student its client sees, with a photo it uploaded or with
\* the photo it sees.
Start(n) ==
  /\ pc[n] = "new" /\ \A m \in Requests : m < n => pc[m] # "new"
  /\ Cardinality(UnderWay) < MaxActive
  /\ \E o \in {"create", "photo", "enrol", "delete"},
        p \in (Photos \ {path[m] : m \in Requests}) \cup {NoPhoto, photo} :
       /\ IF o = "create" THEN profile = "none" /\ p \notin attached
                          ELSE profile # "none"
       /\ o = "photo" => p # NoPhoto
       /\ o \in {"enrol", "delete"} => p = NoPhoto
       /\ op' = [op EXCEPT ![n] = o]
       /\ path' = [path EXCEPT ![n] = p]
       /\ objects' = IF p \in attached THEN objects ELSE objects \cup ({p} \ {NoPhoto})
       /\ Goto(n, IF o = "create" THEN "login" ELSE "read")
  /\ mixed' = (mixed \/ Busy)
  /\ beside' = [m \in Requests |->
                  /\ op'[m] = "delete"
                  /\ IF m = n THEN Busy \/ spc # "idle" ELSE beside[m] \/ Active(m)]
  /\ UNCHANGED <<backendVars, mlVars, old, result, mpc, have, spc, marks,
                 attached, erased, boundVars>>

\* users.create; a taken email is a ConflictError. Once this student is erased
\* a create makes another one, of no interest here.
CreateLogin(n) ==
  /\ pc[n] = "login"
  /\ \/ /\ ~ login /\ profile # "gone"
        /\ login' = TRUE /\ Goto(n, "profile") /\ UNCHANGED boundVars
     \/ /\ login \/ profile = "gone"
        /\ Goto(n, "done") /\ UNCHANGED <<login, boundVars>>
     \/ Fault /\ Goto(n, "done") /\ UNCHANGED login
  /\ UNCHANGED <<profile, photo, status, objects, mlVars, op, path, old, result,
                 mpc, have, spc, historyVars>>

\* students.create; it may fail without being one of the counted faults, which
\* leaves one for the compensation.
CreateProfile(n) ==
  /\ pc[n] = "profile"
  /\ \/ /\ profile' = "row" /\ photo' = path[n] /\ status' = "pending"
        /\ attached' = attached \cup ({path[n]} \ {NoPhoto})
        /\ Goto(n, IF path[n] = NoPhoto THEN "done" ELSE "enrol")
     \/ /\ Goto(n, "undo")
        /\ UNCHANGED <<profile, photo, status, attached>>
  /\ UNCHANGED <<login, objects, mlVars, op, path, old, result, mpc, have, spc,
                 marks, mixed, beside, erased, boundVars>>

\* Mutant: a compensation that fails is swallowed.
UndoQuietly(n) ==
  /\ pc[n] = "undo" /\ Goto(n, "done")
  /\ \/ login' = FALSE /\ UNCHANGED boundVars
     \/ Fault /\ UNCHANGED login
  /\ UNCHANGED <<profile, photo, status, objects, mlVars, op, path, old, result,
                 mpc, have, spc, historyVars>>

\* The compensating users.delete, logged when it fails.
Undo(n) ==
  /\ pc[n] = "undo" /\ Goto(n, "done")
  /\ \/ login' = FALSE /\ UNCHANGED <<boundVars, marks>>
     \/ Fault /\ marks' = marks \cup {"login"} /\ UNCHANGED login
  /\ UNCHANGED <<profile, photo, status, objects, mlVars, op, path, old, result,
                 mpc, have, spc, attached, mixed, beside, erased>>

\* Mutant: a student without a photo is sent to the ML service.
ToEnrolAnyway == "enrol"

\* A student without a photo has nothing to enrol.
ToEnrol == IF photo = NoPhoto THEN "done" ELSE "enrol"

\* get_student; what follows uses the row as it was read here.
ReadStudent(n) ==
  /\ pc[n] = "read"
  /\ \/ /\ profile = "row" /\ op[n] = "photo"
        /\ Goto(n, "attach") /\ UNCHANGED path
     \/ /\ profile = "row" /\ op[n] = "enrol"
        /\ Goto(n, ToEnrol)
        /\ path' = [path EXCEPT ![n] = photo]
     \/ /\ profile = "row" /\ op[n] = "delete"
        /\ Goto(n, "erase") /\ UNCHANGED path
     \/ /\ profile # "row"
        /\ Goto(n, IF op[n] = "photo" THEN "reap" ELSE "done") /\ UNCHANGED path
  /\ old' = [old EXCEPT ![n] = photo]
  /\ UNCHANGED <<backendVars, objects, mlVars, op, result, mpc, have, spc,
                 historyVars, boundVars>>

\* set_reference_photo of the row, which may be gone by now; the client reaps
\* the upload of a request that failed.
Attach(n) ==
  /\ pc[n] = "attach"
  /\ \/ /\ profile = "row"
        /\ photo' = path[n] /\ attached' = attached \cup {path[n]}
        /\ Goto(n, "clean") /\ UNCHANGED boundVars
     \/ /\ profile # "row" /\ Goto(n, "reap")
        /\ UNCHANGED <<photo, attached, boundVars>>
     \/ Fault /\ Goto(n, "reap") /\ UNCHANGED <<photo, attached>>
  /\ UNCHANGED <<login, profile, status, objects, op, path, old, result, ml,
                 marks, mixed, beside, erased>>

\* Mutant: the photo replaced is deleted even when it is the one just set.
CleanAlways(n) ==
  /\ pc[n] = "clean" /\ Goto(n, "enrol")
  /\ \/ objects' = objects \ {old[n]} /\ UNCHANGED <<marks, boundVars>>
     \/ Fault /\ marks' = marks \cup {"photo"} /\ UNCHANGED objects
  /\ UNCHANGED <<backendVars, op, path, old, result, ml, attached, mixed,
                 beside, erased>>

\* _delete_replaced_objects; three failed attempts are logged and passed over.
Clean(n) ==
  /\ pc[n] = "clean" /\ Goto(n, "enrol")
  /\ \/ objects' = objects \ ({old[n]} \ {path[n]}) /\ UNCHANGED <<marks, boundVars>>
     \/ /\ old[n] \notin {NoPhoto, path[n]} /\ Fault
        /\ marks' = marks \cup {"photo"} /\ UNCHANGED objects
  /\ UNCHANGED <<backendVars, op, path, old, result, ml, attached, mixed,
                 beside, erased>>

\* The request to the ML service, or its refusal.
Call(n, first) ==
  /\ \/ mpc' = [mpc EXCEPT ![n] = first] /\ UNCHANGED <<result, boundVars>>
     \/ Fault /\ result' = [result EXCEPT ![n] = "error"] /\ UNCHANGED mpc
  /\ Goto(n, "wait")
  /\ UNCHANGED <<backend, mlVars, have, spc, historyVars>>

Enrol(n) == pc[n] = "enrol" /\ Call(n, "wipe")
Erase(n) == pc[n] = "erase" /\ Call(n, "index")

\* Mutant: a delete goes on although the ML service failed.
AfterCallAnyway(n) == IF op[n] = "delete" THEN "drop" ELSE "status"

\* A failed ML delete is the caller's 502; a failed enrol is a status.
AfterCall(n) ==
  CASE op[n] # "delete" -> "status"
    [] op[n] = "delete" /\ result[n] = "ok" -> "drop"
    [] OTHER -> "done"

Answered(n) ==
  /\ pc[n] = "wait" /\ result[n] # "none" /\ Goto(n, AfterCall(n))
  /\ UNCHANGED <<backend, ml, result, historyVars, boundVars>>

\* The backend gives up; the ML service does not hear of it.
TimeOut(n) ==
  /\ pc[n] = "wait" /\ Calling(n) /\ Spare /\ timeouts < MaxTimeouts
  /\ result' = [result EXCEPT ![n] = "error"]
  /\ timeouts' = timeouts + 1
  /\ Goto(n, IF op[n] = "delete" THEN "done" ELSE "status")
  /\ UNCHANGED <<backend, ml, historyVars, faults, scans>>

\* Mutant: only a success is written.
SetStatusOnSuccess(n) ==
  /\ pc[n] = "status" /\ Goto(n, IF op[n] = "photo" THEN "reply" ELSE "done")
  /\ status' = IF profile = "row" /\ result[n] = "stored" THEN "enrolled" ELSE status
  /\ UNCHANGED <<login, profile, photo, objects, op, path, old, result, ml,
                 historyVars, boundVars>>

\* set_enrollment, logged when it fails or the row is gone.
SetStatus(n) ==
  /\ pc[n] = "status" /\ Goto(n, IF op[n] = "photo" THEN "reply" ELSE "done")
  /\ \/ /\ status' = CASE profile # "row" -> status
                       [] profile = "row" /\ result[n] = "stored" -> "enrolled"
                       [] OTHER -> "failed"
        /\ UNCHANGED <<marks, boundVars>>
     \/ Fault /\ marks' = marks \cup {"status"} /\ UNCHANGED status
  /\ UNCHANGED <<login, profile, photo, objects, op, path, old, result, ml,
                 attached, mixed, beside, erased>>

\* The answer reaches the bulk upload, or an error does: the row could not be
\* read again, or the connection broke.
Reply(n) ==
  /\ pc[n] = "reply"
  /\ \/ Goto(n, "done") /\ UNCHANGED <<marks, boundVars>>
     \/ Fault /\ Goto(n, "reap") /\ marks' = marks \cup {"lost"}
  /\ UNCHANGED <<backend, result, ml, attached, mixed, beside, erased>>

\* The bulk upload reaps what it uploaded after an error, if it still runs.
Reap(n) ==
  /\ pc[n] = "reap" /\ Goto(n, "done")
  /\ \/ (\A m \in 1..(n - 1) : path[m] # path[n]) /\ objects' = objects \ {path[n]}
     \/ UNCHANGED objects
  /\ UNCHANGED <<backendVars, op, path, old, result, ml, historyVars, boundVars>>

\* Mutant: the erasure before BP8e, which left the photo.
DropNothing(n) ==
  /\ pc[n] = "drop" /\ Goto(n, "rows")
  /\ UNCHANGED <<backend, result, ml, historyVars, boundVars>>

\* The student's photo, as read at the start, goes.
DropObject(n) ==
  /\ pc[n] = "drop" /\ Goto(n, "rows")
  /\ \/ objects' = objects \ {old[n]} /\ UNCHANGED <<marks, boundVars>>
     \/ /\ old[n] # NoPhoto /\ Fault
        /\ marks' = marks \cup {"photo"} /\ UNCHANGED objects
  /\ UNCHANGED <<backendVars, op, path, old, result, ml, attached, mixed,
                 beside, erased>>

\* users.delete, which cascades to the profile.
DeleteRows(n) ==
  /\ pc[n] = "rows" /\ Goto(n, "done")
  /\ \/ /\ login' = FALSE /\ profile' = "gone" /\ photo' = NoPhoto
        /\ erased' = IF beside[n] THEN "beside" ELSE "alone"
        /\ UNCHANGED boundVars
     \/ Fault /\ UNCHANGED <<login, profile, photo, erased>>
  /\ UNCHANGED <<status, objects, op, path, old, result, ml, marks, attached,
                 mixed, beside>>

\* The backend dies; a photo request's client sees an error.
Crash(n) ==
  /\ Active(n) /\ pc[n] # "reap" /\ Fault
  /\ Goto(n, IF op[n] = "photo" THEN "reap" ELSE "done")
  /\ marks' = marks \cup {"crash"}
  /\ UNCHANGED <<backend, result, ml, attached, mixed, beside, erased>>

-----------------------------------------------------------------------------
\* Steps of the ML call of request n.

MGoto(n, place) == mpc' = [mpc EXCEPT ![n] = place]

\* The call ends; the request hears of it if it still waits.
Answer(n, r) ==
  /\ MGoto(n, "done") /\ have' = [have EXCEPT ![n] = {}]
  /\ result' = IF pc[n] = "wait" THEN [result EXCEPT ![n] = r] ELSE result

MFrame == UNCHANGED <<backend, pc, spc, historyVars, timeouts, scans>>

\* A step of a call fails: its error is the answer.
CallFails(n) ==
  /\ Calling(n) /\ Fault /\ Answer(n, "error")
  /\ UNCHANGED <<backend, pc, spc, mlVars, historyVars>>

\* reference_photos.replace: its DELETE sees the rows committed by now ...
WipeRefs(n) ==
  /\ mpc[n] = "wipe" /\ MGoto(n, "store")
  /\ have' = [have EXCEPT ![n] = refs]
  /\ MFrame /\ UNCHANGED <<mlVars, result, faults>>

\* ... and its commit adds the new URI to what another replace left.
StoreRefs(n) ==
  /\ mpc[n] = "store" /\ MGoto(n, "list")
  /\ refs' = (refs \ have[n]) \cup {path[n]}
  /\ MFrame /\ UNCHANGED <<indexVars, matches, candidates, have, result, faults>>

ListRefs(n) ==
  /\ mpc[n] = "list" /\ MGoto(n, "embed")
  /\ have' = [have EXCEPT ![n] = refs]
  /\ MFrame /\ UNCHANGED <<mlVars, result, faults>>

\* Mutant: an upsert of no embeddings goes through.
EmbedAny(n) ==
  /\ mpc[n] = "embed" /\ MGoto(n, "upsert")
  /\ have' = [have EXCEPT ![n] = (@ \cap objects) \ Faceless]
  /\ MFrame /\ UNCHANGED <<mlVars, result, faults>>

\* _embed_one of each; a photo that cannot be fetched is passed over.
Embed(n) ==
  /\ mpc[n] = "embed"
  /\ LET found == (have[n] \cap objects) \ Faceless IN
       \/ found = {} /\ Answer(n, "no face")
       \/ /\ found # {} /\ MGoto(n, "upsert")
          /\ have' = [have EXCEPT ![n] = found] /\ UNCHANGED result
  /\ MFrame /\ UNCHANGED <<mlVars, faults>>

\* A rewrite of the index: its rows, its id map, and last its version. A call
\* that breaks off may leave the first two unmatched, or the new contents under
\* the old version, by which caches of the old contents pass for current.
SaveBreaks(n, new) ==
  /\ Fault /\ marks' = marks \cup {"save"} /\ Answer(n, "error")
  /\ stale' = (stale \/ face # {})
  /\ \/ Cardinality(new) # Cardinality(face) /\ unmatched' = TRUE /\ UNCHANGED face
     \/ face' = new /\ UNCHANGED unmatched

\* What cannot be loaded cannot be rewritten.
LoadFails(n) ==
  unmatched /\ Answer(n, "error") /\ UNCHANGED <<indexVars, marks, faults>>

IFrame == UNCHANGED <<backend, pc, spc, refs, matches, candidates, attached,
                      mixed, beside, erased, timeouts, scans>>

\* index.upsert.
Upsert(n) ==
  /\ mpc[n] = "upsert"
  /\ \/ /\ ~ unmatched /\ face' = have[n] /\ stale' = FALSE
        /\ Answer(n, "stored") /\ UNCHANGED <<unmatched, marks, faults>>
     \/ ~ unmatched /\ SaveBreaks(n, have[n])
     \/ LoadFails(n)
  /\ IFrame

\* EnrollmentService.delete, one store after the other. index.delete rewrites
\* nothing when the student has no rows, and then caches stay as they are.
EraseIndex(n) ==
  /\ mpc[n] = "index"
  /\ \/ /\ ~ unmatched /\ face' = {} /\ stale' = (stale /\ face = {})
        /\ MGoto(n, "refs") /\ UNCHANGED <<unmatched, marks, have, result, faults>>
     \/ ~ unmatched /\ face # {} /\ SaveBreaks(n, {})
     \/ LoadFails(n)
  /\ IFrame

EraseRefs(n) ==
  /\ mpc[n] = "refs" /\ MGoto(n, "matches") /\ refs' = {}
  /\ MFrame /\ UNCHANGED <<indexVars, matches, candidates, have, result, faults>>

EraseMatches(n) ==
  /\ mpc[n] = "matches" /\ MGoto(n, "candidates") /\ matches' = FALSE
  /\ MFrame /\ UNCHANGED <<refs, indexVars, candidates, have, result, faults>>

EraseCandidates(n) ==
  /\ mpc[n] = "candidates" /\ candidates' = FALSE /\ Answer(n, "ok")
  /\ MFrame /\ UNCHANGED <<refs, indexVars, matches, faults>>

-----------------------------------------------------------------------------
\* A worker's job (process), in a photo that shows the student.

SFrame == UNCHANGED <<backend, pc, refs, indexVars, result, mpc, have, marks,
                      attached, mixed, erased, faults, timeouts>>

\* The search finds the student, in the files or in a cache.
Recognise ==
  /\ spc = "idle" /\ ((face # {} /\ ~ unmatched) \/ stale)
  /\ Spare /\ scans < MaxScans
  /\ spc' = "save" /\ scans' = scans + 1
  /\ beside' = [n \in Requests |-> beside[n] \/ (Active(n) /\ op[n] = "delete")]
  /\ SFrame /\ UNCHANGED <<matches, candidates>>

SaveMatch ==
  /\ spc = "save" /\ spc' = "audit" /\ matches' = TRUE
  /\ SFrame /\ UNCHANGED <<candidates, beside, scans>>

SaveDetections ==
  /\ spc = "audit" /\ spc' = "idle" /\ candidates' = TRUE
  /\ SFrame /\ UNCHANGED <<matches, beside, scans>>

\* The job fails; what it saved stays.
JobFails ==
  /\ spc # "idle" /\ spc' = "idle"
  /\ SFrame /\ UNCHANGED <<matches, candidates, beside, scans>>

-----------------------------------------------------------------------------
RequestStep(n) ==
  \/ Start(n) \/ CreateLogin(n) \/ CreateProfile(n) \/ Undo(n)
  \/ ReadStudent(n) \/ Attach(n) \/ Clean(n) \/ Enrol(n) \/ Erase(n)
  \/ Answered(n) \/ TimeOut(n) \/ SetStatus(n) \/ Reply(n) \/ Reap(n)
  \/ DropObject(n) \/ DeleteRows(n) \/ Crash(n)

CallStep(n) ==
  \/ CallFails(n) \/ WipeRefs(n) \/ StoreRefs(n) \/ ListRefs(n) \/ Embed(n)
  \/ Upsert(n) \/ EraseIndex(n) \/ EraseRefs(n) \/ EraseMatches(n)
  \/ EraseCandidates(n)

Next ==
  \/ \E n \in Requests : RequestStep(n) \/ CallStep(n)
  \/ Recognise \/ SaveMatch \/ SaveDetections \/ JobFails

Spec == Init /\ [][Next]_vars

-----------------------------------------------------------------------------
BackendTypes ==
  /\ login \in BOOLEAN /\ profile \in {"none", "row", "gone"}
  /\ photo \in Photos \cup {NoPhoto}
  /\ status \in {"pending", "enrolled", "failed"}
  /\ objects \subseteq Photos

RequestTypes ==
  /\ pc \in [Requests -> {"new", "login", "profile", "undo", "read", "attach",
                          "clean", "enrol", "erase", "wait", "status", "reply",
                          "reap", "drop", "rows", "done"}]
  /\ op \in [Requests -> {"none", "create", "photo", "enrol", "delete"}]
  /\ path \in [Requests -> Photos \cup {NoPhoto}]
  /\ old \in [Requests -> Photos \cup {NoPhoto}]
  /\ result \in [Requests -> {"none", "stored", "no face", "ok", "error"}]

MLTypes ==
  /\ refs \subseteq Photos /\ face \subseteq Photos
  /\ unmatched \in BOOLEAN /\ stale \in BOOLEAN
  /\ matches \in BOOLEAN /\ candidates \in BOOLEAN
  /\ mpc \in [Requests -> {"none", "wipe", "store", "list", "embed", "upsert",
                           "index", "refs", "matches", "candidates", "done"}]
  /\ have \in [Requests -> SUBSET Photos]
  /\ spc \in {"idle", "save", "audit"}

HistoryTypes ==
  /\ marks \subseteq {"login", "photo", "status", "save", "lost", "crash"}
  /\ attached \subseteq Photos
  /\ mixed \in BOOLEAN /\ beside \in [Requests -> BOOLEAN]
  /\ erased \in {"no", "alone", "beside"}

BoundTypes ==
  /\ faults \in 0..MaxFaults /\ timeouts \in 0..MaxTimeouts /\ scans \in 0..MaxScans

TypeOK ==
  BackendTypes /\ RequestTypes /\ MLTypes /\ HistoryTypes /\ BoundTypes

Deleting == \E n \in Requests : op[n] = "delete"

\* With every request over, a login without a profile (which cannot be deleted
\* and keeps its email taken) is the work of a dead backend or has been logged.
LoginsHaveProfiles ==
  ~ Busy /\ login /\ profile # "row" => marks \cap {"login", "crash"} # {}

\* The photo the profile names exists, however replacements and enrolments
\* interleave, failed answers and photos posted twice at a time apart.
RowPhotoExists ==
  /\ ~ Deleting /\ marks \cap {"lost", "crash"} = {}
  /\ mixed => \A m, n \in Requests :
                m # n /\ {op[m], op[n]} \subseteq {"create", "photo"}
                  => path[m] # path[n]
  => photo \in objects \cup {NoPhoto}

\* A replaced or erased photo is gone from the object store, unless its
\* deletion was logged as failed (or the backend died first).
ReplacedPhotosGone ==
  ~ Busy /\ ~ mixed /\ marks \cap {"photo", "crash"} = {}
    => attached \cap objects \subseteq {photo}

\* The object store holds the photo a profile names and none it has replaced, whichever of
\* a request's steps fails and whatever runs beside it.
PhotosFollowRows == RowPhotoExists /\ ReplacedPhotosGone

\* A student shown as enrolled has embeddings in the index: no failed enrolment
\* takes those of the one before (FR-E3), in any order of answers.
EnrolledHaveFaces == status = "enrolled" /\ ~ Deleting => face # {}

\* ... and is found by the photo the profile shows, requests that overlap and
\* a logged failure to write the status apart.
EnrolledByShownPhoto ==
  /\ ~ Busy /\ ~ mixed /\ ~ Deleting
  /\ marks \cap {"status", "crash"} = {} /\ status = "enrolled"
  => face = {photo} /\ refs = {photo}

\* A delete that answered, alone, leaves no URI and no embedding in the ML
\* service, whatever earlier requests and calls failed halfway; and no match or
\* candidate, then or later, unless a rewrite of the index broke off.
ErasureIsComplete ==
  /\ erased = "alone" => refs = {} /\ face = {}
  /\ erased = "alone" /\ "save" \notin marks => ~ matches /\ ~ candidates

\* "an ML outage surfaces as a 502 and the operator retries"
\* (student_service.py:875-876): once a delete has answered, alone, no match comes.
RetriedDeleteIsComplete == erased = "alone" => ~ matches /\ ~ candidates

\* "BP8e closes those three gaps so **delete means gone** -- a real, verifiable
\* erasure" (decisions/0053-product-build-BP8e-student-erasure.md:13): with
\* everything over, an erased student has no URI with its embeddings.
DeletedMeansGone ==
  erased # "no" /\ ~ Busy /\ spc = "idle" => refs = {} \/ face = {}

=============================================================================
