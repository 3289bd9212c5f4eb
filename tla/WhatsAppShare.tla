---------------------------- MODULE WhatsAppShare ----------------------------
(***************************************************************************)
(* Sending students their photos over WhatsApp: the requests that send one *)
(* student's photos or fan an event's photos out to everyone in them, the  *)
(* school's monthly budget, the platform configuration that diverts or     *)
(* enables sending, the image variants the provider fetches, and the       *)
(* reaper that deletes old variants.                                       *)
(*                                                                         *)
(* One action is the code between two awaits, except that the reads of one *)
(* listing are taken together.  The pairs that effectively appear are kept *)
(* here as one set; how they come about, read by read, is the subject of   *)
(* Gallery.  One school; the platform's configuration is shared.           *)
(***************************************************************************)
EXTENDS Integers, FiniteSets

CONSTANTS
  Students,    \* the school's students
  Media,       \* the photos of its events
  Batches,     \* the send requests, each served once
  Admins,      \* platform administrators, each saving the configuration once
  Edits,       \* the partial edits they may save
  Cap,         \* monthly_send_cap
  LongRetention, \* the reaper's retention outlasts the links: true of the defaults (24 h
                 \* and 1 h), required by nothing
  NoStudent, NoMedia,
  MaxMonths,   \* bound on the turns of the month
  MaxMishaps   \* bound on the changes, failures and clean-ups around the sends

ASSUME CapAssumption == Cap \in Nat
ASSUME EditsAssumption ==
  Edits \subseteq [interim: {"keep", "set", "clear"}, ready: {"keep", "set", "clear"}]
ASSUME RetentionAssumption == LongRetention \in BOOLEAN
ASSUME NoneAssumption == NoStudent \notin Students /\ NoMedia \notin Media
ASSUME BoundsAssumption == MaxMonths \in Nat /\ MaxMishaps \in Nat
ASSUME FiniteAssumption == IsFiniteSet(Students) /\ IsFiniteSet(Media) /\ IsFiniteSet(Batches)

VARIABLES
  config,      \* the platform row: is an interim number set, are sender and template
  saves,       \* the platform saves under way: the edit, and the row it was read from
  consent,     \* per student: "in" (opted in, number on file), "out" or "gone"
  pairs,       \* the (student, photo) pairs that effectively appear
  month,       \* the UTC month
  log,         \* the "sent" rows of the send log; nothing reads the others back
  variant,     \* per photo, the object at its send key: "none", "fresh" or "old"
  listing,     \* the keys a reaper run has listed as old and not yet treated
  pc, fanout, whole, asked, diverted, willing, queue, cur, opted, route, todo, left, item,
  status,      \* the requests, see the state of a request below
  report,      \* per request and student, what the answer says of the student
  outcome,     \* per request and pair, the per-photo result
  \* What happened, for the properties; the code keeps none of it.
  messages,    \* the messages the provider accepted
  unlogged,    \* how many of them have no "sent" row and will have none
  links,       \* photos whose link, already with the provider, has not run out
  crossed,     \* photos last uploaded while a reaper run held them listed as old
  overlapped,  \* two requests have been past their budget check at once
  okSince,     \* per request, photos its student was entitled to since it read the row
  inSince,     \* per request, has its student been opted in since it read the row
  mishaps

platform == <<config, saves>>
school   == <<consent, pairs, month>>
storage  == <<variant, listing>>
control  == <<pc, cur, queue>>
plan     == <<fanout, whole, asked, diverted, willing>>
sending  == <<opted, route, todo, left, item, status>>
answers  == <<report, outcome>>
history  == <<messages, unlogged, links, crossed, overlapped>>
entitled == <<okSince, inSince>>

vars == <<platform, school, log, storage, control, plan, sending, answers,
          history, entitled, mishaps>>

Rows  == [interim: BOOLEAN, ready: BOOLEAN]
LogRows == [batch: Batches, student: Students, media: Media, month: 0..MaxMonths]
Reports == {"none", "unwilling", "error", "summary"}
Outcomes == {"none", "sent", "failed", "skipped"}
Messages == [batch: Batches, student: Students, media: Media,
             route: {"interim", "template"}, month: 0..MaxMonths]

\* A request is past its budget check while it works through the photos.
Spending(b) == pc[b] \in {"photo", "send", "record"}

Spare == mishaps < MaxMishaps
Mishap == Spare /\ mishaps' = mishaps + 1

Of(s) == {m \in Media : <<s, m>> \in pairs}

SentThisMonth == {r \in log : r.month = month}

Init ==
  /\ config \in Rows
  /\ saves = [a \in Admins |-> [stage |-> "none"]]
  /\ consent \in [Students -> {"in", "out"}]
  /\ pairs = Students \X Media
  /\ month = 0
  /\ log = {}
  /\ variant = [m \in Media |-> "none"]
  /\ listing = {}
  /\ pc = [b \in Batches |-> "idle"]
  /\ cur = [b \in Batches |-> NoStudent]
  /\ queue = [b \in Batches |-> {}]
  /\ fanout = [b \in Batches |-> FALSE]
  /\ whole = [b \in Batches |-> FALSE]
  /\ asked = [b \in Batches |-> [s \in Students |-> {}]]
  /\ diverted = [b \in Batches |-> FALSE]
  /\ willing = [b \in Batches |-> {}]
  /\ opted = [b \in Batches |-> FALSE]
  /\ route = [b \in Batches |-> "none"]
  /\ todo = [b \in Batches |-> {}]
  /\ left = [b \in Batches |-> 0]
  /\ item = [b \in Batches |-> NoMedia]
  /\ status = [b \in Batches |-> "none"]
  /\ report = [b \in Batches |-> [s \in Students |-> "none"]]
  /\ outcome = [b \in Batches |-> [p \in Students \X Media |-> "none"]]
  /\ messages = {}
  /\ unlogged = 0
  /\ links = {}
  /\ crossed = {}
  /\ overlapped = FALSE
  /\ okSince = [b \in Batches |-> {}]
  /\ inSince = [b \in Batches |-> FALSE]
  /\ mishaps = 0

------------------------------------------------------------------------------
(* The fan-out of an event's photos.                                       *)

\* A request to send one student all their photos, or the ones named.
BeginOne(b, s, every, ids) ==
  /\ pc[b] = "idle"
  /\ pc' = [pc EXCEPT ![b] = "student"]
  /\ cur' = [cur EXCEPT ![b] = s]
  /\ whole' = [whole EXCEPT ![b] = every]
  /\ asked' = [asked EXCEPT ![b][s] = IF every THEN {} ELSE ids]
  /\ UNCHANGED <<platform, school, log, storage, queue, fanout, diverted, willing,
                 sending, answers, history, entitled, mishaps>>

\* A request to send an event's photos, all or the ones named, to those in them.
BeginFanOut(b, ids) ==
  /\ pc[b] = "idle"
  /\ pc' = [pc EXCEPT ![b] = "config"]
  /\ fanout' = [fanout EXCEPT ![b] = TRUE]
  /\ asked' = [asked EXCEPT ![b] = [s \in Students |-> ids]]
  /\ UNCHANGED <<platform, school, log, storage, cur, queue, whole, diverted, willing,
                 sending, answers, history, entitled, mishaps>>

\* The fan-out's own look at the configuration: refused unless sending is set up.
CheckConfig(b) ==
  /\ pc[b] = "config"
  /\ diverted' = [diverted EXCEPT ![b] = config.interim]
  /\ pc' = [pc EXCEPT ![b] = IF config.interim \/ config.ready THEN "recipients" ELSE "done"]
  /\ UNCHANGED <<platform, school, log, storage, cur, queue, fanout, whole, asked, willing,
                 sending, answers, history, entitled, mishaps>>

\* Who appears in the photos, with which of them; their rows are read here once.
ListRecipients(b) ==
  /\ pc[b] = "recipients"
  /\ LET theirs == [s \in Students |-> asked[b][s] \cap Of(s)]
     IN /\ asked' = [asked EXCEPT ![b] = theirs]
        /\ queue' = [queue EXCEPT ![b] =
                       {s \in Students : theirs[s] # {} /\ consent[s] # "gone"}]
  /\ willing' = [willing EXCEPT ![b] = {s \in Students : consent[s] = "in"}]
  /\ pc' = [pc EXCEPT ![b] = "next"]
  /\ UNCHANGED <<platform, school, log, storage, cur, fanout, whole, diverted,
                 sending, answers, history, entitled, mishaps>>

\* The next recipient: skipped if unwilling when the recipients were read.
NextRecipient(b, s) ==
  /\ pc[b] = "next" /\ s \in queue[b]
  /\ queue' = [queue EXCEPT ![b] = @ \ {s}]
  /\ IF ~diverted[b] /\ s \notin willing[b]
       THEN /\ report' = [report EXCEPT ![b][s] = "unwilling"]
            /\ UNCHANGED <<pc, cur>>
       ELSE /\ pc' = [pc EXCEPT ![b] = "student"]
            /\ cur' = [cur EXCEPT ![b] = s]
            /\ UNCHANGED report
  /\ UNCHANGED <<platform, school, log, storage, plan, sending, outcome, history,
                 entitled, mishaps>>

EndFanOut(b) ==
  /\ pc[b] = "next" /\ queue[b] = {}
  /\ pc' = [pc EXCEPT ![b] = "done"]
  /\ diverted' = [diverted EXCEPT ![b] = FALSE]
  /\ willing' = [willing EXCEPT ![b] = {}]
  /\ UNCHANGED <<platform, school, log, storage, cur, queue, fanout, whole, asked, sending,
                 answers, history, entitled, mishaps>>

------------------------------------------------------------------------------
(* One student's send, within a fan-out or on its own.                     *)

\* The locals of one student's send, gone when it returns.
Forget(b) ==
  /\ cur' = [cur EXCEPT ![b] = NoStudent]
  /\ opted' = [opted EXCEPT ![b] = FALSE]
  /\ route' = [route EXCEPT ![b] = "none"]
  /\ left' = [left EXCEPT ![b] = 0]
  /\ okSince' = [okSince EXCEPT ![b] = {}]
  /\ inSince' = [inSince EXCEPT ![b] = FALSE]

\* The send of the current student ends: the request's own answer, or the next recipient.
Leave(b, what) ==
  /\ report' = [report EXCEPT ![b][cur[b]] = what]
  /\ pc' = [pc EXCEPT ![b] = IF fanout[b] THEN "next" ELSE "done"]
  /\ Forget(b)

ReadStudent(b) ==
  /\ pc[b] = "student"
  /\ IF consent[cur[b]] = "gone"
       THEN Leave(b, "error")
       ELSE /\ opted' = [opted EXCEPT ![b] = consent[cur[b]] = "in"]
            /\ okSince' = [okSince EXCEPT ![b] = Of(cur[b])]
            /\ inSince' = [inSince EXCEPT ![b] = consent[cur[b]] = "in"]
            /\ pc' = [pc EXCEPT ![b] = "gate"]
            /\ UNCHANGED <<report, cur, route, left>>
  /\ UNCHANGED <<platform, school, log, storage, queue, plan, todo, item, status, outcome,
                 history, mishaps>>

Proceed(b, way) ==
  /\ route' = [route EXCEPT ![b] = way]
  /\ pc' = [pc EXCEPT ![b] = "resolve"]
  /\ UNCHANGED <<report, cur, opted, left, entitled>>

\* A mutant: the consent gate left to the fan-out, which has seen the row.
GateOfSingleSends(b) ==
  /\ pc[b] = "gate"
  /\ IF config.interim
       THEN Proceed(b, "interim")
       ELSE IF config.ready /\ (opted[b] \/ fanout[b])
       THEN Proceed(b, "template")
       ELSE Leave(b, "error")
  /\ UNCHANGED <<platform, school, log, storage, queue, plan, todo, item, status, outcome,
                 history, mishaps>>

\* An interim number diverts the send to the test phone; else the configuration and the
\* student's consent, as just read, must allow it.
Gate(b) ==
  /\ pc[b] = "gate"
  /\ IF config.interim
       THEN Proceed(b, "interim")
       ELSE IF config.ready /\ opted[b]
       THEN Proceed(b, "template")
       ELSE Leave(b, "error")
  /\ UNCHANGED <<platform, school, log, storage, queue, plan, todo, item, status, outcome,
                 history, mishaps>>

\* A mutant: a fan-out's list is taken as the photos to send, without reading them again.
ResolveTrustingList(b) ==
  /\ pc[b] = "resolve"
  /\ IF consent[cur[b]] = "gone"
       THEN Leave(b, "error") /\ UNCHANGED <<todo, outcome>>
       ELSE /\ todo' = [todo EXCEPT ![b] = IF whole[b] THEN Of(cur[b])
                                           ELSE IF fanout[b] THEN asked[b][cur[b]]
                                           ELSE asked[b][cur[b]] \cap Of(cur[b])]
            /\ pc' = [pc EXCEPT ![b] = "count"]
            /\ UNCHANGED <<report, outcome, cur, opted, route, left, entitled>>
  /\ UNCHANGED <<platform, school, log, storage, queue, plan, item, status, history, mishaps>>

\* A mutant: photos asked for in vain are left out of the answer.
ResolveSilently(b) ==
  /\ pc[b] = "resolve"
  /\ IF consent[cur[b]] = "gone"
       THEN Leave(b, "error") /\ UNCHANGED <<todo, outcome>>
       ELSE /\ todo' = [todo EXCEPT ![b] = IF whole[b] THEN Of(cur[b])
                                           ELSE asked[b][cur[b]] \cap Of(cur[b])]
            /\ pc' = [pc EXCEPT ![b] = "count"]
            /\ UNCHANGED <<report, outcome, cur, opted, route, left, entitled>>
  /\ UNCHANGED <<platform, school, log, storage, queue, plan, item, status, history, mishaps>>

\* The photos to send: those asked for that the student appears in, or all of them; one
\* asked for in vain is recorded in the answer, and only there.
Resolve(b) ==
  /\ pc[b] = "resolve"
  /\ IF consent[cur[b]] = "gone"
       THEN Leave(b, "error") /\ UNCHANGED <<todo, outcome>>
       ELSE LET s == cur[b]
                mine == Of(s)
            IN /\ todo' = [todo EXCEPT ![b] = IF whole[b] THEN mine ELSE asked[b][s] \cap mine]
               /\ outcome' = [outcome EXCEPT ![b] = [p \in Students \X Media |->
                                IF p[1] = s /\ p[2] \in asked[b][s] \ mine
                                  THEN "skipped" ELSE outcome[b][p]]]
               /\ pc' = [pc EXCEPT ![b] = "count"]
               /\ UNCHANGED <<report, cur, opted, route, left, entitled>>
  /\ UNCHANGED <<platform, school, log, storage, queue, plan, item, status, history, mishaps>>

\* The one budget check of a student's send; the interim intro follows it, unmetered.
Count(b) ==
  /\ pc[b] = "count"
  /\ left' = [left EXCEPT ![b] = Cap - Cardinality(SentThisMonth)]
  /\ pc' = [pc EXCEPT ![b] = "photo"]
  /\ overlapped' = (overlapped \/ \E c \in Batches \ {b} : Spending(c))
  /\ UNCHANGED <<platform, school, log, storage, cur, queue, plan, opted, route, todo, item,
                 status, answers, messages, unlogged, links, crossed, entitled, mishaps>>

EndStudent(b) ==
  /\ pc[b] = "photo" /\ todo[b] = {}
  /\ Leave(b, "summary")
  /\ UNCHANGED <<platform, school, log, storage, queue, plan, todo, item, status, outcome,
                 history, mishaps>>

\* A mutant: the skip of a photo beyond the budget has no outcome.
SkipUnmarked(b, m) ==
  /\ pc[b] = "photo" /\ m \in todo[b]
  /\ left[b] <= 0
  /\ item' = [item EXCEPT ![b] = m]
  /\ pc' = [pc EXCEPT ![b] = "record"]
  /\ UNCHANGED <<platform, school, log, storage, cur, queue, plan, opted, route, todo, left,
                 status, answers, history, entitled, mishaps>>

\* A photo beyond the budget is skipped.
SkipOverBudget(b, m) ==
  /\ pc[b] = "photo" /\ m \in todo[b]
  /\ left[b] <= 0
  /\ item' = [item EXCEPT ![b] = m]
  /\ status' = [status EXCEPT ![b] = "skipped"]
  /\ pc' = [pc EXCEPT ![b] = "record"]
  /\ UNCHANGED <<platform, school, log, storage, cur, queue, plan, opted, route, todo, left,
                 answers, history, entitled, mishaps>>

\* The variant is uploaded over the key of its photo, and a link to it signed.
Upload(b, m) ==
  /\ pc[b] = "photo" /\ m \in todo[b]
  /\ left[b] > 0
  /\ item' = [item EXCEPT ![b] = m]
  /\ variant' = [variant EXCEPT ![m] = "fresh"]
  /\ crossed' = IF m \in listing THEN crossed \cup {m} ELSE crossed \ {m}
  /\ pc' = [pc EXCEPT ![b] = "send"]
  /\ UNCHANGED <<platform, school, log, listing, cur, queue, plan, opted, route, todo, left,
                 status, answers, messages, unlogged, links, overlapped, entitled, mishaps>>

\* No variant under the size limit, or the store is down: a failure of this photo.  The
\* object may have been written before the link could not be signed.
UploadFails(b, m) ==
  /\ Mishap
  /\ pc[b] = "photo" /\ m \in todo[b]
  /\ left[b] > 0
  /\ item' = [item EXCEPT ![b] = m]
  /\ status' = [status EXCEPT ![b] = "failed"]
  /\ pc' = [pc EXCEPT ![b] = "record"]
  /\ \E written \in BOOLEAN :
       /\ variant' = IF written THEN [variant EXCEPT ![m] = "fresh"] ELSE variant
       /\ crossed' = IF ~written THEN crossed
                     ELSE IF m \in listing THEN crossed \cup {m} ELSE crossed \ {m}
  /\ UNCHANGED <<platform, school, log, listing, cur, queue, plan, opted, route, todo, left,
                 answers, messages, unlogged, links, overlapped, entitled>>

\* To whom, which image, by template or free-form.
Message(b) ==
  [batch |-> b, student |-> cur[b], media |-> item[b], route |-> route[b], month |-> month]

\* The provider takes the message; it will fetch the image from the link.
Accept(b) ==
  /\ messages' = messages \cup {Message(b)}
  /\ links' = links \cup {item[b]}

\* The provider accepts the message, and says so.
Send(b) ==
  /\ pc[b] = "send"
  /\ Accept(b)
  /\ status' = [status EXCEPT ![b] = "sent"]
  /\ pc' = [pc EXCEPT ![b] = "record"]
  /\ UNCHANGED <<platform, school, log, storage, cur, queue, plan, opted, route, todo, left,
                 item, answers, unlogged, crossed, overlapped, entitled, mishaps>>

\* The provider refuses, or accepts and its answer is lost: to the code both are a failure.
SendFails(b) ==
  /\ Mishap
  /\ pc[b] = "send"
  /\ \/ UNCHANGED <<messages, links, unlogged>>
     \/ Accept(b) /\ unlogged' = unlogged + 1
  /\ status' = [status EXCEPT ![b] = "failed"]
  /\ pc' = [pc EXCEPT ![b] = "record"]
  /\ UNCHANGED <<platform, school, log, storage, cur, queue, plan, opted, route, todo, left,
                 item, answers, crossed, overlapped, entitled>>

\* The photo is done with: its result, and one off the budget if it was sent.
Settle(b) ==
  /\ outcome' = [outcome EXCEPT ![b][<<cur[b], item[b]>>] = status[b]]
  /\ todo' = [todo EXCEPT ![b] = @ \ {item[b]}]
  /\ left' = [left EXCEPT ![b] = IF status[b] = "sent" THEN @ - 1 ELSE @]
  /\ item' = [item EXCEPT ![b] = NoMedia]
  /\ status' = [status EXCEPT ![b] = "none"]
  /\ pc' = [pc EXCEPT ![b] = "photo"]

\* The log with this photo's row in it.
Logged(b) ==
  IF status[b] = "sent"
    THEN log \cup {[batch |-> b, student |-> cur[b], media |-> item[b], month |-> month]}
    ELSE log

\* A mutant: the budget of a request is not counted down as it sends.
RecordUncounted(b) ==
  /\ pc[b] = "record"
  /\ log' = Logged(b)
  /\ outcome' = [outcome EXCEPT ![b][<<cur[b], item[b]>>] = status[b]]
  /\ todo' = [todo EXCEPT ![b] = @ \ {item[b]}]
  /\ item' = [item EXCEPT ![b] = NoMedia]
  /\ status' = [status EXCEPT ![b] = "none"]
  /\ pc' = [pc EXCEPT ![b] = "photo"]
  /\ UNCHANGED <<platform, school, storage, cur, queue, plan, opted, route, left, report,
                 history, entitled, mishaps>>

Record(b) ==
  /\ pc[b] = "record"
  /\ log' = Logged(b)
  /\ Settle(b)
  /\ UNCHANGED <<platform, school, storage, cur, queue, plan, opted, route, report, history,
                 entitled, mishaps>>

\* The row of a sent photo cannot be written: swallowed, and the photo counts as sent all
\* the same.
RecordFails(b) ==
  /\ Mishap
  /\ pc[b] = "record" /\ status[b] = "sent"
  /\ Settle(b)
  /\ unlogged' = unlogged + 1
  /\ UNCHANGED <<platform, school, log, storage, cur, queue, plan, opted, route, report,
                 messages, links, crossed, overlapped, entitled>>

\* The request ends here, its locals with it: the process dies, a read of the database
\* raises, or the provider, which may have taken the message, answers something unreadable.
Crash(b) ==
  /\ Mishap
  /\ pc[b] \notin {"idle", "done", "crashed"}
  /\ \/ pc[b] = "send" /\ Accept(b) /\ unlogged' = unlogged + 1
     \/ /\ unlogged' = IF pc[b] = "record" /\ status[b] = "sent" THEN unlogged + 1
                       ELSE unlogged
        /\ UNCHANGED <<messages, links>>
  /\ pc' = [pc EXCEPT ![b] = "crashed"]
  /\ Forget(b)
  /\ todo' = [todo EXCEPT ![b] = {}]
  /\ item' = [item EXCEPT ![b] = NoMedia]
  /\ status' = [status EXCEPT ![b] = "none"]
  /\ queue' = [queue EXCEPT ![b] = {}]
  /\ diverted' = [diverted EXCEPT ![b] = FALSE]
  /\ willing' = [willing EXCEPT ![b] = {}]
  /\ UNCHANGED <<platform, school, log, storage, fanout, whole, asked, answers, crossed,
                 overlapped>>

------------------------------------------------------------------------------
(* What changes around the requests.                                       *)

\* An opt-in, an opt-out, or a number cleared or given.
ChangeConsent(s) ==
  /\ Mishap
  /\ consent[s] # "gone"
  /\ consent' = [consent EXCEPT ![s] = IF @ = "in" THEN "out" ELSE "in"]
  /\ inSince' = [b \in Batches |-> inSince[b] \/ (cur[b] = s /\ consent'[s] = "in")]
  /\ UNCHANGED <<platform, pairs, month, log, storage, control, plan, sending, answers,
                 history, okSince>>

\* A student erased with their rows and matches.
DeleteStudent(s) ==
  /\ Mishap
  /\ consent[s] # "gone"
  /\ consent' = [consent EXCEPT ![s] = "gone"]
  /\ pairs' = {p \in pairs : p[1] # s}
  /\ UNCHANGED <<platform, month, log, storage, control, plan, sending, answers,
                 history, entitled>>

\* A correction by staff: an appearance rejected, or added.
Correct(s, m) ==
  /\ Mishap
  /\ consent[s] # "gone"
  /\ IF <<s, m>> \in pairs
       THEN pairs' = pairs \ {<<s, m>>} /\ UNCHANGED okSince
       ELSE /\ pairs' = pairs \cup {<<s, m>>}
            /\ okSince' = [b \in Batches |->
                             IF cur[b] = s THEN okSince[b] \cup {m} ELSE okSince[b]]
  /\ UNCHANGED <<platform, consent, month, log, storage, control, plan, sending, answers,
                 history, inSince>>

TurnMonth ==
  /\ Mishap
  /\ month < MaxMonths
  /\ month' = month + 1
  /\ UNCHANGED <<platform, consent, pairs, log, storage, control, plan, sending, answers,
                 history, entitled>>

Merged(edit, value) == IF edit = "keep" THEN value ELSE edit = "set"

\* A platform save first reads the row that it is to change in part...
SaveRead(a, edit) ==
  /\ Mishap
  /\ saves[a].stage = "none"
  /\ saves' = [saves EXCEPT ![a] = [stage |-> "read", edit |-> edit, row |-> config]]
  /\ UNCHANGED <<config, school, log, storage, control, plan, sending, answers, history,
                 entitled>>

\* ... then writes every column back, those it kept as they were read.
SaveWrite(a) ==
  /\ saves[a].stage = "read"
  /\ config' = [interim |-> Merged(saves[a].edit.interim, saves[a].row.interim),
                ready   |-> Merged(saves[a].edit.ready, saves[a].row.ready)]
  /\ saves' = [saves EXCEPT ![a] = [stage |-> "saved"]]
  /\ UNCHANGED <<school, log, storage, control, plan, sending, answers, history, entitled,
                 mishaps>>

\* A variant passes the retention; its links have run out before if the retention is long,
\* and a request that has uploaded it and not yet sent is younger than that.
Age(m) ==
  /\ Mishap
  /\ variant[m] = "fresh"
  /\ \A b \in Batches : ~(pc[b] = "send" /\ item[b] = m)
  /\ variant' = [variant EXCEPT ![m] = "old"]
  /\ \/ links' = links \ {m}
     \/ ~LongRetention /\ UNCHANGED links
  /\ UNCHANGED <<platform, school, log, listing, control, plan, sending, answers, messages,
                 unlogged, crossed, overlapped, entitled>>

\* The objects under the prefix of the variants.
ListPrefix == {m \in Media : variant[m] # "none"}

\* A mutant: the reaper takes every object, whatever its age.
ReapListAll ==
  /\ listing = {}
  /\ listing' = ListPrefix
  /\ UNCHANGED <<platform, school, log, variant, control, plan, sending, answers, history,
                 entitled, mishaps>>

\* A reaper run lists the objects older than the retention...
ReapList ==
  /\ listing = {}
  /\ listing' = {m \in ListPrefix : variant[m] = "old"}
  /\ UNCHANGED <<platform, school, log, variant, control, plan, sending, answers, history,
                 entitled, mishaps>>

\* ... and deletes them by key, one after the other; a delete that fails is skipped.
ReapDelete(m) ==
  /\ m \in listing
  /\ listing' = listing \ {m}
  /\ \/ variant' = [variant EXCEPT ![m] = "none"] /\ UNCHANGED mishaps
     \/ Mishap /\ UNCHANGED variant
  /\ UNCHANGED <<platform, school, log, control, plan, sending, answers, history, entitled>>

------------------------------------------------------------------------------
BatchStep(b) ==
  \/ \E s \in Students, every \in BOOLEAN, ids \in (SUBSET Media) \ {{}} :
       BeginOne(b, s, every, ids)
  \/ \E ids \in (SUBSET Media) \ {{}} : BeginFanOut(b, ids)
  \/ CheckConfig(b) \/ ListRecipients(b) \/ EndFanOut(b)
  \/ \E s \in Students : NextRecipient(b, s)
  \/ ReadStudent(b) \/ Gate(b) \/ Resolve(b) \/ Count(b) \/ EndStudent(b)
  \/ \E m \in Media : SkipOverBudget(b, m) \/ Upload(b, m) \/ UploadFails(b, m)
  \/ Send(b) \/ SendFails(b) \/ Record(b) \/ RecordFails(b)
  \/ Crash(b)

Surroundings ==
  \/ \E s \in Students : ChangeConsent(s) \/ DeleteStudent(s)
  \/ \E s \in Students, m \in Media : Correct(s, m)
  \/ TurnMonth
  \/ \E a \in Admins, edit \in Edits : SaveRead(a, edit)
  \/ \E a \in Admins : SaveWrite(a)
  \/ \E m \in Media : Age(m) \/ ReapDelete(m)
  \/ ReapList

Next == (\E b \in Batches : BatchStep(b)) \/ Surroundings

Spec == Init /\ [][Next]_vars

------------------------------------------------------------------------------
(* Properties.                                                             *)

SavesTyped == \A a \in Admins :
  \/ saves[a].stage \in {"none", "saved"}
  \/ saves[a].stage = "read" /\ saves[a].row \in Rows

\* Every variable has the values the code can give it; in particular a request at work on a
\* photo knows the photo and the student, and the log names real students and photos.
TypeOK ==
  /\ config \in Rows /\ SavesTyped
  /\ consent \in [Students -> {"in", "out", "gone"}]
  /\ pairs \subseteq Students \X Media
  /\ month \in 0..MaxMonths
  /\ log \subseteq LogRows
  /\ variant \in [Media -> {"none", "fresh", "old"}] /\ listing \subseteq Media
  /\ pc \in [Batches -> {"idle", "config", "recipients", "next", "student", "gate",
                         "resolve", "count", "photo", "send", "record", "done", "crashed"}]
  /\ cur \in [Batches -> Students \cup {NoStudent}]
  /\ queue \in [Batches -> SUBSET Students]
  /\ fanout \in [Batches -> BOOLEAN] /\ whole \in [Batches -> BOOLEAN]
  /\ asked \in [Batches -> [Students -> SUBSET Media]]
  /\ diverted \in [Batches -> BOOLEAN] /\ willing \in [Batches -> SUBSET Students]
  /\ opted \in [Batches -> BOOLEAN] /\ route \in [Batches -> {"none", "interim", "template"}]
  /\ todo \in [Batches -> SUBSET Media] /\ left \in [Batches -> Int]
  /\ item \in [Batches -> Media \cup {NoMedia}]
  /\ status \in [Batches -> {"none", "sent", "failed", "skipped"}]
  /\ report \in [Batches -> [Students -> Reports]]
  /\ outcome \in [Batches -> [Students \X Media -> Outcomes]]
  /\ messages \subseteq Messages /\ unlogged \in 0..MaxMishaps
  /\ links \subseteq Media /\ crossed \subseteq Media
  /\ overlapped \in BOOLEAN
  /\ okSince \in [Batches -> SUBSET Media] /\ inSince \in [Batches -> BOOLEAN]
  /\ mishaps \in 0..MaxMishaps
  /\ \A b \in Batches :
       /\ pc[b] \notin {"idle", "config", "recipients", "next", "done", "crashed"}
            => cur[b] \in Students
       /\ pc[b] \in {"send", "record"} => item[b] \in todo[b]
       /\ pc[b] \in {"send", "record"} => route[b] # "none"
       /\ pc[b] = "record" => status[b] # "none"

MessagesIn(t) == {r \in messages : r.month = t}

\* The budget, checked once per student's send and counted down as photos go out, holds
\* over fan-outs, failures and the turn of the month: as long as no two requests are past
\* their check at once, a month has no more messages than the cap, except those whose
\* success never reached the log.  Requests that overlap can each spend what the others have
\* not logged yet, and no more: the cap once for each request that can be at work.
BudgetHolds ==
  \A t \in 0..MaxMonths :
    Cardinality(MessagesIn(t)) <=
      unlogged + (IF overlapped THEN Cap * Cardinality(Batches) ELSE Cap)

\* A message is on its way to a student's own number only if that student has been opted
\* in at some moment since this request read the row, however the configuration switched
\* between the fan-out's look at it and the student's turn.
OnlyWillingReceive ==
  \A b \in Batches : pc[b] = "send" /\ route[b] = "template" => inSince[b]

\* The photo being sent is one its student effectively appeared in at some moment since
\* this request read the student's row: a photo rejected before then is not sent, whatever
\* list of recipients the fan-out was given.
OnlyTheirPhotos ==
  \A b \in Batches : pc[b] = "send" => item[b] \in okSince[b]

\* A message goes only to one who was willing, and only with a photo of theirs, at some
\* moment since the request looked.
SendsAreEntitled == OnlyWillingReceive /\ OnlyTheirPhotos

\* An answer tells what was done: a student reported as an error or as unwilling got
\* nothing from the request, one reported with a summary has a result for every photo asked
\* for, a photo is reported sent only if the provider took it, and a photo the provider
\* took is reported otherwise only if its success was lost on the way.
ReportsAreTrue ==
  \A b \in Batches :
    LET sentTo(s) == {r \in messages : r.batch = b /\ r.student = s}
    IN /\ \A s \in Students :
            /\ report[b][s] \in {"error", "unwilling"} => sentTo(s) = {}
            /\ report[b][s] = "summary"
                 => \A m \in asked[b][s] : outcome[b][<<s, m>>] # "none"
       /\ \A s \in Students, m \in Media :
            outcome[b][<<s, m>>] = "sent" => \E r \in sentTo(s) : r.media = m
       /\ Cardinality({r \in messages :
                          /\ r.batch = b
                          /\ outcome[b][<<r.student, r.media>>] \in {"failed", "skipped"}})
            <= unlogged

\* With a retention that outlasts the links, the reaper takes no object a live link names,
\* whatever is sent, fails or ages around it, but for one: an object that a send overwrote
\* after the reaper had listed it.
LinksStayLive ==
  LongRetention => \A m \in links : variant[m] = "none" => m \in crossed

\* "it never deletes an object younger than ``retention`` (default 24h, well past the 1h
\* signed-URL TTL), so it can't race a fresh send" (whatsapp_variant_reaper.py:9-11).
NeverReapsFresh ==
  LongRetention => \A m \in links : variant[m] # "none"

=============================================================================
