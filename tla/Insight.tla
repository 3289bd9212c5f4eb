------------------------------- MODULE Insight -------------------------------
(***************************************************************************)
(* What a school makes of its photos, and the three reports on it: the     *)
(* school's dashboard, the school's analytics and the platform's view of   *)
(* every school.  A report is a sequence of reads, each a statement of its *)
(* own, while students come and go, enrol, sign in and open what was       *)
(* announced to them.  What is counted is read as the set that is counted. *)
(*                                                                         *)
(* The school is one of many; the other schools share no row with it.  The *)
(* lane of open reviews on the dashboard is in Gallery.                    *)
(***************************************************************************)
EXTENDS Office

CONSTANT MaxNews   \* bound on the changes of this module and the reports begun

ASSUME NewsAssumption == MaxNews \in Nat

VARIABLES
  face,     \* per student, the enrolment of the reference photo
  course,   \* per event, how far it has come
  opens,    \* <<student, event>>: who has opened what for the first time, ...
  early,    \* ... and which of that in months before those the trend still shows
  sent,     \* images sent on WhatsApp this month; before it none
  report,   \* a report under way or done
  news

insight == <<face, course, opens, early, sent, report, news>>

Courses == [notified : BOOLEAN, auto : BOOLEAN, done : BOOLEAN, archived : BOOLEAN,
            running : BOOLEAN, recent : BOOLEAN, photos : SUBSET {"done", "pending"}]

Happening == {e \in Events : rows[e] = "there"}

\* An event is announced by hand, or by itself once it is completed.
Announced(e) == course[e].notified \/ (course[e].auto /\ course[e].done)

\* A student's row takes its opens along.
Openings == {o \in opens : o[1] \in Enrolled}

------------------------------------------------------------------------------
(* What happens.                                                           *)

News == news' = news + 1
MoreNews == news < MaxNews

\* The enrolment of a photo comes out, or fails, as it may later again.
Enrol(s, outcome) ==
  /\ News
  /\ s \in Enrolled
  /\ face' = [face EXCEPT ![s] = outcome]
  /\ UNCHANGED <<pupils, course, opens, early, sent>>

PupilSignsIn(s) ==
  /\ News
  /\ s \in Enrolled /\ pupils[s].active
  /\ pupils' = [pupils EXCEPT ![s].seen = TRUE]
  /\ UNCHANGED <<face, course, opens, early, sent>>

Open(s, e) ==
  /\ News
  /\ s \in Enrolled /\ e \in Happening /\ Announced(e)
  /\ opens' = opens \cup {<<s, e>>}
  /\ UNCHANGED <<pupils, face, course, early, sent>>

\* The trend shows the latest dozen of the months of photos, events and openings: with one
\* more, an event's date or a new one, another drops out and its openings with it.
MonthDrops(O) ==
  /\ News
  /\ early' = early \cup O
  /\ UNCHANGED <<pupils, face, course, opens, sent>>

Along(e, c) ==
  /\ News
  /\ e \in Happening
  /\ course' = [course EXCEPT ![e] = c]
  /\ UNCHANGED <<pupils, face, opens, early, sent>>

\* Photos come in and are processed; the event is announced, or is to announce itself, or
\* no longer; it is put away and brought back.
Upload(e) ==
  ~course[e].archived /\ Along(e, [course[e] EXCEPT !.photos = @ \cup {"pending"}])
Process(e) ==
  ~course[e].archived /\ Along(e, [course[e] EXCEPT !.running = TRUE])
Complete(e) ==
  course[e].running /\ Along(e, [course[e] EXCEPT !.running = FALSE, !.done = TRUE,
                                                  !.photos = {"done"}])
Announce(e) == Along(e, [course[e] EXCEPT !.notified = TRUE])
SetAuto(e) == Along(e, [course[e] EXCEPT !.auto = ~@])
Archive(e) == Along(e, [course[e] EXCEPT !.archived = ~@])

Send ==
  /\ News
  /\ sent' = sent + 1
  /\ UNCHANGED <<pupils, face, course, opens, early>>

------------------------------------------------------------------------------
(* The reads.                                                              *)

EnrollmentCounts == {<<s, face[s]>> : s \in Enrolled}
StudentCounts == Enrolled
EnrolledCounts == {s \in Enrolled : face[s] = "enrolled"}
SignedIn == {s \in Students : pupils[s] # NoRow /\ pupils[s].seen}
SignedInRoles == {s \in Students : pupils[s] # NoRow /\ pupils[s].seen}
Engaged == {o[1] : o \in Openings}
OpenedEvents == {o[2] : o \in Openings}
FirstOpens == Openings \ early
Savers == {saves[i] : i \in DOMAIN saves} \ {NoUser}
EventList == {<<e, Announced(e)>> : e \in Happening}
EventCounts == Happening
StatusCounts == {<<e, course[e].archived, course[e].running>> : e \in Happening}
PhotosByEvent == UNION {{e} \X course[e].photos : e \in Happening}
PhotoStatusCounts == UNION {{e} \X course[e].photos : e \in Happening}
Undistributed ==
  {e \in Happening : ~course[e].archived /\ ~course[e].running
                       /\ "pending" \in course[e].photos}
Distributed == {e \in Happening : Announced(e)}
DistributedCounts == {e \in Happening : Announced(e)}
RecentCounts == {e \in Happening : course[e].recent}
FirstDistributed == {e \in Happening : Announced(e)}
LastEvent == Happening
TeacherCounts == TeachersThere
SentCounts == 1..sent
SentThisMonth == 1..sent

Plan ==
  [dashboard |-> <<"enrollment", "status", "photoStatus", "undistributed", "teachers",
                   "distributed">>,
   school |-> <<"enrollment", "signedIn", "engaged", "opened", "savers", "events",
                "photos", "firstOpens">>,
   estate |-> <<"teachers", "signedInRoles", "students", "enrolled", "eventCounts",
                "distributedCounts", "recent", "firstDistributed", "lastEvent", "sent",
                "sentMonth">>]

Value(read) ==
  CASE read = "enrollment" -> EnrollmentCounts
    [] read = "students" -> StudentCounts
    [] read = "enrolled" -> EnrolledCounts
    [] read = "signedIn" -> SignedIn
    [] read = "signedInRoles" -> SignedInRoles
    [] read = "engaged" -> Engaged
    [] read = "opened" -> OpenedEvents
    [] read = "firstOpens" -> FirstOpens
    [] read = "savers" -> Savers
    [] read = "events" -> EventList
    [] read = "eventCounts" -> EventCounts
    [] read = "status" -> StatusCounts
    [] read = "photos" -> PhotosByEvent
    [] read = "photoStatus" -> PhotoStatusCounts
    [] read = "undistributed" -> Undistributed
    [] read = "distributed" -> Distributed
    [] read = "distributedCounts" -> DistributedCounts
    [] read = "recent" -> RecentCounts
    [] read = "firstDistributed" -> FirstDistributed
    [] read = "lastEvent" -> LastEvent
    [] read = "teachers" -> TeacherCounts
    [] read = "sent" -> SentCounts
    [] read = "sentMonth" -> SentThisMonth

NoReport == [kind |-> "none", at |-> 0, got |-> <<>>, were |-> {}, held |-> {}, left |-> {},
             faded |-> {}, stalled |-> FALSE, idle |-> FALSE]

Reading == report.kind # "none" /\ report.at <= Len(Plan[report.kind])
Reported(kind) == report.kind = kind /\ ~Reading

\* For the properties: who has opened nothing that the trend still shows, ...
Faded == {s \in Enrolled : \A o \in Openings : o[1] = s => o \in early}

\* ... and what has been there, and what was so, while the report was read.
Witnessed ==
  IF ~Reading THEN report
  ELSE [report EXCEPT
         !.were = @ \cup Enrolled, !.held = @ \cup Happening,
         !.stalled = @ \/ (Enrolled # {} /\ EnrolledCounts = {}),
         !.idle = @ \/ (EnrolledCounts # {} /\ RecentCounts = {})]

BeginReport(kind) ==
  /\ News
  /\ ~Reading
  /\ report' = [NoReport EXCEPT !.kind = kind, !.at = 1]
  /\ UNCHANGED <<pupils, face, course, opens, early, sent>>

ReadNext ==
  /\ Reading
  /\ LET w == Witnessed
     IN report' = [w EXCEPT !.got = Append(@, Value(Plan[report.kind][report.at])),
                            !.at = @ + 1, !.left = w.were \ Enrolled, !.faded = Faded]
  /\ UNCHANGED <<pupils, face, course, opens, early, sent, news>>

------------------------------------------------------------------------------
(* What the reports say.                                                   *)

\* What the report read there.
Got(read) ==
  report.got[CHOOSE i \in DOMAIN Plan[report.kind] : Plan[report.kind][i] = read]
Count(read) == Cardinality(Got(read))

Summary ==
  [students |-> Count("enrollment"),
   enrolled |-> Cardinality({x \in Got("enrollment") : x[2] = "enrolled"}),
   events |-> Count("status"),
   archived |-> Cardinality({x \in Got("status") : x[2]}),
   pending |-> Cardinality({x \in Got("photoStatus") : x[2] = "pending"}),
   undistributed |-> Count("undistributed"),
   hasDistributed |-> Got("distributed") # {},
   teachers |-> Count("teachers")]

\* A mutant: an event that is announced no longer still counts as opened.
AnalyticsOfAllOpened ==
  LET announced == {x[1] : x \in {x \in Got("events") : x[2]}}
  IN [students |-> Count("enrollment"),
      enrolled |-> Cardinality({x \in Got("enrollment") : x[2] = "enrolled"}),
      signedIn |-> Count("signedIn"), engaged |-> Count("engaged"),
      saved |-> Count("savers"), events |-> Count("events"),
      distributed |-> Cardinality(announced), opened |-> Count("opened"),
      photos |-> Count("photos"), firstOpens |-> Count("firstOpens")]

\* An event counts as opened if it is announced as well.
Analytics ==
  LET announced == {x[1] : x \in {x \in Got("events") : x[2]}}
  IN [students |-> Count("enrollment"),
      enrolled |-> Cardinality({x \in Got("enrollment") : x[2] = "enrolled"}),
      signedIn |-> Count("signedIn"), engaged |-> Count("engaged"),
      saved |-> Count("savers"), events |-> Count("events"),
      distributed |-> Cardinality(announced),
      opened |-> Cardinality(announced \cap Got("opened")),
      photos |-> Count("photos"), firstOpens |-> Count("firstOpens")]

\* A school is stalled if it has students and none enrolled, idle if it has some enrolled
\* and no event of late.
Funnel ==
  LET stalled == Got("students") # {} /\ Got("enrolled") = {}
  IN [stalled |-> stalled,
      idle |-> ~stalled /\ Got("enrolled") # {} /\ Got("recent") = {},
      notStarted |-> Got("eventCounts") = {},
      delivered |-> Got("firstDistributed") # {},
      students |-> Count("students"), enrolled |-> Count("enrolled"),
      signedIn |-> Count("signedInRoles"), events |-> Count("eventCounts"),
      distributed |-> Count("distributedCounts"),
      sent |-> Count("sent"), month |-> Count("sentMonth")]

------------------------------------------------------------------------------
Happens ==
  \/ \E s \in Students :
       PupilSignsIn(s) \/ \E outcome \in {"enrolled", "failed"} : Enrol(s, outcome)
  \/ \E s \in Students, e \in Events : Open(s, e)
  \/ \E O \in SUBSET opens : O \ early # {} /\ MonthDrops(O)
  \/ \E e \in Events :
       Upload(e) \/ Process(e) \/ Complete(e) \/ Announce(e) \/ SetAuto(e) \/ Archive(e)
  \/ Send

InsightStep ==
  \/ MoreNews /\ Happens /\ report' = Witnessed
  \/ MoreNews /\ \E kind \in DOMAIN Plan : BeginReport(kind)
  \/ ReadNext

\* An event that is not there yet will be a recent one.
InsightInit ==
  /\ face \in [Students -> {"pending", "enrolled"}]
  /\ \A s \in Students : rows[s] # "there" => face[s] = "pending"
  /\ course \in [Events -> {c \in Courses : ~c.running /\ ~c.archived}]
  /\ \A e \in Events :
       LET c == course[e]
       IN /\ c.done <=> c.photos = {"done"}
          /\ rows[e] = "new" => c.recent /\ c.photos = {} /\ ~c.notified
  /\ opens \in SUBSET (Enrolled \X {e \in Happening : Announced(e)})
  /\ early \in SUBSET opens
  /\ sent = 0
  /\ report = NoReport
  /\ news \in 0..MaxNews

Init == AccountsInit /\ ListingsInit /\ OfficeInit /\ InsightInit

Elsewhere == report' = Witnessed /\ UNCHANGED <<face, course, opens, early, sent, news>>

Next ==
  \/ /\ UpdateSchool \/ \E r \in Requests : AccountsStep(r)
     /\ Elsewhere /\ UNCHANGED <<listings, office, jobs>>
  \/ ListingsStep /\ Elsewhere /\ UNCHANGED <<accounts, moves, office, jobs>>
  \/ OfficeStep /\ Elsewhere /\ UNCHANGED <<accounts, moves>>
  \/ /\ InsightStep
     /\ UNCHANGED <<accounts, moves, listings, desk, trail, saves, scroll, deeds, slips,
                    handed, swapped, jobs>>

vars == <<accounts, moves, listings, office, jobs, insight>>

Spec == Init /\ [][Next]_vars

------------------------------------------------------------------------------
(* Properties.                                                             *)

InsightTyped ==
  /\ face \in [Students -> {"pending", "enrolled", "failed"}]
  /\ course \in [Events -> Courses]
  /\ opens \subseteq Students \X Events /\ early \subseteq opens
  /\ sent \in 0..MaxNews /\ news \in 0..MaxNews
  /\ report.left \subseteq report.were /\ report.held \subseteq Events

\* Every variable of the office has the values the code can give it.  Classes, tags and
\* links name classes that are there, links name teachers who are, a request at work on an
\* account finds its row, and so does every student who is there find a login.
TypeOK == AccountsTyped /\ ListingsTyped /\ OfficeTyped /\ InsightTyped

\* The reads of a report are not one snapshot, and yet its figures add up.  No school has
\* more students who signed in, saved or opened anything, or are enrolled, than students, or
\* more events announced, opened or undistributed than events, but for those that came while
\* the report was read; and whoever opened anything is in the trend of first openings, but
\* for those who left and those whose openings are all older than the trend.  A school reported as idle was idle at some moment, and one reported
\* as stalled was stalled, unless a student had left by then.
ReportsAddUp ==
  /\ Reported("school") =>
       LET f == Analytics
           students == f.students + Cardinality(report.were \ {x[1] : x \in Got("enrollment")})
       IN /\ f.enrolled <= f.students /\ f.signedIn <= students
          /\ f.engaged <= students /\ f.saved <= students
          /\ f.opened <= f.distributed /\ f.distributed <= f.events
          /\ f.engaged <= f.firstOpens + Cardinality(report.left \cup report.faded)
  /\ Reported("dashboard") =>
       LET f == Summary
           events == f.events + Cardinality(report.held \ {x[1] : x \in Got("status")})
       IN /\ f.enrolled <= f.students /\ f.undistributed <= events
          /\ f.hasDistributed => events > 0
  /\ Reported("estate") =>
       LET f == Funnel
           students == f.students + Cardinality(report.were \ Got("students"))
           events == f.events + Cardinality(report.held \ Got("eventCounts"))
       IN /\ f.enrolled <= students /\ f.distributed <= events
          /\ f.delivered => events > 0
          /\ f.idle => report.idle
          /\ f.stalled => report.stalled \/ report.left # {}
=============================================================================
