------------------------- MODULE WhatsAppShareProofs -------------------------
(***************************************************************************)
(* Proofs about sending photos over WhatsApp, for any number of requests,  *)
(* students and photos and any cap.                                        *)
(***************************************************************************)
EXTENDS WhatsAppShare, FiniteSetTheorems, TLAPS

Points == {"idle", "config", "recipients", "next", "student", "gate", "resolve", "count",
           "photo", "send", "record", "done", "crashed"}

AtWork(b) == pc[b] \in {"student", "gate", "resolve", "count", "photo", "send", "record"}
Routed(b) == pc[b] \in {"resolve", "count", "photo", "send", "record"}

\* What TypeOK says, in parts: what is around the requests, ...
AroundTyped ==
  /\ config \in Rows /\ SavesTyped
  /\ consent \in [Students -> {"in", "out", "gone"}]
  /\ pairs \subseteq Students \X Media
  /\ month \in 0..MaxMonths
  /\ variant \in [Media -> {"none", "fresh", "old"}]
  /\ listing \subseteq Media /\ links \subseteq Media /\ crossed \subseteq Media
  /\ overlapped \in BOOLEAN

\* ... the counts of what goes wrong, every message without a row being one such, ...
MishapsTyped == mishaps \in 0..MaxMishaps /\ unlogged \in 0..mishaps

\* ... the plan of a request and where it is, ...
PlanTyped ==
  /\ pc \in [Batches -> Points]
  /\ cur \in [Batches -> Students \cup {NoStudent}]
  /\ queue \in [Batches -> SUBSET Students]
  /\ fanout \in [Batches -> BOOLEAN] /\ whole \in [Batches -> BOOLEAN]
  /\ asked \in [Batches -> [Students -> SUBSET Media]]
  /\ diverted \in [Batches -> BOOLEAN] /\ willing \in [Batches -> SUBSET Students]

\* ... the locals of a student's send, ...
SendingTyped ==
  /\ opted \in [Batches -> BOOLEAN] /\ route \in [Batches -> {"none", "interim", "template"}]
  /\ todo \in [Batches -> SUBSET Media] /\ left \in [Batches -> Int]
  /\ item \in [Batches -> Media \cup {NoMedia}]
  /\ status \in [Batches -> {"none", "sent", "failed", "skipped"}]
  /\ okSince \in [Batches -> SUBSET Media] /\ inSince \in [Batches -> BOOLEAN]

\* ... the answers, ...
AnswersTyped ==
  /\ report \in [Batches -> [Students -> Reports]]
  /\ outcome \in [Batches -> [Students \X Media -> Outcomes]]

\* ... what was sent and logged, ...
LogTyped ==
  /\ log \subseteq LogRows /\ IsFiniteSet(log)
  /\ messages \subseteq Messages /\ IsFiniteSet(messages)

\* ... and what a request at work knows.
Knows(b) ==
  /\ AtWork(b) <=> cur[b] \in Students
  /\ pc[b] \in {"send", "record"} => item[b] \in todo[b]
  /\ Routed(b) => route[b] # "none"
  /\ pc[b] = "record" => status[b] # "none"
KnowledgeTyped == \A b \in Batches : Knows(b)

Typed ==
  /\ AroundTyped /\ MishapsTyped /\ PlanTyped /\ SendingTyped /\ AnswersTyped
  /\ LogTyped /\ KnowledgeTyped

\* A result is settled when the request is past it: it will not send that photo to that
\* student any more.
Settled(b, s, m) ==
  /\ pc[b] \notin {"idle", "config", "recipients"}
  /\ s \notin queue[b]
  /\ s = cur[b] => pc[b] \in {"photo", "send", "record"} /\ m \notin todo[b]

InHand(b, s, m) == pc[b] = "record" /\ cur[b] = s /\ item[b] = m

\* Those waiting in a fan-out are others than the student at hand.
Waiting(b) ==
  /\ pc[b] \in {"idle", "config", "recipients"} => queue[b] = {}
  /\ cur[b] \notin queue[b]

\* A request sends, logs and reports a photo to a student once.
OnceEach ==
  /\ \A b \in Batches : Waiting(b)
  /\ \A r \in log : Settled(r.batch, r.student, r.media)
  /\ \A r \in messages :
       \/ Settled(r.batch, r.student, r.media)
       \/ InHand(r.batch, r.student, r.media)
  /\ \A b \in Batches, s \in Students, m \in Media :
       outcome[b][<<s, m>>] = "sent" => Settled(b, s, m)

\* The budget a request has left, one slot for each photo it may yet send, and the slots of
\* the photos that were sent and are not logged yet.
Slots == {p \in Batches \X (1..Cap) : Spending(p[1]) /\ p[2] <= left[p[1]]}
Flying(b) == pc[b] = "record" /\ status[b] = "sent"
Flight == {p \in Slots : Flying(p[1]) /\ p[2] = left[p[1]]}

Limit == IF overlapped THEN Cap * Cardinality(Batches) ELSE Cap

Budgeted(b) ==
  /\ left[b] <= Cap
  /\ pc[b] = "send" => left[b] > 0
  /\ Flying(b) => left[b] > 0

\* This month's messages are in the log, on their way to it or lost to it, and what may yet
\* be sent stays within the limit.
Balanced ==
  /\ Cardinality(MessagesIn(month)) <= Cardinality(SentThisMonth) + unlogged + Cardinality(Flight)
  /\ Cardinality(MessagesIn(month)) + Cardinality(Slots) <= Limit + unlogged + Cardinality(Flight)

\* Until two requests are past their check at once, at most one is.
OneSpends == ~overlapped => \A b, c \in Batches : Spending(b) /\ Spending(c) => b = c

\* The months past, or to come, keep to the budget; this one does by the balance.
PastKept ==
  \A t \in 0..MaxMonths : t # month => Cardinality(MessagesIn(t)) <= unlogged + Limit

BudgetKept ==
  /\ \A b \in Batches : Budgeted(b)
  /\ \A r \in messages : r.month <= month
  /\ Balanced /\ OneSpends /\ PastKept

\* The object of a photo whose link is out, or about to be, is fresh and on no reaper's
\* list, unless it was uploaded while it was; that is, with a long retention.
Wanted(m) == m \in links \/ \E b \in Batches : pc[b] = "send" /\ item[b] = m
FreshWhileWanted ==
  LongRetention =>
    \A m \in Media : Wanted(m) => m \in crossed \/ (variant[m] = "fresh" /\ m \notin listing)

\* What entitles a request to the message it is working on.
Entitled(b) ==
  /\ pc[b] = "gate" /\ opted[b] => inSince[b]
  /\ Routed(b) /\ route[b] = "template" => inSince[b]
  /\ pc[b] \in {"gate", "resolve"} => Of(cur[b]) \subseteq okSince[b]
  /\ pc[b] \in {"count", "photo", "send", "record"} => todo[b] \subseteq okSince[b]
AllEntitled == \A b \in Batches : Entitled(b)

\* A student is reported when the request is done with them.
ReportedOnce(b) ==
  \A s \in Students :
    report[b][s] # "none" =>
      pc[b] \notin {"idle", "config", "recipients"} /\ s \notin queue[b] /\ s # cur[b]

\* A photo has a result when the request has looked for it in vain, or is past it.
Reached(b, s, m) ==
  /\ pc[b] \notin {"idle", "config", "recipients"}
  /\ s \notin queue[b]
  /\ s = cur[b] => pc[b] \in {"count", "photo", "send", "record"} /\ m \notin todo[b]
ResultsReached(b) ==
  \A s \in Students, m \in Media : outcome[b][<<s, m>>] # "none" => Reached(b, s, m)

\* One reported as an error or as unwilling got nothing.
NothingSent(b) ==
  \A s \in Students :
    report[b][s] \in {"error", "unwilling"} => \A r \in messages : ~(r.batch = b /\ r.student = s)

\* Every photo asked for has a result when the summary is given, or is still to be treated.
AllTold(b) ==
  /\ \A s \in Students :
       report[b][s] = "summary" => \A m \in asked[b][s] : outcome[b][<<s, m>>] # "none"
  /\ pc[b] \in {"count", "photo", "send", "record"} =>
       \A m \in asked[b][cur[b]] : m \in todo[b] \/ outcome[b][<<cur[b], m>>] # "none"

\* What is said to be sent, or is about to be, the provider took.
Taken(b, s, m) == \E r \in messages : r.batch = b /\ r.student = s /\ r.media = m
ClaimsBacked(b) ==
  /\ \A s \in Students, m \in Media : outcome[b][<<s, m>>] = "sent" => Taken(b, s, m)
  /\ Flying(b) => Taken(b, cur[b], item[b])

\* The messages whose success the request does not know of are counted.
Unclaimed(b) ==
  {r \in messages :
     /\ r.batch = b /\ outcome[b][<<r.student, r.media>>] # "sent"
     /\ ~(status[b] = "sent" /\ InHand(b, r.student, r.media))}
FewUnclaimed(b) == Cardinality(Unclaimed(b)) <= unlogged

\* No two messages carry one photo to one student for one request.
SentOnce ==
  \A r, q \in messages :
    r.batch = q.batch /\ r.student = q.student /\ r.media = q.media => r = q

AnswersTrue ==
  /\ SentOnce
  /\ \A b \in Batches :
       /\ ReportedOnce(b) /\ ResultsReached(b) /\ NothingSent(b)
       /\ AllTold(b) /\ ClaimsBacked(b) /\ FewUnclaimed(b)

------------------------------------------------------------------------------
(* Types.                                                                  *)

\* What Typed says is what TypeOK says, and a little more.
LEMMA TypedIsTypeOK == Typed => TypeOK
<1> SUFFICES ASSUME Typed PROVE TypeOK
  OBVIOUS
<1>1. unlogged \in 0..MaxMishaps
  BY BoundsAssumption DEF Typed, MishapsTyped
<1>2. \A b \in Batches :
        pc[b] \notin {"idle", "config", "recipients", "next", "done", "crashed"} => AtWork(b)
  BY DEF Typed, PlanTyped, Points, AtWork
<1> QED
  BY <1>1, <1>2 DEF Typed, AroundTyped, MishapsTyped, PlanTyped, Points, SendingTyped,
       AnswersTyped, LogTyped, KnowledgeTyped, Knows, Routed, TypeOK

\* No request has begun.
LEMMA TypedInit == Init => Typed
<1> SUFFICES ASSUME Init PROVE Typed
  OBVIOUS
<1> USE BoundsAssumption, NoneAssumption DEF Init
<1>1. AroundTyped
  <2>1. config \in Rows /\ SavesTyped
    BY DEF SavesTyped
  <2>2. consent \in [Students -> {"in", "out", "gone"}] /\ variant \in [Media -> {"none", "fresh", "old"}]
    OBVIOUS
  <2>3. month \in 0..MaxMonths
    OBVIOUS
  <2>5. overlapped \in BOOLEAN
    OBVIOUS
  <2>4. pairs \subseteq Students \X Media /\ listing \subseteq Media /\ links \subseteq Media
        /\ crossed \subseteq Media
    OBVIOUS
  <2> QED BY <2>1, <2>2, <2>3, <2>4, <2>5 DEF AroundTyped
<1>2. MishapsTyped /\ LogTyped
  BY FS_EmptySet DEF MishapsTyped, LogTyped
<1>3. PlanTyped
  BY DEF PlanTyped, Points
<1>4. SendingTyped
  BY DEF SendingTyped
<1>5. AnswersTyped
  BY DEF AnswersTyped, Reports, Outcomes
<1>6. KnowledgeTyped
  BY DEF KnowledgeTyped, Knows, AtWork, Routed
<1> QED BY <1>1, <1>2, <1>3, <1>4, <1>5, <1>6 DEF Typed

\* The requests are functions of the batch.
Shaped == PlanTyped /\ SendingTyped /\ AnswersTyped

Same(c) ==
  /\ pc'[c] = pc[c] /\ cur'[c] = cur[c] /\ queue'[c] = queue[c]
  /\ fanout'[c] = fanout[c] /\ whole'[c] = whole[c] /\ asked'[c] = asked[c]
  /\ opted'[c] = opted[c] /\ route'[c] = route[c] /\ todo'[c] = todo[c]
  /\ left'[c] = left[c] /\ item'[c] = item[c] /\ status'[c] = status[c]
  /\ report'[c] = report[c] /\ outcome'[c] = outcome[c]
  /\ okSince'[c] = okSince[c] /\ inSince'[c] = inSince[c]

\* A request at work leaves the locals and the answers of the others alone.
LEMMA Alone ==
  ASSUME Shaped, NEW b \in Batches, BatchStep(b), NEW c \in Batches, c # b
  PROVE  Same(c)
<1> USE DEF Shaped, PlanTyped, SendingTyped, AnswersTyped, Same, entitled
<1>1. CASE \/ \E s \in Students, every \in BOOLEAN, ids \in (SUBSET Media) \ {{}} :
                BeginOne(b, s, every, ids)
           \/ \E ids \in (SUBSET Media) \ {{}} : BeginFanOut(b, ids)
  BY <1>1 DEF BeginOne, BeginFanOut, sending, answers
<1>2. CASE CheckConfig(b) \/ ListRecipients(b) \/ EndFanOut(b)
           \/ \E s \in Students : NextRecipient(b, s)
  BY <1>2 DEF CheckConfig, ListRecipients, EndFanOut, NextRecipient, sending, answers, plan
<1>3. CASE ReadStudent(b) \/ Gate(b) \/ EndStudent(b)
  BY <1>3 DEF ReadStudent, Gate, EndStudent, Leave, Forget, Proceed, plan
<1>4. CASE Resolve(b)
  BY <1>4 DEF Resolve, Leave, Forget, plan
<1>5. CASE Count(b) \/ \E m \in Media : SkipOverBudget(b, m) \/ Upload(b, m) \/ UploadFails(b, m)
  BY <1>5 DEF Count, SkipOverBudget, Upload, UploadFails, plan, answers
<1>6. CASE Send(b) \/ SendFails(b)
  BY <1>6 DEF Send, SendFails, plan, answers
<1>7. CASE Record(b) \/ RecordFails(b)
  BY <1>7 DEF Record, RecordFails, Settle, plan
<1>8. CASE Crash(b)
  BY <1>8 DEF Crash, Forget, answers
<1> QED BY <1>1, <1>2, <1>3, <1>4, <1>5, <1>6, <1>7, <1>8 DEF BatchStep

\* What is around the requests keeps its types.
LEMMA AroundStep == Typed /\ Next => AroundTyped'
<1> SUFFICES ASSUME Typed, Next PROVE AroundTyped'
  OBVIOUS
<1>0. AroundTyped /\ MishapsTyped /\ PlanTyped /\ SendingTyped /\ KnowledgeTyped
  BY DEF Typed
<1>1. ASSUME NEW b \in Batches, BatchStep(b) PROVE AroundTyped'
  <2>0. /\ platform' = platform /\ school' = school /\ listing' = listing
    BY <1>1 DEF BatchStep, BeginOne, BeginFanOut, CheckConfig, ListRecipients, EndFanOut,
         NextRecipient, ReadStudent, Gate, Resolve, Count, EndStudent, SkipOverBudget, Upload,
         UploadFails, Send, SendFails, Record, RecordFails, Crash, storage
  <2>1. variant' \in [Media -> {"none", "fresh", "old"}] /\ crossed' \subseteq Media
    <3>1. CASE \E m \in Media : Upload(b, m) \/ UploadFails(b, m)
      BY <1>0, <3>1 DEF Upload, UploadFails, AroundTyped
    <3>2. CASE variant' = variant /\ crossed' = crossed
      BY <1>0, <3>2 DEF AroundTyped
    <3> QED
      BY <1>1, <3>1, <3>2 DEF BatchStep, BeginOne, BeginFanOut, CheckConfig, ListRecipients,
         EndFanOut, NextRecipient, ReadStudent, Gate, Resolve, Count, EndStudent,
         SkipOverBudget, Send, SendFails, Record, RecordFails, Crash, storage, history
  <2>2. links' \subseteq Media
    <3>1. CASE Accept(b) /\ pc[b] = "send"
      <4>1. item[b] \in Media
        BY <1>0, <3>1 DEF KnowledgeTyped, Knows, SendingTyped
      <4> QED BY <1>0, <3>1, <4>1 DEF Accept, AroundTyped
    <3>2. CASE links' = links
      BY <1>0, <3>2 DEF AroundTyped
    <3> QED
      BY <1>1, <3>1, <3>2 DEF BatchStep, BeginOne, BeginFanOut, CheckConfig, ListRecipients,
         EndFanOut, NextRecipient, ReadStudent, Gate, Resolve, Count, EndStudent, Upload,
         UploadFails, SkipOverBudget, Send, SendFails, Record, RecordFails, Crash, history
  <2>3. overlapped' \in BOOLEAN
    <3>1. CASE Count(b)
      BY <3>1, Zenon DEF Count
    <3>2. CASE overlapped' = overlapped
      BY <1>0, <3>2 DEF AroundTyped
    <3> QED
      BY <1>1, <3>1, <3>2 DEF BatchStep, BeginOne, BeginFanOut, CheckConfig, ListRecipients,
         EndFanOut, NextRecipient, ReadStudent, Gate, Resolve, EndStudent, Upload,
         UploadFails, SkipOverBudget, Send, SendFails, Record, RecordFails, Crash, history
  <2> QED
    BY <1>0, <2>0, <2>1, <2>2, <2>3 DEF AroundTyped, SavesTyped, platform, school
<1>2. CASE Surroundings
  <2>1. CASE \E s \in Students : ChangeConsent(s) \/ DeleteStudent(s)
    <3>1. config' = config /\ saves' = saves /\ month' = month /\ variant' = variant
          /\ listing' = listing /\ links' = links /\ crossed' = crossed
          /\ overlapped' = overlapped /\ pairs' \subseteq pairs
      BY <2>1 DEF ChangeConsent, DeleteStudent, platform, storage, history
    <3>2. consent' \in [Students -> {"in", "out", "gone"}]
      BY <1>0, <2>1 DEF ChangeConsent, DeleteStudent, AroundTyped
    <3> QED BY <1>0, <3>1, <3>2 DEF AroundTyped, SavesTyped
  <2>2. CASE \E s \in Students, m \in Media : Correct(s, m)
    <3>1. config' = config /\ saves' = saves /\ month' = month /\ variant' = variant
          /\ listing' = listing /\ links' = links /\ crossed' = crossed
          /\ overlapped' = overlapped /\ consent' = consent
      BY <2>2 DEF Correct, platform, storage, history
    <3>2. pairs' \subseteq Students \X Media
      BY <1>0, <2>2 DEF Correct, AroundTyped
    <3> QED BY <1>0, <3>1, <3>2 DEF AroundTyped, SavesTyped
  <2>3. CASE TurnMonth
    BY <1>0, <2>3, BoundsAssumption DEF TurnMonth, AroundTyped, SavesTyped, platform, storage, history
  <2>4. CASE \E a \in Admins, edit \in Edits : SaveRead(a, edit)
    <3>1. SavesTyped'
      BY <1>0, <2>4 DEF SaveRead, AroundTyped, SavesTyped
    <3> QED BY <1>0, <2>4, <3>1 DEF SaveRead, AroundTyped, school, storage, history
  <2>5. ASSUME NEW a \in Admins, SaveWrite(a) PROVE AroundTyped'
    <3>1. config' \in Rows
      <4>1. saves[a].row \in Rows
        BY <1>0, <2>5 DEF SaveWrite, AroundTyped, SavesTyped
      <4>2. ASSUME NEW edit, NEW value \in BOOLEAN PROVE Merged(edit, value) \in BOOLEAN
        BY Zenon DEF Merged
      <4>3. /\ Merged(saves[a].edit.interim, saves[a].row.interim) \in BOOLEAN
            /\ Merged(saves[a].edit.ready, saves[a].row.ready) \in BOOLEAN
        BY <4>1, <4>2 DEF Rows
      <4> QED BY <2>5, <4>3 DEF SaveWrite, Rows
    <3>2. SavesTyped'
      BY <1>0, <2>5 DEF SaveWrite, AroundTyped, SavesTyped
    <3> QED BY <1>0, <2>5, <3>1, <3>2 DEF SaveWrite, AroundTyped, school, storage, history
  <2>6. CASE \E m \in Media : Age(m) \/ ReapDelete(m)
    BY <1>0, <2>6 DEF Age, ReapDelete, AroundTyped, SavesTyped, platform, school, history
  <2>7. CASE ReapList
    BY <1>0, <2>7 DEF ReapList, ListPrefix, AroundTyped, SavesTyped, platform, school, history
  <2> QED BY <1>2, <2>1, <2>2, <2>3, <2>4, <2>5, <2>6, <2>7 DEF Surroundings
<1> QED BY <1>1, <1>2 DEF Next

\* Every message that loses its row is a mishap of its own.
LEMMA MishapsStep == Typed /\ Next => MishapsTyped'
<1> SUFFICES ASSUME Typed, Next PROVE MishapsTyped'
  OBVIOUS
<1>1. mishaps \in 0..MaxMishaps /\ unlogged \in 0..mishaps /\ MaxMishaps \in Nat
  BY BoundsAssumption DEF Typed, MishapsTyped
<1>2. ASSUME \/ mishaps' = mishaps /\ unlogged' = unlogged
             \/ Mishap /\ unlogged' \in {unlogged, unlogged + 1}
      PROVE  MishapsTyped'
  BY <1>1, <1>2 DEF Mishap, Spare, MishapsTyped
<1>3. ASSUME NEW b \in Batches, BatchStep(b) PROVE MishapsTyped'
  <2>1. CASE (\E m \in Media : UploadFails(b, m)) \/ SendFails(b) \/ RecordFails(b) \/ Crash(b)
    BY <1>2, <2>1 DEF UploadFails, SendFails, RecordFails, Crash
  <2>2. CASE mishaps' = mishaps /\ unlogged' = unlogged
    BY <1>2, <2>2
  <2> QED
    BY <1>3, <2>1, <2>2 DEF BatchStep, BeginOne, BeginFanOut, CheckConfig, ListRecipients,
         EndFanOut, NextRecipient, ReadStudent, Gate, Resolve, Count, EndStudent, Upload,
         SkipOverBudget, Send, Record, history
<1>4. CASE Surroundings
  BY <1>2, <1>4 DEF Surroundings, ChangeConsent, DeleteStudent, Correct, TurnMonth, SaveRead,
       SaveWrite, Age, ReapList, ReapDelete, history
<1> QED BY <1>3, <1>4 DEF Next

\* What surrounds the requests leaves their locals alone, but for what entitles them.
LEMMA OnlyEntitlements ==
  Surroundings =>
    /\ pc' = pc /\ cur' = cur /\ queue' = queue /\ plan' = plan /\ sending' = sending
    /\ answers' = answers /\ messages' = messages /\ unlogged' = unlogged /\ log' = log
    /\ crossed' = crossed /\ overlapped' = overlapped
BY DEF Surroundings, ChangeConsent, DeleteStudent, Correct, TurnMonth, SaveRead, SaveWrite,
     Age, ReapList, ReapDelete, control, history

\* The plan of a request keeps its types.
LEMMA PlanStep == AroundTyped /\ Shaped /\ Next => PlanTyped'
<1> SUFFICES ASSUME AroundTyped, Shaped, Next PROVE PlanTyped'
  OBVIOUS
<1> USE DEF Shaped, PlanTyped, Points
<1>1. ASSUME NEW b \in Batches, BatchStep(b) PROVE PlanTyped'
  <2>1. ASSUME NEW s \in Students, NEW every \in BOOLEAN, NEW ids \in SUBSET Media,
               BeginOne(b, s, every, ids)
        PROVE  PlanTyped'
    BY <2>1 DEF BeginOne
  <2>2. ASSUME NEW ids \in SUBSET Media, BeginFanOut(b, ids) PROVE PlanTyped'
    BY <2>2 DEF BeginFanOut
  <2>3. CASE CheckConfig(b)
    <3>1. config.interim \in BOOLEAN
      BY DEF AroundTyped, Rows
    <3> QED BY <2>3, <3>1 DEF CheckConfig
  <2>4. CASE ListRecipients(b)
    <3>1. [s \in Students |-> asked[b][s] \cap Of(s)] \in [Students -> SUBSET Media]
      OBVIOUS
    <3> QED BY <2>4, <3>1 DEF ListRecipients
  <2>5. CASE EndFanOut(b)
    BY <2>5 DEF EndFanOut
  <2>9. ASSUME NEW s \in Students, NextRecipient(b, s) PROVE PlanTyped'
    BY <2>9 DEF NextRecipient, plan
  <2>6. CASE ReadStudent(b) \/ Gate(b) \/ EndStudent(b) \/ Resolve(b)
    BY <2>6 DEF ReadStudent, Gate, EndStudent, Resolve, Leave, Forget, Proceed, plan
  <2>7. CASE \/ Count(b) \/ Send(b) \/ SendFails(b) \/ Record(b) \/ RecordFails(b)
             \/ \E m \in Media : SkipOverBudget(b, m) \/ Upload(b, m) \/ UploadFails(b, m)
    BY <2>7 DEF Count, Send, SendFails, Record, RecordFails, Settle, SkipOverBudget, Upload,
                UploadFails, plan
  <2>8. CASE Crash(b)
    BY <2>8 DEF Crash, Forget
  <2> QED BY <1>1, <2>1, <2>2, <2>3, <2>4, <2>5, <2>6, <2>7, <2>8, <2>9
      DEF BatchStep
<1>2. CASE Surroundings
  BY <1>2, OnlyEntitlements DEF plan
<1> QED BY <1>1, <1>2 DEF Next

\* Forgotten locals are as at first.
LEMMA ForgetTyped ==
  ASSUME Shaped, NEW b \in Batches, Forget(b)
  PROVE  /\ opted' \in [Batches -> BOOLEAN] /\ route' \in [Batches -> {"none", "interim", "template"}]
         /\ left' \in [Batches -> Int] /\ okSince' \in [Batches -> SUBSET Media]
         /\ inSince' \in [Batches -> BOOLEAN]
<1> USE DEF Shaped, SendingTyped, Forget
<1>1. opted' \in [Batches -> BOOLEAN] /\ inSince' \in [Batches -> BOOLEAN]
  OBVIOUS
<1>2. left' \in [Batches -> Int]
  OBVIOUS
<1>3. route' \in [Batches -> {"none", "interim", "template"}] /\ okSince' \in [Batches -> SUBSET Media]
  OBVIOUS
<1> QED BY <1>1, <1>2, <1>3

\* The locals of a student's send keep their types.
LEMMA SendingStep == AroundTyped /\ LogTyped /\ Shaped /\ KnowledgeTyped /\ Next => SendingTyped'
<1> SUFFICES ASSUME AroundTyped, LogTyped, Shaped, KnowledgeTyped, Next PROVE SendingTyped'
  OBVIOUS
<1> USE DEF SendingTyped, entitled
<1>0. SendingTyped /\ PlanTyped /\ \A s : Of(s) \subseteq Media
  BY DEF Shaped, Of
<1>1. ASSUME NEW b \in Batches, BatchStep(b) PROVE SendingTyped'
  <2>1. CASE \/ \E s \in Students, every \in BOOLEAN, ids \in (SUBSET Media) \ {{}} :
                  BeginOne(b, s, every, ids)
             \/ \E ids \in (SUBSET Media) \ {{}} : BeginFanOut(b, ids)
             \/ CheckConfig(b) \/ ListRecipients(b) \/ EndFanOut(b)
             \/ \E s \in Students : NextRecipient(b, s)
    BY <1>0, <2>1 DEF BeginOne, BeginFanOut, CheckConfig, ListRecipients, EndFanOut, NextRecipient,
         sending
  <2>2. CASE ReadStudent(b)
    <3>1. (consent[cur[b]] = "in") \in BOOLEAN
      OBVIOUS
    <3>2. CASE consent[cur[b]] = "gone"
      BY <1>0, <2>2, <3>2, ForgetTyped DEF ReadStudent, Leave
    <3>3. CASE consent[cur[b]] # "gone"
      <4>1. PICK in \in BOOLEAN : in = (consent[cur[b]] = "in")
        BY <3>1, Zenon
      <4>2. /\ opted' = [opted EXCEPT ![b] = in] /\ inSince' = [inSince EXCEPT ![b] = in]
            /\ okSince' = [okSince EXCEPT ![b] = Of(cur[b])]
            /\ UNCHANGED <<route, left, todo, item, status>>
        BY <2>2, <3>3, <4>1, Zenon DEF ReadStudent
      <4> QED BY <1>0, <4>2
    <3> QED BY <3>2, <3>3
  <2>3. CASE Gate(b) \/ EndStudent(b)
    <3>1. UNCHANGED <<todo, item, status>>
      BY <2>3 DEF Gate, EndStudent
    <3>2. CASE Forget(b)
      BY <1>0, <3>1, <3>2, ForgetTyped
    <3>3. ASSUME NEW way \in {"interim", "template"}, Proceed(b, way) PROVE SendingTyped'
      BY <1>0, <3>1, <3>3 DEF Proceed
    <3> QED BY <2>3, <3>2, <3>3 DEF Gate, EndStudent, Leave
  <2>4. CASE Resolve(b)
    <3>2. todo' \in [Batches -> SUBSET Media]
      <4>1. PICK T : T = IF whole[b] THEN Of(cur[b]) ELSE asked[b][cur[b]] \cap Of(cur[b])
        OBVIOUS
      <4>2. T \subseteq Media
        BY <1>0, <4>1
      <4>3. todo' = todo \/ todo' = [todo EXCEPT ![b] = T]
        BY <2>4, <4>1 DEF Resolve
      <4> QED BY <1>0, <4>2, <4>3
    <3>3. UNCHANGED <<item, status>> /\ (Forget(b) \/ UNCHANGED <<opted, route, left, entitled>>)
      BY <2>4 DEF Resolve, Leave
    <3> QED BY <1>0, <3>2, <3>3, ForgetTyped
  <2>5. CASE Count(b)
    <3>1. Cap - Cardinality(SentThisMonth) \in Int
      <4>1. SentThisMonth \subseteq log
        BY DEF SentThisMonth
      <4>2. Cardinality(SentThisMonth) \in Nat
        BY <4>1, FS_Subset, FS_CardinalityType DEF LogTyped
      <4> QED BY <4>2, CapAssumption
    <3> QED BY <1>0, <2>5, <3>1 DEF Count
  <2>6. CASE Send(b) \/ SendFails(b) \/ \E m \in Media : SkipOverBudget(b, m) \/ Upload(b, m) \/ UploadFails(b, m)
    BY <1>0, <2>6 DEF Send, SendFails, SkipOverBudget, Upload, UploadFails
  <2>7. CASE Record(b) \/ RecordFails(b)
    BY <1>0, <2>7 DEF Record, RecordFails, Settle
  <2>8. CASE Crash(b)
    BY <1>0, <2>8 DEF Crash, Forget
  <2> QED BY <1>1, <2>1, <2>2, <2>3, <2>4, <2>5, <2>6, <2>7, <2>8 DEF BatchStep
<1>2. CASE Surroundings
  <2>1. UNCHANGED <<opted, route, todo, left, item, status>>
    BY <1>2, OnlyEntitlements DEF sending
  <2>2. okSince' \in [Batches -> SUBSET Media]
    <3>1. ASSUME NEW s \in Students, NEW m \in Media, Correct(s, m)
          PROVE  okSince' \in [Batches -> SUBSET Media]
      BY <1>0, <3>1 DEF Correct
    <3>2. CASE okSince' = okSince
      BY <1>0, <3>2
    <3> QED
      BY <1>2, <3>1, <3>2 DEF Surroundings, ChangeConsent, DeleteStudent, TurnMonth, SaveRead,
           SaveWrite, Age, ReapList, ReapDelete
  <2>3. inSince' \in [Batches -> BOOLEAN]
    <3>1. ASSUME NEW s \in Students, ChangeConsent(s) PROVE inSince' \in [Batches -> BOOLEAN]
      <4>1. inSince' = [b \in Batches |-> inSince[b] \/ (cur[b] = s /\ consent'[s] = "in")]
        BY <3>1 DEF ChangeConsent
      <4>2. \A b \in Batches : (inSince[b] \/ (cur[b] = s /\ consent'[s] = "in")) \in BOOLEAN
        OBVIOUS
      <4> QED BY <4>1, <4>2, Zenon
    <3>2. CASE inSince' = inSince
      BY <1>0, <3>2
    <3> QED
      BY <1>2, <3>1, <3>2 DEF Surroundings, DeleteStudent, Correct, TurnMonth, SaveRead,
           SaveWrite, Age, ReapList, ReapDelete
  <2> QED BY <1>0, <2>1, <2>2, <2>3
<1> QED BY <1>1, <1>2 DEF Next

\* The answers keep their types: they are about students and photos there are.
LEMMA AnswersStep == Shaped /\ KnowledgeTyped /\ Next => AnswersTyped'
<1> SUFFICES ASSUME Shaped, KnowledgeTyped, Next PROVE AnswersTyped'
  OBVIOUS
<1> USE DEF AnswersTyped
<1>0. PlanTyped /\ SendingTyped /\ AnswersTyped /\ \A b \in Batches : Knows(b)
  BY DEF Shaped, KnowledgeTyped
<1>1. ASSUME NEW b \in Batches, BatchStep(b) PROVE AnswersTyped'
  <2>0. AtWork(b) => cur[b] \in Students
    BY <1>0 DEF Knows
  <2>1. ASSUME NEW what \in {"error", "summary"}, AtWork(b), Leave(b, what)
        PROVE  report' \in [Batches -> [Students -> Reports]]
    BY <1>0, <2>0, <2>1 DEF Leave, Reports
  <2>2. CASE ReadStudent(b) \/ Gate(b) \/ EndStudent(b)
    BY <1>0, <2>1, <2>2 DEF ReadStudent, Gate, EndStudent, Proceed, AtWork
  <2>3. CASE Resolve(b)
    <3>1. report' \in [Batches -> [Students -> Reports]]
      BY <1>0, <2>1, <2>3 DEF Resolve, AtWork
    <3>2. outcome' \in [Batches -> [Students \X Media -> Outcomes]]
      <4> DEFINE o == [p \in Students \X Media |->
                         IF p[1] = cur[b] /\ p[2] \in asked[b][cur[b]] \ Of(cur[b])
                           THEN "skipped" ELSE outcome[b][p]]
      <4>1. o \in [Students \X Media -> Outcomes]
        BY <1>0 DEF Outcomes
      <4>2. outcome' = outcome \/ outcome' = [outcome EXCEPT ![b] = o]
        BY <2>3 DEF Resolve
      <4> HIDE DEF o
      <4> QED BY <1>0, <4>1, <4>2
    <3> QED BY <3>1, <3>2
  <2>4. ASSUME NEW s \in Students, NextRecipient(b, s) PROVE AnswersTyped'
    <3>1. report' = report \/ report' = [report EXCEPT ![b][s] = "unwilling"]
      BY <2>4 DEF NextRecipient
    <3>2. report' \in [Batches -> [Students -> Reports]]
      <4>1. "unwilling" \in Reports
        BY DEF Reports
      <4>2. report \in [Batches -> [Students -> Reports]]
        BY <1>0
      <4>3. [report[b] EXCEPT ![s] = "unwilling"] \in [Students -> Reports]
        BY <2>4, <4>1, <4>2
      <4> QED BY <3>1, <4>2, <4>3
    <3> QED BY <1>0, <2>4, <3>2 DEF NextRecipient
  <2>5. CASE Record(b) \/ RecordFails(b)
    <3>1. <<cur[b], item[b]>> \in Students \X Media /\ status[b] \in Outcomes
      BY <1>0, <2>0, <2>5 DEF Record, RecordFails, AtWork, Knows, SendingTyped, Outcomes
    <3>2. report' = report /\ outcome' = [outcome EXCEPT ![b][<<cur[b], item[b]>>] = status[b]]
      BY <2>5 DEF Record, RecordFails, Settle
    <3> QED BY <1>0, <3>1, <3>2
  <2>6. CASE answers' = answers
    BY <1>0, <2>6 DEF answers
  <2> QED
    BY <1>1, <2>2, <2>3, <2>4, <2>5, <2>6 DEF BatchStep, BeginOne, BeginFanOut, CheckConfig,
       ListRecipients, EndFanOut, Count, SkipOverBudget, Upload, UploadFails, Send, SendFails,
       Crash
<1>2. CASE Surroundings
  BY <1>0, <1>2, OnlyEntitlements DEF answers
<1> QED BY <1>1, <1>2 DEF Next

\* A request says what it sends, to whom and by which way, and logs what it sent.
LEMMA MessageTyped ==
  ASSUME Typed, NEW b \in Batches, pc[b] \in {"send", "record"}
  PROVE  /\ Message(b) \in Messages
         /\ [batch |-> b, student |-> cur[b], media |-> item[b], month |-> month] \in LogRows
<1>1. cur[b] \in Students /\ item[b] \in Media /\ route[b] \in {"interim", "template"}
  BY DEF Typed, KnowledgeTyped, Knows, AtWork, Routed, SendingTyped
<1> QED BY <1>1 DEF Message, Messages, LogRows, Typed, AroundTyped

\* So the log and the messages are of such entries only, and finitely many.
LEMMA LogStep == Typed /\ Next => LogTyped'
<1> SUFFICES ASSUME Typed, Next PROVE LogTyped'
  OBVIOUS
<1>0. LogTyped
  BY DEF Typed
<1>1. CASE log' = log /\ messages' = messages
  BY <1>0, <1>1 DEF LogTyped
<1>2. ASSUME NEW b \in Batches, pc[b] = "send", Accept(b), log' = log PROVE LogTyped'
  BY <1>0, <1>2, MessageTyped, FS_AddElement DEF Accept, LogTyped
<1>3. ASSUME NEW b \in Batches, Record(b) PROVE LogTyped'
  BY <1>0, <1>3, MessageTyped, FS_AddElement DEF Record, Logged, LogTyped, history
<1>4. ASSUME NEW b \in Batches, BatchStep(b) PROVE LogTyped'
  BY <1>1, <1>2, <1>3, <1>4 DEF BatchStep, BeginOne, BeginFanOut, CheckConfig, ListRecipients,
       EndFanOut, NextRecipient, ReadStudent, Gate, Resolve, Count, EndStudent, SkipOverBudget,
       Upload, UploadFails, Send, SendFails, RecordFails, Crash, history
<1>5. CASE Surroundings
  BY <1>1, <1>5, OnlyEntitlements
<1> QED BY <1>4, <1>5 DEF Next

\* Where a request is, it knows what it needs there.
LEMMA KnowledgeStep == Shaped /\ KnowledgeTyped /\ Next => KnowledgeTyped'
<1> SUFFICES ASSUME Shaped, KnowledgeTyped, Next PROVE KnowledgeTyped'
  OBVIOUS
<1>0. PlanTyped /\ SendingTyped /\ \A b \in Batches : Knows(b)
  BY DEF Shaped, KnowledgeTyped
<1>1. ASSUME NEW b \in Batches, BatchStep(b) PROVE KnowledgeTyped'
  <2>1. ASSUME NEW c \in Batches, c # b PROVE Knows(c)'
    <3>1. Same(c)
      BY <1>1, <2>1, Alone
    <3> QED BY <1>0, <3>1 DEF Same, Knows, AtWork, Routed
  <2>2. Knows(b)'
    <3> USE DEF PlanTyped, SendingTyped, Knows, AtWork, Routed
    <3>1. CASE \/ \E s \in Students, every \in BOOLEAN, ids \in (SUBSET Media) \ {{}} :
                    BeginOne(b, s, every, ids)
               \/ \E ids \in (SUBSET Media) \ {{}} : BeginFanOut(b, ids)
      BY <1>0, <3>1 DEF BeginOne, BeginFanOut, sending
    <3>2. CASE CheckConfig(b) \/ ListRecipients(b) \/ EndFanOut(b)
      BY <1>0, <3>2 DEF CheckConfig, ListRecipients, EndFanOut, sending
    <3>3. ASSUME NEW s \in Students, NextRecipient(b, s) PROVE Knows(b)'
      BY <1>0, <3>3 DEF NextRecipient, sending
    <3>4. CASE ReadStudent(b) \/ Gate(b) \/ EndStudent(b) \/ Resolve(b)
      BY <1>0, <3>4, NoneAssumption
         DEF ReadStudent, Gate, EndStudent, Resolve, Leave, Forget, Proceed
    <3>5. CASE \/ Count(b) \/ Send(b) \/ SendFails(b)
               \/ \E m \in Media : SkipOverBudget(b, m) \/ Upload(b, m) \/ UploadFails(b, m)
      BY <1>0, <3>5 DEF Count, Send, SendFails, SkipOverBudget, Upload, UploadFails
    <3>6. CASE Record(b) \/ RecordFails(b)
      BY <1>0, <3>6 DEF Record, RecordFails, Settle
    <3>7. CASE Crash(b)
      BY <1>0, <3>7, NoneAssumption DEF Crash, Forget
    <3> QED BY <1>1, <3>1, <3>2, <3>3, <3>4, <3>5, <3>6, <3>7 DEF BatchStep
  <2> QED BY <2>1, <2>2 DEF KnowledgeTyped
<1>2. CASE Surroundings
  BY <1>0, <1>2, OnlyEntitlements DEF sending, KnowledgeTyped, Knows, AtWork, Routed
<1> QED BY <1>1, <1>2 DEF Next

\* The types are inductive.
LEMMA TypedNext == Typed /\ [Next]_vars => Typed'
<1> SUFFICES ASSUME Typed, [Next]_vars PROVE Typed'
  OBVIOUS
<1>1. CASE Next
  BY <1>1, AroundStep, MishapsStep, PlanStep, SendingStep, AnswersStep, LogStep, KnowledgeStep
     DEF Typed, Shaped
<1>2. CASE UNCHANGED vars
  BY <1>2 DEF vars, platform, school, storage, control, plan, sending, answers, history,
       entitled, Typed, AroundTyped, SavesTyped, MishapsTyped, PlanTyped, SendingTyped,
       AnswersTyped, LogTyped, KnowledgeTyped, Knows, AtWork, Routed
<1> QED BY <1>1, <1>2

\* Every variable has the values the code can give it, and a request at work on a photo
\* knows the photo, the student and the way.
THEOREM TypesHold == Spec => []TypeOK
<1>1. Spec => []Typed
  BY TypedInit, TypedNext, PTL DEF Spec
<1> QED BY <1>1, TypedIsTypeOK, PTL

------------------------------------------------------------------------------
(* Links.                                                                  *)

\* No photo is wanted at first.
LEMMA FreshInit == Init => FreshWhileWanted
BY DEF Init, FreshWhileWanted, Wanted

\* An upload makes the object fresh, and the reaper lists only what is old and wanted no
\* more; what it deletes although it is wanted was uploaded while it was listed.
LEMMA FreshStep == Typed /\ FreshWhileWanted /\ Next => FreshWhileWanted'
<1> SUFFICES ASSUME LongRetention, Typed, FreshWhileWanted, Next, NEW m \in Media, Wanted(m)'
             PROVE  m \in crossed' \/ (variant'[m] = "fresh" /\ m \notin listing')
  BY DEF FreshWhileWanted
<1>0. /\ AroundTyped /\ SendingTyped /\ PlanTyped
      /\ Wanted(m) => m \in crossed \/ (variant[m] = "fresh" /\ m \notin listing)
  BY DEF Typed, FreshWhileWanted
<1>1. ASSUME NEW b \in Batches, BatchStep(b)
      PROVE  m \in crossed' \/ (variant'[m] = "fresh" /\ m \notin listing')
  <2>0. listing' = listing /\ \A c \in Batches : c # b => Same(c)
    BY <1>1, Alone DEF Typed, Shaped, BatchStep, BeginOne, BeginFanOut, CheckConfig,
         ListRecipients, EndFanOut, NextRecipient, ReadStudent, Gate, Resolve, Count, EndStudent,
         SkipOverBudget, Upload, UploadFails, Send, SendFails, Record, RecordFails, Crash, storage
  <2>1. ASSUME NEW n \in Media, Upload(b, n) \/ UploadFails(b, n)
        PROVE  m \in crossed' \/ (variant'[m] = "fresh" /\ m \notin listing')
    <3> DEFINE Written == /\ variant' = [variant EXCEPT ![n] = "fresh"]
                          /\ crossed' = IF n \in listing THEN crossed \cup {n} ELSE crossed \ {n}
    <3>1. Written \/ (UploadFails(b, n) /\ variant' = variant /\ crossed' = crossed)
      BY <2>1 DEF Upload, UploadFails
    <3>2. CASE m = n /\ Written
      BY <1>0, <2>0, <3>2 DEF AroundTyped
    <3>3. CASE ~(m = n /\ Written)
      <4>1. Wanted(m)
        <5>1. CASE m \in links
          BY <5>1 DEF Wanted
        <5>2. CASE m \notin links
          <6>1. links' = links
            BY <2>1 DEF Upload, UploadFails
          <6>2. PICK c \in Batches : pc'[c] = "send" /\ item'[c] = m
            BY <5>2, <6>1 DEF Wanted
          <6>3. c # b
            BY <1>0, <2>1, <3>1, <3>3, <6>2 DEF Upload, UploadFails, PlanTyped, SendingTyped
          <6> QED BY <2>0, <6>2, <6>3 DEF Same, Wanted
        <5> QED BY <5>1, <5>2
      <4>2. (variant'[m] = variant[m] \/ variant'[m] = "fresh") /\ (m \in crossed => m \in crossed')
        BY <1>0, <3>1, <3>3 DEF AroundTyped
      <4> QED BY <1>0, <2>0, <4>1, <4>2
    <3> QED BY <3>2, <3>3
  <2>2. CASE ~\E n \in Media : Upload(b, n) \/ UploadFails(b, n)
    <3>1. variant' = variant /\ crossed' = crossed
      BY <1>1, <2>2 DEF BatchStep, BeginOne, BeginFanOut, CheckConfig, ListRecipients, EndFanOut,
         NextRecipient, ReadStudent, Gate, Resolve, Count, EndStudent, SkipOverBudget, Send,
         SendFails, Record, RecordFails, Crash, storage, history
    <3>2. links' = links \/ (pc[b] = "send" /\ links' = links \cup {item[b]})
      BY <1>1, <2>2 DEF BatchStep, BeginOne, BeginFanOut, CheckConfig, ListRecipients, EndFanOut,
         NextRecipient, ReadStudent, Gate, Resolve, Count, EndStudent, SkipOverBudget, Send,
         SendFails, Record, RecordFails, Crash, Accept, history
    <3>3. pc'[b] # "send"
      BY <1>0, <1>1, <2>2 DEF BatchStep, BeginOne, BeginFanOut, CheckConfig, ListRecipients,
         EndFanOut, NextRecipient, ReadStudent, Gate, Resolve, Count, EndStudent, SkipOverBudget,
         Send, SendFails, Record, RecordFails, Crash, Leave, Proceed, Settle, PlanTyped
    <3>4. Wanted(m)
      BY <2>0, <3>2, <3>3 DEF Wanted, Same
    <3> QED BY <1>0, <2>0, <3>1, <3>4
  <2> QED BY <2>1, <2>2
<1>2. CASE Surroundings
  <2>1. /\ crossed' = crossed /\ pc' = pc /\ item' = item
        /\ links' \subseteq links
    BY <1>2, OnlyEntitlements DEF sending, Surroundings, ChangeConsent, DeleteStudent, Correct,
       TurnMonth, SaveRead, SaveWrite, Age, ReapList, ReapDelete, history
  <2>2. Wanted(m)
    BY <2>1 DEF Wanted
  <2>3. ASSUME NEW n \in Media, Age(n) PROVE variant'[m] = variant[m] /\ listing' = listing
    BY <1>0, <2>1, <2>3 DEF Age, Wanted, AroundTyped
  <2>4. ASSUME NEW n \in Media, ReapDelete(n), m \notin listing
        PROVE  variant'[m] = variant[m] /\ m \notin listing'
    BY <1>0, <2>4 DEF ReapDelete, AroundTyped
  <2>5. ASSUME ReapList, variant[m] = "fresh" PROVE variant' = variant /\ m \notin listing'
    BY <2>5 DEF ReapList
  <2>6. CASE storage' = storage
    BY <1>0, <2>1, <2>2, <2>6 DEF storage
  <2> QED
    BY <1>0, <1>2, <2>1, <2>2, <2>3, <2>4, <2>5, <2>6
       DEF Surroundings, ChangeConsent, DeleteStudent, Correct, TurnMonth, SaveRead, SaveWrite
<1> QED BY <1>1, <1>2 DEF Next

\* With a retention that outlasts the links, an image the provider may still fetch is there,
\* unless a send overwrote it after the reaper had listed it.
THEOREM LinksAlwaysLive == Spec => []LinksStayLive
<1>1. Typed /\ FreshWhileWanted /\ [Next]_vars => FreshWhileWanted'
  <2>1. FreshWhileWanted /\ UNCHANGED vars => FreshWhileWanted'
    BY DEF vars, storage, control, sending, history, FreshWhileWanted, Wanted
  <2> QED BY <2>1, FreshStep
<1>2. Typed /\ FreshWhileWanted => LinksStayLive
  BY DEF Typed, AroundTyped, FreshWhileWanted, Wanted, LinksStayLive
<1> QED BY <1>1, <1>2, TypedInit, TypedNext, FreshInit, PTL DEF Spec

------------------------------------------------------------------------------
(* Entitlement.                                                            *)

\* No request is entitled to anything before it begins.
LEMMA EntitledInit == Init => AllEntitled
BY DEF Init, AllEntitled, Entitled, Routed

\* What happens around a request only adds to what entitles it, and takes off what it may
\* send.
LEMMA EntitledAround ==
  ASSUME Typed, AllEntitled, Surroundings, NEW b \in Batches
  PROVE  Entitled(b)'
<1>0. /\ AroundTyped /\ Entitled(b) /\ inSince[b] \in BOOLEAN /\ okSince \in [Batches -> SUBSET Media]
      /\ PlanTyped
  BY DEF Typed, AllEntitled, SendingTyped
<1>1. pc' = pc /\ cur' = cur /\ opted' = opted /\ route' = route /\ todo' = todo
  BY OnlyEntitlements DEF sending
<1>2. inSince[b] => inSince'[b]
  <2>1. ASSUME NEW s \in Students, ChangeConsent(s) PROVE inSince[b] => inSince'[b]
    BY <2>1 DEF ChangeConsent
  <2>2. CASE inSince' = inSince
    BY <2>2
  <2> QED
    BY <2>1, <2>2 DEF Surroundings, DeleteStudent, Correct, TurnMonth, SaveRead, SaveWrite, Age,
         ReapList, ReapDelete, entitled
<1>3. okSince[b] \subseteq okSince'[b]
  <2>1. ASSUME NEW s \in Students, NEW m \in Media, Correct(s, m) PROVE okSince[b] \subseteq okSince'[b]
    BY <1>0, <2>1 DEF Correct
  <2>2. CASE okSince' = okSince
    BY <2>2
  <2> QED
    BY <2>1, <2>2 DEF Surroundings, ChangeConsent, DeleteStudent, TurnMonth, SaveRead, SaveWrite,
         Age, ReapList, ReapDelete, entitled
<1>4. ASSUME Of(cur[b]) \subseteq okSince[b] PROVE Of(cur[b])' \subseteq okSince'[b]
  <2>1. ASSUME NEW s \in Students, NEW m \in Media, Correct(s, m)
        PROVE  Of(cur[b])' \subseteq okSince'[b]
    BY <1>0, <1>1, <1>4, <2>1 DEF Correct, Of
  <2>2. CASE pairs' \subseteq pairs
    BY <1>1, <1>3, <1>4, <2>2 DEF Of
  <2> QED
    BY <2>1, <2>2 DEF Surroundings, ChangeConsent, DeleteStudent, TurnMonth, SaveRead, SaveWrite,
         Age, ReapList, ReapDelete, school
<1> QED BY <1>0, <1>1, <1>2, <1>3, <1>4 DEF Entitled, Routed

\* The row read when the send begins, and the gate behind it, entitle a request; what it
\* resolves are photos of then.
LEMMA EntitledBatch ==
  ASSUME Typed, AllEntitled, NEW b \in Batches, BatchStep(b)
  PROVE  Entitled(b)'
<1>0. PlanTyped /\ SendingTyped /\ Entitled(b)
  BY DEF Typed, AllEntitled
<1> USE DEF PlanTyped, SendingTyped
<1>1. CASE pc'[b] \notin {"gate", "resolve", "count", "photo", "send", "record"}
  BY <1>1 DEF Entitled, Routed
<1>2. CASE ReadStudent(b) /\ pc'[b] = "gate"
  <2>1. /\ pairs' = pairs /\ cur' = cur /\ okSince'[b] = Of(cur[b])
        /\ opted'[b] = (consent[cur[b]] = "in") /\ inSince'[b] = (consent[cur[b]] = "in")
    <3>1. ~Leave(b, "error")
      BY <1>0, <1>2 DEF Leave
    <3> QED BY <1>0, <1>2, <3>1 DEF ReadStudent, school
  <2> QED BY <1>2, <2>1 DEF Entitled, Routed, Of
<1>3. CASE Gate(b) /\ pc'[b] = "resolve"
  <2>1. PICK way \in {"interim", "template"} :
          Proceed(b, way) /\ (way = "template" => opted[b])
    BY <1>0, <1>3 DEF Gate, Leave
  <2>2. /\ pc[b] = "gate" /\ route'[b] = way /\ cur' = cur /\ pairs' = pairs
        /\ okSince' = okSince /\ inSince' = inSince
    BY <1>0, <1>3, <2>1 DEF Gate, Proceed, entitled, school
  <2> QED BY <1>0, <1>3, <2>1, <2>2 DEF Entitled, Routed, Of
<1>4. CASE Resolve(b) /\ pc'[b] = "count"
  <2>1. /\ pc[b] = "resolve" /\ todo'[b] \subseteq Of(cur[b])
        /\ route' = route /\ okSince' = okSince /\ inSince' = inSince
    BY <1>0, <1>4 DEF Resolve, Leave, entitled
  <2> QED BY <1>0, <1>4, <2>1 DEF Entitled, Routed
<1>5. CASE /\ pc[b] \in {"count", "photo", "send", "record"}
           /\ pc'[b] \in {"photo", "send", "record"}
           /\ todo'[b] \subseteq todo[b] /\ route' = route
           /\ okSince' = okSince /\ inSince' = inSince
  BY <1>0, <1>5 DEF Entitled, Routed
<1>6. CASE Count(b) \/ \E m \in Media : SkipOverBudget(b, m) \/ Upload(b, m) \/ UploadFails(b, m)
  BY <1>0, <1>5, <1>6 DEF Count, SkipOverBudget, Upload, UploadFails, entitled
<1>7. CASE Send(b) \/ SendFails(b)
  BY <1>0, <1>5, <1>7 DEF Send, SendFails, entitled
<1>8. CASE Record(b) \/ RecordFails(b)
  BY <1>0, <1>5, <1>8 DEF Record, RecordFails, Settle, entitled
<1>9. CASE \/ \E s \in Students, every \in BOOLEAN, ids \in (SUBSET Media) \ {{}} :
                BeginOne(b, s, every, ids)
           \/ \E ids \in (SUBSET Media) \ {{}} : BeginFanOut(b, ids)
           \/ CheckConfig(b) \/ ListRecipients(b) \/ EndFanOut(b)
           \/ \E s \in Students : NextRecipient(b, s)
  BY <1>0, <1>1, <1>9 DEF BeginOne, BeginFanOut, CheckConfig, ListRecipients, EndFanOut,
       NextRecipient
<1>10. CASE EndStudent(b) \/ Crash(b)
  BY <1>0, <1>1, <1>10 DEF EndStudent, Leave, Crash
<1>11. CASE ReadStudent(b) \/ Gate(b) \/ Resolve(b)
  BY <1>0, <1>1, <1>2, <1>3, <1>4, <1>11 DEF ReadStudent, Gate, Resolve, Leave, Proceed
<1> QED
  BY <1>6, <1>7, <1>8, <1>9, <1>10, <1>11 DEF BatchStep

\* A message goes only to one who was willing, and only with a photo of theirs, at some
\* moment since the request looked.
THEOREM SendsStayEntitled == Spec => []SendsAreEntitled
<1>1. Typed /\ AllEntitled /\ [Next]_vars => AllEntitled'
  <2> SUFFICES ASSUME Typed, AllEntitled, [Next]_vars, NEW c \in Batches PROVE Entitled(c)'
    BY DEF AllEntitled
  <2>1. ASSUME NEW b \in Batches, BatchStep(b) PROVE Entitled(c)'
    <3>1. CASE c = b
      BY <2>1, <3>1, EntitledBatch
    <3>2. CASE c # b
      <4>1. Same(c) /\ Entitled(c)
        BY <2>1, <3>2, Alone DEF Typed, Shaped, AllEntitled
      <4>2. pairs' = pairs
        BY <2>1 DEF BatchStep, BeginOne, BeginFanOut, CheckConfig, ListRecipients, EndFanOut,
           NextRecipient, ReadStudent, Gate, Resolve, Count, EndStudent, SkipOverBudget, Upload,
           UploadFails, Send, SendFails, Record, RecordFails, Crash, school
      <4> QED BY <4>1, <4>2 DEF Same, Entitled, Routed, Of
    <3> QED BY <3>1, <3>2
  <2>2. CASE Surroundings
    BY <2>2, EntitledAround
  <2>3. CASE UNCHANGED vars
    BY <2>3 DEF vars, school, control, sending, entitled, AllEntitled, Entitled, Routed, Of
  <2> QED BY <2>1, <2>2, <2>3 DEF Next
<1>2. Typed /\ AllEntitled => SendsAreEntitled
  <2> SUFFICES ASSUME Typed, AllEntitled, NEW b \in Batches, pc[b] = "send"
               PROVE  (route[b] = "template" => inSince[b]) /\ item[b] \in okSince[b]
    BY DEF SendsAreEntitled, OnlyWillingReceive, OnlyTheirPhotos
  <2> QED BY DEF Typed, KnowledgeTyped, Knows, AllEntitled, Entitled, Routed
<1> QED BY <1>1, <1>2, TypedInit, TypedNext, EntitledInit, PTL DEF Spec

------------------------------------------------------------------------------
(* Once each.                                                              *)

\* Nothing is sent at first.
LEMMA OnceInit == Init => OnceEach
BY DEF Init, OnceEach, Waiting

\* What is settled stays settled.
LEMMA SettledStays ==
  ASSUME Typed, NEW b \in Batches, BatchStep(b),
         NEW c \in Batches, NEW s \in Students, NEW m \in Media, Settled(c, s, m)
  PROVE  Settled(c, s, m)'
<1>0. PlanTyped /\ SendingTyped
  BY DEF Typed
<1>1. CASE c # b
  <2>1. Same(c)
    BY <1>1, Alone DEF Typed, Shaped
  <2> QED BY <2>1 DEF Same, Settled
<1>2. CASE c = b
  <2> USE DEF PlanTyped, SendingTyped, Settled
  <2>1. CASE \/ \E t \in Students, every \in BOOLEAN, ids \in (SUBSET Media) \ {{}} :
                  BeginOne(b, t, every, ids)
             \/ \E ids \in (SUBSET Media) \ {{}} : BeginFanOut(b, ids)
             \/ CheckConfig(b) \/ ListRecipients(b)
    BY <1>2, <2>1 DEF BeginOne, BeginFanOut, CheckConfig, ListRecipients
  <2>2. CASE EndFanOut(b) \/ \E t \in Students : NextRecipient(b, t)
    BY <1>0, <1>2, <2>2 DEF EndFanOut, NextRecipient, sending
  <2>3. CASE ReadStudent(b) \/ Gate(b) \/ EndStudent(b) \/ Resolve(b) \/ Crash(b)
    BY <1>0, <1>2, <2>3, NoneAssumption
       DEF ReadStudent, Gate, EndStudent, Resolve, Leave, Forget, Proceed, Crash
  <2>4. CASE \/ Count(b) \/ Send(b) \/ SendFails(b)
             \/ \E n \in Media : SkipOverBudget(b, n) \/ Upload(b, n) \/ UploadFails(b, n)
    BY <1>0, <1>2, <2>4 DEF Count, Send, SendFails, SkipOverBudget, Upload, UploadFails
  <2>5. CASE Record(b) \/ RecordFails(b)
    BY <1>0, <1>2, <2>5 DEF Record, RecordFails, Settle
  <2> QED BY <1>2, <2>1, <2>2, <2>3, <2>4, <2>5 DEF BatchStep
<1> QED BY <1>1, <1>2

\* A student comes up once.
LEMMA WaitingStep ==
  ASSUME Typed, NEW b \in Batches, BatchStep(b), NEW c \in Batches, Waiting(c)
  PROVE  Waiting(c)'
<1>0. PlanTyped /\ SendingTyped /\ Knows(b)
  BY DEF Typed, KnowledgeTyped
<1>1. CASE c # b
  <2>1. Same(c)
    BY <1>1, Alone DEF Typed, Shaped
  <2> QED BY <2>1 DEF Same, Waiting
<1>2. CASE c = b
  <2> USE DEF PlanTyped, SendingTyped, Waiting
  <2>1. CASE \/ \E t \in Students, every \in BOOLEAN, ids \in (SUBSET Media) \ {{}} :
                  BeginOne(b, t, every, ids)
             \/ \E ids \in (SUBSET Media) \ {{}} : BeginFanOut(b, ids)
             \/ CheckConfig(b)
    BY <1>0, <1>2, <2>1 DEF BeginOne, BeginFanOut, CheckConfig
  <2>2. CASE ListRecipients(b)
    <3>1. cur[b] \notin Students /\ queue'[b] \subseteq Students /\ pc'[b] = "next" /\ cur' = cur
      BY <1>0, <2>2 DEF ListRecipients, Knows, AtWork
    <3> QED BY <1>2, <3>1
  <2>3. CASE EndFanOut(b) \/ \E t \in Students : NextRecipient(b, t)
    BY <1>0, <1>2, <2>3 DEF EndFanOut, NextRecipient, sending
  <2>4. CASE ReadStudent(b) \/ Gate(b) \/ EndStudent(b) \/ Resolve(b) \/ Crash(b)
    BY <1>0, <1>2, <2>4, NoneAssumption
       DEF ReadStudent, Gate, EndStudent, Resolve, Leave, Forget, Proceed, Crash
  <2>5. CASE \/ Count(b) \/ Send(b) \/ SendFails(b)
             \/ \E n \in Media : SkipOverBudget(b, n) \/ Upload(b, n) \/ UploadFails(b, n)
    BY <1>0, <1>2, <2>5 DEF Count, Send, SendFails, SkipOverBudget, Upload, UploadFails
  <2>6. CASE Record(b) \/ RecordFails(b)
    BY <1>0, <1>2, <2>6 DEF Record, RecordFails, Settle
  <2> QED BY <1>2, <2>1, <2>2, <2>3, <2>4, <2>5, <2>6 DEF BatchStep
<1> QED BY <1>1, <1>2

\* The photo in hand is settled when its result is recorded, or its request breaks off.
LEMMA InHandSettles ==
  ASSUME Typed, NEW b \in Batches, BatchStep(b), Waiting(b), pc[b] \in {"send", "record"},
         NEW s \in Students, s = cur[b], NEW m \in Media, m = item[b]
  PROVE  Settled(b, s, m)' \/ (pc[b] = "send" /\ InHand(b, s, m)')
<1>0. PlanTyped /\ SendingTyped
  BY DEF Typed
<1> USE DEF PlanTyped, SendingTyped
<1>1. CASE Send(b) \/ SendFails(b)
  BY <1>0, <1>1 DEF Send, SendFails, InHand
<1>2. CASE Record(b) \/ RecordFails(b)
  BY <1>0, <1>2 DEF Record, RecordFails, Settle, Settled, Waiting
<1>3. CASE Crash(b)
  BY <1>0, <1>3, NoneAssumption DEF Crash, Forget, Settled
<1> QED
  BY <1>1, <1>2, <1>3 DEF BatchStep, BeginOne, BeginFanOut, CheckConfig, ListRecipients, EndFanOut,
     NextRecipient, ReadStudent, Gate, Resolve, Count, EndStudent, SkipOverBudget, Upload,
     UploadFails

\* What a step of a request adds to the messages, the log and the answers is about the photo
\* in hand.
LEMMA OnlyInHand ==
  ASSUME Typed, NEW b \in Batches, BatchStep(b)
  PROVE  /\ \A r \in messages' : r \in messages \/ (pc[b] = "send" /\ r = Message(b))
         /\ \A r \in log' :
              \/ r \in log
              \/ /\ pc[b] = "record" /\ status[b] = "sent"
                 /\ r = [batch |-> b, student |-> cur[b], media |-> item[b], month |-> month]
         /\ \A c \in Batches, s \in Students, m \in Media :
              \/ outcome'[c][<<s, m>>] = outcome[c][<<s, m>>]
              \/ c = b /\ pc[b] = "record" /\ s = cur[b] /\ m = item[b]
                 /\ outcome'[c][<<s, m>>] = status[b]
              \/ c = b /\ pc[b] = "resolve" /\ pc'[b] = "count" /\ s = cur[b]
                 /\ outcome'[c][<<s, m>>] = "skipped"
<1>0. PlanTyped /\ SendingTyped /\ AnswersTyped /\ \A c \in Batches : Knows(c)
  BY DEF Typed, KnowledgeTyped
<1>1. CASE Send(b) \/ SendFails(b) \/ Crash(b)
  BY <1>1 DEF Send, SendFails, Crash, Accept, answers
<1>2. CASE Record(b) \/ RecordFails(b)
  <2>1. /\ pc[b] = "record" /\ messages' = messages /\ (log' = log \/ (Record(b) /\ log' = Logged(b)))
        /\ outcome' = [outcome EXCEPT ![b][<<cur[b], item[b]>>] = status[b]]
    BY <1>2 DEF Record, RecordFails, Settle, history
  <2>2. cur[b] \in Students /\ item[b] \in Media
    BY <1>0, <2>1 DEF Knows, AtWork, SendingTyped
  <2>3. \A c \in Batches, s \in Students, m \in Media :
          \/ outcome'[c][<<s, m>>] = outcome[c][<<s, m>>]
          \/ c = b /\ s = cur[b] /\ m = item[b] /\ outcome'[c][<<s, m>>] = status[b]
    <3> SUFFICES ASSUME NEW c \in Batches, NEW s \in Students, NEW m \in Media
                 PROVE  \/ outcome'[c][<<s, m>>] = outcome[c][<<s, m>>]
                        \/ c = b /\ s = cur[b] /\ m = item[b] /\ outcome'[c][<<s, m>>] = status[b]
      OBVIOUS
    <3> QED BY <1>0, <2>1, <2>2 DEF AnswersTyped
  <2> QED BY <2>1, <2>3 DEF Logged
<1>3. CASE Resolve(b)
  <2>1. /\ pc[b] = "resolve" /\ messages' = messages /\ log' = log
        /\ \/ outcome' = outcome
           \/ /\ pc'[b] = "count"
              /\ outcome' = [outcome EXCEPT ![b] = [p \in Students \X Media |->
                                IF p[1] = cur[b] /\ p[2] \in asked[b][cur[b]] \ Of(cur[b])
                                  THEN "skipped" ELSE outcome[b][p]]]
    BY <1>0, <1>3 DEF Resolve, PlanTyped, history
  <2>2. \A c \in Batches, s \in Students, m \in Media :
          \/ outcome'[c][<<s, m>>] = outcome[c][<<s, m>>]
          \/ c = b /\ pc'[b] = "count" /\ s = cur[b] /\ outcome'[c][<<s, m>>] = "skipped"
    <3> SUFFICES ASSUME NEW c \in Batches, NEW s \in Students, NEW m \in Media
                 PROVE  \/ outcome'[c][<<s, m>>] = outcome[c][<<s, m>>]
                        \/ c = b /\ pc'[b] = "count" /\ s = cur[b] /\ outcome'[c][<<s, m>>] = "skipped"
      OBVIOUS
    <3> QED BY <1>0, <2>1 DEF AnswersTyped
  <2> QED BY <2>1, <2>2
<1>4. CASE messages' = messages /\ log' = log /\ outcome' = outcome
  BY <1>4
<1> QED
  BY <1>1, <1>2, <1>3, <1>4 DEF BatchStep, BeginOne, BeginFanOut, CheckConfig, ListRecipients,
     EndFanOut, NextRecipient, ReadStudent, Gate, Count, EndStudent, SkipOverBudget, Upload,
     UploadFails, answers, history

\* A request comes to each photo of each student once.
LEMMA OnceStep == Typed /\ OnceEach /\ [Next]_vars => OnceEach'
<1> SUFFICES ASSUME Typed, OnceEach, [Next]_vars PROVE OnceEach'
  OBVIOUS
<1>0. PlanTyped /\ SendingTyped /\ LogTyped /\ \A c \in Batches : Waiting(c)
  BY DEF Typed, OnceEach
<1>1. ASSUME NEW b \in Batches, BatchStep(b) PROVE OnceEach'
  <2>0. pc[b] \in {"send", "record"} => cur[b] \in Students /\ item[b] \in Media
    BY DEF Typed, KnowledgeTyped, Knows, AtWork, SendingTyped
  <2>1. \A c \in Batches : Waiting(c)'
    BY <1>0, <1>1, WaitingStep
  <2>2. ASSUME NEW r \in log' PROVE Settled(r.batch, r.student, r.media)'
    <3>0. PICK c, s, m : c = r.batch /\ s = r.student /\ m = r.media
      OBVIOUS
    <3>1. Settled(c, s, m)'
      <4>1. CASE r \in log
        <5>1. c \in Batches /\ s \in Students /\ m \in Media /\ Settled(c, s, m)
          BY <1>0, <3>0, <4>1 DEF LogTyped, LogRows, OnceEach
        <5> QED BY <1>1, <5>1, SettledStays
      <4>2. CASE r \notin log
        <5>1. pc[b] = "record" /\ c = b /\ s = cur[b] /\ m = item[b]
          BY <1>1, <2>2, <3>0, <4>2, OnlyInHand
        <5>2. s \in Students /\ m \in Media
          BY <2>0, <5>1
        <5> QED BY <1>0, <1>1, <5>1, <5>2, InHandSettles
      <4> QED BY <4>1, <4>2
    <3> QED BY <3>0, <3>1
  <2>3. ASSUME NEW r \in messages'
        PROVE  Settled(r.batch, r.student, r.media)' \/ InHand(r.batch, r.student, r.media)'
    <3>0. PICK c, s, m : c = r.batch /\ s = r.student /\ m = r.media
      OBVIOUS
    <3>1. Settled(c, s, m)' \/ InHand(c, s, m)'
      <4>1. CASE r \in messages
        <5>1. c \in Batches /\ s \in Students /\ m \in Media
          BY <1>0, <3>0, <4>1 DEF LogTyped, Messages
        <5>2. CASE Settled(c, s, m)
          BY <1>1, <5>1, <5>2, SettledStays
        <5>3. CASE InHand(c, s, m) /\ c = b
          BY <1>0, <1>1, <5>1, <5>3, InHandSettles DEF InHand
        <5>4. CASE InHand(c, s, m) /\ c # b
          <6>1. Same(c)
            BY <1>1, <5>1, <5>4, Alone DEF Typed, Shaped
          <6> QED BY <5>4, <6>1 DEF Same, InHand
        <5> QED BY <3>0, <4>1, <5>2, <5>3, <5>4 DEF OnceEach
      <4>2. CASE r \notin messages
        <5>1. pc[b] = "send" /\ c = b /\ s = cur[b] /\ m = item[b]
          BY <1>1, <2>3, <3>0, <4>2, OnlyInHand DEF Message
        <5>2. s \in Students /\ m \in Media
          BY <2>0, <5>1
        <5> QED BY <1>0, <1>1, <5>1, <5>2, InHandSettles
      <4> QED BY <4>1, <4>2
    <3> QED BY <3>0, <3>1
  <2>4. ASSUME NEW c \in Batches, NEW s \in Students, NEW m \in Media, outcome'[c][<<s, m>>] = "sent"
        PROVE  Settled(c, s, m)'
    <3>1. CASE outcome[c][<<s, m>>] = "sent"
      BY <1>1, <3>1, SettledStays DEF OnceEach
    <3>2. CASE outcome[c][<<s, m>>] # "sent"
      <4>1. c = b /\ pc[b] = "record" /\ s = cur[b] /\ m = item[b]
        BY <1>1, <2>4, <3>2, OnlyInHand
      <4> QED BY <1>0, <1>1, <4>1, InHandSettles
    <3> QED BY <3>1, <3>2
  <2> QED BY <2>1, <2>2, <2>3, <2>4 DEF OnceEach
<1>2. CASE Surroundings
  BY <1>2, OnlyEntitlements DEF sending, answers, OnceEach, Settled, InHand, Waiting
<1>3. CASE UNCHANGED vars
  BY <1>3 DEF vars, control, sending, answers, history, OnceEach, Settled, InHand, Waiting
<1> QED BY <1>1, <1>2, <1>3 DEF Next

------------------------------------------------------------------------------
(* The budget.                                                             *)

\* What the budget counts is finite.
LEMMA Measures ==
  ASSUME Typed
  PROVE  /\ \A t : IsFiniteSet(MessagesIn(t)) /\ Cardinality(MessagesIn(t)) \in Nat
         /\ IsFiniteSet(SentThisMonth) /\ Cardinality(SentThisMonth) \in Nat
         /\ IsFiniteSet(Slots) /\ Cardinality(Slots) \in Nat
         /\ IsFiniteSet(Flight) /\ Cardinality(Flight) \in Nat
         /\ Cardinality(Flight) <= Cardinality(Slots)
         /\ unlogged \in Nat /\ Limit \in Nat
<1>1. LogTyped /\ unlogged \in Nat
  BY DEF Typed, MishapsTyped
<1>2. \A t : IsFiniteSet(MessagesIn(t)) /\ Cardinality(MessagesIn(t)) \in Nat
  <2> TAKE t
  <2>1. MessagesIn(t) \in SUBSET messages
    BY DEF MessagesIn
  <2> QED BY <1>1, <2>1, FS_Subset, FS_CardinalityType DEF LogTyped
<1>3. IsFiniteSet(SentThisMonth) /\ Cardinality(SentThisMonth) \in Nat
  <2>1. SentThisMonth \in SUBSET log
    BY DEF SentThisMonth
  <2> QED BY <1>1, <2>1, FS_Subset, FS_CardinalityType DEF LogTyped
<1>4. IsFiniteSet(Slots) /\ Cardinality(Slots) \in Nat
  <2>1. Slots \in SUBSET (Batches \X (1..Cap))
    BY DEF Slots
  <2>2. IsFiniteSet(1..Cap)
    BY CapAssumption, FS_Interval
  <2>3. IsFiniteSet(Batches \X (1..Cap))
    BY <2>2, FiniteAssumption, FS_Product
  <2> QED BY <2>1, <2>3, FS_Subset, FS_CardinalityType
<1>5. IsFiniteSet(Flight) /\ Cardinality(Flight) \in Nat /\ Cardinality(Flight) <= Cardinality(Slots)
  <2>1. Flight \in SUBSET Slots
    BY DEF Flight
  <2> QED BY <1>4, <2>1, FS_Subset, FS_CardinalityType
<1>6. Limit \in Nat
  <2>1. Cardinality(Batches) \in Nat
    BY FiniteAssumption, FS_CardinalityType
  <2> QED BY <2>1, CapAssumption DEF Limit
<1> QED BY <1>1, <1>2, <1>3, <1>4, <1>5, <1>6

\* A request that stays past its check, or short of it, with what it has left and what it
\* has in flight, leaves the slots as they are.
LEMMA Steady ==
  ASSUME Typed, NEW b \in Batches, BatchStep(b), Spending(b)' <=> Spending(b),
         Spending(b) => left'[b] = left[b], Flying(b)' <=> Flying(b)
  PROVE  Slots' = Slots /\ Flight' = Flight
<1>1. \A c \in Batches : c # b => Same(c)
  BY Alone DEF Typed, Shaped
<1>2. Slots' = Slots
  BY <1>1 DEF Slots, Spending, Same
<1>3. \A p \in Slots : Flying(p[1]) /\ p[2] = left[p[1]] <=> Flying(p[1])' /\ p[2] = left'[p[1]]
  BY <1>1 DEF Slots, Flying, Same
<1> QED BY <1>2, <1>3 DEF Flight

\* A request that ends its student's send gives back its slots, and what it has in flight.
LEMMA GivesBack ==
  ASSUME Typed, NEW b \in Batches, BatchStep(b), Spending(b), ~Spending(b)'
  PROVE  /\ Slots' \subseteq Slots
         /\ Flight' = IF Flying(b) THEN Flight \ {<<b, left[b]>>} ELSE Flight
<1>1. \A c \in Batches : c # b => Same(c)
  BY Alone DEF Typed, Shaped
<1>2. \A p : p \in Slots' <=> p \in Slots /\ p[1] # b
  BY <1>1 DEF Slots, Spending, Same
<1>3. \A p : p \in Flight' <=> p \in Flight /\ p[1] # b
  BY <1>1, <1>2 DEF Flight, Flying, Same, Slots
<1>4. \A p : p \in Flight /\ p[1] = b <=> Flying(b) /\ p \in Flight /\ p = <<b, left[b]>>
  BY DEF Flight, Slots
<1> QED BY <1>2, <1>3, <1>4

\* A photo sent takes the last of the slots of its request.
LEMMA TakesOff ==
  ASSUME Typed, NEW b \in Batches, Budgeted(b), Send(b)
  PROVE  /\ Slots' = Slots
         /\ Flight' = Flight \cup {<<b, left[b]>>} /\ <<b, left[b]>> \notin Flight
<1>0. PlanTyped /\ SendingTyped
  BY DEF Typed
<1>1. \A c \in Batches : c # b => Same(c)
  BY Alone DEF Typed, Shaped, BatchStep
<1>2. pc[b] = "send" /\ pc'[b] = "record" /\ status'[b] = "sent" /\ left' = left
  BY <1>0 DEF Send, PlanTyped, SendingTyped
<1>3. Slots' = Slots
  BY <1>1, <1>2 DEF Slots, Spending, Same
<1>4. <<b, left[b]>> \in Slots
  BY <1>0, <1>2, CapAssumption DEF Slots, Spending, Budgeted, SendingTyped
<1>5. <<b, left[b]>> \notin Flight
  BY <1>2 DEF Flight, Flying
<1>6. \A p \in Slots : p \in Flight' <=> p \in Flight \/ p = <<b, left[b]>>
  <2> TAKE p \in Slots
  <2>1. CASE p[1] = b
    <3>1. p = <<b, left[b]>> <=> p[2] = left[b]
      BY <2>1 DEF Slots
    <3> QED BY <1>2, <1>3, <2>1, <3>1 DEF Flight, Flying
  <2>2. CASE p[1] # b
    <3>1. p[1] \in Batches /\ Same(p[1])
      BY <1>1, <2>2 DEF Slots
    <3> QED BY <1>2, <1>3, <2>2, <3>1 DEF Flight, Flying, Same
  <2> QED BY <2>1, <2>2
<1>7. Flight \subseteq Slots /\ Flight' \subseteq Slots
  BY <1>3 DEF Flight
<1> QED BY <1>3, <1>4, <1>5, <1>6, <1>7

\* When its result is recorded that slot is gone.
LEMMA Lands ==
  ASSUME Typed, NEW b \in Batches, Budgeted(b), BatchStep(b), Flying(b), Settle(b)
  PROVE  /\ <<b, left[b]>> \in Slots /\ Slots' = Slots \ {<<b, left[b]>>}
         /\ <<b, left[b]>> \in Flight /\ Flight' = Flight \ {<<b, left[b]>>}
<1>0. PlanTyped /\ SendingTyped
  BY DEF Typed
<1>1. \A c \in Batches : c # b => Same(c)
  BY Alone DEF Typed, Shaped
<1>2. pc[b] = "record" /\ pc'[b] = "photo" /\ left'[b] = left[b] - 1 /\ left[b] \in 1..Cap
  BY <1>0, CapAssumption DEF Settle, Flying, Budgeted, PlanTyped, SendingTyped
<1>3. <<b, left[b]>> \in Slots /\ <<b, left[b]>> \in Flight
  BY <1>2 DEF Slots, Spending, Flight
<1>4. \A p \in Batches \X (1..Cap) : p \in Slots' <=> p \in Slots /\ p # <<b, left[b]>>
  <2> TAKE p \in Batches \X (1..Cap)
  <2>1. CASE p[1] = b
    <3>1. p = <<b, p[2]>> /\ p[2] \in Int /\ p[1] \in Batches
      BY <2>1
    <3>2. p # <<b, left[b]>> <=> p[2] # left[b]
      BY <3>1
    <3>3. p[2] <= left'[b] <=> p[2] <= left[b] /\ p[2] # left[b]
      BY <1>2, <3>1
    <3> QED BY <1>2, <2>1, <3>2, <3>3 DEF Slots, Spending
  <2>2. CASE p[1] # b
    <3>1. p[1] \in Batches /\ Same(p[1])
      BY <1>1, <2>2
    <3> QED BY <2>2, <3>1 DEF Slots, Spending, Same
  <2> QED BY <2>1, <2>2
<1>5. Slots' = Slots \ {<<b, left[b]>>}
  BY <1>4 DEF Slots
<1>6. \A p : p \in Flight' <=> p \in Flight /\ p # <<b, left[b]>>
  <2> TAKE p
  <2>1. CASE p \in Slots /\ p[1] = b
    <3>1. p \in Flight => p = <<b, left[b]>>
      BY <2>1 DEF Flight, Slots
    <3>2. p \notin Flight'
      BY <1>2, <2>1 DEF Flight, Flying
    <3> QED BY <3>1, <3>2
  <2>2. CASE p \in Slots /\ p[1] # b
    <3>1. p[1] \in Batches /\ Same(p[1]) /\ p # <<b, left[b]>>
      BY <1>1, <2>2 DEF Slots
    <3> QED BY <1>5, <2>2, <3>1 DEF Flight, Flying, Same
  <2>3. CASE p \notin Slots
    BY <1>5, <2>3 DEF Flight
  <2> QED BY <2>1, <2>2, <2>3
<1>7. Flight' = Flight \ {<<b, left[b]>>}
  BY <1>6
<1> QED BY <1>3, <1>5, <1>7

\* A row is logged once.
LEMMA LogsOnce ==
  ASSUME Typed, OnceEach, NEW b \in Batches, Record(b), status[b] = "sent"
  PROVE  Cardinality(SentThisMonth)' = Cardinality(SentThisMonth) + 1
<1> DEFINE row == [batch |-> b, student |-> cur[b], media |-> item[b], month |-> month]
<1>1. row \notin log
  <2>1. pc[b] = "record" /\ item[b] \in todo[b]
    BY DEF Record, Typed, KnowledgeTyped, Knows
  <2>2. ~Settled(row.batch, row.student, row.media)
    BY <2>1 DEF Settled
  <2> QED BY <2>2 DEF OnceEach
<1>2. log' = log \cup {row} /\ month' = month
  BY DEF Record, Logged, school
<1>3. SentThisMonth' = SentThisMonth \cup {row} /\ row \notin SentThisMonth
  BY <1>1, <1>2 DEF SentThisMonth
<1> HIDE DEF row
<1> QED BY <1>3, Measures, FS_AddElement

\* What the provider accepts is a message of this month.
LEMMA AcceptsOne ==
  ASSUME Typed, NEW b \in Batches, Accept(b), month' = month
  PROVE  /\ Cardinality(MessagesIn(month))' \in Nat
         /\ Cardinality(MessagesIn(month))' <= Cardinality(MessagesIn(month)) + 1
         /\ \A t : t # month => MessagesIn(t)' = MessagesIn(t)
<1> DEFINE r == Message(b)
<1>1. r.month = month /\ messages' = messages \cup {r}
  BY DEF Accept, Message
<1> HIDE DEF r
<1>2. MessagesIn(month)' = MessagesIn(month) \cup {r}
  BY <1>1 DEF MessagesIn
<1>3. \A t : t # month => MessagesIn(t)' = MessagesIn(t)
  BY <1>1 DEF MessagesIn
<1>4. /\ Cardinality(MessagesIn(month) \cup {r}) \in Nat
      /\ Cardinality(MessagesIn(month) \cup {r}) <= Cardinality(MessagesIn(month)) + 1
  <2> DEFINE T == MessagesIn(month)
  <2>1. IsFiniteSet(T) /\ Cardinality(T) \in Nat
    BY Measures
  <2> HIDE DEF T
  <2>2. Cardinality(T \cup {r}) = IF r \in T THEN Cardinality(T) ELSE Cardinality(T) + 1
    BY <2>1, FS_AddElement
  <2>3. Cardinality(T \cup {r}) \in Nat /\ Cardinality(T \cup {r}) <= Cardinality(T) + 1
    BY <2>1, <2>2
  <2> QED BY <2>3 DEF T
<1> QED BY <1>2, <1>3, <1>4

\* Every step of a request but its check keeps the balance: a message sent moves a slot into
\* flight, a row logged lands it, and a message without a row is counted as one.
LEMMA BalanceStep ==
  ASSUME Typed, OnceEach, Balanced, NEW b \in Batches, Budgeted(b), BatchStep(b), ~Count(b)
  PROVE  /\ Balanced'
         /\ overlapped' = overlapped /\ month' = month /\ unlogged' \in Nat /\ unlogged' >= unlogged
         /\ \A c \in Batches : Spending(c)' => Spending(c)
         /\ \A t : t # month => MessagesIn(t)' = MessagesIn(t)
<1>0. PlanTyped /\ SendingTyped
  BY DEF Typed
<1>1. overlapped' = overlapped /\ month' = month
  BY DEF BatchStep, BeginOne, BeginFanOut, CheckConfig, ListRecipients, EndFanOut, NextRecipient,
     ReadStudent, Gate, Resolve, EndStudent, SkipOverBudget, Upload, UploadFails, Send, SendFails,
     Record, RecordFails, Crash, history, school
<1>2. \A c \in Batches : Spending(c)' => Spending(c)
  <2>1. Spending(b)' => Spending(b)
    BY <1>0 DEF BatchStep, BeginOne, BeginFanOut, CheckConfig, ListRecipients, EndFanOut,
       NextRecipient, ReadStudent, Gate, Resolve, EndStudent, SkipOverBudget, Upload, UploadFails,
       Send, SendFails, Record, RecordFails, Crash, Leave, Proceed, PlanTyped, Spending
  <2> QED BY <2>1, Alone DEF Typed, Shaped, Same, Spending
<1>3. Limit' = Limit
  BY <1>1 DEF Limit
<1> DEFINE M == Cardinality(MessagesIn(month))
           L == Cardinality(SentThisMonth)
           S == Cardinality(Slots)
           F == Cardinality(Flight)
<1>4. /\ M \in Nat /\ L \in Nat /\ S \in Nat /\ F \in Nat /\ unlogged \in Nat /\ Limit \in Nat
      /\ M <= L + unlogged + F /\ M + S <= Limit + unlogged + F
      /\ IsFiniteSet(Slots) /\ IsFiniteSet(Flight)
  BY Measures DEF Balanced
<1>5. ASSUME M' \in Nat, L' \in Nat, S' \in Nat, F' \in Nat, unlogged' \in Nat,
             M' <= L' + unlogged' + F', M' + S' <= Limit + unlogged' + F'
      PROVE  Balanced'
  BY <1>3, <1>5 DEF Balanced
<1>6. ASSUME messages' = messages
      PROVE  M' = M /\ \A t : t # month => MessagesIn(t)' = MessagesIn(t)
  BY <1>1, <1>6 DEF MessagesIn
<1>7. ASSUME log' = log PROVE L' = L
  BY <1>1, <1>7 DEF SentThisMonth
<1> HIDE DEF M, L, S, F
<1>8. ASSUME Spending(b), ~Spending(b)'
      PROVE  S' \in Nat /\ S' <= S /\ F' \in Nat /\ F' = IF Flying(b) THEN F - 1 ELSE F
  <2>1. S' \in Nat /\ S' <= S
    BY <1>4, <1>8, GivesBack, FS_Subset, FS_CardinalityType DEF S
  <2>2. CASE ~Flying(b)
    BY <1>4, <1>8, <2>1, <2>2, GivesBack DEF F
  <2>3. CASE Flying(b)
    <3>1. <<b, left[b]>> \in Flight
      BY <1>0, <2>3, CapAssumption DEF Flight, Slots, Spending, Flying, Budgeted, SendingTyped
    <3> DEFINE p == <<b, left[b]>>
    <3>2. p \in Flight /\ Flight' = Flight \ {p}
      BY <1>8, <2>3, <3>1, GivesBack
    <3> HIDE DEF p
    <3>3. F' = F - 1 /\ IsFiniteSet(Flight')
      BY <1>4, <3>2, FS_RemoveElement DEF F
    <3>4. F' \in Nat
      BY <3>3, FS_CardinalityType DEF F
    <3> QED BY <2>1, <2>3, <3>3, <3>4
  <2> QED BY <2>2, <2>3, <2>1
<1>9. ASSUME Flying(b), Settle(b) PROVE S' = S - 1 /\ F' = F - 1 /\ S' \in Nat /\ F' \in Nat
  <2> DEFINE p == <<b, left[b]>>
  <2>1. p \in Slots /\ Slots' = Slots \ {p} /\ p \in Flight /\ Flight' = Flight \ {p}
    BY <1>9, Lands
  <2> HIDE DEF p
  <2>2. /\ S' = S - 1 /\ IsFiniteSet(Slots')
    BY <1>4, <2>1, FS_RemoveElement DEF S
  <2>3. F' = F - 1 /\ IsFiniteSet(Flight')
    BY <1>4, <2>1, FS_RemoveElement DEF F
  <2>4. S' \in Nat /\ F' \in Nat
    BY <2>2, <2>3, FS_CardinalityType DEF S, F
  <2> QED BY <2>2, <2>3, <2>4
<1> SUFFICES /\ Balanced' /\ unlogged' \in Nat /\ unlogged' >= unlogged
             /\ \A t : t # month => MessagesIn(t)' = MessagesIn(t)
  BY <1>1, <1>2
<1>10. ASSUME Accept(b)
       PROVE  M' \in Nat /\ M' <= M + 1 /\ \A t : t # month => MessagesIn(t)' = MessagesIn(t)
  BY <1>1, <1>10, AcceptsOne DEF M
<1>11. CASE Send(b)
  <2>1. Accept(b) /\ log' = log /\ unlogged' = unlogged
    BY <1>11 DEF Send
  <2>2. S' = S /\ F' = F + 1
    <3> DEFINE p == <<b, left[b]>>
    <3>1. Slots' = Slots /\ p \notin Flight /\ Flight' = Flight \cup {p}
      BY <1>11, TakesOff
    <3> HIDE DEF p
    <3> QED BY <1>4, <3>1, FS_AddElement DEF S, F
  <2> QED BY <1>4, <1>5, <1>7, <1>10, <2>1, <2>2
<1>12. CASE SendFails(b)
  <2>1. /\ log' = log
        /\ \/ messages' = messages /\ unlogged' = unlogged
           \/ Accept(b) /\ unlogged' = unlogged + 1
    BY <1>12 DEF SendFails
  <2>2. S' = S /\ F' = F
    BY <1>0, <1>12, Steady DEF SendFails, Spending, Flying, PlanTyped, SendingTyped, S, F
  <2> QED BY <1>4, <1>5, <1>6, <1>7, <1>10, <2>1, <2>2
<1>13. CASE Record(b) \/ RecordFails(b)
  <2>1. messages' = messages /\ Settle(b) /\ pc[b] = "record"
    BY <1>13 DEF Record, RecordFails, history
  <2>2. CASE Record(b) /\ status[b] = "sent"
    <3>1. L' = L + 1 /\ unlogged' = unlogged
      BY <2>2, LogsOnce DEF L, Record, history
    <3> QED BY <1>4, <1>5, <1>6, <1>9, <2>1, <2>2, <3>1 DEF Flying
  <2>3. CASE RecordFails(b)
    <3>1. log' = log /\ unlogged' = unlogged + 1 /\ Flying(b)
      BY <2>3 DEF RecordFails, Flying
    <3> QED BY <1>4, <1>5, <1>6, <1>7, <1>9, <2>1, <3>1
  <2>4. CASE Record(b) /\ status[b] # "sent"
    <3>1. log' = log /\ unlogged' = unlogged
      BY <2>4 DEF Record, Logged, history
    <3>2. S' = S /\ F' = F
      BY <1>0, <2>1, <2>4, Steady DEF Settle, Spending, Flying, PlanTyped, SendingTyped, S, F
    <3> QED BY <1>4, <1>5, <1>6, <1>7, <2>1, <3>1, <3>2
  <2> QED BY <1>13, <2>2, <2>3, <2>4
<1>14. CASE EndStudent(b)
  <2>1. /\ log' = log /\ messages' = messages /\ unlogged' = unlogged
        /\ Spending(b) /\ ~Spending(b)' /\ ~Flying(b)
    BY <1>0, <1>14 DEF EndStudent, Leave, history, PlanTyped, Spending, Flying
  <2> QED BY <1>4, <1>5, <1>6, <1>7, <1>8, <2>1
<1>15. CASE Crash(b)
  <2>1. /\ log' = log /\ ~Spending(b)' /\ ~Flying(b)'
        /\ \/ Accept(b) /\ unlogged' = unlogged + 1 /\ Spending(b) /\ ~Flying(b)
           \/ messages' = messages /\ unlogged' = IF Flying(b) THEN unlogged + 1 ELSE unlogged
    BY <1>0, <1>15 DEF Crash, PlanTyped, Spending, Flying
  <2>2. CASE Spending(b)
    <3>1. S' \in Nat /\ S' <= S /\ F' \in Nat /\ F' = IF Flying(b) THEN F - 1 ELSE F
      BY <1>8, <2>1, <2>2
    <3> QED BY <1>4, <1>5, <1>6, <1>7, <1>10, <2>1, <3>1
  <2>3. CASE ~Spending(b)
    <3>1. ~Flying(b)
      BY <2>3 DEF Spending, Flying
    <3>2. S' = S /\ F' = F
      BY <2>1, <2>3, <3>1, Steady DEF S, F
    <3> QED BY <1>4, <1>5, <1>6, <1>7, <2>1, <2>3, <3>1, <3>2
  <2> QED BY <2>2, <2>3
<1>16. CASE ~(Send(b) \/ SendFails(b) \/ Record(b) \/ RecordFails(b) \/ EndStudent(b) \/ Crash(b))
  <2>1. log' = log /\ messages' = messages /\ unlogged' = unlogged
    BY <1>16 DEF BatchStep, BeginOne, BeginFanOut, CheckConfig, ListRecipients, EndFanOut,
       NextRecipient, ReadStudent, Gate, Resolve, SkipOverBudget, Upload, UploadFails, history
  <2>2. /\ Spending(b)' <=> Spending(b)
        /\ Spending(b) => left'[b] = left[b]
        /\ Flying(b)' <=> Flying(b)
    <3>1. CASE ~Spending(b) /\ ~Spending(b)'
      BY <3>1 DEF Spending, Flying
    <3>2. CASE \E m \in Media : SkipOverBudget(b, m) \/ Upload(b, m) \/ UploadFails(b, m)
      BY <1>0, <3>2 DEF SkipOverBudget, Upload, UploadFails, PlanTyped, SendingTyped, Spending,
         Flying
    <3> QED
      BY <1>0, <1>2, <1>16, <3>1, <3>2 DEF BatchStep, BeginOne, BeginFanOut, CheckConfig,
         ListRecipients, EndFanOut, NextRecipient, ReadStudent, Gate, Resolve, Spending
  <2>3. S' = S /\ F' = F
    BY <2>2, Steady DEF S, F
  <2> QED BY <1>4, <1>5, <1>6, <1>7, <2>1, <2>3
<1> QED BY <1>11, <1>12, <1>13, <1>14, <1>15, <1>16

\* What a check grants is what the log leaves of the cap.
LEMMA Grants ==
  ASSUME Typed, NEW b \in Batches, Count(b)
  PROVE  /\ ~Spending(b) /\ Flight' = Flight /\ Slots \subseteq (Batches \ {b}) \X (1..Cap)
         /\ left'[b] = Cap - Cardinality(SentThisMonth)
         /\ Slots' = Slots \cup ({b} \X (1..(Cap - Cardinality(SentThisMonth))))
<1>0. PlanTyped /\ SendingTyped
  BY DEF Typed
<1>1. \A c \in Batches : c # b => Same(c)
  BY Alone DEF Typed, Shaped, BatchStep
<1> DEFINE L == Cardinality(SentThisMonth)
<1>2. L \in Nat
  BY Measures
<1>3. pc[b] = "count" /\ pc'[b] = "photo" /\ left'[b] = Cap - L
  BY <1>0 DEF Count, PlanTyped, SendingTyped
<1> HIDE DEF L
<1>4. ~Spending(b) /\ Spending(b)' /\ ~Flying(b) /\ ~Flying(b)'
  BY <1>3 DEF Spending, Flying
<1>5. Slots \subseteq (Batches \ {b}) \X (1..Cap)
  BY <1>4 DEF Slots
<1>6. \A p \in Batches \X (1..Cap) : p \in Slots' <=> p \in Slots \/ (p[1] = b /\ p[2] <= Cap - L)
  <2> TAKE p \in Batches \X (1..Cap)
  <2>1. CASE p[1] = b
    BY <1>3, <1>4, <2>1 DEF Slots
  <2>2. CASE p[1] # b
    <3>1. p[1] \in Batches /\ Same(p[1])
      BY <1>1, <2>2
    <3> QED BY <2>2, <3>1 DEF Slots, Spending, Same
  <2> QED BY <2>1, <2>2
<1>7. \A p : p \in {b} \X (1..(Cap - L)) <=> p \in Batches \X (1..Cap) /\ p[1] = b /\ p[2] <= Cap - L
  BY <1>2, CapAssumption
<1>8. Slots' = Slots \cup ({b} \X (1..(Cap - L)))
  <2>1. Slots \subseteq Batches \X (1..Cap) /\ Slots' \subseteq Batches \X (1..Cap)
    BY DEF Slots
  <2> QED BY <1>6, <1>7, <2>1
<1>9. \A p : p \in Flight' <=> p \in Flight
  <2> TAKE p
  <2>1. CASE p[1] = b
    BY <1>4, <2>1 DEF Flight
  <2>2. CASE p[1] # b
    <3>1. p \in Slots' <=> p \in Slots
      BY <1>8, <2>2
    <3>2. ASSUME p \in Slots PROVE p[1] \in Batches /\ Same(p[1])
      BY <1>1, <2>2, <3>2 DEF Slots
    <3> QED BY <3>1, <3>2 DEF Flight, Flying, Same
  <2> QED BY <2>1, <2>2
<1> QED BY <1>3, <1>4, <1>5, <1>8, <1>9 DEF L

\* The check keeps the balance: alone, a request is granted what the log leaves of the cap;
\* beside others, each has at most the cap.
LEMMA CheckBalances ==
  ASSUME Typed, Balanced, OneSpends, NEW b \in Batches, Count(b)
  PROVE  Balanced'
<1> DEFINE M == Cardinality(MessagesIn(month))
           L == Cardinality(SentThisMonth)
           S == Cardinality(Slots)
           F == Cardinality(Flight)
           N == Cardinality(Batches)
           Mine == {b} \X (1..(Cap - L))
<1>1. /\ M \in Nat /\ L \in Nat /\ S \in Nat /\ F \in Nat /\ unlogged \in Nat /\ Cap \in Nat
      /\ M <= L + unlogged + F /\ M + S <= Limit + unlogged + F
      /\ IsFiniteSet(Slots) /\ IsFiniteSet(Flight)
  BY Measures, CapAssumption DEF Balanced
<1>2. N \in Nat /\ N >= 1
  <2>1. N \in Nat /\ N # 0
    BY FiniteAssumption, FS_CardinalityType, FS_EmptySet
  <2> QED BY <2>1
<1>3. /\ messages' = messages /\ log' = log /\ month' = month /\ unlogged' = unlogged
      /\ overlapped' = (overlapped \/ \E c \in Batches \ {b} : Spending(c))
  BY DEF Count, school
<1>4. M' = M /\ L' = L /\ F' = F
  <2>1. M' = M /\ L' = L
    BY <1>3 DEF MessagesIn, SentThisMonth
  <2>2. F' = F
    BY Grants
  <2> QED BY <2>1, <2>2
<1>5. ~Spending(b) /\ Slots \subseteq (Batches \ {b}) \X (1..Cap) /\ Slots' = Slots \cup Mine
  BY Grants
<1> HIDE DEF M, L, S, F, N, Mine
<1>6. IsFiniteSet(Mine) /\ Cardinality(Mine) = IF L >= Cap THEN 0 ELSE Cap - L
  <2>1. IsFiniteSet({b}) /\ Cardinality({b}) = 1
    BY FS_Singleton
  <2>2. IsFiniteSet(1..(Cap - L)) /\ Cardinality(1..(Cap - L)) = IF L >= Cap THEN 0 ELSE Cap - L
    <3>1. /\ IsFiniteSet(1..(Cap - L))
          /\ Cardinality(1..(Cap - L)) = IF 1 > Cap - L THEN 0 ELSE (Cap - L) - 1 + 1
      BY <1>1, CapAssumption, FS_Interval
    <3> QED BY <1>1, <3>1
  <2>3. Cardinality(Mine) = 1 * Cardinality(1..(Cap - L)) /\ IsFiniteSet(Mine)
    BY <2>1, <2>2, FS_Product DEF Mine
  <2> QED BY <1>1, <2>2, <2>3
<1>7. IsFiniteSet(Slots') /\ S' \in Nat /\ S' <= S + Cardinality(Mine)
  <2>1. IsFiniteSet(Slots \cup Mine) /\ Cardinality(Slots \cup Mine) = S + Cardinality(Mine) - Cardinality(Slots \cap Mine)
    BY <1>1, <1>6, FS_Union DEF S
  <2>2. Cardinality(Slots \cap Mine) \in Nat /\ Cardinality(Mine) \in Nat /\ Cardinality(Slots \cup Mine) \in Nat
    BY <1>1, <1>6, <2>1, FS_Intersection, FS_CardinalityType
  <2> QED BY <1>1, <1>5, <2>1, <2>2 DEF S
<1>8. S' \in Nat /\ (L >= Cap => S' <= S)
  BY <1>1, <1>6, <1>7
<1>9. L < Cap => S' <= S + Cap - L
  BY <1>1, <1>6, <1>7
<1>10. Limit \in {Cap, Cap * N} /\ Cap <= Cap * N /\ Cap * N \in Nat
  <2>1. \A x, y \in Nat : y >= 1 => x <= x * y /\ x * y \in Nat
    OBVIOUS
  <2> QED BY <1>1, <1>2, <2>1 DEF Limit, N
<1>11. CASE overlapped'
  <2>1. Limit' = Cap * N
    BY <1>11 DEF Limit, N
  <2>2. S <= (N - 1) * Cap
    <3> DEFINE Others == Batches \ {b}
    <3>1. IsFiniteSet(Others) /\ Cardinality(Others) = N - 1
      BY FiniteAssumption, FS_RemoveElement DEF N
    <3>2. IsFiniteSet(1..Cap) /\ Cardinality(1..Cap) = Cap
      BY CapAssumption, FS_Interval
    <3>3. Slots \in SUBSET (Others \X (1..Cap))
      BY <1>5
    <3> HIDE DEF Others
    <3>4. IsFiniteSet(Others \X (1..Cap)) /\ Cardinality(Others \X (1..Cap)) = (N - 1) * Cap
      BY <3>1, <3>2, FS_Product
    <3> QED BY <3>3, <3>4, FS_Subset DEF S
  <2>3. (N - 1) * Cap = Cap * N - Cap
    <3>1. \A x, y \in Nat : (y - 1) * x = x * y - x
      OBVIOUS
    <3> QED BY <1>1, <1>2, <3>1
  <2>4. M + S' <= Cap * N + unlogged + F
    <3>1. PICK total \in Nat : total = Cap * N
      BY <1>10
    <3>2. S <= total - Cap /\ Limit <= total /\ Limit \in Nat
      BY <1>1, <1>10, <2>2, <2>3, <3>1
    <3>3. PICK t \in Nat : t = S'
      BY <1>8
    <3>4. M + t <= total + unlogged + F
      <4>1. PICK m, l, s, f, u, c, z \in Nat :
              /\ m = M /\ l = L /\ s = S /\ f = F /\ u = unlogged /\ c = Cap /\ z = Limit
        BY <1>1, <3>2, CapAssumption
      <4>2. /\ m <= l + u + f /\ m + s <= z + u + f /\ z <= total /\ s <= total - c
            /\ (l < c => t <= s + c - l) /\ (l >= c => t <= s)
        BY <1>1, <1>8, <1>9, <3>2, <3>3, <4>1
      <4>3. m + t <= total + u + f
        BY <4>2
      <4> QED BY <4>1, <4>3
    <3> QED BY <3>1, <3>3, <3>4
  <2> QED BY <1>1, <1>3, <1>4, <2>1, <2>4 DEF Balanced, M, L, S, F
<1>12. CASE ~overlapped'
  <2>1. ~overlapped /\ ~overlapped' /\ \A c \in Batches : ~Spending(c)
    BY <1>3, <1>5, <1>12
  <2>2. Limit' = Cap /\ Limit = Cap
    BY <2>1 DEF Limit
  <2>3. S = 0 /\ F = 0
    <3>1. Slots = {} /\ Flight = {}
      BY <2>1 DEF Slots, Flight
    <3> QED BY <3>1, FS_EmptySet DEF S, F
  <2>4. M + S' <= Cap + unlogged + F
    <3>1. PICK t \in Nat : t = S'
      BY <1>8
    <3>2. M + t <= Cap + unlogged + F
      <4>1. PICK m, l, u, c \in Nat : m = M /\ l = L /\ u = unlogged /\ c = Cap
        BY <1>1, CapAssumption
      <4>2. m <= l + u /\ m <= c + u /\ (l < c => t <= c - l) /\ (l >= c => t = 0)
        BY <1>1, <1>8, <1>9, <2>2, <2>3, <3>1, <4>1
      <4>3. m + t <= c + u
        BY <4>2
      <4> QED BY <4>1, <4>3, <2>3
    <3> QED BY <3>1, <3>2
  <2> QED BY <1>1, <1>3, <1>4, <2>2, <2>4 DEF Balanced, M, L, S, F
<1> QED BY <1>11, <1>12

\* The limit only grows.
LEMMA LimitGrows ==
  ASSUME NEW b \in Batches, overlapped => overlapped'
  PROVE  Limit <= Limit' /\ Limit \in Nat /\ Limit' \in Nat
<1>1. Cardinality(Batches) \in Nat /\ Cardinality(Batches) >= 1
  <2>1. Cardinality(Batches) \in Nat /\ Cardinality(Batches) # 0
    BY FiniteAssumption, FS_CardinalityType, FS_EmptySet
  <2> QED BY <2>1
<1>2. \A x, y \in Nat : y >= 1 => x <= x * y /\ x * y \in Nat
  OBVIOUS
<1>3. Cap <= Cap * Cardinality(Batches) /\ Cap * Cardinality(Batches) \in Nat
  BY <1>1, <1>2, CapAssumption
<1> QED BY <1>3, CapAssumption DEF Limit

\* Nothing is sent at first, and nothing can be.
LEMMA BudgetInit == Init => BudgetKept
<1> SUFFICES ASSUME Init PROVE BudgetKept
  OBVIOUS
<1>1. messages = {} /\ log = {} /\ unlogged = 0 /\ overlapped = FALSE /\ month = 0
  BY DEF Init
<1>2. \A b \in Batches : pc[b] = "idle" /\ left[b] = 0
  BY DEF Init
<1>3. \A t : MessagesIn(t) = {}
  BY <1>1 DEF MessagesIn
<1>4. SentThisMonth = {} /\ Slots = {} /\ Flight = {}
  BY <1>1, <1>2 DEF SentThisMonth, Slots, Flight, Spending
<1>5. Limit = Cap
  BY <1>1 DEF Limit
<1>6. Balanced /\ PastKept
  BY <1>1, <1>3, <1>4, <1>5, FS_EmptySet, CapAssumption DEF Balanced, PastKept
<1>7. OneSpends /\ \A b \in Batches : Budgeted(b)
  BY <1>2, CapAssumption DEF OneSpends, Spending, Budgeted, Flying
<1> QED BY <1>1, <1>6, <1>7 DEF BudgetKept

\* A balanced month keeps to the budget.
LEMMA MonthKept ==
  ASSUME Typed, Balanced
  PROVE  Cardinality(MessagesIn(month)) <= unlogged + Limit
<1>1. PICK m, s, f, u, z \in Nat :
        /\ m = Cardinality(MessagesIn(month)) /\ s = Cardinality(Slots)
        /\ f = Cardinality(Flight) /\ u = unlogged /\ z = Limit /\ f <= s
  BY Measures
<1>2. m + s <= z + u + f
  BY <1>1 DEF Balanced
<1>3. m <= u + z
  BY <1>1, <1>2
<1> QED BY <1>1, <1>3

\* What a request has left is within the cap, and is there when it sends.
LEMMA BudgetedStep ==
  ASSUME Typed, NEW b \in Batches, BatchStep(b), NEW c \in Batches, Budgeted(c)
  PROVE  Budgeted(c)'
<1>0. PlanTyped /\ SendingTyped /\ Cap \in Nat
  BY CapAssumption DEF Typed
<1>1. CASE c # b
  <2>1. Same(c)
    BY <1>1, Alone DEF Typed, Shaped
  <2> QED BY <1>1, <2>1 DEF Same, Budgeted, Flying
<1>2. CASE c = b
  <2> USE DEF PlanTyped, SendingTyped, Budgeted, Flying
  <2>1. CASE Count(b)
    <3>1. left'[b] = Cap - Cardinality(SentThisMonth) /\ pc'[b] = "photo"
      BY <1>0, <2>1 DEF Count
    <3>2. left'[b] <= Cap
      BY <1>0, <3>1, Measures
    <3> QED BY <1>2, <3>1, <3>2
  <2>2. CASE ReadStudent(b) \/ Gate(b) \/ EndStudent(b) \/ Resolve(b) \/ Crash(b)
    BY <1>0, <1>2, <2>2
       DEF ReadStudent, Gate, EndStudent, Resolve, Leave, Forget, Proceed, Crash
  <2>3. CASE \E n \in Media : SkipOverBudget(b, n) \/ Upload(b, n) \/ UploadFails(b, n)
    BY <1>0, <1>2, <2>3 DEF SkipOverBudget, Upload, UploadFails
  <2>4. CASE Send(b) \/ SendFails(b)
    BY <1>0, <1>2, <2>4 DEF Send, SendFails
  <2>5. CASE Record(b) \/ RecordFails(b)
    BY <1>0, <1>2, <2>5 DEF Record, RecordFails, Settle
  <2>6. CASE \/ \E t \in Students, every \in BOOLEAN, ids \in (SUBSET Media) \ {{}} :
                  BeginOne(b, t, every, ids)
             \/ \E ids \in (SUBSET Media) \ {{}} : BeginFanOut(b, ids)
             \/ CheckConfig(b) \/ ListRecipients(b) \/ EndFanOut(b)
             \/ \E t \in Students : NextRecipient(b, t)
    BY <1>0, <1>2, <2>6 DEF BeginOne, BeginFanOut, CheckConfig, ListRecipients, EndFanOut,
       NextRecipient, sending
  <2> QED BY <1>2, <2>1, <2>2, <2>3, <2>4, <2>5, <2>6 DEF BatchStep
<1> QED BY <1>1, <1>2

\* Every step of a request keeps the budget.
LEMMA BudgetBatch ==
  ASSUME Typed, OnceEach, BudgetKept, NEW b \in Batches, BatchStep(b)
  PROVE  BudgetKept'
<1>1. \A c \in Batches : Budgeted(c)'
  BY BudgetedStep DEF BudgetKept
<1>2. /\ Balanced' /\ month' = month /\ unlogged' \in Nat /\ unlogged' >= unlogged
      /\ (overlapped => overlapped')
      /\ \A t : t # month => MessagesIn(t)' = MessagesIn(t)
      /\ OneSpends'
  <2>1. CASE Count(b)
    <3>1. /\ messages' = messages /\ month' = month /\ unlogged' = unlogged
          /\ overlapped' = (overlapped \/ \E c \in Batches \ {b} : Spending(c))
      BY <2>1 DEF Count, school
    <3>2. \A c \in Batches : c # b => (Spending(c)' <=> Spending(c))
      BY Alone DEF Typed, Shaped, Same, Spending
    <3>3. OneSpends'
      BY <3>1, <3>2 DEF OneSpends
    <3>4. Balanced' /\ unlogged' \in Nat /\ unlogged' >= unlogged
      BY <2>1, <3>1, CheckBalances, Measures DEF BudgetKept
    <3> QED BY <3>1, <3>3, <3>4 DEF MessagesIn
  <2>2. CASE ~Count(b)
    <3>1. /\ Balanced' /\ month' = month /\ unlogged' \in Nat /\ unlogged' >= unlogged
          /\ overlapped' = overlapped
          /\ \A t : t # month => MessagesIn(t)' = MessagesIn(t)
          /\ \A c \in Batches : Spending(c)' => Spending(c)
      BY <2>2, BalanceStep DEF BudgetKept
    <3> QED BY <3>1 DEF BudgetKept, OneSpends
  <2> QED BY <2>1, <2>2
<1>3. \A r \in messages' : r.month <= month'
  <2>1. month \in Nat
    BY BoundsAssumption DEF Typed, AroundTyped
  <2> QED BY <1>2, <2>1, OnlyInHand DEF BudgetKept, Message
<1>4. PastKept'
  <2> SUFFICES ASSUME NEW t \in 0..MaxMonths, t # month
               PROVE  Cardinality(MessagesIn(t)) <= unlogged' + Limit'
    BY <1>2 DEF PastKept
  <2>1. Cardinality(MessagesIn(t)) <= unlogged + Limit
    BY DEF BudgetKept, PastKept
  <2>2. Limit <= Limit' /\ Limit \in Nat /\ Limit' \in Nat
    BY <1>2, LimitGrows
  <2>3. unlogged \in Nat /\ unlogged' \in Nat /\ Cardinality(MessagesIn(t)) \in Nat
    BY <1>2, Measures
  <2> QED BY <1>2, <2>1, <2>2, <2>3
<1> QED BY <1>1, <1>2, <1>3, <1>4 DEF BudgetKept

\* A month that begins has no messages, and the month before kept to the budget.
LEMMA BudgetAround ==
  ASSUME Typed, BudgetKept, Surroundings
  PROVE  BudgetKept'
<1>1. /\ pc' = pc /\ left' = left /\ status' = status /\ messages' = messages
      /\ unlogged' = unlogged /\ log' = log /\ overlapped' = overlapped
  BY OnlyEntitlements DEF sending
<1>2. /\ \A c \in Batches : Budgeted(c)'
      /\ OneSpends' /\ Slots' = Slots /\ Flight' = Flight /\ Limit' = Limit
      /\ \A t : MessagesIn(t)' = MessagesIn(t)
  BY <1>1 DEF BudgetKept, Budgeted, Flying, OneSpends, Spending, Slots, Flight, Limit, MessagesIn
<1>3. CASE month' = month
  BY <1>1, <1>2, <1>3 DEF BudgetKept, Balanced, PastKept, SentThisMonth
<1>4. CASE TurnMonth
  <2>1. month \in Nat /\ month' = month + 1 /\ month \in 0..MaxMonths
    BY <1>4, BoundsAssumption DEF TurnMonth, Typed, AroundTyped
  <2>2. \A r \in messages : r.month \in Nat /\ r.month <= month
    BY DEF Typed, LogTyped, Messages, BudgetKept
  <2>3. \A r \in messages' : r.month <= month'
    BY <1>1, <2>1, <2>2
  <2>4. MessagesIn(month') = {}
    BY <2>1, <2>2 DEF MessagesIn
  <2>5. IsFiniteSet(SentThisMonth') /\ Cardinality(SentThisMonth') \in Nat
    <3>1. SentThisMonth' \in SUBSET log
      BY <1>1 DEF SentThisMonth
    <3> QED BY <3>1, FS_Subset, FS_CardinalityType DEF Typed, LogTyped
  <2>6. Balanced'
    <3>1. Cardinality(MessagesIn(month))' = 0
      BY <1>2, <2>4, FS_EmptySet
    <3>2. PICK m, s, f, u, z \in Nat :
            /\ m = Cardinality(MessagesIn(month)) /\ s = Cardinality(Slots)
            /\ f = Cardinality(Flight) /\ u = unlogged /\ z = Limit
      BY Measures
    <3>3. m + s <= z + u + f
      BY <3>2 DEF BudgetKept, Balanced
    <3>4. 0 + s <= z + u + f
      BY <3>2, <3>3
    <3>5. PICK l \in Nat : l = Cardinality(SentThisMonth)'
      BY <2>5
    <3>6. 0 <= l + u + f
      BY <3>2, <3>5
    <3> QED BY <1>1, <1>2, <3>1, <3>2, <3>4, <3>5, <3>6 DEF Balanced
  <2>7. PastKept'
    <3> SUFFICES ASSUME NEW t \in 0..MaxMonths
                 PROVE  Cardinality(MessagesIn(t)) <= unlogged + Limit
      BY <1>1, <1>2 DEF PastKept
    <3> QED BY MonthKept DEF BudgetKept, PastKept
  <2> QED BY <1>2, <2>3, <2>6, <2>7 DEF BudgetKept
<1> QED
  BY <1>3, <1>4 DEF Surroundings, ChangeConsent, DeleteStudent, Correct, SaveRead, SaveWrite, Age,
     ReapList, ReapDelete, school

\* As long as no two requests are past their check at once, a month has no more messages
\* than the cap, except those whose success never reached the log; and never more than the
\* cap once for each request.
THEOREM BudgetAlwaysHolds == Spec => []BudgetHolds
<1>1. Typed /\ OnceEach /\ BudgetKept /\ [Next]_vars => BudgetKept'
  <2>1. BudgetKept /\ UNCHANGED vars => BudgetKept'
    BY DEF vars, school, control, sending, history, BudgetKept, Budgeted, Flying, OneSpends,
       Spending, Slots, Flight, Limit, Balanced, PastKept, MessagesIn, SentThisMonth
  <2> QED BY <2>1, BudgetBatch, BudgetAround DEF Next
<1>2. Typed /\ BudgetKept => BudgetHolds
  <2> SUFFICES ASSUME Typed, BudgetKept, NEW t \in 0..MaxMonths
               PROVE  Cardinality(MessagesIn(t)) <= unlogged + Limit
    BY DEF BudgetHolds, Limit
  <2> QED BY MonthKept DEF BudgetKept, PastKept
<1> QED BY <1>1, <1>2, TypedInit, TypedNext, OnceInit, OnceStep, BudgetInit, PTL DEF Spec

------------------------------------------------------------------------------
(* The answers.                                                            *)

\* Nothing is told at first.
LEMMA ToldInit == Init => AnswersTrue
<1> SUFFICES ASSUME Init PROVE AnswersTrue
  OBVIOUS
<1>1. messages = {} /\ unlogged = 0
  BY DEF Init
<1>2. ASSUME NEW b \in Batches
      PROVE  /\ pc[b] = "idle"
             /\ \A s \in Students : report[b][s] = "none"
             /\ \A s \in Students, m \in Media : outcome[b][<<s, m>>] = "none"
  BY DEF Init
<1>3. \A b \in Batches : Unclaimed(b) = {}
  BY <1>1 DEF Unclaimed
<1>4. SentOnce /\ \A b \in Batches : FewUnclaimed(b)
  BY <1>1, <1>3, FS_EmptySet DEF SentOnce, FewUnclaimed
<1> QED
  BY <1>2, <1>4 DEF AnswersTrue, ReportedOnce, ResultsReached, NothingSent, AllTold, ClaimsBacked,
     Flying

\* A student reported is not come back to.
LEMMA ReportedStep ==
  ASSUME Typed, OnceEach, NEW b \in Batches, BatchStep(b), ReportedOnce(b)
  PROVE  ReportedOnce(b)'
<1>0. PlanTyped /\ AnswersTyped /\ Knows(b) /\ Waiting(b) /\ (AtWork(b) <=> cur[b] \in Students)
  BY DEF Typed, KnowledgeTyped, Knows, OnceEach
<1> USE DEF PlanTyped, AnswersTyped, ReportedOnce
<1>1. CASE \/ \E s \in Students, every \in BOOLEAN, ids \in (SUBSET Media) \ {{}} :
                BeginOne(b, s, every, ids)
           \/ \E ids \in (SUBSET Media) \ {{}} : BeginFanOut(b, ids)
           \/ CheckConfig(b) \/ ListRecipients(b)
  BY <1>0, <1>1 DEF BeginOne, BeginFanOut, CheckConfig, ListRecipients, answers
<1>2. CASE EndFanOut(b)
  BY <1>0, <1>2 DEF EndFanOut, answers
<1>3. ASSUME NEW t \in Students, NextRecipient(b, t) PROVE ReportedOnce(b)'
  <2>1. pc[b] = "next" /\ cur[b] \notin Students /\ queue'[b] = queue[b] \ {t} /\ t \in queue[b]
    BY <1>0, <1>3 DEF NextRecipient, AtWork
  <2>2. \/ report' = [report EXCEPT ![b][t] = "unwilling"] /\ pc' = pc /\ cur' = cur
        \/ report' = report /\ pc'[b] = "student" /\ cur'[b] = t
    BY <1>0, <1>3 DEF NextRecipient
  <2> QED BY <1>0, <2>1, <2>2
<1>4. ASSUME NEW what, Leave(b, what), AtWork(b), queue' = queue PROVE ReportedOnce(b)'
  <2>1. /\ report' = [report EXCEPT ![b][cur[b]] = what]
        /\ pc'[b] \in {"next", "done"} /\ cur'[b] = NoStudent
    BY <1>0, <1>4 DEF Leave, Forget
  <2>2. \A s \in Students : report'[b][s] # "none" => report[b][s] # "none" \/ s = cur[b]
    BY <1>0, <2>1
  <2>3. pc[b] \notin {"idle", "config", "recipients"} /\ cur[b] \notin queue[b]
    BY <1>0, <1>4 DEF AtWork, Waiting
  <2> QED BY <1>4, <2>1, <2>2, <2>3, NoneAssumption
<1>5. CASE ReadStudent(b) \/ Gate(b) \/ EndStudent(b) \/ Resolve(b)
  <2>1. AtWork(b) /\ queue' = queue
    BY <1>5 DEF ReadStudent, Gate, EndStudent, Resolve, AtWork
  <2>2. CASE \E what \in {"error", "summary"} : Leave(b, what)
    BY <1>4, <2>1, <2>2
  <2>3. CASE ~\E what \in {"error", "summary"} : Leave(b, what)
    BY <1>0, <1>5, <2>1, <2>3 DEF ReadStudent, Gate, EndStudent, Resolve, Proceed
  <2> QED BY <2>2, <2>3
<1>6. CASE \/ Count(b) \/ Send(b) \/ SendFails(b)
           \/ \E m \in Media : SkipOverBudget(b, m) \/ Upload(b, m) \/ UploadFails(b, m)
  BY <1>0, <1>6 DEF Count, Send, SendFails, SkipOverBudget, Upload, UploadFails, answers
<1>7. CASE Record(b) \/ RecordFails(b)
  BY <1>0, <1>7 DEF Record, RecordFails, Settle
<1>8. CASE Crash(b)
  BY <1>0, <1>8, NoneAssumption DEF Crash, Forget, answers
<1> QED BY <1>1, <1>2, <1>3, <1>5, <1>6, <1>7, <1>8 DEF BatchStep

\* A photo that has a result is not come back to.
LEMMA ReachedStep ==
  ASSUME Typed, OnceEach, NEW b \in Batches, BatchStep(b), ResultsReached(b)
  PROVE  ResultsReached(b)'
<1>0. PlanTyped /\ SendingTyped /\ Waiting(b)
  BY DEF Typed, OnceEach
<1> SUFFICES ASSUME NEW s \in Students, NEW m \in Media, outcome'[b][<<s, m>>] # "none"
             PROVE  Reached(b, s, m)'
  BY DEF ResultsReached
<1>1. CASE outcome'[b][<<s, m>>] = outcome[b][<<s, m>>]
  <2>0. Reached(b, s, m)
    BY <1>1 DEF ResultsReached
  <2> USE DEF PlanTyped, SendingTyped, Reached
  <2>1. CASE \/ \E t \in Students, every \in BOOLEAN, ids \in (SUBSET Media) \ {{}} :
                  BeginOne(b, t, every, ids)
             \/ \E ids \in (SUBSET Media) \ {{}} : BeginFanOut(b, ids)
             \/ CheckConfig(b) \/ ListRecipients(b)
    BY <2>0, <2>1 DEF BeginOne, BeginFanOut, CheckConfig, ListRecipients
  <2>2. CASE EndFanOut(b) \/ \E t \in Students : NextRecipient(b, t)
    BY <1>0, <2>0, <2>2 DEF EndFanOut, NextRecipient, sending
  <2>3. CASE ReadStudent(b) \/ Gate(b) \/ EndStudent(b) \/ Resolve(b) \/ Crash(b)
    BY <1>0, <2>0, <2>3, NoneAssumption
       DEF ReadStudent, Gate, EndStudent, Resolve, Leave, Forget, Proceed, Crash
  <2>4. CASE \/ Count(b) \/ Send(b) \/ SendFails(b)
             \/ \E n \in Media : SkipOverBudget(b, n) \/ Upload(b, n) \/ UploadFails(b, n)
    BY <1>0, <2>0, <2>4 DEF Count, Send, SendFails, SkipOverBudget, Upload, UploadFails
  <2>5. CASE Record(b) \/ RecordFails(b)
    BY <1>0, <2>0, <2>5 DEF Record, RecordFails, Settle
  <2> QED BY <2>1, <2>2, <2>3, <2>4, <2>5 DEF BatchStep
<1>2. CASE pc[b] = "record" /\ s = cur[b] /\ m = item[b]
  <2>1. Settled(b, s, m)'
    BY <1>0, <1>2, InHandSettles
  <2> QED BY <2>1 DEF Settled, Reached
<1>3. CASE pc[b] = "resolve" /\ pc'[b] = "count" /\ s = cur[b] /\ outcome'[b][<<s, m>>] # outcome[b][<<s, m>>]
  <2>1. Resolve(b)
    BY <1>0, <1>3 DEF BatchStep, BeginOne, BeginFanOut, CheckConfig, ListRecipients, EndFanOut,
       NextRecipient, ReadStudent, Gate, Count, EndStudent, SkipOverBudget, Upload, UploadFails,
       Send, SendFails, Record, RecordFails, Crash, PlanTyped
  <2>2. /\ todo' = [todo EXCEPT ![b] = IF whole[b] THEN Of(s) ELSE asked[b][s] \cap Of(s)]
        /\ outcome' = [outcome EXCEPT ![b] = [p \in Students \X Media |->
                          IF p[1] = s /\ p[2] \in asked[b][s] \ Of(s)
                            THEN "skipped" ELSE outcome[b][p]]]
        /\ queue' = queue /\ cur' = cur
    BY <1>0, <1>3, <2>1 DEF Resolve, Leave, PlanTyped
  <2>3. m \notin Of(s)
    BY <1>3, <2>2 DEF Typed, AnswersTyped
  <2> QED BY <1>0, <1>3, <2>2, <2>3 DEF Reached, Waiting, SendingTyped
<1> QED BY <1>1, <1>2, <1>3, OnlyInHand

\* A report of an error, or of one unwilling, is given before anything is sent, and no
\* student reported is sent anything.
LEMMA NothingStep ==
  ASSUME Typed, OnceEach, NEW b \in Batches, BatchStep(b), ReportedOnce(b), NothingSent(b)
  PROVE  NothingSent(b)'
<1>0. PlanTyped /\ AnswersTyped /\ LogTyped /\ Knows(b) /\ Waiting(b)
  BY DEF Typed, KnowledgeTyped, OnceEach
<1> SUFFICES ASSUME NEW s \in Students, report'[b][s] \in {"error", "unwilling"},
                    NEW r \in messages', r.batch = b, r.student = s
             PROVE  FALSE
  BY DEF NothingSent
<1>1. CASE report'[b][s] = report[b][s]
  <2>1. r \in messages
    <3>1. s # cur[b]
      BY <1>1 DEF ReportedOnce
    <3> QED BY <3>1, OnlyInHand DEF Message
  <2> QED BY <1>1, <2>1 DEF NothingSent
<1>2. CASE report'[b][s] # report[b][s]
  <2>1. ASSUME r \in messages
        PROVE  s \notin queue[b] /\ (s = cur[b] => pc[b] \in {"photo", "send", "record"})
    <3>1. Settled(b, s, r.media) \/ InHand(b, s, r.media)
      BY <2>1 DEF OnceEach
    <3> QED BY <1>0, <3>1 DEF Settled, InHand, Waiting
  <2>2. ASSUME NEW t \in Students, NextRecipient(b, t) PROVE FALSE
    <3>1. messages' = messages /\ s = t /\ t \in queue[b]
      BY <1>0, <1>2, <2>2 DEF NextRecipient, AnswersTyped, history
    <3> QED BY <2>1, <3>1
  <2>3. CASE ReadStudent(b) \/ Gate(b) \/ EndStudent(b) \/ Resolve(b)
    <3>1. messages' = messages /\ pc[b] \in {"student", "gate", "resolve", "photo"}
      BY <2>3 DEF ReadStudent, Gate, EndStudent, Resolve, history
    <3>2. PICK what \in {"error", "summary"} : Leave(b, what)
      BY <1>2, <2>3 DEF ReadStudent, Gate, EndStudent, Resolve, Proceed
    <3>3. s = cur[b] /\ report'[b][s] = what
      BY <1>0, <1>2, <3>2 DEF Leave, AnswersTyped
    <3>4. ~EndStudent(b)
      BY <1>0, <3>3 DEF EndStudent, Leave, AnswersTyped
    <3>5. pc[b] \in {"student", "gate", "resolve"}
      BY <2>3, <3>4 DEF ReadStudent, Gate, Resolve
    <3> QED BY <2>1, <3>1, <3>3, <3>5
  <2> QED
    BY <1>2, <2>2, <2>3 DEF BatchStep, BeginOne, BeginFanOut, CheckConfig, ListRecipients,
       EndFanOut, Count, SkipOverBudget, Upload, UploadFails, Send, SendFails, Record, RecordFails,
       Settle, Crash, answers
<1> QED BY <1>1, <1>2

\* A result is never taken back.
LEMMA ResultsStay ==
  ASSUME Typed, NEW b \in Batches, BatchStep(b), NEW c \in Batches, NEW s \in Students,
         NEW m \in Media, outcome[c][<<s, m>>] # "none"
  PROVE  outcome'[c][<<s, m>>] # "none"
<1>1. pc[b] = "record" => status[b] # "none"
  BY DEF Typed, KnowledgeTyped, Knows
<1> QED BY <1>1, OnlyInHand

\* Every photo asked for is sent, looked for in vain, or skipped, and told to be.
LEMMA ToldStep ==
  ASSUME Typed, OnceEach, NEW b \in Batches, BatchStep(b), ReportedOnce(b), AllTold(b)
  PROVE  AllTold(b)'
<1>0. /\ PlanTyped /\ SendingTyped /\ AnswersTyped /\ Knows(b)
      /\ pc[b] \in {"count", "photo", "send", "record"} => cur[b] \in Students
  BY DEF Typed, KnowledgeTyped, Knows, AtWork
<1>1. ASSUME NEW s \in Students, report'[b][s] = "summary", NEW m \in asked'[b][s]
      PROVE  outcome'[b][<<s, m>>] # "none"
  <2>1. m \in Media /\ report[b][s] \in Reports
    <3>1. asked' \in [Batches -> [Students -> SUBSET Media]]
      BY PlanStep DEF Typed, Shaped, Next, PlanTyped
    <3> QED BY <1>0, <1>1, <3>1 DEF AnswersTyped
  <2>2. CASE report[b][s] = "summary"
    <3>1. pc[b] \notin {"idle", "config", "recipients"}
      BY <2>2 DEF ReportedOnce
    <3>2. asked' = asked
      BY <3>1 DEF BatchStep, BeginOne, BeginFanOut, CheckConfig, ListRecipients, EndFanOut,
         NextRecipient, ReadStudent, Gate, Resolve, Count, EndStudent, SkipOverBudget, Upload,
         UploadFails, Send, SendFails, Record, RecordFails, Crash, plan
    <3> QED BY <1>1, <2>1, <2>2, <3>2, ResultsStay DEF AllTold
  <2>3. CASE report[b][s] # "summary"
    <3>1. EndStudent(b)
      <4>1. \A t \in Students : NextRecipient(b, t) => report'[b][s] \in {report[b][s], "unwilling"}
        BY <1>0 DEF NextRecipient, AnswersTyped
      <4>2. Leave(b, "error") => report'[b][s] \in {report[b][s], "error"}
        BY <1>0 DEF Leave, AnswersTyped
      <4>3. report' # report /\ report'[b][s] = "summary"
        BY <1>1, <2>3
      <4>4. report'[b][s] \notin {report[b][s], "unwilling"} /\ report'[b][s] \notin {report[b][s], "error"}
        BY <1>1, <2>3
      <4> QED
        BY <4>1, <4>2, <4>3, <4>4 DEF BatchStep, BeginOne, BeginFanOut, CheckConfig, ListRecipients,
           EndFanOut, ReadStudent, Gate, Resolve, Proceed, Count, SkipOverBudget, Upload,
           UploadFails, Send, SendFails, Record, RecordFails, Settle, Crash, answers
    <3>2. /\ s = cur[b] /\ todo[b] = {} /\ pc[b] = "photo" /\ asked' = asked
          /\ outcome' = outcome
      BY <1>0, <1>1, <2>3, <3>1 DEF EndStudent, Leave, AnswersTyped, plan
    <3> QED BY <1>1, <3>2 DEF AllTold
  <2> QED BY <2>2, <2>3
<1>2. ASSUME pc'[b] \in {"count", "photo", "send", "record"}, NEW m \in asked'[b][cur'[b]]
      PROVE  m \in todo'[b] \/ outcome'[b][<<cur'[b], m>>] # "none"
  <2>1. CASE Resolve(b)
    <3>1. /\ asked' = asked /\ cur' = cur
          /\ todo' = [todo EXCEPT ![b] = IF whole[b] THEN Of(cur[b]) ELSE asked[b][cur[b]] \cap Of(cur[b])]
          /\ outcome' = [outcome EXCEPT ![b] = [p \in Students \X Media |->
                            IF p[1] = cur[b] /\ p[2] \in asked[b][cur[b]] \ Of(cur[b])
                              THEN "skipped" ELSE outcome[b][p]]]
      BY <1>0, <1>2, <2>1 DEF Resolve, Leave, PlanTyped, plan
    <3>2. cur[b] \in Students
      BY <1>0, <2>1 DEF Resolve, Knows, AtWork
    <3>3. m \in asked[b][cur[b]] /\ m \in Media
      BY <1>0, <1>2, <3>1, <3>2 DEF PlanTyped
    <3>4. CASE m \in Of(cur[b])
      BY <1>0, <3>1, <3>3, <3>4 DEF SendingTyped
    <3>5. CASE m \notin Of(cur[b])
      BY <1>0, <3>1, <3>2, <3>3, <3>5 DEF AnswersTyped
    <3> QED BY <3>4, <3>5
  <2>2. CASE ~Resolve(b)
    <3>1. /\ pc[b] \in {"count", "photo", "send", "record"} /\ asked' = asked /\ cur' = cur
      BY <1>0, <1>2, <2>2 DEF BatchStep, BeginOne, BeginFanOut, CheckConfig, ListRecipients,
         EndFanOut, NextRecipient, ReadStudent, Gate, Proceed, Count, EndStudent, Leave,
         SkipOverBudget, Upload, UploadFails, Send, SendFails, Record, RecordFails, Settle, Crash,
         plan, PlanTyped
    <3>2. cur[b] \in Students /\ m \in asked[b][cur[b]] /\ m \in Media
      BY <1>0, <1>2, <3>1 DEF PlanTyped
    <3>3. CASE outcome[b][<<cur[b], m>>] # "none"
      BY <3>1, <3>2, <3>3, ResultsStay
    <3>4. CASE m \in todo[b]
      <4>1. CASE Record(b) \/ RecordFails(b)
        <5>1. CASE m = item[b]
          <6>1. outcome' = [outcome EXCEPT ![b][<<cur[b], item[b]>>] = status[b]] /\ pc[b] = "record"
            BY <4>1 DEF Record, RecordFails, Settle
          <6> QED BY <1>0, <3>1, <3>2, <5>1, <6>1 DEF AnswersTyped, Knows
        <5>2. CASE m # item[b]
          BY <1>0, <3>4, <4>1, <5>2 DEF Record, RecordFails, Settle, SendingTyped
        <5> QED BY <5>1, <5>2
      <4>2. CASE ~(Record(b) \/ RecordFails(b))
        <5>1. todo' = todo
          BY <1>0, <1>2, <2>2, <4>2 DEF BatchStep, BeginOne, BeginFanOut, CheckConfig,
             ListRecipients, EndFanOut, NextRecipient, ReadStudent, Gate, Count, EndStudent,
             SkipOverBudget, Upload, UploadFails, Send, SendFails, Crash, sending, PlanTyped
        <5> QED BY <3>4, <5>1
      <4> QED BY <4>1, <4>2
    <3> QED BY <3>1, <3>2, <3>3, <3>4 DEF AllTold
  <2> QED BY <2>1, <2>2
<1> QED BY <1>1, <1>2 DEF AllTold

\* What the provider took it keeps.
LEMMA MessagesStay == ASSUME NEW b \in Batches, BatchStep(b) PROVE messages \subseteq messages'
BY DEF BatchStep, BeginOne, BeginFanOut, CheckConfig, ListRecipients, EndFanOut, NextRecipient,
   ReadStudent, Gate, Resolve, Count, EndStudent, SkipOverBudget, Upload, UploadFails, Send,
   SendFails, Record, RecordFails, Crash, Accept, history

\* A photo said to be sent the provider took.
LEMMA BackedStep ==
  ASSUME Typed, NEW b \in Batches, BatchStep(b), ClaimsBacked(b)
  PROVE  ClaimsBacked(b)'
<1>0. PlanTyped /\ SendingTyped
  BY DEF Typed
<1>1. ASSUME NEW s, NEW m, Taken(b, s, m) PROVE Taken(b, s, m)'
  BY <1>1, MessagesStay DEF Taken
<1>2. ASSUME NEW s \in Students, NEW m \in Media, outcome'[b][<<s, m>>] = "sent"
      PROVE  Taken(b, s, m)'
  <2>1. Taken(b, s, m)
    BY <1>2, OnlyInHand DEF ClaimsBacked, Flying
  <2> QED BY <1>1, <2>1
<1>3. ASSUME Flying(b)' PROVE Taken(b, cur[b], item[b])'
  <2>1. Send(b)
    BY <1>0, <1>3 DEF Flying, PlanTyped, SendingTyped, BatchStep, BeginOne, BeginFanOut,
       CheckConfig, ListRecipients, EndFanOut, NextRecipient, ReadStudent, Gate, Proceed, Leave,
       Resolve, Count, EndStudent, SkipOverBudget, Upload, UploadFails, SendFails, Record,
       RecordFails, Settle, Crash
  <2>2. Message(b) \in messages' /\ cur' = cur /\ item' = item
    BY <2>1 DEF Send, Accept
  <2> QED BY <2>2 DEF Taken, Message
<1> QED BY <1>2, <1>3 DEF ClaimsBacked

\* The photo in hand was not sent before.
LEMMA NotBefore ==
  ASSUME Typed, OnceEach, NEW b \in Batches, pc[b] = "send"
  PROVE  ~Taken(b, cur[b], item[b])
<1>1. item[b] \in todo[b]
  BY DEF Typed, KnowledgeTyped, Knows
<1> QED BY <1>1 DEF OnceEach, Taken, Settled, InHand

\* So each is sent once.
LEMMA SentOnceStep ==
  ASSUME Typed, OnceEach, SentOnce, NEW b \in Batches, BatchStep(b)
  PROVE  SentOnce'
<1>1. ASSUME NEW r \in messages', r \notin messages, NEW q \in messages,
             r.batch = q.batch, r.student = q.student, r.media = q.media
      PROVE  FALSE
  <2>1. pc[b] = "send" /\ r.batch = b /\ r.student = cur[b] /\ r.media = item[b]
    BY <1>1, OnlyInHand DEF Message
  <2> QED BY <1>1, <2>1, NotBefore DEF Taken
<1>2. ASSUME NEW r \in messages', r \notin messages, NEW q \in messages', q \notin messages
      PROVE  r = q
  BY <1>2, OnlyInHand
<1> SUFFICES ASSUME NEW r \in messages', NEW q \in messages',
                    r.batch = q.batch, r.student = q.student, r.media = q.media
             PROVE  r = q
  BY DEF SentOnce
<1> QED BY <1>1, <1>2 DEF SentOnce

\* The unclaimed grow only by the message of a request that breaks off, or is told of a
\* failure, with its success unknown or not yet recorded.
LEMMA UnclaimedStep ==
  ASSUME Typed, OnceEach, SentOnce, NEW b \in Batches, BatchStep(b), ResultsReached(b)
  PROVE  /\ Unclaimed(b)' \subseteq Unclaimed(b) /\ unlogged' \in {unlogged, unlogged + 1}
         \/ /\ unlogged' = unlogged + 1
            /\ \E x : Unclaimed(b)' \subseteq Unclaimed(b) \cup {x}
<1>0. PlanTyped /\ SendingTyped /\ AnswersTyped /\ LogTyped
  BY DEF Typed
<1>1. \A r \in messages : r.student \in Students /\ r.media \in Media
  BY <1>0 DEF LogTyped, Messages
<1>2. ASSUME NEW r \in messages, r.batch = b, outcome'[b][<<r.student, r.media>>] # "sent"
      PROVE  outcome[b][<<r.student, r.media>>] # "sent"
  <2>1. CASE outcome'[b][<<r.student, r.media>>] = outcome[b][<<r.student, r.media>>]
    BY <1>2, <2>1
  <2>2. CASE /\ pc[b] = "record" /\ r.student = cur[b] /\ r.media = item[b]
    <3>1. item[b] \in todo[b]
      BY <2>2 DEF Typed, KnowledgeTyped, Knows
    <3> QED BY <1>1, <2>2, <3>1 DEF ResultsReached, Reached
  <2>3. CASE pc[b] = "resolve" /\ r.student = cur[b]
    BY <1>1, <2>3 DEF ResultsReached, Reached
  <2> QED BY <1>1, <2>1, <2>2, <2>3, OnlyInHand
<1>3. ASSUME messages' = messages,
             \A r \in messages : status[b] = "sent" /\ InHand(b, r.student, r.media)
               => (status[b] = "sent" /\ InHand(b, r.student, r.media))'
                  \/ outcome'[b][<<r.student, r.media>>] = "sent"
      PROVE  Unclaimed(b)' \subseteq Unclaimed(b)
  BY <1>2, <1>3 DEF Unclaimed
<1>4. ASSUME Accept(b), pc[b] = "send" PROVE Unclaimed(b)' \subseteq Unclaimed(b) \cup {Message(b)}
  BY <1>2, <1>4 DEF Unclaimed, Accept, InHand
<1>5. CASE Send(b)
  <2>1. /\ Accept(b) /\ pc[b] = "send" /\ pc'[b] = "record" /\ status'[b] = "sent"
        /\ cur' = cur /\ item' = item /\ unlogged' = unlogged
    BY <1>0, <1>5 DEF Send, PlanTyped, SendingTyped
  <2>2. Message(b) \notin Unclaimed(b)'
    BY <2>1 DEF Unclaimed, Message, InHand
  <2>3. unlogged' \in {unlogged, unlogged + 1}
    BY <2>1
  <2> QED BY <1>4, <2>1, <2>2, <2>3
<1>6. CASE SendFails(b)
  <2>1. CASE messages' = messages
    <3>1. pc[b] = "send" /\ unlogged' \in {unlogged, unlogged + 1}
      BY <1>6 DEF SendFails
    <3> QED BY <1>3, <2>1, <3>1 DEF InHand
  <2>2. CASE messages' # messages
    BY <1>4, <1>6, <2>2 DEF SendFails
  <2> QED BY <2>1, <2>2
<1>7. CASE Record(b) \/ RecordFails(b)
  <2>1. /\ messages' = messages /\ pc[b] = "record" /\ unlogged' \in {unlogged, unlogged + 1}
        /\ outcome' = [outcome EXCEPT ![b][<<cur[b], item[b]>>] = status[b]]
    BY <1>7 DEF Record, RecordFails, Settle, history
  <2>2. \A r \in messages : status[b] = "sent" /\ InHand(b, r.student, r.media)
          => outcome'[b][<<r.student, r.media>>] = "sent"
    BY <1>0, <1>1, <2>1 DEF InHand, AnswersTyped
  <2> QED BY <1>3, <2>1, <2>2
<1>8. CASE Crash(b)
  <2>1. CASE messages' # messages
    BY <1>4, <1>8, <2>1 DEF Crash
  <2>2. CASE messages' = messages /\ ~Flying(b)
    <3>1. unlogged' \in {unlogged, unlogged + 1}
      BY <1>8 DEF Crash
    <3> QED BY <1>3, <2>2, <3>1 DEF Flying, InHand
  <2>3. CASE messages' = messages /\ Flying(b)
    <3>1. unlogged' = unlogged + 1
      BY <1>8, <2>3 DEF Crash, Flying
    <3>2. \E x : \A r \in messages : r.batch = b /\ InHand(b, r.student, r.media) => r = x
      <4>1. \A r, q \in messages : /\ r.batch = b /\ InHand(b, r.student, r.media)
                                   /\ q.batch = b /\ InHand(b, q.student, q.media)
                                   => r = q
        BY DEF SentOnce, InHand
      <4> QED BY <4>1, Zenon
    <3>3. PICK x : \A r \in messages : r.batch = b /\ InHand(b, r.student, r.media) => r = x
      BY <3>2
    <3>4. Unclaimed(b)' \subseteq Unclaimed(b) \cup {x}
      BY <1>2, <2>3, <3>3 DEF Unclaimed
    <3> QED BY <3>1, <3>4
  <2> QED BY <2>1, <2>2, <2>3
<1>9. CASE ~(Send(b) \/ SendFails(b) \/ Record(b) \/ RecordFails(b) \/ Crash(b))
  <2>1. messages' = messages /\ unlogged' = unlogged
    BY <1>9 DEF BatchStep, BeginOne, BeginFanOut, CheckConfig, ListRecipients, EndFanOut,
       NextRecipient, ReadStudent, Gate, Resolve, Count, EndStudent, SkipOverBudget, Upload,
       UploadFails, history
  <2>2. pc[b] # "record"
    BY <1>9 DEF BatchStep, BeginOne, BeginFanOut, CheckConfig, ListRecipients, EndFanOut,
       NextRecipient, ReadStudent, Gate, Resolve, Count, EndStudent, SkipOverBudget, Upload,
       UploadFails
  <2>3. unlogged' \in {unlogged, unlogged + 1}
    BY <2>1
  <2> QED BY <1>3, <2>1, <2>2, <2>3 DEF InHand
<1> QED BY <1>5, <1>6, <1>7, <1>8, <1>9

\* So there are never more of them than messages without a row.
LEMMA FewStep ==
  ASSUME Typed, OnceEach, SentOnce, NEW b \in Batches, BatchStep(b), ResultsReached(b),
         FewUnclaimed(b)
  PROVE  FewUnclaimed(b)'
<1>1. IsFiniteSet(Unclaimed(b)) /\ Cardinality(Unclaimed(b)) \in Nat /\ unlogged \in Nat
  <2>1. Unclaimed(b) \in SUBSET messages
    BY DEF Unclaimed
  <2> QED BY <2>1, FS_Subset, FS_CardinalityType, Measures DEF Typed, LogTyped
<1>2. Cardinality(Unclaimed(b)) <= unlogged
  BY DEF FewUnclaimed
<1> DEFINE U == Unclaimed(b)
           V == Unclaimed(b)'
<1>3. \/ V \subseteq U /\ unlogged' \in {unlogged, unlogged + 1}
      \/ unlogged' = unlogged + 1 /\ \E x : V \subseteq U \cup {x}
  BY UnclaimedStep
<1> HIDE DEF U, V
<1>4. IsFiniteSet(U) /\ Cardinality(U) \in Nat /\ Cardinality(U) <= unlogged /\ unlogged \in Nat
  BY <1>1, <1>2 DEF U
<1>5. Cardinality(V) <= unlogged'
  <2>1. CASE V \subseteq U /\ unlogged' \in {unlogged, unlogged + 1}
    <3>1. IsFiniteSet(V) /\ Cardinality(V) <= Cardinality(U)
      BY <1>4, <2>1, FS_Subset
    <3>2. Cardinality(V) \in Nat
      BY <3>1, FS_CardinalityType
    <3> QED BY <1>4, <2>1, <3>1, <3>2
  <2>2. CASE unlogged' = unlogged + 1 /\ \E x : V \subseteq U \cup {x}
    <3>1. PICK x : V \subseteq U \cup {x}
      BY <2>2
    <3> DEFINE W == U \cup {x}
    <3>2. /\ IsFiniteSet(W)
          /\ Cardinality(W) = IF x \in U THEN Cardinality(U) ELSE Cardinality(U) + 1
      BY <1>4, FS_AddElement
    <3>3. V \in SUBSET W
      BY <3>1
    <3> HIDE DEF W
    <3>4. IsFiniteSet(V) /\ Cardinality(V) <= Cardinality(W)
      BY <3>2, <3>3, FS_Subset
    <3>5. Cardinality(V) \in Nat /\ Cardinality(W) \in Nat
      BY <3>2, <3>4, FS_CardinalityType
    <3>6. Cardinality(W) <= unlogged + 1
      BY <1>4, <3>2
    <3> QED BY <1>4, <2>2, <3>4, <3>5, <3>6
  <2> QED BY <1>3, <2>1, <2>2
<1> QED BY <1>5 DEF V, FewUnclaimed

\* What a request tells stays true while another takes a step.
LEMMA OthersTold ==
  ASSUME Typed, OnceEach, AnswersTrue, NEW b \in Batches, BatchStep(b), NEW c \in Batches, c # b
  PROVE  /\ ReportedOnce(c)' /\ ResultsReached(c)' /\ NothingSent(c)'
         /\ AllTold(c)' /\ ClaimsBacked(c)' /\ FewUnclaimed(c)'
<1>0. /\ Same(c) /\ messages \subseteq messages'
      /\ \A r \in messages' : r \in messages \/ r.batch = b
  BY Alone, MessagesStay, OnlyInHand DEF Typed, Shaped, Message
<1>1. ReportedOnce(c)'
  BY <1>0 DEF AnswersTrue, ReportedOnce, Same
<1>2. ResultsReached(c)'
  BY <1>0 DEF AnswersTrue, ResultsReached, Reached, Same
<1>3. NothingSent(c)'
  BY <1>0 DEF AnswersTrue, NothingSent, Same
<1>4. AllTold(c)'
  BY <1>0 DEF AnswersTrue, AllTold, Same
<1>5. ClaimsBacked(c)'
  BY <1>0 DEF AnswersTrue, ClaimsBacked, Flying, Taken, Same
<1>6. FewUnclaimed(c)'
  <2>1. Unclaimed(c)' = Unclaimed(c)
    BY <1>0 DEF Unclaimed, InHand, Same
  <2>2. unlogged' \in {unlogged, unlogged + 1}
    BY UnclaimedStep DEF AnswersTrue
  <2>3. unlogged \in Nat /\ Cardinality(Unclaimed(c)) \in Nat
    <3>1. Unclaimed(c) \in SUBSET messages
      BY DEF Unclaimed
    <3> QED BY <3>1, FS_Subset, FS_CardinalityType, Measures DEF Typed, LogTyped
  <2>4. Cardinality(Unclaimed(c)) <= unlogged
    BY DEF AnswersTrue, FewUnclaimed
  <2>5. Cardinality(Unclaimed(c)) <= unlogged'
    BY <2>2, <2>3, <2>4
  <2> QED BY <2>1, <2>5 DEF FewUnclaimed
<1> QED BY <1>1, <1>2, <1>3, <1>4, <1>5, <1>6

\* What is told stays true.
LEMMA AnswersTrueStep == Typed /\ OnceEach /\ AnswersTrue /\ [Next]_vars => AnswersTrue'
<1> SUFFICES ASSUME Typed, OnceEach, AnswersTrue, [Next]_vars PROVE AnswersTrue'
  OBVIOUS
<1> DEFINE Told(c) == /\ ReportedOnce(c) /\ ResultsReached(c) /\ NothingSent(c)
                      /\ AllTold(c) /\ ClaimsBacked(c) /\ FewUnclaimed(c)
<1>1. ASSUME NEW b \in Batches, BatchStep(b) PROVE AnswersTrue'
  <2>0. Told(b) /\ SentOnce
    BY DEF AnswersTrue
  <2>1. ReportedOnce(b)' /\ ResultsReached(b)' /\ NothingSent(b)'
    BY <1>1, <2>0, ReportedStep, ReachedStep, NothingStep
  <2>2. AllTold(b)' /\ ClaimsBacked(b)' /\ FewUnclaimed(b)' /\ SentOnce'
    BY <1>1, <2>0, ToldStep, BackedStep, FewStep, SentOnceStep
  <2>3. \A c \in Batches : c # b => Told(c)'
    BY <1>1, OthersTold
  <2> QED BY <2>1, <2>2, <2>3 DEF AnswersTrue
<1>2. CASE UNCHANGED <<pc, cur, queue, asked, todo, item, status, report, outcome, messages, unlogged>>
  <2>1. SentOnce'
    BY <1>2 DEF AnswersTrue, SentOnce
  <2>2. ASSUME NEW c \in Batches PROVE Told(c)'
    <3>0. Told(c)
      BY DEF AnswersTrue
    <3>1. ReportedOnce(c)' /\ ResultsReached(c)' /\ NothingSent(c)'
      BY <1>2, <3>0 DEF ReportedOnce, ResultsReached, Reached, NothingSent
    <3>2. AllTold(c)' /\ ClaimsBacked(c)'
      BY <1>2, <3>0 DEF AllTold, ClaimsBacked, Taken, Flying
    <3>3. FewUnclaimed(c)'
      BY <1>2, <3>0 DEF FewUnclaimed, Unclaimed, InHand
    <3> QED BY <3>1, <3>2, <3>3
  <2> QED BY <2>1, <2>2 DEF AnswersTrue
<1>3. CASE Surroundings
  BY <1>2, <1>3, OnlyEntitlements DEF plan, sending, answers
<1>4. CASE UNCHANGED vars
  BY <1>2, <1>4 DEF vars, control, plan, sending, answers, history
<1> QED BY <1>1, <1>3, <1>4 DEF Next

\* A student reported as an error or as unwilling got nothing, one reported with a summary
\* has a result for every photo asked for, a photo is reported sent only if the provider
\* took it, and one it took is reported otherwise only if its success was lost on the way.
THEOREM ReportsStayTrue == Spec => []ReportsAreTrue
<1>1. ASSUME Typed, AnswersTrue PROVE ReportsAreTrue
  <2> SUFFICES ASSUME NEW b \in Batches
               PROVE  LET sentTo(s) == {r \in messages : r.batch = b /\ r.student = s}
                      IN /\ \A s \in Students :
                              /\ report[b][s] \in {"error", "unwilling"} => sentTo(s) = {}
                              /\ report[b][s] = "summary"
                                   => \A m \in asked[b][s] : outcome[b][<<s, m>>] # "none"
                         /\ \A s \in Students, m \in Media :
                              outcome[b][<<s, m>>] = "sent" => \E r \in sentTo(s) : r.media = m
                         /\ Cardinality({r \in messages :
                              /\ r.batch = b
                              /\ outcome[b][<<r.student, r.media>>] \in {"failed", "skipped"}})
                              <= unlogged
    BY DEF ReportsAreTrue
  <2>0. /\ ReportedOnce(b) /\ ResultsReached(b) /\ NothingSent(b)
        /\ AllTold(b) /\ ClaimsBacked(b) /\ FewUnclaimed(b)
    BY <1>1 DEF AnswersTrue
  <2>1. ASSUME NEW s \in Students, report[b][s] \in {"error", "unwilling"}
        PROVE  {r \in messages : r.batch = b /\ r.student = s} = {}
    BY <2>0, <2>1 DEF NothingSent
  <2>2. ASSUME NEW s \in Students, NEW m \in Media, outcome[b][<<s, m>>] = "sent"
        PROVE  \E r \in {r \in messages : r.batch = b /\ r.student = s} : r.media = m
    BY <2>0, <2>2 DEF ClaimsBacked, Taken
  <2>3. ASSUME NEW s \in Students, report[b][s] = "summary", NEW m \in asked[b][s]
        PROVE  outcome[b][<<s, m>>] # "none"
    BY <2>0, <2>3 DEF AllTold
  <2> DEFINE Denied == {r \in messages :
                          /\ r.batch = b
                          /\ outcome[b][<<r.student, r.media>>] \in {"failed", "skipped"}}
  <2>4. Cardinality(Denied) <= unlogged
    <3>1. Denied \in SUBSET Unclaimed(b)
      <4> SUFFICES ASSUME NEW r \in Denied PROVE r \in Unclaimed(b)
        OBVIOUS
      <4>1. r.student \in Students /\ r.media \in Media
        BY <1>1 DEF Typed, LogTyped, Messages
      <4>2. ~InHand(b, r.student, r.media)
        BY <1>1, <2>0, <4>1 DEF ResultsReached, Reached, InHand, Typed, KnowledgeTyped, Knows
      <4> QED BY <4>2 DEF Unclaimed
    <3>2. IsFiniteSet(Unclaimed(b)) /\ Cardinality(Unclaimed(b)) \in Nat /\ unlogged \in Nat
      <4>1. Unclaimed(b) \in SUBSET messages
        BY DEF Unclaimed
      <4> QED BY <1>1, <4>1, FS_Subset, FS_CardinalityType, Measures DEF Typed, LogTyped
    <3> HIDE DEF Denied
    <3>3. Cardinality(Denied) <= Cardinality(Unclaimed(b)) /\ Cardinality(Denied) \in Nat
      BY <3>1, <3>2, FS_Subset, FS_CardinalityType
    <3> QED BY <2>0, <3>2, <3>3 DEF FewUnclaimed
  <2> QED BY <2>1, <2>2, <2>3, <2>4
<1> QED
  BY <1>1, TypedInit, TypedNext, OnceInit, OnceStep, ToldInit, AnswersTrueStep, PTL DEF Spec
=============================================================================
