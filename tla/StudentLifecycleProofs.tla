----------------------- MODULE StudentLifecycleProofs -----------------------
(***************************************************************************)
(* Theorems about StudentLifecycle, one for each invariant its run checks: *)
(* its types; that an enrolled student has embeddings, and those of the    *)
(* photo shown; that a login keeps its profile; that the photos in the     *)
(* object store follow the row; and that a delete which nothing overlapped *)
(* leaves the ML service empty of the student, whatever failed before it   *)
(* (save for what a broken rewrite of the index leaves in caches).         *)
(***************************************************************************)
EXTENDS StudentLifecycle, TLAPS

BeforeCall   == {"new", "login", "profile", "undo", "read", "attach", "clean",
                 "enrol", "erase"}
EnrolPlaces  == {"wipe", "store", "list", "embed", "upsert"}
DeletePlaces == {"index", "refs", "matches", "candidates"}

\* Where a request and its call can be, by kind.
KindsOf(n) ==
  /\ pc[n] = "new" => op[n] = "none"
  /\ pc[n] \in {"login", "profile", "undo"} => op[n] = "create"
  /\ pc[n] \in {"attach", "clean"} => op[n] = "photo"
  /\ pc[n] = "enrol" \/ mpc[n] \in EnrolPlaces => op[n] \in {"create", "photo", "enrol"}
  /\ pc[n] \in {"erase", "drop", "rows"} \/ mpc[n] \in DeletePlaces => op[n] = "delete"

\* The call is not under way before it is made nor once it has answered.
CallOf(n) ==
  /\ pc[n] \in BeforeCall => mpc[n] = "none" /\ result[n] = "none"
  /\ pc[n] \in {"drop", "rows"} \/ (pc[n] = "wait" /\ result[n] # "none")
       => mpc[n] \in {"none", "done"}

\* The photo about to be named is a photo.
PathOf(n) ==
  /\ pc[n] = "read" /\ op[n] = "photo" => path[n] \in Photos
  /\ pc[n] \in {"attach", "clean", "enrol"} => path[n] \in Photos
  /\ mpc[n] \in {"wipe", "store"} => path[n] \in Photos

\* What the steps below need to know of the types.
Shaped ==
  /\ pc = [n \in Requests |-> pc[n]] /\ op = [n \in Requests |-> op[n]]
  /\ path \in [Requests -> Photos \cup {NoPhoto}] /\ result = [n \in Requests |-> result[n]]
  /\ mpc = [n \in Requests |-> mpc[n]] /\ have = [n \in Requests |-> have[n]]

Kinds  == \A n \in Requests : KindsOf(n)
Calls  == \A n \in Requests : CallOf(n)
Paths  == \A n \in Requests : PathOf(n)
Places == Kinds /\ Calls /\ Paths

-----------------------------------------------------------------------------
\* Types and places hold at the start.
LEMMA PlacesInit == Init => TypeOK /\ Places
<1> USE StudentAssumption DEF Init
<1>1. Init => BackendTypes
  BY DEF BackendTypes
<1>6. Init => MLTypes
  <2>1. Init => /\ matches \in BOOLEAN /\ candidates \in BOOLEAN
                /\ unmatched \in BOOLEAN /\ stale \in BOOLEAN
    OBVIOUS
  <2>2. Init => /\ refs \subseteq Photos /\ face \subseteq Photos
                /\ have \in [Requests -> SUBSET Photos]
    OBVIOUS
  <2>3. Init => /\ spc \in {"idle", "save", "audit"}
                /\ mpc \in [Requests -> {"none"}]
    OBVIOUS
  <2> QED
    BY <2>1, <2>2, <2>3 DEF MLTypes
<1>2. Init => RequestTypes
  BY DEF RequestTypes
<1>3. Init => HistoryTypes
  BY DEF HistoryTypes
<1>5. Init => BoundTypes
  BY DEF BoundTypes
<1>4. Init => Places
  BY DEF Places, Kinds, Calls, Paths, KindsOf, CallOf, PathOf, EnrolPlaces,
     DeletePlaces, BeforeCall
<1> QED
  BY <1>1, <1>2, <1>3, <1>4, <1>5, <1>6 DEF TypeOK

\* The backend's rows and objects keep their types.
LEMMA BackendTyped ==
  ASSUME BackendTypes, RequestTypes, Places, [Next]_vars
  PROVE  BackendTypes'
<1> USE StudentAssumption DEF BackendTypes, RequestTypes, Places, Paths,
   PathOf, backend, ml, backendVars, mlVars, indexVars, historyVars, boundVars
<1>1. ASSUME NEW n \in Requests, Start(n)
      PROVE  BackendTypes'
  BY <1>1 DEF Start, Goto, Active, UnderWay, Calling, Busy
<1>2. ASSUME NEW n \in Requests, CreateLogin(n)
      PROVE  BackendTypes'
  BY <1>2 DEF CreateLogin, Goto, Fault
<1>3. ASSUME NEW n \in Requests, CreateProfile(n)
      PROVE  BackendTypes'
  BY <1>3 DEF CreateProfile, Goto
<1>4. ASSUME NEW n \in Requests, Undo(n)
      PROVE  BackendTypes'
  BY <1>4 DEF Undo, Goto, Fault
<1>5. ASSUME NEW n \in Requests, Attach(n)
      PROVE  BackendTypes'
  BY <1>5 DEF Attach, Goto, Fault
<1>6. ASSUME NEW n \in Requests, Clean(n)
      PROVE  BackendTypes'
  BY <1>6 DEF Clean, Goto, Fault
<1>7. ASSUME NEW n \in Requests, SetStatus(n)
      PROVE  BackendTypes'
  BY <1>7 DEF SetStatus, Goto, Fault
<1>8. ASSUME NEW n \in Requests, Reap(n)
      PROVE  BackendTypes'
  BY <1>8 DEF Reap, Goto
<1>9. ASSUME NEW n \in Requests, DropObject(n)
      PROVE  BackendTypes'
  BY <1>9 DEF DropObject, Goto, Fault
<1>10. ASSUME NEW n \in Requests, DeleteRows(n)
      PROVE  BackendTypes'
  BY <1>10 DEF DeleteRows, Goto, Fault
<1>11. ASSUME NEW n \in Requests,
             ReadStudent(n) \/ Enrol(n) \/ Erase(n) \/ Answered(n) \/
                TimeOut(n) \/ Reply(n) \/ Crash(n) \/ CallFails(n) \/
                WipeRefs(n) \/ StoreRefs(n) \/ ListRefs(n) \/ Embed(n) \/
                Upsert(n) \/ EraseIndex(n) \/ EraseRefs(n) \/ EraseMatches(n)
                \/ EraseCandidates(n)
      PROVE  BackendTypes'
  BY <1>11 DEF ReadStudent, Goto, ToEnrol, Enrol, Call, Fault, Erase,
     Answered, AfterCall, TimeOut, Calling, Reply, Crash, Active, CallFails,
     Answer, MGoto, WipeRefs, MFrame, StoreRefs, ListRefs, Embed, Upsert,
     EraseIndex, EraseRefs, EraseMatches, EraseCandidates,
     SaveBreaks, LoadFails, IFrame
<1>12. CASE Recognise \/ SaveMatch \/ SaveDetections \/ JobFails \/ UNCHANGED vars
  BY <1>12 DEF Recognise, SFrame, Active, SaveMatch, SaveDetections, JobFails,
     vars, requestVars
<1> QED
  BY <1>1, <1>2, <1>3, <1>4, <1>5, <1>6, <1>7, <1>8, <1>9, <1>10, <1>11, <1>12
     DEF Next, RequestStep, CallStep

\* So do the requests' locals.
LEMMA RequestsTyped ==
  ASSUME BackendTypes, RequestTypes, [Next]_vars
  PROVE  RequestTypes'
<1> USE StudentAssumption DEF BackendTypes, RequestTypes, backend, ml,
   backendVars, mlVars, indexVars, historyVars, boundVars
<1>1. ASSUME NEW n \in Requests, Start(n)
      PROVE  RequestTypes'
  <2>1. PICK o \in {"create", "photo", "enrol", "delete"},
            p \in (Photos \ {path[m] : m \in Requests}) \cup {NoPhoto, photo} :
          /\ op' = [op EXCEPT ![n] = o]
          /\ path' = [path EXCEPT ![n] = p]
          /\ Goto(n, IF o = "create" THEN "login" ELSE "read")
    BY <1>1, Zenon DEF Start
  <2>2. p \in Photos \cup {NoPhoto}
    BY <2>1 DEF BackendTypes
  <2>3. UNCHANGED <<old, result>>
    BY <1>1 DEF Start
  <2> QED
    BY <2>1, <2>2, <2>3 DEF Goto
<1>2. ASSUME NEW n \in Requests, CreateLogin(n)
      PROVE  RequestTypes'
  BY <1>2 DEF CreateLogin, Goto, Fault
<1>3. ASSUME NEW n \in Requests, CreateProfile(n)
      PROVE  RequestTypes'
  BY <1>3 DEF CreateProfile, Goto
<1>4. ASSUME NEW n \in Requests, Undo(n)
      PROVE  RequestTypes'
  BY <1>4 DEF Undo, Goto, Fault
<1>5. ASSUME NEW n \in Requests, ReadStudent(n)
      PROVE  RequestTypes'
  <2>1. PICK place \in {"attach", "enrol", "erase", "reap", "done"} :
          pc' = [pc EXCEPT ![n] = place]
    BY <1>5 DEF ReadStudent, Goto, ToEnrol
  <2>2. path' = path \/ path' = [path EXCEPT ![n] = photo]
    BY <1>5 DEF ReadStudent
  <2>3. old' = [old EXCEPT ![n] = photo] /\ UNCHANGED <<op, result>>
    BY <1>5 DEF ReadStudent
  <2> QED
    BY <2>1, <2>2, <2>3
<1>6. ASSUME NEW n \in Requests, Attach(n)
      PROVE  RequestTypes'
  BY <1>6 DEF Attach, Goto, Fault
<1>7. ASSUME NEW n \in Requests, Clean(n)
      PROVE  RequestTypes'
  BY <1>7 DEF Clean, Goto, Fault
<1>8. ASSUME NEW n \in Requests, Enrol(n)
      PROVE  RequestTypes'
  BY <1>8 DEF Enrol, Call, Goto, Fault
<1>9. ASSUME NEW n \in Requests, Erase(n)
      PROVE  RequestTypes'
  BY <1>9 DEF Erase, Call, Goto, Fault
<1>10. ASSUME NEW n \in Requests, Answered(n)
      PROVE  RequestTypes'
  BY <1>10 DEF Answered, Goto, AfterCall
<1>11. ASSUME NEW n \in Requests, TimeOut(n)
      PROVE  RequestTypes'
  BY <1>11 DEF TimeOut, Goto, Calling
<1>12. ASSUME NEW n \in Requests, SetStatus(n)
      PROVE  RequestTypes'
  BY <1>12 DEF SetStatus, Goto, Fault
<1>13. ASSUME NEW n \in Requests, Reply(n)
      PROVE  RequestTypes'
  BY <1>13 DEF Reply, Goto, Fault
<1>14. ASSUME NEW n \in Requests, Reap(n)
      PROVE  RequestTypes'
  BY <1>14 DEF Reap, Goto
<1>15. ASSUME NEW n \in Requests, DropObject(n)
      PROVE  RequestTypes'
  BY <1>15 DEF DropObject, Goto, Fault
<1>16. ASSUME NEW n \in Requests, DeleteRows(n)
      PROVE  RequestTypes'
  BY <1>16 DEF DeleteRows, Goto, Fault
<1>17. ASSUME NEW n \in Requests, Crash(n)
      PROVE  RequestTypes'
  BY <1>17 DEF Crash, Goto, Fault, Active
<1>18. ASSUME NEW n \in Requests, CallFails(n)
      PROVE  RequestTypes'
  BY <1>18 DEF CallFails, Fault, Answer, MGoto, Calling
<1>19. ASSUME NEW n \in Requests, Embed(n)
      PROVE  RequestTypes'
  BY <1>19 DEF Embed, MGoto, Answer, MFrame
<1>20. ASSUME NEW n \in Requests, Upsert(n)
      PROVE  RequestTypes'
  BY <1>20 DEF Upsert, Answer, MGoto, MFrame,
     SaveBreaks, LoadFails, IFrame, Fault
<1>21. ASSUME NEW n \in Requests, EraseCandidates(n)
      PROVE  RequestTypes'
  BY <1>21 DEF EraseCandidates, Answer, MGoto, MFrame
<1>22. ASSUME NEW n \in Requests,
             WipeRefs(n) \/ StoreRefs(n) \/ ListRefs(n) \/ EraseIndex(n) \/
                EraseRefs(n) \/ EraseMatches(n)
      PROVE  RequestTypes'
  BY <1>22 DEF WipeRefs, MGoto, MFrame, StoreRefs, ListRefs, EraseIndex,
     EraseRefs, EraseMatches,
     SaveBreaks, LoadFails, IFrame, Fault, Answer
<1>23. CASE Recognise \/ SaveMatch \/ SaveDetections \/ JobFails \/ UNCHANGED vars
  BY <1>23 DEF Recognise, SFrame, Active, SaveMatch, SaveDetections, JobFails,
     vars, requestVars
<1> QED
  BY <1>1, <1>2, <1>3, <1>4, <1>5, <1>6, <1>7, <1>8, <1>9, <1>10, <1>11,
     <1>12, <1>13, <1>14, <1>15, <1>16, <1>17, <1>18, <1>19, <1>20, <1>21,
     <1>22, <1>23 DEF Next, RequestStep, CallStep

\* So do the ML service's rows, calls and jobs.
LEMMA MLTyped ==
  ASSUME MLTypes, Places, [Next]_vars
  PROVE  MLTypes'
<1> USE StudentAssumption DEF MLTypes, Places, Paths, PathOf, backend, ml,
   backendVars, mlVars, indexVars, historyVars, boundVars
<1>1. ASSUME NEW n \in Requests, Enrol(n)
      PROVE  MLTypes'
  BY <1>1 DEF Enrol, Call, Goto, Fault
<1>2. ASSUME NEW n \in Requests, Erase(n)
      PROVE  MLTypes'
  BY <1>2 DEF Erase, Call, Goto, Fault
<1>3. ASSUME NEW n \in Requests, CallFails(n)
      PROVE  MLTypes'
  BY <1>3 DEF CallFails, Fault, Answer, MGoto, Calling
<1>4. ASSUME NEW n \in Requests, WipeRefs(n)
      PROVE  MLTypes'
  BY <1>4 DEF WipeRefs, MGoto, MFrame
<1>5. ASSUME NEW n \in Requests, StoreRefs(n)
      PROVE  MLTypes'
  BY <1>5 DEF StoreRefs, MGoto, MFrame
<1>6. ASSUME NEW n \in Requests, ListRefs(n)
      PROVE  MLTypes'
  BY <1>6 DEF ListRefs, MGoto, MFrame
<1>7. ASSUME NEW n \in Requests, Embed(n)
      PROVE  MLTypes'
  BY <1>7 DEF Embed, MGoto, Answer, MFrame
<1>8. ASSUME NEW n \in Requests, Upsert(n)
      PROVE  MLTypes'
  BY <1>8 DEF Upsert, Answer, MGoto, MFrame,
     SaveBreaks, LoadFails, IFrame, Fault
<1>9. ASSUME NEW n \in Requests, EraseIndex(n)
      PROVE  MLTypes'
  BY <1>9 DEF EraseIndex, MGoto, MFrame,
     SaveBreaks, LoadFails, IFrame, Fault, Answer
<1>10. ASSUME NEW n \in Requests, EraseRefs(n)
      PROVE  MLTypes'
  BY <1>10 DEF EraseRefs, MGoto, MFrame
<1>11. ASSUME NEW n \in Requests, EraseMatches(n)
      PROVE  MLTypes'
  BY <1>11 DEF EraseMatches, MGoto, MFrame
<1>12. ASSUME NEW n \in Requests, EraseCandidates(n)
      PROVE  MLTypes'
  BY <1>12 DEF EraseCandidates, Answer, MGoto, MFrame
<1>13. CASE Recognise
  BY <1>13 DEF Recognise, SFrame, Active
<1>14. CASE SaveMatch
  BY <1>14 DEF SaveMatch, SFrame
<1>15. CASE SaveDetections
  BY <1>15 DEF SaveDetections, SFrame
<1>16. CASE JobFails
  BY <1>16 DEF JobFails, SFrame
<1>17. ASSUME NEW n \in Requests,
             Start(n) \/ CreateLogin(n) \/ CreateProfile(n) \/ Undo(n) \/
                ReadStudent(n) \/ Attach(n) \/ Clean(n) \/ Answered(n) \/
                TimeOut(n) \/ SetStatus(n) \/ Reply(n) \/ Reap(n) \/
                DropObject(n) \/ DeleteRows(n) \/ Crash(n)
      PROVE  MLTypes'
  BY <1>17 DEF Start, Goto, Active, UnderWay, Calling, Busy, CreateLogin,
     Fault, CreateProfile, Undo, ReadStudent, ToEnrol, Attach, Clean,
     Answered, AfterCall, TimeOut, SetStatus, Reply, Reap, DropObject,
     DeleteRows, Crash
<1>18. CASE UNCHANGED vars
  BY <1>18 DEF vars, requestVars
<1> QED
  BY <1>1, <1>2, <1>3, <1>4, <1>5, <1>6, <1>7, <1>8, <1>9, <1>10, <1>11,
     <1>12, <1>13, <1>14, <1>15, <1>16, <1>17, <1>18 DEF Next, RequestStep,
     CallStep

\* So do the histories.
LEMMA HistoryTyped ==
  ASSUME RequestTypes, HistoryTypes, Places, [Next]_vars
  PROVE  HistoryTypes'
<1> USE StudentAssumption DEF RequestTypes, HistoryTypes, Places, Paths,
   PathOf, backend, ml, backendVars, mlVars, indexVars, historyVars, boundVars
<1>1. ASSUME NEW n \in Requests, Start(n)
      PROVE  HistoryTypes'
  BY <1>1 DEF Start, Goto, Active, UnderWay, Calling, Busy
<1>2. ASSUME NEW n \in Requests, CreateProfile(n)
      PROVE  HistoryTypes'
  BY <1>2 DEF CreateProfile, Goto
<1>3. ASSUME NEW n \in Requests, Undo(n)
      PROVE  HistoryTypes'
  BY <1>3 DEF Undo, Goto, Fault
<1>4. ASSUME NEW n \in Requests, Attach(n)
      PROVE  HistoryTypes'
  BY <1>4 DEF Attach, Goto, Fault
<1>5. ASSUME NEW n \in Requests, Clean(n)
      PROVE  HistoryTypes'
  BY <1>5 DEF Clean, Goto, Fault
<1>6. ASSUME NEW n \in Requests, SetStatus(n)
      PROVE  HistoryTypes'
  BY <1>6 DEF SetStatus, Goto, Fault
<1>7. ASSUME NEW n \in Requests, Reply(n)
      PROVE  HistoryTypes'
  BY <1>7 DEF Reply, Goto, Fault
<1>8. ASSUME NEW n \in Requests, DropObject(n)
      PROVE  HistoryTypes'
  BY <1>8 DEF DropObject, Goto, Fault
<1>9. ASSUME NEW n \in Requests, DeleteRows(n)
      PROVE  HistoryTypes'
  BY <1>9 DEF DeleteRows, Goto, Fault
<1>10. ASSUME NEW n \in Requests, Crash(n)
      PROVE  HistoryTypes'
  BY <1>10 DEF Crash, Goto, Fault, Active
<1>11. CASE Recognise
  BY <1>11 DEF Recognise, SFrame, Active
<1>12. ASSUME NEW n \in Requests,
             CreateLogin(n) \/ ReadStudent(n) \/ Enrol(n) \/ Erase(n) \/
                Answered(n) \/ TimeOut(n) \/ Reap(n) \/ CallFails(n) \/
                WipeRefs(n) \/ StoreRefs(n) \/ ListRefs(n) \/ Embed(n) \/
                Upsert(n) \/ EraseIndex(n) \/ EraseRefs(n) \/ EraseMatches(n)
                \/ EraseCandidates(n)
      PROVE  HistoryTypes'
  BY <1>12 DEF CreateLogin, Goto, Fault, ReadStudent, ToEnrol, Enrol, Call,
     Erase, Answered, AfterCall, TimeOut, Calling, Reap, CallFails, Answer,
     MGoto, WipeRefs, MFrame, StoreRefs, ListRefs, Embed, Upsert, EraseIndex,
     EraseRefs, EraseMatches, EraseCandidates,
     SaveBreaks, LoadFails, IFrame
<1>13. CASE SaveMatch \/ SaveDetections \/ JobFails \/ UNCHANGED vars
  BY <1>13 DEF SaveMatch, SFrame, SaveDetections, JobFails, vars, requestVars
<1> QED
  BY <1>1, <1>2, <1>3, <1>4, <1>5, <1>6, <1>7, <1>8, <1>9, <1>10, <1>11,
     <1>12, <1>13 DEF Next, RequestStep, CallStep

\* The counters stay below their bounds.
LEMMA BoundsTyped ==
  ASSUME BoundTypes, [Next]_vars
  PROVE  BoundTypes'
<1> USE StudentAssumption DEF BoundTypes, backend, ml, backendVars, mlVars, indexVars,
   historyVars, boundVars
<1>1. ASSUME NEW n \in Requests, CreateLogin(n)
      PROVE  BoundTypes'
  BY <1>1 DEF CreateLogin, Goto, Fault
<1>2. ASSUME NEW n \in Requests, Undo(n)
      PROVE  BoundTypes'
  BY <1>2 DEF Undo, Goto, Fault
<1>3. ASSUME NEW n \in Requests, Attach(n)
      PROVE  BoundTypes'
  BY <1>3 DEF Attach, Goto, Fault
<1>4. ASSUME NEW n \in Requests, Clean(n)
      PROVE  BoundTypes'
  BY <1>4 DEF Clean, Goto, Fault
<1>5. ASSUME NEW n \in Requests, Enrol(n)
      PROVE  BoundTypes'
  BY <1>5 DEF Enrol, Call, Goto, Fault
<1>6. ASSUME NEW n \in Requests, Erase(n)
      PROVE  BoundTypes'
  BY <1>6 DEF Erase, Call, Goto, Fault
<1>7. ASSUME NEW n \in Requests, TimeOut(n)
      PROVE  BoundTypes'
  BY <1>7 DEF TimeOut, Goto, Calling
<1>8. ASSUME NEW n \in Requests, SetStatus(n)
      PROVE  BoundTypes'
  BY <1>8 DEF SetStatus, Goto, Fault
<1>9. ASSUME NEW n \in Requests, Reply(n)
      PROVE  BoundTypes'
  BY <1>9 DEF Reply, Goto, Fault
<1>10. ASSUME NEW n \in Requests, DropObject(n)
      PROVE  BoundTypes'
  BY <1>10 DEF DropObject, Goto, Fault
<1>11. ASSUME NEW n \in Requests, DeleteRows(n)
      PROVE  BoundTypes'
  BY <1>11 DEF DeleteRows, Goto, Fault
<1>12. ASSUME NEW n \in Requests, Crash(n)
      PROVE  BoundTypes'
  BY <1>12 DEF Crash, Goto, Fault, Active
<1>13. ASSUME NEW n \in Requests, CallFails(n)
      PROVE  BoundTypes'
  BY <1>13 DEF CallFails, Fault, Answer, MGoto, Calling
<1>14. CASE Recognise
  BY <1>14 DEF Recognise, SFrame, Active
<1>17. ASSUME NEW n \in Requests, Upsert(n) \/ EraseIndex(n)
      PROVE  BoundTypes'
  <2>1. UNCHANGED <<timeouts, scans>> /\ (Fault \/ UNCHANGED faults)
    BY <1>17 DEF Upsert, EraseIndex, SaveBreaks, LoadFails, IFrame
  <2> QED
    BY <2>1 DEF Fault
<1>15. ASSUME NEW n \in Requests,
             Start(n) \/ CreateProfile(n) \/ ReadStudent(n) \/ Answered(n) \/
                Reap(n) \/ WipeRefs(n) \/ StoreRefs(n) \/ ListRefs(n) \/
                Embed(n) \/ EraseRefs(n) \/ EraseMatches(n) \/
                EraseCandidates(n)
      PROVE  BoundTypes'
  BY <1>15 DEF Start, Goto, Active, UnderWay, Calling, Busy, CreateProfile,
     ReadStudent, ToEnrol, Answered, AfterCall, Reap, WipeRefs, MGoto, MFrame,
     StoreRefs, ListRefs, Embed, Answer, EraseRefs, EraseMatches,
     EraseCandidates
<1>16. CASE SaveMatch \/ SaveDetections \/ JobFails \/ UNCHANGED vars
  BY <1>16 DEF SaveMatch, SFrame, SaveDetections, JobFails, vars, requestVars
<1> QED
  BY <1>1, <1>2, <1>3, <1>4, <1>5, <1>6, <1>7, <1>8, <1>9, <1>10, <1>11,
     <1>12, <1>13, <1>14, <1>15, <1>16, <1>17 DEF Next, RequestStep, CallStep

\* Functions on the requests.
LEMMA TypesShape == RequestTypes /\ MLTypes => Shaped
<1>1. RequestTypes =>
        /\ pc = [n \in Requests |-> pc[n]] /\ op = [n \in Requests |-> op[n]]
        /\ path \in [Requests -> Photos \cup {NoPhoto}] /\ result = [n \in Requests |-> result[n]]
  BY DEF RequestTypes
<1>2. MLTypes =>
        mpc = [n \in Requests |-> mpc[n]] /\ have = [n \in Requests |-> have[n]]
  BY DEF MLTypes
<1> QED
  BY <1>1, <1>2 DEF Shaped

\* A call starts once and ends once.
LEMMA CallsStep ==
  ASSUME Shaped, Calls, Kinds, [Next]_vars
  PROVE  Calls'
<1> USE StudentAssumption DEF Calls, CallOf, Kinds, KindsOf, EnrolPlaces,
   DeletePlaces, BeforeCall, Shaped, backend, ml, backendVars, mlVars, indexVars,
   historyVars, boundVars
<1>1. ASSUME NEW n \in Requests, Start(n)
      PROVE  Calls'
  BY <1>1 DEF Start, Goto, Active, UnderWay, Calling, Busy
<1>2. ASSUME NEW n \in Requests, CreateLogin(n)
      PROVE  Calls'
  BY <1>2 DEF CreateLogin, Goto, Fault
<1>3. ASSUME NEW n \in Requests, CreateProfile(n)
      PROVE  Calls'
  BY <1>3 DEF CreateProfile, Goto
<1>4. ASSUME NEW n \in Requests, Undo(n)
      PROVE  Calls'
  BY <1>4 DEF Undo, Goto, Fault
<1>5. ASSUME NEW n \in Requests, ReadStudent(n)
      PROVE  Calls'
  BY <1>5 DEF ReadStudent, Goto, ToEnrol
<1>6. ASSUME NEW n \in Requests, Attach(n)
      PROVE  Calls'
  BY <1>6 DEF Attach, Goto, Fault
<1>7. ASSUME NEW n \in Requests, Clean(n)
      PROVE  Calls'
  BY <1>7 DEF Clean, Goto, Fault
<1>8. ASSUME NEW n \in Requests, Enrol(n)
      PROVE  Calls'
  BY <1>8 DEF Enrol, Call, Goto, Fault
<1>9. ASSUME NEW n \in Requests, Erase(n)
      PROVE  Calls'
  BY <1>9 DEF Erase, Call, Goto, Fault
<1>10. ASSUME NEW n \in Requests, Answered(n)
      PROVE  Calls'
  BY <1>10 DEF Answered, Goto, AfterCall
<1>11. ASSUME NEW n \in Requests, TimeOut(n)
      PROVE  Calls'
  BY <1>11 DEF TimeOut, Goto, Calling
<1>12. ASSUME NEW n \in Requests, SetStatus(n)
      PROVE  Calls'
  BY <1>12 DEF SetStatus, Goto, Fault
<1>13. ASSUME NEW n \in Requests, Reply(n)
      PROVE  Calls'
  <2>1. CallOf(n)'
    BY <1>13 DEF Reply, Goto, Fault
  <2>2. ASSUME NEW m \in Requests, m # n
        PROVE  CallOf(m)'
    <3>1. pc'[m] = pc[m] /\ result'[m] = result[m] /\ mpc'[m] = mpc[m]
      BY <1>13, <2>2 DEF Reply, Goto, Fault
    <3>2. CallOf(m)
      OBVIOUS
    <3> QED
      BY <3>1, <3>2
  <2> QED
    BY <2>1, <2>2
<1>14. ASSUME NEW n \in Requests, Reap(n)
      PROVE  Calls'
  BY <1>14 DEF Reap, Goto
<1>15. ASSUME NEW n \in Requests, DropObject(n)
      PROVE  Calls'
  BY <1>15 DEF DropObject, Goto, Fault
<1>16. ASSUME NEW n \in Requests, DeleteRows(n)
      PROVE  Calls'
  BY <1>16 DEF DeleteRows, Goto, Fault
<1>17. ASSUME NEW n \in Requests, Crash(n)
      PROVE  Calls'
  BY <1>17 DEF Crash, Goto, Fault, Active
<1>18. ASSUME NEW n \in Requests, CallFails(n)
      PROVE  Calls'
  BY <1>18 DEF CallFails, Fault, Answer, MGoto, Calling
<1>19. ASSUME NEW n \in Requests, WipeRefs(n)
      PROVE  Calls'
  BY <1>19 DEF WipeRefs, MGoto, MFrame
<1>20. ASSUME NEW n \in Requests, StoreRefs(n)
      PROVE  Calls'
  BY <1>20 DEF StoreRefs, MGoto, MFrame
<1>21. ASSUME NEW n \in Requests, ListRefs(n)
      PROVE  Calls'
  BY <1>21 DEF ListRefs, MGoto, MFrame
<1>22. ASSUME NEW n \in Requests, Embed(n)
      PROVE  Calls'
  BY <1>22 DEF Embed, MGoto, Answer, MFrame
<1>23. ASSUME NEW n \in Requests, Upsert(n)
      PROVE  Calls'
  BY <1>23 DEF Upsert, Answer, MGoto, MFrame,
     SaveBreaks, LoadFails, IFrame, Fault
<1>24. ASSUME NEW n \in Requests, EraseIndex(n)
      PROVE  Calls'
  BY <1>24 DEF EraseIndex, MGoto, MFrame,
     SaveBreaks, LoadFails, IFrame, Fault, Answer
<1>25. ASSUME NEW n \in Requests, EraseRefs(n)
      PROVE  Calls'
  BY <1>25 DEF EraseRefs, MGoto, MFrame
<1>26. ASSUME NEW n \in Requests, EraseMatches(n)
      PROVE  Calls'
  BY <1>26 DEF EraseMatches, MGoto, MFrame
<1>27. ASSUME NEW n \in Requests, EraseCandidates(n)
      PROVE  Calls'
  BY <1>27 DEF EraseCandidates, Answer, MGoto, MFrame
<1>28. CASE Recognise \/ SaveMatch \/ SaveDetections \/ JobFails \/ UNCHANGED vars
  BY <1>28 DEF Recognise, SFrame, Active, SaveMatch, SaveDetections, JobFails,
     vars, requestVars
<1> QED
  BY <1>1, <1>2, <1>3, <1>4, <1>5, <1>6, <1>7, <1>8, <1>9, <1>10, <1>11,
     <1>12, <1>13, <1>14, <1>15, <1>16, <1>17, <1>18, <1>19, <1>20, <1>21,
     <1>22, <1>23, <1>24, <1>25, <1>26, <1>27, <1>28 DEF Next, RequestStep,
     CallStep

\* A request does the steps of its kind.
LEMMA KindsStep ==
  ASSUME Shaped, Calls, Kinds, [Next]_vars
  PROVE  Kinds'
<1> USE StudentAssumption DEF Calls, CallOf, Kinds, KindsOf, EnrolPlaces,
   DeletePlaces, BeforeCall, Shaped, backend, ml, backendVars, mlVars, indexVars,
   historyVars, boundVars
<1>1. ASSUME NEW n \in Requests, Start(n)
      PROVE  Kinds'
  <2>1. PICK o \in {"create", "photo", "enrol", "delete"},
            p \in (Photos \ {path[m] : m \in Requests}) \cup {NoPhoto, photo} :
          /\ o = "photo" => p # NoPhoto
          /\ op' = [op EXCEPT ![n] = o]
          /\ path' = [path EXCEPT ![n] = p]
          /\ Goto(n, IF o = "create" THEN "login" ELSE "read")
    BY <1>1, Zenon DEF Start
  <2>2. UNCHANGED <<mpc, result>> /\ pc[n] = "new"
    BY <1>1 DEF Start
  <2> QED
    BY <2>1, <2>2 DEF Goto
<1>2. ASSUME NEW n \in Requests, CreateLogin(n)
      PROVE  Kinds'
  <2>1. KindsOf(n)'
    BY <1>2 DEF CreateLogin, Goto, Fault
  <2>2. ASSUME NEW m \in Requests, m # n
        PROVE  KindsOf(m)'
    <3>1. pc'[m] = pc[m] /\ op'[m] = op[m] /\ mpc'[m] = mpc[m]
      BY <1>2, <2>2 DEF CreateLogin, Goto, Fault
    <3>2. KindsOf(m)
      OBVIOUS
    <3> QED
      BY <3>1, <3>2
  <2> QED
    BY <2>1, <2>2
<1>3. ASSUME NEW n \in Requests, CreateProfile(n)
      PROVE  Kinds'
  <2>1. KindsOf(n)'
    BY <1>3 DEF CreateProfile, Goto
  <2>2. ASSUME NEW m \in Requests, m # n
        PROVE  KindsOf(m)'
    <3>1. pc'[m] = pc[m] /\ op'[m] = op[m] /\ mpc'[m] = mpc[m]
      BY <1>3, <2>2 DEF CreateProfile, Goto
    <3>2. KindsOf(m)
      OBVIOUS
    <3> QED
      BY <3>1, <3>2
  <2> QED
    BY <2>1, <2>2
<1>4. ASSUME NEW n \in Requests, Undo(n)
      PROVE  Kinds'
  BY <1>4 DEF Undo, Goto, Fault
<1>5. ASSUME NEW n \in Requests, ReadStudent(n)
      PROVE  Kinds'
  <2>1. KindsOf(n)'
    BY <1>5 DEF ReadStudent, Goto, ToEnrol
  <2>2. ASSUME NEW m \in Requests, m # n
        PROVE  KindsOf(m)'
    <3>1. pc'[m] = pc[m] /\ op'[m] = op[m] /\ mpc'[m] = mpc[m]
      BY <1>5, <2>2 DEF ReadStudent, Goto, ToEnrol
    <3>2. KindsOf(m)
      OBVIOUS
    <3> QED
      BY <3>1, <3>2
  <2> QED
    BY <2>1, <2>2
<1>6. ASSUME NEW n \in Requests, Attach(n)
      PROVE  Kinds'
  <2>1. KindsOf(n)'
    BY <1>6 DEF Attach, Goto, Fault
  <2>2. ASSUME NEW m \in Requests, m # n
        PROVE  KindsOf(m)'
    <3>1. pc'[m] = pc[m] /\ op'[m] = op[m] /\ mpc'[m] = mpc[m]
      BY <1>6, <2>2 DEF Attach, Goto, Fault
    <3>2. KindsOf(m)
      OBVIOUS
    <3> QED
      BY <3>1, <3>2
  <2> QED
    BY <2>1, <2>2
<1>7. ASSUME NEW n \in Requests, Clean(n)
      PROVE  Kinds'
  BY <1>7 DEF Clean, Goto, Fault
<1>8. ASSUME NEW n \in Requests, Enrol(n)
      PROVE  Kinds'
  BY <1>8 DEF Enrol, Call, Goto, Fault
<1>9. ASSUME NEW n \in Requests, Erase(n)
      PROVE  Kinds'
  BY <1>9 DEF Erase, Call, Goto, Fault
<1>10. ASSUME NEW n \in Requests, Answered(n)
      PROVE  Kinds'
  BY <1>10 DEF Answered, Goto, AfterCall
<1>11. ASSUME NEW n \in Requests, TimeOut(n)
      PROVE  Kinds'
  BY <1>11 DEF TimeOut, Goto, Calling
<1>12. ASSUME NEW n \in Requests, SetStatus(n)
      PROVE  Kinds'
  BY <1>12 DEF SetStatus, Goto, Fault
<1>13. ASSUME NEW n \in Requests, Reply(n)
      PROVE  Kinds'
  <2>1. KindsOf(n)'
    BY <1>13 DEF Reply, Goto, Fault
  <2>2. ASSUME NEW m \in Requests, m # n
        PROVE  KindsOf(m)'
    <3>1. pc'[m] = pc[m] /\ op'[m] = op[m] /\ mpc'[m] = mpc[m]
      BY <1>13, <2>2 DEF Reply, Goto, Fault
    <3>2. KindsOf(m)
      OBVIOUS
    <3> QED
      BY <3>1, <3>2
  <2> QED
    BY <2>1, <2>2
<1>14. ASSUME NEW n \in Requests, Reap(n)
      PROVE  Kinds'
  BY <1>14 DEF Reap, Goto
<1>15. ASSUME NEW n \in Requests, DropObject(n)
      PROVE  Kinds'
  BY <1>15 DEF DropObject, Goto, Fault
<1>16. ASSUME NEW n \in Requests, DeleteRows(n)
      PROVE  Kinds'
  BY <1>16 DEF DeleteRows, Goto, Fault
<1>17. ASSUME NEW n \in Requests, Crash(n)
      PROVE  Kinds'
  BY <1>17 DEF Crash, Goto, Fault, Active
<1>18. ASSUME NEW n \in Requests, CallFails(n)
      PROVE  Kinds'
  BY <1>18 DEF CallFails, Fault, Answer, MGoto, Calling
<1>19. ASSUME NEW n \in Requests, WipeRefs(n)
      PROVE  Kinds'
  BY <1>19 DEF WipeRefs, MGoto, MFrame
<1>20. ASSUME NEW n \in Requests, StoreRefs(n)
      PROVE  Kinds'
  BY <1>20 DEF StoreRefs, MGoto, MFrame
<1>21. ASSUME NEW n \in Requests, ListRefs(n)
      PROVE  Kinds'
  BY <1>21 DEF ListRefs, MGoto, MFrame
<1>22. ASSUME NEW n \in Requests, Embed(n)
      PROVE  Kinds'
  BY <1>22 DEF Embed, MGoto, Answer, MFrame
<1>23. ASSUME NEW n \in Requests, Upsert(n)
      PROVE  Kinds'
  BY <1>23 DEF Upsert, Answer, MGoto, MFrame,
     SaveBreaks, LoadFails, IFrame, Fault
<1>24. ASSUME NEW n \in Requests, EraseIndex(n)
      PROVE  Kinds'
  BY <1>24 DEF EraseIndex, MGoto, MFrame,
     SaveBreaks, LoadFails, IFrame, Fault, Answer
<1>25. ASSUME NEW n \in Requests, EraseRefs(n)
      PROVE  Kinds'
  BY <1>25 DEF EraseRefs, MGoto, MFrame
<1>26. ASSUME NEW n \in Requests, EraseMatches(n)
      PROVE  Kinds'
  BY <1>26 DEF EraseMatches, MGoto, MFrame
<1>27. ASSUME NEW n \in Requests, EraseCandidates(n)
      PROVE  Kinds'
  BY <1>27 DEF EraseCandidates, Answer, MGoto, MFrame
<1>28. CASE Recognise \/ SaveMatch \/ SaveDetections \/ JobFails \/ UNCHANGED vars
  BY <1>28 DEF Recognise, SFrame, Active, SaveMatch, SaveDetections, JobFails,
     vars, requestVars
<1> QED
  BY <1>1, <1>2, <1>3, <1>4, <1>5, <1>6, <1>7, <1>8, <1>9, <1>10, <1>11,
     <1>12, <1>13, <1>14, <1>15, <1>16, <1>17, <1>18, <1>19, <1>20, <1>21,
     <1>22, <1>23, <1>24, <1>25, <1>26, <1>27, <1>28 DEF Next, RequestStep,
     CallStep

\* A photo is at hand where one is named.
LEMMA PathsStep ==
  ASSUME BackendTypes, Shaped, Places, [Next]_vars
  PROVE  Paths'
<1> USE StudentAssumption DEF BackendTypes, Places, Calls, CallOf, Paths,
   PathOf, Kinds, KindsOf, EnrolPlaces, DeletePlaces, BeforeCall, Shaped,
   backend, ml, backendVars, mlVars, indexVars, historyVars, boundVars
<1>1. ASSUME NEW n \in Requests, Start(n)
      PROVE  Paths'
  <2>1. PICK o \in {"create", "photo", "enrol", "delete"},
            p \in (Photos \ {path[m] : m \in Requests}) \cup {NoPhoto, photo} :
          /\ o = "photo" => p # NoPhoto
          /\ op' = [op EXCEPT ![n] = o]
          /\ path' = [path EXCEPT ![n] = p]
          /\ Goto(n, IF o = "create" THEN "login" ELSE "read")
    BY <1>1, Zenon DEF Start
  <2>2. UNCHANGED <<mpc, result>> /\ pc[n] = "new"
    BY <1>1 DEF Start
  <2>3. o = "photo" => p \in Photos
    BY <2>1 DEF BackendTypes
  <2> QED
    BY <2>1, <2>2, <2>3 DEF Goto
<1>2. ASSUME NEW n \in Requests, CreateLogin(n)
      PROVE  Paths'
  BY <1>2 DEF CreateLogin, Goto, Fault
<1>3. ASSUME NEW n \in Requests, CreateProfile(n)
      PROVE  Paths'
  <2>1. PathOf(n)'
    BY <1>3 DEF CreateProfile, Goto
  <2>2. ASSUME NEW m \in Requests, m # n
        PROVE  PathOf(m)'
    <3>1. pc'[m] = pc[m] /\ op'[m] = op[m] /\ mpc'[m] = mpc[m] /\ path'[m] = path[m]
      BY <1>3, <2>2 DEF CreateProfile, Goto
    <3>2. PathOf(m)
      OBVIOUS
    <3> QED
      BY <3>1, <3>2
  <2> QED
    BY <2>1, <2>2
<1>4. ASSUME NEW n \in Requests, Undo(n)
      PROVE  Paths'
  BY <1>4 DEF Undo, Goto, Fault
<1>5. ASSUME NEW n \in Requests, ReadStudent(n)
      PROVE  Paths'
  <2>1. PathOf(n)'
    BY <1>5 DEF ReadStudent, Goto, ToEnrol
  <2>2. ASSUME NEW m \in Requests, m # n
        PROVE  PathOf(m)'
    <3>1. pc'[m] = pc[m] /\ op'[m] = op[m] /\ mpc'[m] = mpc[m] /\ path'[m] = path[m]
      BY <1>5, <2>2 DEF ReadStudent, Goto, ToEnrol
    <3>2. PathOf(m)
      OBVIOUS
    <3> QED
      BY <3>1, <3>2
  <2> QED
    BY <2>1, <2>2
<1>6. ASSUME NEW n \in Requests, Attach(n)
      PROVE  Paths'
  BY <1>6 DEF Attach, Goto, Fault
<1>7. ASSUME NEW n \in Requests, Clean(n)
      PROVE  Paths'
  BY <1>7 DEF Clean, Goto, Fault
<1>8. ASSUME NEW n \in Requests, Enrol(n)
      PROVE  Paths'
  BY <1>8 DEF Enrol, Call, Goto, Fault
<1>9. ASSUME NEW n \in Requests, Erase(n)
      PROVE  Paths'
  BY <1>9 DEF Erase, Call, Goto, Fault
<1>10. ASSUME NEW n \in Requests, Answered(n)
      PROVE  Paths'
  BY <1>10 DEF Answered, Goto, AfterCall
<1>11. ASSUME NEW n \in Requests, TimeOut(n)
      PROVE  Paths'
  BY <1>11 DEF TimeOut, Goto, Calling
<1>12. ASSUME NEW n \in Requests, SetStatus(n)
      PROVE  Paths'
  BY <1>12 DEF SetStatus, Goto, Fault
<1>13. ASSUME NEW n \in Requests, Reply(n)
      PROVE  Paths'
  BY <1>13 DEF Reply, Goto, Fault
<1>14. ASSUME NEW n \in Requests, Reap(n)
      PROVE  Paths'
  BY <1>14 DEF Reap, Goto
<1>15. ASSUME NEW n \in Requests, DropObject(n)
      PROVE  Paths'
  BY <1>15 DEF DropObject, Goto, Fault
<1>16. ASSUME NEW n \in Requests, DeleteRows(n)
      PROVE  Paths'
  BY <1>16 DEF DeleteRows, Goto, Fault
<1>17. ASSUME NEW n \in Requests, Crash(n)
      PROVE  Paths'
  BY <1>17 DEF Crash, Goto, Fault, Active
<1>18. ASSUME NEW n \in Requests, CallFails(n)
      PROVE  Paths'
  BY <1>18 DEF CallFails, Fault, Answer, MGoto, Calling
<1>19. ASSUME NEW n \in Requests, WipeRefs(n)
      PROVE  Paths'
  BY <1>19 DEF WipeRefs, MGoto, MFrame
<1>20. ASSUME NEW n \in Requests, StoreRefs(n)
      PROVE  Paths'
  BY <1>20 DEF StoreRefs, MGoto, MFrame
<1>21. ASSUME NEW n \in Requests, ListRefs(n)
      PROVE  Paths'
  BY <1>21 DEF ListRefs, MGoto, MFrame
<1>22. ASSUME NEW n \in Requests, Embed(n)
      PROVE  Paths'
  BY <1>22 DEF Embed, MGoto, Answer, MFrame
<1>23. ASSUME NEW n \in Requests, Upsert(n)
      PROVE  Paths'
  BY <1>23 DEF Upsert, Answer, MGoto, MFrame,
     SaveBreaks, LoadFails, IFrame, Fault
<1>24. ASSUME NEW n \in Requests, EraseIndex(n)
      PROVE  Paths'
  BY <1>24 DEF EraseIndex, MGoto, MFrame,
     SaveBreaks, LoadFails, IFrame, Fault, Answer
<1>25. ASSUME NEW n \in Requests, EraseRefs(n)
      PROVE  Paths'
  BY <1>25 DEF EraseRefs, MGoto, MFrame
<1>26. ASSUME NEW n \in Requests, EraseMatches(n)
      PROVE  Paths'
  BY <1>26 DEF EraseMatches, MGoto, MFrame
<1>27. ASSUME NEW n \in Requests, EraseCandidates(n)
      PROVE  Paths'
  BY <1>27 DEF EraseCandidates, Answer, MGoto, MFrame
<1>28. CASE Recognise \/ SaveMatch \/ SaveDetections \/ JobFails \/ UNCHANGED vars
  BY <1>28 DEF Recognise, SFrame, Active, SaveMatch, SaveDetections, JobFails,
     vars, requestVars
<1> QED
  BY <1>1, <1>2, <1>3, <1>4, <1>5, <1>6, <1>7, <1>8, <1>9, <1>10, <1>11,
     <1>12, <1>13, <1>14, <1>15, <1>16, <1>17, <1>18, <1>19, <1>20, <1>21,
     <1>22, <1>23, <1>24, <1>25, <1>26, <1>27, <1>28 DEF Next, RequestStep,
     CallStep

\* Types and places are an invariant together.
LEMMA PlacesKept ==
  ASSUME TypeOK, Places, [Next]_vars
  PROVE  TypeOK' /\ Places'
  BY BackendTyped, RequestsTyped, MLTyped, HistoryTyped, BoundsTyped,
     CallsStep, KindsStep, PathsStep, TypesShape
  DEF TypeOK, Places

\* Every variable keeps its type.
THEOREM TypeCorrect == Spec => []TypeOK
<1>1. TypeOK /\ Places /\ [Next]_vars => (TypeOK /\ Places)'
  BY PlacesKept
<1> QED
  BY <1>1, PlacesInit, PTL DEF Spec

-----------------------------------------------------------------------------
\* An upsert has embeddings to store, and a status of enrolled, written or on
\* its way, stands for embeddings stored.
Upserts == \A n \in Requests : mpc[n] = "upsert" => have[n] # {}
Findable ==
  /\ ~ Deleting
  /\ status = "enrolled" \/ \E n \in Requests : result[n] = "stored"
  => face # {}

\* No upsert of nothing.
LEMMA UpsertsStep ==
  ASSUME Shaped, Upserts, [Next]_vars
  PROVE  Upserts'
<1> USE StudentAssumption DEF Upserts, Shaped, backend, ml, backendVars,
   mlVars, indexVars, historyVars, boundVars
<1>1. ASSUME NEW n \in Requests, Enrol(n)
      PROVE  Upserts'
  BY <1>1 DEF Enrol, Call, Goto, Fault
<1>2. ASSUME NEW n \in Requests, Erase(n)
      PROVE  Upserts'
  BY <1>2 DEF Erase, Call, Goto, Fault
<1>3. ASSUME NEW n \in Requests, CallFails(n)
      PROVE  Upserts'
  BY <1>3 DEF CallFails, Fault, Answer, MGoto, Calling
<1>4. ASSUME NEW n \in Requests, WipeRefs(n)
      PROVE  Upserts'
  BY <1>4 DEF WipeRefs, MGoto, MFrame
<1>5. ASSUME NEW n \in Requests, StoreRefs(n)
      PROVE  Upserts'
  BY <1>5 DEF StoreRefs, MGoto, MFrame
<1>6. ASSUME NEW n \in Requests, ListRefs(n)
      PROVE  Upserts'
  BY <1>6 DEF ListRefs, MGoto, MFrame
<1>7. ASSUME NEW n \in Requests, Embed(n)
      PROVE  Upserts'
  BY <1>7 DEF Embed, MGoto, Answer, MFrame
<1>8. ASSUME NEW n \in Requests, Upsert(n)
      PROVE  Upserts'
  BY <1>8 DEF Upsert, Answer, MGoto, MFrame,
     SaveBreaks, LoadFails, IFrame, Fault
<1>9. ASSUME NEW n \in Requests, EraseIndex(n)
      PROVE  Upserts'
  BY <1>9 DEF EraseIndex, MGoto, MFrame,
     SaveBreaks, LoadFails, IFrame, Fault, Answer
<1>10. ASSUME NEW n \in Requests, EraseRefs(n)
      PROVE  Upserts'
  BY <1>10 DEF EraseRefs, MGoto, MFrame
<1>11. ASSUME NEW n \in Requests, EraseMatches(n)
      PROVE  Upserts'
  BY <1>11 DEF EraseMatches, MGoto, MFrame
<1>12. ASSUME NEW n \in Requests, EraseCandidates(n)
      PROVE  Upserts'
  BY <1>12 DEF EraseCandidates, Answer, MGoto, MFrame
<1>13. ASSUME NEW n \in Requests,
             Start(n) \/ CreateLogin(n) \/ CreateProfile(n) \/ Undo(n) \/
                ReadStudent(n) \/ Attach(n) \/ Clean(n) \/ Answered(n) \/
                TimeOut(n) \/ SetStatus(n) \/ Reply(n) \/ Reap(n) \/
                DropObject(n) \/ DeleteRows(n) \/ Crash(n)
      PROVE  Upserts'
  BY <1>13 DEF Start, Goto, Active, UnderWay, Calling, Busy, CreateLogin,
     Fault, CreateProfile, Undo, ReadStudent, ToEnrol, Attach, Clean,
     Answered, AfterCall, TimeOut, SetStatus, Reply, Reap, DropObject,
     DeleteRows, Crash
<1>14. CASE Recognise \/ SaveMatch \/ SaveDetections \/ JobFails \/ UNCHANGED vars
  BY <1>14 DEF Recognise, SFrame, Active, SaveMatch, SaveDetections, JobFails,
     vars, requestVars
<1> QED
  BY <1>1, <1>2, <1>3, <1>4, <1>5, <1>6, <1>7, <1>8, <1>9, <1>10, <1>11,
     <1>12, <1>13, <1>14 DEF Next, RequestStep, CallStep

\* No step takes the embeddings from under a status.
LEMMA FindableStep ==
  ASSUME Shaped, Kinds, Calls, Upserts, Findable, [Next]_vars
  PROVE  Findable'
<1> USE StudentAssumption DEF Findable, Upserts, Deleting, Shaped, Kinds,
   KindsOf, DeletePlaces, Calls, CallOf, BeforeCall, backend, ml, backendVars,
   mlVars, indexVars, historyVars, boundVars
<1>1. ASSUME NEW n \in Requests, Start(n)
      PROVE  Findable'
  <2>1. UNCHANGED <<status, result, face>> /\ pc[n] = "new"
    BY <1>1 DEF Start
  <2>2. PICK o \in {"create", "photo", "enrol", "delete"} : op' = [op EXCEPT ![n] = o]
    BY <1>1, Zenon DEF Start
  <2>3. Deleting => Deleting'
    BY <2>1, <2>2
  <2> QED
    BY <2>1, <2>3
<1>2. ASSUME NEW n \in Requests, CreateProfile(n)
      PROVE  Findable'
  BY <1>2 DEF CreateProfile, Goto
<1>3. ASSUME NEW n \in Requests, Enrol(n)
      PROVE  Findable'
  BY <1>3 DEF Enrol, Call, Goto, Fault
<1>4. ASSUME NEW n \in Requests, Erase(n)
      PROVE  Findable'
  BY <1>4 DEF Erase, Call, Goto, Fault
<1>5. ASSUME NEW n \in Requests, TimeOut(n)
      PROVE  Findable'
  BY <1>5 DEF TimeOut, Goto, Calling
<1>6. ASSUME NEW n \in Requests, SetStatus(n)
      PROVE  Findable'
  BY <1>6 DEF SetStatus, Goto, Fault
<1>7. ASSUME NEW n \in Requests, CallFails(n)
      PROVE  Findable'
  BY <1>7 DEF CallFails, Fault, Answer, MGoto, Calling
<1>8. ASSUME NEW n \in Requests, Embed(n)
      PROVE  Findable'
  BY <1>8 DEF Embed, MGoto, Answer, MFrame
<1>9. ASSUME NEW n \in Requests, Upsert(n)
      PROVE  Findable'
  BY <1>9 DEF Upsert, Answer, MGoto, MFrame,
     SaveBreaks, LoadFails, IFrame, Fault
<1>10. ASSUME NEW n \in Requests, EraseIndex(n)
      PROVE  Findable'
  BY <1>10 DEF EraseIndex, MGoto, MFrame,
     SaveBreaks, LoadFails, IFrame, Fault, Answer
<1>11. ASSUME NEW n \in Requests, EraseCandidates(n)
      PROVE  Findable'
  BY <1>11 DEF EraseCandidates, Answer, MGoto, MFrame
<1>12. ASSUME NEW n \in Requests,
             CreateLogin(n) \/ Undo(n) \/ ReadStudent(n) \/ Attach(n) \/
                Clean(n) \/ Answered(n) \/ Reply(n) \/ Reap(n) \/
                DropObject(n) \/ DeleteRows(n) \/ Crash(n) \/ WipeRefs(n) \/
                StoreRefs(n) \/ ListRefs(n) \/ EraseRefs(n) \/ EraseMatches(n)
      PROVE  Findable'
  BY <1>12 DEF CreateLogin, Goto, Fault, Undo, ReadStudent, ToEnrol, Attach,
     Clean, Answered, AfterCall, Reply, Reap, DropObject, DeleteRows, Crash,
     Active, WipeRefs, MGoto, MFrame, StoreRefs, ListRefs, EraseRefs,
     EraseMatches
<1>13. CASE Recognise \/ SaveMatch \/ SaveDetections \/ JobFails \/ UNCHANGED vars
  BY <1>13 DEF Recognise, SFrame, Active, SaveMatch, SaveDetections, JobFails,
     vars, requestVars
<1> QED
  BY <1>1, <1>2, <1>3, <1>4, <1>5, <1>6, <1>7, <1>8, <1>9, <1>10, <1>11,
     <1>12, <1>13 DEF Next, RequestStep, CallStep

\* A student shown as enrolled can be found, whichever requests and calls
\* interleave, until a delete is asked for.
THEOREM EnrolledAreFindable == Spec => []EnrolledHaveFaces
<1> DEFINE Inv == TypeOK /\ Places /\ Upserts /\ Findable
<1>1. Init => Inv
  BY PlacesInit DEF Init, Upserts, Findable
<1>2. Inv /\ [Next]_vars => Inv'
  BY PlacesKept, UpsertsStep, FindableStep, TypesShape DEF TypeOK, Places
<1>3. Inv => EnrolledHaveFaces
  BY DEF Findable, EnrolledHaveFaces
<1> QED
  BY <1>1, <1>2, <1>3, PTL DEF Spec

-----------------------------------------------------------------------------
\* A delete that nothing has overlapped.
Alone(n) == Active(n) /\ op[n] = "delete" /\ ~ beside[n]

NobodyBeside(n) ==
  spc = "idle" /\ \A m \in Requests \ {n} : ~ Active(m) /\ ~ Calling(m)

Empty == refs = {} /\ face = {} /\ ~ matches /\ ~ candidates

\* What a delete has erased by now.
ErasedSoFar(n) ==
  /\ mpc[n] \in {"refs", "matches", "candidates"} => face = {}
  /\ mpc[n] \in {"matches", "candidates"} => refs = {}
  /\ mpc[n] = "candidates" => ~ matches
  /\ result[n] = "ok" \/ pc[n] \in {"drop", "rows"} => Empty

Undisturbed == \A n \in Requests : Alone(n) => NobodyBeside(n) /\ ErasedSoFar(n)

\* Only a rewrite that broke off leaves a cache current that should not be.
Unbroken      == "save" \notin marks
StaleByBreaks == Unbroken => ~ stale

\* Once such a delete has answered nothing is left, and nothing under way
\* brings anything back: later requests find no student, and no worker does
\* without a cache that a broken rewrite left current.
StaysErased ==
  erased = "alone" =>
    /\ refs = {} /\ face = {} /\ profile = "gone"
    /\ \A n \in Requests : ~ Calling(n) /\ pc[n] \in {"new", "read", "reap", "done"}
    /\ Unbroken => ~ matches /\ ~ candidates /\ spc = "idle"

\* A step of a request or its call leaves the other requests alone.
LEMMA OthersUntouched ==
  ASSUME NEW n \in Requests, Shaped,
         RequestStep(n) \/ CallStep(n), ~ Start(n)
  PROVE  /\ Active(n) \/ Calling(n)
         /\ Active(n)' => Active(n)
         /\ op' = op /\ beside' = beside /\ spc' = spc
         /\ \A m \in Requests \ {n} :
              /\ Active(m)' = Active(m) /\ Calling(m)' = Calling(m)
              /\ pc'[m] = pc[m] /\ mpc'[m] = mpc[m] /\ result'[m] = result[m]
<1> USE StudentAssumption DEF Shaped, Active, Calling, backend, ml,
   backendVars, mlVars, indexVars, historyVars, boundVars
<1>1. CASE CreateLogin(n) \/ CreateProfile(n) \/ Undo(n) \/ ReadStudent(n) \/
   Attach(n)
  BY <1>1 DEF CreateLogin, Goto, Fault, CreateProfile, Undo, ReadStudent,
     ToEnrol, Attach
<1>2. CASE Clean(n) \/ Enrol(n) \/ Erase(n) \/ Answered(n) \/ TimeOut(n)
  BY <1>2 DEF Clean, Goto, Fault, Enrol, Call, Erase, Answered, AfterCall,
     TimeOut, Calling
<1>3. CASE SetStatus(n) \/ Reply(n) \/ Reap(n) \/ DropObject(n) \/
   DeleteRows(n) \/ Crash(n)
  BY <1>3 DEF SetStatus, Goto, Fault, Reply, Reap, DropObject, DeleteRows,
     Crash, Active
<1>4. CASE CallFails(n) \/ WipeRefs(n) \/ StoreRefs(n) \/ ListRefs(n) \/
   Embed(n)
  BY <1>4 DEF CallFails, Fault, Answer, MGoto, Calling, WipeRefs, MFrame,
     StoreRefs, ListRefs, Embed
<1>5. CASE Upsert(n) \/ EraseIndex(n) \/ EraseRefs(n) \/ EraseMatches(n) \/
   EraseCandidates(n)
  BY <1>5 DEF Upsert, Answer, MGoto, MFrame, EraseIndex, EraseRefs,
     EraseMatches, EraseCandidates,
     SaveBreaks, LoadFails, IFrame, Fault
<1> QED
  BY <1>1, <1>2, <1>3, <1>4, <1>5 DEF RequestStep, CallStep

\* A delete erases the stores one by one, and answers when all are empty.
LEMMA ErasesOn ==
  ASSUME NEW n \in Requests, Shaped, Kinds, Calls,
         op[n] = "delete", ErasedSoFar(n),
         RequestStep(n) \/ CallStep(n), ~ Start(n)
  PROVE  ErasedSoFar(n)'
<1> USE StudentAssumption DEF Shaped, Kinds, KindsOf, Calls, CallOf,
   EnrolPlaces, DeletePlaces, BeforeCall, ErasedSoFar, Empty, backend, ml,
   backendVars, mlVars, indexVars, historyVars, boundVars
<1>1. CASE CreateLogin(n)
  BY <1>1 DEF CreateLogin, Goto, Fault
<1>2. CASE CreateProfile(n)
  BY <1>2 DEF CreateProfile, Goto
<1>3. CASE Undo(n)
  BY <1>3 DEF Undo, Goto, Fault
<1>4. CASE ReadStudent(n)
  BY <1>4 DEF ReadStudent, Goto, ToEnrol
<1>5. CASE Attach(n)
  BY <1>5 DEF Attach, Goto, Fault
<1>6. CASE Clean(n)
  BY <1>6 DEF Clean, Goto, Fault
<1>7. CASE Enrol(n)
  BY <1>7 DEF Enrol, Call, Goto, Fault
<1>8. CASE Erase(n)
  BY <1>8 DEF Erase, Call, Goto, Fault
<1>9. CASE Answered(n)
  BY <1>9 DEF Answered, Goto, AfterCall
<1>10. CASE TimeOut(n)
  BY <1>10 DEF TimeOut, Goto, Calling
<1>11. CASE SetStatus(n)
  BY <1>11 DEF SetStatus, Goto, Fault
<1>12. CASE Reply(n)
  BY <1>12 DEF Reply, Goto, Fault
<1>13. CASE Reap(n)
  BY <1>13 DEF Reap, Goto
<1>14. CASE DropObject(n)
  BY <1>14 DEF DropObject, Goto, Fault
<1>15. CASE DeleteRows(n)
  BY <1>15 DEF DeleteRows, Goto, Fault
<1>16. CASE Crash(n)
  BY <1>16 DEF Crash, Goto, Fault, Active
<1>17. CASE CallFails(n)
  BY <1>17 DEF CallFails, Fault, Answer, MGoto, Calling
<1>18. CASE WipeRefs(n)
  BY <1>18 DEF WipeRefs, MGoto, MFrame
<1>19. CASE StoreRefs(n)
  BY <1>19 DEF StoreRefs, MGoto, MFrame
<1>20. CASE ListRefs(n)
  BY <1>20 DEF ListRefs, MGoto, MFrame
<1>21. CASE Embed(n)
  BY <1>21 DEF Embed, MGoto, Answer, MFrame
<1>22. CASE Upsert(n)
  BY <1>22 DEF Upsert, Answer, MGoto, MFrame,
     SaveBreaks, LoadFails, IFrame, Fault
<1>23. CASE EraseIndex(n)
  BY <1>23 DEF EraseIndex, MGoto, MFrame,
     SaveBreaks, LoadFails, IFrame, Fault, Answer
<1>24. CASE EraseRefs(n)
  BY <1>24 DEF EraseRefs, MGoto, MFrame
<1>25. CASE EraseMatches(n)
  BY <1>25 DEF EraseMatches, MGoto, MFrame
<1>26. CASE EraseCandidates(n)
  BY <1>26 DEF EraseCandidates, Answer, MGoto, MFrame
<1> QED
  BY <1>1, <1>2, <1>3, <1>4, <1>5, <1>6, <1>7, <1>8, <1>9, <1>10, <1>11,
     <1>12, <1>13, <1>14, <1>15, <1>16, <1>17, <1>18, <1>19, <1>20, <1>21,
     <1>22, <1>23, <1>24, <1>25, <1>26 DEF RequestStep, CallStep

\* A delete that nothing has overlapped goes on undisturbed.
LEMMA UndisturbedStep ==
  ASSUME TypeOK, Kinds, Calls, Undisturbed, [Next]_vars
  PROVE  Undisturbed'
<1> SUFFICES ASSUME NEW k \in Requests, Alone(k)'
             PROVE  (NobodyBeside(k) /\ ErasedSoFar(k))'
  BY DEF Undisturbed
<1> USE DEF TypeOK
<1>1. ASSUME NEW n \in Requests, Start(n)
      PROVE  (NobodyBeside(k) /\ ErasedSoFar(k))'
  <2>1. PICK o \in {"create", "photo", "enrol", "delete"} :
          /\ op' = [op EXCEPT ![n] = o]
          /\ Goto(n, IF o = "create" THEN "login" ELSE "read")
    BY <1>1, Zenon DEF Start
  <2>2. /\ pc[n] = "new" /\ UNCHANGED <<mpc, result, spc, mlVars>>
        /\ beside' = [m \in Requests |->
                        /\ op'[m] = "delete"
                        /\ IF m = n THEN Busy \/ spc # "idle" ELSE beside[m] \/ Active(m)]
    BY <1>1 DEF Start
  <2>3. op'[k] = "delete" /\ ~ beside'[k] /\ Active(k)'
    BY DEF Alone
  <2>4. k = n
    <3>1. ASSUME k # n PROVE FALSE
      <4>1. Active(k)
        BY <2>1, <2>3, <3>1 DEF Active, Goto, RequestTypes
      <4> QED
        BY <2>2, <2>3, <3>1, <4>1
    <3> QED
      BY <3>1
  <2>5. ~ Busy /\ spc = "idle"
    BY <2>2, <2>3, <2>4
  <2>6. NobodyBeside(k)'
    BY <2>1, <2>2, <2>4, <2>5
    DEF NobodyBeside, Busy, UnderWay, Active, Calling, Goto, RequestTypes
  <2>7. mpc[n] = "none" /\ result[n] = "none"
    BY <2>2 DEF Calls, CallOf, BeforeCall
  <2>8. pc'[k] = "read" \/ pc'[k] = "login"
    BY <2>1, <2>4 DEF Goto, RequestTypes
  <2>9. ErasedSoFar(k)'
    BY <2>2, <2>4, <2>7, <2>8 DEF ErasedSoFar
  <2> QED
    BY <2>6, <2>9
<1>2. ASSUME NEW n \in Requests, RequestStep(n) \/ CallStep(n), ~ Start(n)
      PROVE  (NobodyBeside(k) /\ ErasedSoFar(k))'
  <2>1. /\ Active(n) \/ Calling(n)
        /\ Active(n)' => Active(n)
        /\ op' = op /\ beside' = beside /\ spc' = spc
        /\ \A m \in Requests \ {n} : Active(m)' = Active(m) /\ Calling(m)' = Calling(m)
    BY <1>2, OthersUntouched, TypesShape
  <2>2. Alone(k)
    BY <2>1 DEF Alone
  <2>3. NobodyBeside(k) /\ ErasedSoFar(k)
    BY <2>2 DEF Undisturbed
  <2>4. k = n
    BY <2>1, <2>3 DEF NobodyBeside
  <2>5. NobodyBeside(k)'
    BY <2>1, <2>3, <2>4 DEF NobodyBeside
  <2>6. ErasedSoFar(k)'
    BY <1>2, <2>2, <2>3, <2>4, ErasesOn, TypesShape DEF Alone
  <2> QED
    BY <2>5, <2>6
<1>3. ~ Recognise
  BY DEF Recognise, Alone, SFrame, backend, Active
<1>4. ASSUME SaveMatch \/ SaveDetections \/ JobFails \/ UNCHANGED vars
      PROVE  (NobodyBeside(k) /\ ErasedSoFar(k))'
  <2>1. UNCHANGED <<pc, op, beside, mpc, result>>
    BY <1>4 DEF SaveMatch, SaveDetections, JobFails, SFrame, vars, requestVars,
       historyVars, backend
  <2>2. Alone(k)
    BY <2>1 DEF Alone, Active
  <2>3. NobodyBeside(k) /\ ErasedSoFar(k)
    BY <2>2 DEF Undisturbed
  <2>4. UNCHANGED <<spc, mlVars>>
    BY <1>4, <2>3 DEF NobodyBeside, SaveMatch, SaveDetections, JobFails, vars
  <2> QED
    BY <2>1, <2>3, <2>4 DEF NobodyBeside, ErasedSoFar, Empty, Active, Calling, mlVars, indexVars
<1> QED
  BY <1>1, <1>2, <1>3, <1>4 DEF Next

\* Nothing but a delete's last step says that a student is erased.
LEMMA OnlyDeletesErase ==
  ASSUME NEW n \in Requests, ~ DeleteRows(n),
         RequestStep(n) \/ CallStep(n), ~ Start(n)
  PROVE  erased' = erased
<1> USE StudentAssumption DEF historyVars, backend, ml, backendVars, mlVars, indexVars,
   historyVars, boundVars
<1>1. CASE CreateLogin(n) \/ CreateProfile(n) \/ Undo(n) \/ ReadStudent(n) \/
   Attach(n) \/ Clean(n) \/ Enrol(n) \/ Erase(n)
  BY <1>1 DEF CreateLogin, Goto, Fault, CreateProfile, Undo, ReadStudent,
     ToEnrol, Attach, Clean, Enrol, Call, Erase
<1>2. CASE Answered(n) \/ TimeOut(n) \/ SetStatus(n) \/ Reply(n) \/ Reap(n) \/
   DropObject(n) \/ Crash(n) \/ CallFails(n) \/ WipeRefs(n)
  BY <1>2 DEF Answered, Goto, AfterCall, TimeOut, Calling, SetStatus, Fault,
     Reply, Reap, DropObject, Crash, Active, CallFails, Answer, MGoto,
     WipeRefs, MFrame
<1>3. CASE StoreRefs(n) \/ ListRefs(n) \/ Embed(n) \/ Upsert(n) \/
   EraseIndex(n) \/ EraseRefs(n) \/ EraseMatches(n) \/ EraseCandidates(n)
  BY <1>3 DEF StoreRefs, MGoto, MFrame, ListRefs, Embed, Answer, Upsert,
     EraseIndex, EraseRefs, EraseMatches, EraseCandidates,
     SaveBreaks, LoadFails, IFrame, Fault
<1> QED
  BY <1>1, <1>2, <1>3 DEF RequestStep, CallStep

\* What was marked stays marked, and only a broken rewrite leaves a cache behind.
LEMMA StaleStep ==
  ASSUME StaleByBreaks, [Next]_vars
  PROVE  StaleByBreaks' /\ (Unbroken' => Unbroken)
<1> USE DEF StaleByBreaks, Unbroken, historyVars, boundVars, backend, ml,
   mlVars, indexVars
<1>1. ASSUME NEW n \in Requests, Upsert(n) \/ EraseIndex(n)
      PROVE  StaleByBreaks' /\ (Unbroken' => Unbroken)
  <2>1. \/ marks' = marks /\ (stale' => stale)
        \/ marks' = marks \cup {"save"}
    BY <1>1, Zenon DEF Upsert, EraseIndex, SaveBreaks, LoadFails
  <2>2. CASE marks' = marks /\ (stale' => stale)
    BY <2>2
  <2>3. CASE marks' = marks \cup {"save"}
    BY <2>3
  <2> QED
    BY <2>1, <2>2, <2>3, Zenon
<1>2. ASSUME NEW n \in Requests, RequestStep(n)
      PROVE  stale' = stale /\ marks \subseteq marks'
  BY <1>2 DEF RequestStep, Start, CreateLogin, CreateProfile, Undo,
     ReadStudent, Attach, Clean, Enrol, Erase, Call, Answered, TimeOut,
     SetStatus, Reply, Reap, DropObject, DeleteRows, Crash
<1>3. ASSUME NEW n \in Requests, CallStep(n), ~ Upsert(n), ~ EraseIndex(n)
      PROVE  stale' = stale /\ marks' = marks
  BY <1>3 DEF CallStep, CallFails, WipeRefs, StoreRefs, ListRefs, Embed,
     EraseRefs, EraseMatches, EraseCandidates, MFrame
<1>4. ASSUME Recognise \/ SaveMatch \/ SaveDetections \/ JobFails \/ UNCHANGED vars
      PROVE  stale' = stale /\ marks' = marks
  BY <1>4 DEF Recognise, SaveMatch, SaveDetections, JobFails, SFrame, vars
<1> QED
  BY <1>1, <1>2, <1>3, <1>4 DEF Next

\* What begins after the erasure finds no student.
LEMMA NothingComesBack ==
  ASSUME NEW n \in Requests, Shaped, erased = "alone",
         StaysErased, ~ DeleteRows(n),
         RequestStep(n) \/ CallStep(n), ~ Start(n)
  PROVE  StaysErased'
<1> USE StudentAssumption DEF StaysErased, Unbroken, Calling, Shaped, backend,
   ml, backendVars, mlVars, indexVars, historyVars, boundVars
<1>1. CASE ReadStudent(n)
  BY <1>1 DEF ReadStudent, Goto, ToEnrol
<1>2. CASE Reap(n)
  BY <1>2 DEF Reap, Goto
<1>3. CASE Crash(n)
  BY <1>3 DEF Crash, Goto, Fault, Active
<1>4. CASE CreateLogin(n) \/ CreateProfile(n) \/ Undo(n) \/ Attach(n) \/
   Clean(n) \/ Enrol(n) \/ Erase(n) \/ Answered(n) \/ TimeOut(n) \/
   SetStatus(n) \/ Reply(n) \/ DropObject(n) \/ CallFails(n)
  BY <1>4 DEF CreateLogin, Goto, Fault, CreateProfile, Undo, Attach, Clean,
     Enrol, Call, Erase, Answered, AfterCall, TimeOut, Calling, SetStatus,
     Reply, DropObject, CallFails, Answer, MGoto
<1>5. CASE CallFails(n) \/ WipeRefs(n) \/ StoreRefs(n) \/ ListRefs(n) \/
   Embed(n) \/ Upsert(n) \/ EraseIndex(n) \/ EraseRefs(n) \/ EraseMatches(n)
   \/ EraseCandidates(n)
  BY <1>5 DEF CallFails, Fault, Answer, MGoto, Calling, WipeRefs, MFrame,
     StoreRefs, ListRefs, Embed, Upsert, EraseIndex, EraseRefs, EraseMatches,
     EraseCandidates,
     SaveBreaks, LoadFails, IFrame
<1> QED
  BY <1>1, <1>2, <1>3, <1>4, <1>5 DEF RequestStep, CallStep

\* An erasure stays complete.
LEMMA StaysErasedStep ==
  ASSUME TypeOK, Kinds, Calls, Undisturbed, StaleByBreaks, StaysErased,
         [Next]_vars
  PROVE  StaysErased'
<1> USE DEF TypeOK
<1>1. ASSUME NEW n \in Requests, Start(n)
      PROVE  StaysErased'
  <2>1. PICK o \in {"create", "photo", "enrol", "delete"} :
          /\ o = "create" => profile = "none"
          /\ Goto(n, IF o = "create" THEN "login" ELSE "read")
    BY <1>1, Zenon DEF Start
  <2>2. UNCHANGED <<mpc, spc, mlVars, marks, profile, erased>>
    BY <1>1 DEF Start, backendVars
  <2> QED
    BY <2>1, <2>2
    DEF StaysErased, Unbroken, Calling, Goto, RequestTypes, mlVars, indexVars
<1>2. ASSUME NEW n \in Requests, DeleteRows(n), erased' = "alone"
      PROVE  StaysErased'
  <2>1. /\ pc[n] = "rows" /\ pc' = [pc EXCEPT ![n] = "done"]
        /\ UNCHANGED <<mlVars, mpc, spc, marks>>
        /\ \/ profile' = "gone" /\ ~ beside[n]
           \/ UNCHANGED <<profile, erased>>
    BY <1>2 DEF DeleteRows, Goto, ml
  <2>2. CASE UNCHANGED <<profile, erased>>
    <3>1. erased = "alone"
      BY <1>2, <2>2
    <3>2. pc[n] \in {"new", "read", "reap", "done"}
      BY <3>1 DEF StaysErased
    <3> QED
      BY <2>1, <3>2
  <2>3. CASE profile' = "gone" /\ ~ beside[n]
    <3>1. op[n] = "delete" /\ Active(n) /\ mpc[n] \in {"none", "done"}
      BY <2>1 DEF Kinds, KindsOf, Calls, CallOf, Active
    <3>2. NobodyBeside(n) /\ Empty
      BY <2>1, <2>3, <3>1 DEF Undisturbed, Alone, ErasedSoFar
    <3> QED
      BY <2>1, <2>3, <3>1, <3>2
      DEF StaysErased, Unbroken, NobodyBeside, Empty, Active, Calling,
          RequestTypes, mlVars, indexVars
  <2> QED
    BY <2>1, <2>2, <2>3
<1>3. ASSUME NEW n \in Requests, RequestStep(n) \/ CallStep(n), ~ Start(n),
             ~ DeleteRows(n)
      PROVE  StaysErased'
  <2>1. CASE erased = "alone"
    BY <1>3, <2>1, NothingComesBack, TypesShape
  <2>2. CASE erased # "alone"
    BY <1>3, <2>2, OnlyDeletesErase DEF StaysErased
  <2> QED
    BY <2>1, <2>2
<1>4. ASSUME Recognise \/ SaveMatch \/ SaveDetections \/ JobFails \/ UNCHANGED vars
      PROVE  StaysErased'
  <2>1. UNCHANGED <<pc, mpc, refs, face, profile, marks, erased>>
    BY <1>4 DEF Recognise, SaveMatch, SaveDetections, JobFails, SFrame, vars,
       backend, backendVars, mlVars, indexVars, historyVars, requestVars
  <2>2. ASSUME erased = "alone", Unbroken
        PROVE  UNCHANGED <<matches, candidates, spc>>
    <3>1. ~ stale /\ face = {} /\ spc = "idle"
      BY <2>2 DEF StaleByBreaks, StaysErased
    <3> QED
      BY <1>4, <3>1 DEF Recognise, SaveMatch, SaveDetections, JobFails, vars, mlVars
  <2> QED
    BY <2>1, <2>2 DEF StaysErased, Unbroken, Calling
<1>5. erased' # "alone" => StaysErased'
  BY DEF StaysErased
<1> QED
  BY <1>1, <1>2, <1>3, <1>4, <1>5 DEF Next

\* A delete that answered, alone, leaves no URI and no embedding, whatever
\* failed before it, and no match or candidate unless a rewrite of the index
\* broke off; and nothing comes back later.
THEOREM ErasureCompletes == Spec => []ErasureIsComplete
<1> DEFINE Inv == TypeOK /\ Places /\ Undisturbed /\ StaleByBreaks /\ StaysErased
<1>1. Init => Inv
  <2>1. Init => Undisturbed
    BY DEF Init, Undisturbed, Alone, Active
  <2>2. Init => StaysErased /\ StaleByBreaks
    BY DEF Init, StaysErased, StaleByBreaks
  <2> QED
    BY <2>1, <2>2, PlacesInit
<1>2. Inv /\ [Next]_vars => Inv'
  BY PlacesKept, UndisturbedStep, StaleStep, StaysErasedStep DEF Places
<1>3. Inv => ErasureIsComplete
  BY DEF StaysErased, Unbroken, ErasureIsComplete
<1> QED
  BY <1>1, <1>2, <1>3, PTL DEF Spec

-----------------------------------------------------------------------------
\* One request at a time, unless the run is mixed.

\* Requests start in the order of their numbers.
Ordered ==
  \A m, n \in Requests : m < n /\ pc[n] # "new" => pc[m] # "new"

\* Unless requests have overlapped, whatever began before the one under way
\* is over, its call included.
Sequential ==
  ~ mixed => \A m, n \in Requests :
    m # n /\ pc[m] # "new" /\ (Active(n) \/ Calling(n))
      => m < n /\ ~ Active(m) /\ ~ Calling(m)

InOrder == Ordered /\ Sequential

\* What a client asks of a student, it asks of one it has seen; the login
\* is there before the profile and goes with it or before it, and
\* a login without a profile is in a request's hands, or was left behind by
\* a failure.
Pending(n) == pc[n] \in {"profile", "undo"}

SeenFirst == \A n \in Requests : op[n] \in {"photo", "enrol", "delete"} => profile # "none"
GoneByDelete == profile = "gone" => Deleting
RowHasLogin == profile = "row" => login
PendingAlone ==
  \A n \in Requests : Pending(n) =>
    login /\ profile = "none" /\ \A m \in Requests \ {n} : ~ Pending(m)
LoginInHand ==
  login /\ profile # "row" /\ marks \cap {"login", "crash"} = {}
    => \E n \in Requests : Pending(n)

Logins == SeenFirst /\ GoneByDelete /\ RowHasLogin /\ PendingAlone /\ LoginInHand

-----------------------------------------------------------------------------
\* The photo the row names.
Distinct ==
  mixed => \A m, n \in Requests :
             m # n /\ {op[m], op[n]} \subseteq {"create", "photo"} => path[m] # path[n]

Unharmed == ~ Deleting /\ marks \cap {"lost", "crash"} = {} /\ Distinct

Uploads(n) == op[n] \in {"create", "photo"}
Posting(n) == Uploads(n) /\ pc[n] \in {"login", "profile", "read", "attach"}
Posted(n)  == Uploads(n) /\ pc[n] \in {"clean", "enrol", "wait", "status", "reply", "done"}

\* Each photo a row has named was set by a request that has come to its end or
\* goes on; what is still to be set has been uploaded; and the photo a request
\* is about to delete is no longer the row's.
Reaping == \A n \in Requests : pc[n] \in {"reply", "reap"} => op[n] = "photo"
PhotoThere == photo \in objects \cup {NoPhoto} /\ photo \in attached \cup {NoPhoto}
PostsThere == \A n \in Requests : Posting(n) => path[n] \in objects \cup {NoPhoto}
Owned == \A p \in attached : \E m \in Requests : Posted(m) /\ path[m] = p
OldOnes == \A n \in Requests : old[n] \in attached \cup {NoPhoto}
Replaced ==
  \A n \in Requests : pc[n] = "clean" => old[n] \in {path[n], NoPhoto} \/ old[n] # photo

RowPhoto == Unharmed => PhotoThere /\ PostsThere /\ Owned /\ OldOnes /\ Replaced

-----------------------------------------------------------------------------
\* The photos the row no longer names.
Tidy == ~ mixed /\ marks \cap {"photo", "crash"} = {}

Leftover ==
  \A p \in attached \cap objects :
    p = photo \/ \E n \in Requests : pc[n] = "clean" /\ old[n] = p
CleansSet == \A n \in Requests : pc[n] = "clean" => photo = path[n]
ReadIsCurrent ==
  \A n \in Requests :
    pc[n] = "attach" \/ (op[n] = "delete" /\ pc[n] \in {"erase", "wait", "drop"})
      => old[n] = photo
DroppedAll == \A n \in Requests : pc[n] = "rows" => attached \cap objects = {}
NoneBefore == profile = "none" => attached = {} /\ photo = NoPhoto

Swept == Tidy => Leftover /\ CleansSet /\ ReadIsCurrent /\ DroppedAll /\ NoneBefore

-----------------------------------------------------------------------------
\* The photo an enrolled student is found by.
Plain == ~ mixed /\ ~ Deleting /\ marks \cap {"status", "crash"} = {}

Enrolling(n) == pc[n] \in {"clean", "enrol", "wait", "status"}

FaceShown ==
  status = "enrolled" /\ (\A n \in Requests : ~ Enrolling(n))
    => face = {photo} /\ refs = {photo}
EnrolsShown == \A n \in Requests : Enrolling(n) => photo = path[n] /\ profile = "row"
CallOnPath ==
  \A n \in Requests :
    /\ mpc[n] = "store" => have[n] = refs
    /\ mpc[n] \in {"list", "embed", "upsert"} => refs = {path[n]}
    /\ mpc[n] \in {"embed", "upsert"} => have[n] = {path[n]}
StoredIsShown ==
  \A n \in Requests :
    pc[n] \in {"wait", "status"} /\ result[n] = "stored"
      => mpc[n] = "done" /\ face = {path[n]} /\ refs = {path[n]}
LateCalls == \A n \in Requests : Calling(n) /\ ~ Enrolling(n) => status # "enrolled"

Shown == Plain => FaceShown /\ EnrolsShown /\ CallOnPath /\ StoredIsShown /\ LateCalls

-----------------------------------------------------------------------------
\* What the start of a request changes.
LEMMA StartsAs ==
  ASSUME NEW n \in Requests, RequestTypes, Start(n)
  PROVE  /\ pc[n] = "new" /\ \A m \in Requests : m < n => pc[m] # "new"
         /\ pc'[n] = (IF op'[n] = "create" THEN "login" ELSE "read")
         /\ op'[n] \in {"create", "photo", "enrol", "delete"}
         /\ (IF op'[n] = "create" THEN profile = "none" /\ path'[n] \notin attached
                                  ELSE profile # "none")
         /\ path'[n] \in (Photos \ {path[m] : m \in Requests}) \cup {NoPhoto, photo}
         /\ objects' = (IF path'[n] \in attached THEN objects
                                                 ELSE objects \cup ({path'[n]} \ {NoPhoto}))
         /\ \A m \in Requests \ {n} :
              pc'[m] = pc[m] /\ op'[m] = op[m] /\ path'[m] = path[m]
         /\ mixed' = (mixed \/ Busy)
         /\ UNCHANGED <<backendVars, mlVars, old, result, mpc, have, spc, marks,
                        attached, erased>>
<1>1. PICK o \in {"create", "photo", "enrol", "delete"},
          p \in (Photos \ {path[m] : m \in Requests}) \cup {NoPhoto, photo} :
        /\ IF o = "create" THEN profile = "none" /\ p \notin attached
                           ELSE profile # "none"
        /\ op' = [op EXCEPT ![n] = o]
        /\ path' = [path EXCEPT ![n] = p]
        /\ objects' = IF p \in attached THEN objects ELSE objects \cup ({p} \ {NoPhoto})
        /\ Goto(n, IF o = "create" THEN "login" ELSE "read")
  BY Zenon DEF Start
<1>2. /\ op'[n] = o /\ path'[n] = p
      /\ pc'[n] = (IF o = "create" THEN "login" ELSE "read")
      /\ \A m \in Requests \ {n} :
           pc'[m] = pc[m] /\ op'[m] = op[m] /\ path'[m] = path[m]
  BY <1>1 DEF Goto, RequestTypes
<1>3. /\ pc[n] = "new" /\ \A m \in Requests : m < n => pc[m] # "new"
      /\ mixed' = (mixed \/ Busy)
      /\ UNCHANGED <<backendVars, mlVars, old, result, mpc, have, spc, marks,
                     attached, erased>>
  BY DEF Start
<1> QED
  BY <1>1, <1>2, <1>3

\* A step of a request or its call after the start leaves the others' locals
\* alone and forgets no failure.
LEMMA LocalsKept ==
  ASSUME NEW n \in Requests, RequestTypes, MLTypes,
         RequestStep(n) \/ CallStep(n), ~ Start(n)
  PROVE  /\ mixed' = mixed /\ marks \subseteq marks'
         /\ \A m \in Requests \ {n} :
              path'[m] = path[m] /\ old'[m] = old[m] /\ have'[m] = have[m]
         /\ pc[n] # "read" => path'[n] = path[n] /\ old'[n] = old[n]
         /\ op[n] # "enrol" => path'[n] = path[n]
<1> USE DEF RequestTypes, MLTypes, backend, ml, backendVars, mlVars, indexVars, historyVars,
   boundVars
<1>1. CASE CreateLogin(n) \/ CreateProfile(n) \/ Undo(n) \/ ReadStudent(n) \/
   Attach(n)
  BY <1>1 DEF CreateLogin, Fault, CreateProfile, Undo, ReadStudent, Attach
<1>2. CASE Clean(n) \/ Enrol(n) \/ Erase(n) \/ Answered(n) \/ TimeOut(n)
  BY <1>2 DEF Clean, Fault, Enrol, Call, Erase, Answered, TimeOut
<1>3. CASE SetStatus(n) \/ Reply(n) \/ Reap(n) \/ DropObject(n) \/
   DeleteRows(n) \/ Crash(n)
  BY <1>3 DEF SetStatus, Fault, Reply, Reap, DropObject, DeleteRows, Crash
<1>4. CASE CallFails(n) \/ WipeRefs(n) \/ StoreRefs(n) \/ ListRefs(n) \/
   Embed(n)
  BY <1>4 DEF CallFails, Fault, Answer, MGoto, WipeRefs, MFrame,
     StoreRefs, ListRefs, Embed
<1>5. CASE Upsert(n) \/ EraseIndex(n) \/ EraseRefs(n) \/ EraseMatches(n) \/
   EraseCandidates(n)
  BY <1>5 DEF Upsert, Answer, MGoto, MFrame, EraseIndex, EraseRefs,
     EraseMatches, EraseCandidates,
     SaveBreaks, LoadFails, IFrame, Fault
<1> QED
  BY <1>1, <1>2, <1>3, <1>4, <1>5 DEF RequestStep, CallStep

\* A request that has begun stays begun.
LEMMA StaysBegun ==
  ASSUME NEW n \in Requests, Shaped, Calls, RequestStep(n) \/ CallStep(n), ~ Start(n)
  PROVE  pc[n] # "new" /\ pc'[n] # "new"
<1> USE DEF Shaped, Calls, CallOf, BeforeCall, Active, Calling, backend, ml
<1>1. CASE CreateLogin(n) \/ CreateProfile(n) \/ Undo(n) \/ ReadStudent(n) \/
   Attach(n)
  BY <1>1 DEF CreateLogin, Goto, CreateProfile, Undo, ReadStudent, ToEnrol, Attach
<1>2. CASE Clean(n) \/ Enrol(n) \/ Erase(n) \/ Answered(n) \/ TimeOut(n)
  BY <1>2 DEF Clean, Goto, Enrol, Call, Erase, Answered, AfterCall, TimeOut
<1>3. CASE SetStatus(n) \/ Reply(n) \/ Reap(n) \/ DropObject(n) \/
   DeleteRows(n) \/ Crash(n)
  BY <1>3 DEF SetStatus, Goto, Reply, Reap, DropObject, DeleteRows, Crash
<1>4. CASE CallFails(n) \/ WipeRefs(n) \/ StoreRefs(n) \/ ListRefs(n) \/
   Embed(n)
  BY <1>4 DEF CallFails, WipeRefs, MFrame, StoreRefs, ListRefs, Embed
<1>5. CASE Upsert(n) \/ EraseIndex(n) \/ EraseRefs(n) \/ EraseMatches(n) \/
   EraseCandidates(n)
  BY <1>5 DEF Upsert, MFrame, EraseIndex, EraseRefs, EraseMatches, EraseCandidates,
     SaveBreaks, LoadFails, IFrame, Fault, Answer, MGoto
<1> QED
  BY <1>1, <1>2, <1>3, <1>4, <1>5 DEF RequestStep, CallStep

\* The worker's steps leave the requests, their calls and the backend alone.
LEMMA WorkersApart ==
  ASSUME Recognise \/ SaveMatch \/ SaveDetections \/ JobFails \/ UNCHANGED vars
  PROVE  UNCHANGED <<login, profile, photo, status, objects, pc, op, path, old,
                     result, mpc, have, refs, face, marks, attached, mixed>>
  BY DEF Recognise, SFrame, Active, SaveMatch, SaveDetections, JobFails,
     vars, requestVars, backend, backendVars, mlVars, indexVars, historyVars

\* Requests go on in order.
LEMMA InOrderStep ==
  ASSUME TypeOK, Calls, InOrder, [Next]_vars
  PROVE  InOrder'
<1> USE DEF InOrder, Ordered, Sequential
<1> Requests \subseteq Nat
  BY DEF Requests
<1>1. ASSUME NEW n \in Requests, Start(n)
      PROVE  InOrder'
  <2>1. /\ pc[n] = "new" /\ \A m \in Requests : m < n => pc[m] # "new"
        /\ pc'[n] \in {"login", "read"}
        /\ \A m \in Requests \ {n} : pc'[m] = pc[m]
        /\ mixed' = (mixed \/ Busy) /\ mpc' = mpc
    BY <1>1, StartsAs DEF TypeOK
  <2>2. Ordered'
    BY <2>1
  <2>3. ASSUME ~ mixed' PROVE \A m \in Requests : ~ Active(m) /\ ~ Calling(m)
    BY <2>1, <2>3 DEF Busy, UnderWay
  <2>4. Sequential'
    BY <2>1, <2>3 DEF Active, Calling
  <2> QED
    BY <2>2, <2>4
<1>2. ASSUME NEW n \in Requests, RequestStep(n) \/ CallStep(n), ~ Start(n)
      PROVE  InOrder'
  <2>1. /\ Active(n) \/ Calling(n)
        /\ \A m \in Requests \ {n} :
             Active(m)' = Active(m) /\ Calling(m)' = Calling(m) /\ pc'[m] = pc[m]
    BY <1>2, OthersUntouched, TypesShape DEF TypeOK
  <2>2. mixed' = mixed
    BY <1>2, LocalsKept DEF TypeOK
  <2>3. pc[n] # "new" /\ pc'[n] # "new"
    BY <1>2, StaysBegun, TypesShape DEF TypeOK
  <2>4. Ordered'
    BY <2>1, <2>3
  <2>5. Sequential'
    <3> SUFFICES ASSUME ~ mixed', NEW m \in Requests, NEW k \in Requests, m # k,
                        pc'[m] # "new", Active(k)' \/ Calling(k)'
                 PROVE  m < k /\ ~ Active(m)' /\ ~ Calling(m)'
      OBVIOUS
    <3>1. CASE k = n
      BY <2>1, <2>2, <3>1
    <3>2. CASE k # n
      <4>1. Active(k) \/ Calling(k)
        BY <2>1, <3>2
      <4>2. n < k /\ ~ Active(n) /\ ~ Calling(n)
        BY <2>2, <2>3, <4>1, <3>2
      <4> QED
        BY <2>1, <4>2
    <3> QED
      BY <3>1, <3>2
  <2> QED
    BY <2>4, <2>5
<1>3. CASE Recognise \/ SaveMatch \/ SaveDetections \/ JobFails \/ UNCHANGED vars
  BY <1>3, WorkersApart DEF Active, Calling
<1> QED
  BY <1>1, <1>2, <1>3 DEF Next

-----------------------------------------------------------------------------
\* Logins and profiles.

\* Most steps neither touch the two rows nor a request that is making them.
LEMMA RowsKept ==
  ASSUME NEW n \in Requests, Shaped,
         RequestStep(n) \/ CallStep(n), ~ Start(n), ~ CreateLogin(n),
         ~ CreateProfile(n), ~ Undo(n), ~ DeleteRows(n), ~ Crash(n)
  PROVE  login' = login /\ profile' = profile /\ Pending(n)' = Pending(n)
<1>1. /\ UNCHANGED <<login, profile>>
      /\ \/ pc'[n] = pc[n]
         \/ /\ pc[n] \notin {"profile", "undo"}
            /\ pc'[n] \notin {"profile", "undo"}
  <2> USE DEF Shaped, backend, ml, backendVars
  <2>1. CASE ReadStudent(n) \/ Attach(n) \/ Clean(n) \/ Enrol(n) \/ Erase(n)
    BY <2>1 DEF Goto, ReadStudent, ToEnrol, Attach, Clean, Enrol, Call, Erase
  <2>2. CASE Answered(n) \/ TimeOut(n) \/ SetStatus(n) \/ Reply(n) \/ Reap(n)
             \/ DropObject(n)
    BY <2>2 DEF Goto, Answered, AfterCall, TimeOut, SetStatus, Reply, Reap, DropObject
  <2>3. CASE CallFails(n) \/ WipeRefs(n) \/ StoreRefs(n) \/ ListRefs(n) \/
             Embed(n)
    BY <2>3 DEF CallFails, WipeRefs, MFrame, StoreRefs, ListRefs, Embed
  <2>4. CASE Upsert(n) \/ EraseIndex(n) \/ EraseRefs(n) \/ EraseMatches(n) \/
             EraseCandidates(n)
    BY <2>4 DEF Upsert, MFrame, EraseIndex, EraseRefs, EraseMatches, EraseCandidates,
     SaveBreaks, LoadFails, IFrame, Fault, Answer, MGoto
  <2> QED
    BY <2>1, <2>2, <2>3, <2>4 DEF RequestStep, CallStep
<1> QED
  BY <1>1 DEF Pending

\* A login is made, filled, taken back or lost.
LEMMA LoginsStep ==
  ASSUME TypeOK, Kinds, Logins, [Next]_vars
  PROVE  Logins'
<1> USE DEF Logins
<1>0. Shaped
  BY TypesShape DEF TypeOK
<1>1. ASSUME NEW n \in Requests, Start(n)
      PROVE  Logins'
  <2>1. /\ pc[n] = "new" /\ pc'[n] \in {"login", "read"}
        /\ (IF op'[n] = "create" THEN profile = "none" ELSE profile # "none")
        /\ \A m \in Requests \ {n} : pc'[m] = pc[m] /\ op'[m] = op[m]
        /\ UNCHANGED <<login, profile, marks>>
    BY <1>1, StartsAs DEF TypeOK, backendVars
  <2>2. op[n] = "none"
    BY <2>1 DEF Kinds, KindsOf
  <2>3. \A m \in Requests : Pending(m)' = Pending(m)
    BY <2>1 DEF Pending
  <2>4. SeenFirst'
    BY <2>1 DEF SeenFirst
  <2>5. GoneByDelete'
    BY <2>1, <2>2 DEF GoneByDelete, Deleting
  <2>6. RowHasLogin' /\ PendingAlone' /\ LoginInHand'
    BY <2>1, <2>3 DEF RowHasLogin, PendingAlone, LoginInHand
  <2> QED
    BY <2>4, <2>5, <2>6
<1>2. ASSUME NEW n \in Requests, RequestStep(n) \/ CallStep(n), ~ Start(n)
      PROVE  Logins'
  <2>1. /\ op' = op /\ marks \subseteq marks'
        /\ \A m \in Requests \ {n} : pc'[m] = pc[m]
    BY <1>0, <1>2, OthersUntouched, LocalsKept DEF TypeOK
  <2>2. \A m \in Requests \ {n} : Pending(m)' = Pending(m)
    BY <2>1 DEF Pending
  <2>3. CASE CreateLogin(n)
    <3>1. /\ pc[n] = "login" /\ profile' = profile
          /\ \/ login' = TRUE /\ ~ login /\ profile # "gone" /\ pc'[n] = "profile"
             \/ login' = login /\ pc'[n] = "done"
      BY <1>0, <2>3 DEF CreateLogin, Goto, Shaped
    <3>2. SeenFirst' /\ GoneByDelete' /\ RowHasLogin'
      BY <2>1, <3>1 DEF SeenFirst, GoneByDelete, Deleting, RowHasLogin
    <3>3. ~ Pending(n)
      BY <3>1 DEF Pending
    <3>4. CASE login' = login /\ pc'[n] = "done"
      <4>1. ~ Pending(n)'
        BY <3>4 DEF Pending
      <4> QED
        BY <2>1, <2>2, <3>1, <3>2, <3>3, <3>4, <4>1 DEF PendingAlone, LoginInHand
    <3>5. CASE login' = TRUE /\ ~ login /\ profile # "gone" /\ pc'[n] = "profile"
      <4>1. Pending(n)' /\ profile = "none"
        BY <3>5 DEF Pending, RowHasLogin, TypeOK, BackendTypes
      <4>2. \A m \in Requests : ~ Pending(m)
        BY <3>5 DEF PendingAlone
      <4> QED
        BY <2>2, <3>1, <3>2, <3>5, <4>1, <4>2 DEF PendingAlone, LoginInHand
    <3> QED
      BY <3>1, <3>4, <3>5
  <2>4. CASE CreateProfile(n)
    <3>1. /\ pc[n] = "profile" /\ login' = login /\ marks' = marks
          /\ \/ profile' = "row" /\ pc'[n] \in {"done", "enrol"}
             \/ profile' = profile /\ pc'[n] = "undo"
      BY <1>0, <2>4 DEF CreateProfile, Goto, Shaped
    <3>2. Pending(n) /\ login /\ profile = "none" /\ \A m \in Requests \ {n} : ~ Pending(m)
      BY <3>1 DEF Pending, PendingAlone
    <3>3. CASE profile' = "row" /\ pc'[n] \in {"done", "enrol"}
      <4>1. \A m \in Requests : ~ Pending(m)'
        BY <2>2, <3>2, <3>3 DEF Pending
      <4> QED
        BY <2>1, <3>1, <3>2, <3>3, <4>1
        DEF SeenFirst, GoneByDelete, Deleting, RowHasLogin, PendingAlone, LoginInHand
    <3>4. CASE profile' = profile /\ pc'[n] = "undo"
      <4>1. Pending(n)'
        BY <3>4 DEF Pending
      <4> QED
        BY <2>1, <2>2, <3>1, <3>2, <3>4, <4>1
        DEF SeenFirst, GoneByDelete, Deleting, RowHasLogin, PendingAlone, LoginInHand
    <3> QED
      BY <3>1, <3>3, <3>4
  <2>5. CASE Undo(n)
    <3>1. /\ pc[n] = "undo" /\ pc'[n] = "done" /\ profile' = profile
          /\ login' = FALSE \/ (login' = login /\ "login" \in marks')
      BY <1>0, <2>5 DEF Undo, Goto, Shaped
    <3>2. profile = "none" /\ \A m \in Requests \ {n} : ~ Pending(m)
      BY <3>1 DEF Pending, PendingAlone
    <3>3. \A m \in Requests : ~ Pending(m)'
      BY <2>2, <3>1, <3>2 DEF Pending
    <3> QED
      BY <2>1, <3>1, <3>2, <3>3
      DEF SeenFirst, GoneByDelete, Deleting, RowHasLogin, PendingAlone, LoginInHand
  <2>6. CASE DeleteRows(n)
    <3>1. /\ pc[n] = "rows" /\ pc'[n] = "done" /\ marks' = marks
          /\ \/ login' = FALSE /\ profile' = "gone"
             \/ login' = login /\ profile' = profile
      BY <1>0, <2>6 DEF DeleteRows, Goto, Shaped
    <3>2. op[n] = "delete" /\ profile # "none"
      BY <3>1 DEF Kinds, KindsOf, SeenFirst
    <3>3. \A m \in Requests : ~ Pending(m)
      BY <3>2 DEF PendingAlone
    <3>4. \A m \in Requests : ~ Pending(m)'
      BY <2>2, <3>1, <3>3 DEF Pending
    <3>5. SeenFirst' /\ GoneByDelete' /\ RowHasLogin' /\ PendingAlone'
      BY <2>1, <3>1, <3>2, <3>4
      DEF SeenFirst, GoneByDelete, Deleting, RowHasLogin, PendingAlone
    <3>6. LoginInHand'
      BY <2>1, <3>1, <3>3, <3>4 DEF LoginInHand
    <3> QED
      BY <3>5, <3>6
  <2>7. CASE Crash(n)
    <3>1. /\ UNCHANGED <<login, profile>> /\ "crash" \in marks'
          /\ pc'[n] \in {"reap", "done"}
      BY <1>0, <2>7 DEF Crash, Goto, Shaped, backend, backendVars
    <3>2. ~ Pending(n)'
      BY <3>1 DEF Pending
    <3> QED
      BY <2>1, <2>2, <3>1, <3>2
      DEF SeenFirst, GoneByDelete, Deleting, RowHasLogin, PendingAlone, LoginInHand
  <2>8. CASE ~ CreateLogin(n) /\ ~ CreateProfile(n) /\ ~ Undo(n)
             /\ ~ DeleteRows(n) /\ ~ Crash(n)
    <3>1. login' = login /\ profile' = profile /\ Pending(n)' = Pending(n)
      BY <1>0, <1>2, <2>8, RowsKept
    <3>2. \A m \in Requests : Pending(m)' = Pending(m)
      BY <2>2, <3>1
    <3> QED
      BY <2>1, <3>1, <3>2
      DEF SeenFirst, GoneByDelete, Deleting, RowHasLogin, PendingAlone, LoginInHand
  <2> QED
    BY <2>3, <2>4, <2>5, <2>6, <2>7, <2>8
<1>3. CASE Recognise \/ SaveMatch \/ SaveDetections \/ JobFails \/ UNCHANGED vars
  BY <1>3, WorkersApart
  DEF SeenFirst, GoneByDelete, Deleting, RowHasLogin, PendingAlone, LoginInHand, Pending
<1> QED
  BY <1>1, <1>2, <1>3 DEF Next

\* With every request over, a login without a profile has been logged or is the
\* work of a dead backend, however many requests and failures there were.
THEOREM LoginsKeepProfiles == Spec => []LoginsHaveProfiles
<1> DEFINE Inv == TypeOK /\ Places /\ Logins
<1>1. Init => Inv
  BY PlacesInit
  DEF Init, Logins, SeenFirst, GoneByDelete, RowHasLogin, PendingAlone,
      LoginInHand, Pending
<1>2. Inv /\ [Next]_vars => Inv'
  BY PlacesKept, LoginsStep DEF Places
<1>3. Inv => LoginsHaveProfiles
  <2> SUFFICES ASSUME Inv, ~ Busy, login, profile # "row",
                      marks \cap {"login", "crash"} = {}
               PROVE  FALSE
    BY DEF LoginsHaveProfiles
  <2>1. PICK n \in Requests : Pending(n)
    BY DEF Logins, LoginInHand
  <2> QED
    BY <2>1 DEF Pending, Busy, UnderWay, Active
<1> QED
  BY <1>1, <1>2, <1>3, PTL DEF Spec

-----------------------------------------------------------------------------
\* The photo the row names exists.

\* Only a photo request answers, or is reaped by its client.
LEMMA ReapingStep ==
  ASSUME TypeOK, Kinds, Reaping, [Next]_vars
  PROVE  Reaping'
<1>0. Shaped
  BY TypesShape DEF TypeOK
<1>1. ASSUME NEW n \in Requests, Start(n)
      PROVE  Reaping'
  BY <1>1, StartsAs DEF TypeOK, Reaping
<1>2. ASSUME NEW n \in Requests, RequestStep(n) \/ CallStep(n), ~ Start(n)
      PROVE  Reaping'
  <2>1. op' = op /\ \A m \in Requests \ {n} : pc'[m] = pc[m]
    BY <1>0, <1>2, OthersUntouched
  <2>2. pc'[n] \in {"reply", "reap"} => op[n] = "photo"
    <3> USE <1>0 DEF Shaped, Kinds, KindsOf, Reaping, backend, ml
    <3>1. CASE CreateLogin(n) \/ CreateProfile(n) \/ Undo(n) \/ ReadStudent(n) \/
               Attach(n) \/ Clean(n)
      BY <3>1 DEF Goto, CreateLogin, CreateProfile, Undo, ReadStudent, ToEnrol,
         Attach, Clean
    <3>2. CASE Enrol(n) \/ Erase(n) \/ Answered(n) \/ TimeOut(n) \/ SetStatus(n)
      BY <3>2 DEF Goto, Enrol, Call, Erase, Answered, AfterCall, TimeOut, SetStatus
    <3>3. CASE Reply(n) \/ Reap(n) \/ DropObject(n) \/ DeleteRows(n) \/ Crash(n)
      BY <3>3 DEF Goto, Reply, Reap, DropObject, DeleteRows, Crash
    <3>4. CASE CallFails(n) \/ WipeRefs(n) \/ StoreRefs(n) \/ ListRefs(n) \/
               Embed(n)
      BY <3>4 DEF CallFails, WipeRefs, MFrame, StoreRefs, ListRefs, Embed
    <3>5. CASE Upsert(n) \/ EraseIndex(n) \/ EraseRefs(n) \/ EraseMatches(n) \/
               EraseCandidates(n)
      BY <3>5 DEF Upsert, MFrame, EraseIndex, EraseRefs, EraseMatches, EraseCandidates,
     SaveBreaks, LoadFails, IFrame, Fault, Answer, MGoto
    <3> QED
      BY <1>2, <3>1, <3>2, <3>3, <3>4, <3>5 DEF RequestStep, CallStep
  <2> QED
    BY <2>1, <2>2 DEF Reaping
<1>3. CASE Recognise \/ SaveMatch \/ SaveDetections \/ JobFails \/ UNCHANGED vars
  BY <1>3, WorkersApart DEF Reaping
<1> QED
  BY <1>1, <1>2, <1>3 DEF Next

\* The steps that neither name, delete nor read a photo.
LEMMA PhotosKept ==
  ASSUME NEW n \in Requests, Shaped, Kinds, Reaping, op[n] # "delete",
         RequestStep(n) \/ CallStep(n), marks' \cap {"lost", "crash"} = {},
         ~ Start(n), ~ CreateProfile(n), ~ Attach(n), ~ Clean(n), ~ Reap(n),
         ~ ReadStudent(n)
  PROVE  /\ UNCHANGED <<photo, objects, attached, old>>
         /\ Posting(n)' => Posting(n)
         /\ Posted(n) => Posted(n)'
         /\ pc'[n] = "clean" => pc[n] = "clean"
<1>1. /\ UNCHANGED <<photo, objects, attached, old, op>>
      /\ \/ pc'[n] = pc[n]
         \/ pc[n] = "login" /\ pc'[n] \in {"profile", "done"}
         \/ pc[n] = "undo" /\ pc'[n] = "done"
         \/ pc[n] = "enrol" /\ pc'[n] = "wait"
         \/ pc[n] = "wait" /\ pc'[n] = "status"
         \/ pc[n] = "status" /\ pc'[n] \in {"reply", "done"}
         \/ pc[n] = "reply" /\ pc'[n] = "done"
  <2> USE DEF Shaped, Kinds, KindsOf, backend, ml, backendVars, mlVars, indexVars, historyVars,
      boundVars
  <2>1. CASE CreateLogin(n) \/ Undo(n) \/ Enrol(n) \/ Erase(n)
    BY <2>1 DEF CreateLogin, Undo, Enrol, Erase, Call, Goto, Fault
  <2>2. CASE Answered(n) \/ TimeOut(n) \/ SetStatus(n)
    BY <2>2 DEF Answered, AfterCall, TimeOut, SetStatus, Goto, Fault
  <2>3. CASE Reply(n) \/ DropObject(n) \/ DeleteRows(n) \/ Crash(n)
    BY <2>3 DEF Reply, DropObject, DeleteRows, Crash, Goto, Fault
  <2>4. CASE CallFails(n) \/ WipeRefs(n) \/ StoreRefs(n) \/ ListRefs(n) \/ Embed(n)
    BY <2>4 DEF CallFails, WipeRefs, MFrame, StoreRefs, ListRefs, Embed, Fault
  <2>5. CASE Upsert(n) \/ EraseIndex(n) \/ EraseRefs(n) \/ EraseMatches(n) \/
             EraseCandidates(n)
    BY <2>5 DEF Upsert, MFrame, EraseIndex, EraseRefs, EraseMatches, EraseCandidates,
     SaveBreaks, LoadFails, IFrame, Fault, Answer, MGoto
  <2> QED
    BY <2>1, <2>2, <2>3, <2>4, <2>5 DEF RequestStep, CallStep
<1> QED
  BY <1>1 DEF Posting, Posted, Uploads

\* Two requests under way have overlapped.
LEMMA TwoAreMixed ==
  ASSUME Sequential, NEW m \in Requests, NEW n \in Requests, m # n,
         Active(m), Active(n)
  PROVE  mixed
  BY DEF Sequential, Active

\* No other request that may still set the photo has the path of a photo the
\* row has named; so a photo that has been replaced can go.
LEMMA OwnPaths ==
  ASSUME RowPhoto, Unharmed, Sequential,
         NEW m \in Requests, NEW n \in Requests, m # n, Active(m), Active(n),
         Uploads(m), Uploads(n), ~ Posted(m)
  PROVE  path[m] # path[n] /\ path[m] \notin attached
<1>1. mixed
  BY TwoAreMixed
<1>2. \A k \in Requests \ {m} : Uploads(k) => path[k] # path[m]
  BY <1>1 DEF Unharmed, Distinct, Uploads
<1> QED
  BY <1>2 DEF RowPhoto, Owned, Posted

\* The photo the row names is not deleted under it.
LEMMA RowPhotoStep ==
  ASSUME TypeOK, Kinds, Paths, Reaping, InOrder, RowPhoto, [Next]_vars
  PROVE  RowPhoto'
<1> SUFFICES ASSUME Unharmed'
             PROVE  (PhotoThere /\ PostsThere /\ Owned /\ OldOnes /\ Replaced)'
  BY DEF RowPhoto
<1>0. Shaped /\ Sequential /\ objects \subseteq Photos /\ NoPhoto \notin Photos
  BY TypesShape, StudentAssumption DEF TypeOK, InOrder, BackendTypes
<1>1. ASSUME NEW n \in Requests, Start(n)
      PROVE  (PhotoThere /\ PostsThere /\ Owned /\ OldOnes /\ Replaced)'
  <2>1. /\ pc[n] = "new" /\ pc'[n] \in {"login", "read"}
        /\ op'[n] \in {"create", "photo", "enrol", "delete"}
        /\ path'[n] \in (Photos \ {path[m] : m \in Requests}) \cup {NoPhoto, photo}
        /\ objects' = (IF path'[n] \in attached THEN objects
                                                ELSE objects \cup ({path'[n]} \ {NoPhoto}))
        /\ \A m \in Requests \ {n} :
             pc'[m] = pc[m] /\ op'[m] = op[m] /\ path'[m] = path[m]
        /\ mixed' = (mixed \/ Busy)
        /\ UNCHANGED <<photo, old, marks, attached>>
    BY <1>1, StartsAs DEF TypeOK, backendVars
  <2>2. op[n] = "none" /\ ~ Uploads(n) /\ ~ Posted(n)
    BY <2>1 DEF Kinds, KindsOf, Uploads, Posted
  <2>3. Unharmed
    <3>1. ~ Deleting
      BY <2>1, <2>2 DEF Unharmed, Deleting
    <3>2. Distinct
      <4> SUFFICES ASSUME mixed, NEW k \in Requests, NEW m \in Requests, k # m,
                          op[k] \in {"create", "photo"}, op[m] \in {"create", "photo"}
                   PROVE  path[k] # path[m]
        BY DEF Distinct
      <4>1. k # n /\ m # n
        BY <2>2
      <4>2. /\ mixed' /\ op'[k] = op[k] /\ op'[m] = op[m]
            /\ path'[k] = path[k] /\ path'[m] = path[m]
        BY <2>1, <4>1
      <4>3. Distinct'
        BY DEF Unharmed
      <4> QED
        BY <4>2, <4>3 DEF Distinct
    <3> QED
      BY <2>1, <3>1, <3>2 DEF Unharmed
  <2>4. PhotoThere /\ PostsThere /\ Owned /\ OldOnes /\ Replaced
    BY <2>3 DEF RowPhoto
  <2>5. PhotoThere' /\ OldOnes'
    BY <2>1, <2>4 DEF PhotoThere, OldOnes
  <2>6. Owned'
    BY <2>1, <2>2, <2>4 DEF Owned, Posted, Uploads
  <2>7. Replaced'
    BY <2>1, <2>4 DEF Replaced
  <2>8. path'[n] \in objects' \cup {NoPhoto}
    BY <2>1, <2>4 DEF PhotoThere, Owned
  <2>9. PostsThere'
    BY <2>1, <2>4, <2>8 DEF PostsThere, Posting, Uploads
  <2> QED
    BY <2>5, <2>6, <2>7, <2>9
<1>2. ASSUME NEW n \in Requests, RequestStep(n) \/ CallStep(n), ~ Start(n)
      PROVE  (PhotoThere /\ PostsThere /\ Owned /\ OldOnes /\ Replaced)'
  <2>1. /\ op' = op
        /\ \A m \in Requests \ {n} : pc'[m] = pc[m]
    BY <1>0, <1>2, OthersUntouched
  <2>2. /\ mixed' = mixed /\ marks \subseteq marks'
        /\ \A m \in Requests \ {n} : path'[m] = path[m] /\ old'[m] = old[m]
        /\ pc[n] # "read" => old'[n] = old[n]
        /\ op[n] # "enrol" => path'[n] = path[n]
    BY <1>2, LocalsKept DEF TypeOK
  <2>3. ~ Deleting /\ marks' \cap {"lost", "crash"} = {}
    BY <2>1 DEF Unharmed, Deleting
  <2>4. Unharmed
    <3>1. Distinct
      BY <2>1, <2>2 DEF Unharmed, Distinct
    <3> QED
      BY <2>2, <2>3, <3>1 DEF Unharmed
  <2>5. PhotoThere /\ PostsThere /\ Owned /\ OldOnes /\ Replaced
    BY <2>4 DEF RowPhoto
  <2>6. op[n] # "delete"
    BY <2>3 DEF Deleting
  <2>7. \A m \in Requests \ {n} :
          /\ Posting(m)' = Posting(m) /\ Posted(m)' = Posted(m)
          /\ Posting(m) \/ pc[m] = "clean" => Active(m) /\ ~ (pc[m] = "clean" /\ Posting(m))
          /\ pc[m] = "clean" => Uploads(m)
    BY <2>1, <2>2 DEF Posting, Posted, Uploads, Active, Kinds, KindsOf
  <2>8. CASE /\ pc[n] \in {"profile", "attach"} /\ pc'[n] \in {"clean", "enrol", "done"}
             /\ photo' = path[n] /\ attached' = attached \cup ({path[n]} \ {NoPhoto})
             /\ UNCHANGED <<objects, old, path>>
    <3>1. Posting(n) /\ ~ Posted(n) /\ ~ Posting(n)' /\ Posted(n)' /\ Active(n) /\ Uploads(n)
      BY <2>1, <2>8 DEF Posting, Posted, Uploads, Active, Kinds, KindsOf
    <3>2. PhotoThere'
      BY <2>5, <2>8, <3>1 DEF PhotoThere, PostsThere
    <3>3. PostsThere'
      BY <2>2, <2>5, <2>7, <2>8, <3>1 DEF PostsThere
    <3>4. Owned'
      <4> SUFFICES ASSUME NEW p \in attached'
                   PROVE  \E m \in Requests : Posted(m)' /\ path'[m] = p
        BY DEF Owned
      <4>1. CASE p = path[n]
        BY <2>8, <3>1, <4>1
      <4>2. CASE p \in attached
        <5>1. PICK m \in Requests : Posted(m) /\ path[m] = p
          BY <2>5, <4>2 DEF Owned
        <5> QED
          BY <2>7, <2>8, <3>1, <5>1
      <4> QED
        BY <2>8, <4>1, <4>2
    <3>5. OldOnes'
      BY <2>5, <2>8 DEF OldOnes
    <3>6. Replaced'
      <4> SUFFICES ASSUME NEW k \in Requests, pc'[k] = "clean"
                   PROVE  old[k] \in {path[k], NoPhoto} \/ old[k] # path[n]
        BY <2>8 DEF Replaced
      <4>1. CASE k # n
        <5>1. path[n] \notin attached
          BY <1>0, <2>1, <2>4, <2>7, <3>1, <4>1, OwnPaths
        <5> QED
          BY <2>5, <5>1 DEF OldOnes
      <4> QED
        BY <4>1
    <3> QED
      BY <3>2, <3>3, <3>4, <3>5, <3>6
  <2>9. CASE /\ UNCHANGED <<photo, objects, attached, old>>
             /\ (Posting(n)' => Posting(n))
             /\ (Posted(n) => Posted(n)')
             /\ (pc'[n] = "clean" => pc[n] = "clean")
    <3>1. \A m \in Requests :
            /\ (Posting(m)' => Posting(m)) /\ (Posted(m) => Posted(m)')
            /\ (pc'[m] = "clean" => pc[m] = "clean")
            /\ (Uploads(m) => path'[m] = path[m])
      BY <2>1, <2>2, <2>7, <2>9 DEF Uploads
    <3>2. PhotoThere' /\ OldOnes'
      BY <2>5, <2>9 DEF PhotoThere, OldOnes
    <3>3. PostsThere'
      BY <2>5, <2>9, <3>1 DEF PostsThere, Posting
    <3>4. Owned'
      BY <2>5, <2>9, <3>1 DEF Owned, Posted
    <3>5. Replaced'
      BY <2>5, <2>9, <3>1 DEF Replaced, Uploads, Kinds, KindsOf
    <3> QED
      BY <3>2, <3>3, <3>4, <3>5
  <2>10. CASE CreateProfile(n)
    <3>1. /\ pc[n] = "profile" /\ UNCHANGED <<objects, old, path>>
          /\ \/ /\ pc'[n] \in {"enrol", "done"} /\ photo' = path[n]
                /\ attached' = attached \cup ({path[n]} \ {NoPhoto})
             \/ pc'[n] = "undo" /\ UNCHANGED <<photo, attached>>
      BY <1>0, <2>10 DEF CreateProfile, Goto, Shaped
    <3>2. CASE pc'[n] = "undo" /\ UNCHANGED <<photo, attached>>
      <4>1. /\ ~ Posting(n)' /\ ~ Posted(n) /\ pc'[n] # "clean"
        BY <3>1, <3>2 DEF Posting, Posted
      <4> QED
        BY <2>9, <3>1, <3>2, <4>1
    <3> QED
      BY <2>8, <3>1, <3>2
  <2>11. CASE Attach(n)
    <3>1. /\ pc[n] = "attach" /\ UNCHANGED <<objects, old, path>>
          /\ \/ /\ pc'[n] = "clean" /\ photo' = path[n]
                /\ attached' = attached \cup {path[n]}
             \/ pc'[n] = "reap" /\ UNCHANGED <<photo, attached>>
      BY <1>0, <2>11 DEF Attach, Goto, Shaped
    <3>2. CASE pc'[n] = "reap" /\ UNCHANGED <<photo, attached>>
      <4>1. /\ ~ Posting(n)' /\ ~ Posted(n) /\ pc'[n] # "clean"
        BY <3>1, <3>2 DEF Posting, Posted
      <4> QED
        BY <2>9, <3>1, <3>2, <4>1
    <3>3. CASE pc'[n] = "clean" /\ photo' = path[n] /\ attached' = attached \cup {path[n]}
      <4>1. path[n] # NoPhoto
        BY <1>0, <3>1 DEF Paths, PathOf
      <4> QED
        BY <2>8, <3>1, <3>3, <4>1
    <3> QED
      BY <3>1, <3>2, <3>3
  <2>12. CASE Clean(n)
    <3>1. /\ pc[n] = "clean" /\ pc'[n] = "enrol"
          /\ objects' = objects \ ({old[n]} \ {path[n]}) \/ objects' = objects
          /\ UNCHANGED <<photo, attached, old, path>>
      BY <1>0, <2>12 DEF Clean, Goto, Shaped, backendVars
    <3>2. /\ Active(n) /\ Uploads(n) /\ Posted(n) /\ Posted(n)'
          /\ ~ Posting(n) /\ ~ Posting(n)'
      BY <2>1, <3>1 DEF Active, Uploads, Posted, Posting, Kinds, KindsOf
    <3>3. PhotoThere'
      BY <2>5, <3>1, <1>0 DEF PhotoThere, Replaced
    <3>4. PostsThere'
      <4> SUFFICES ASSUME NEW m \in Requests, Posting(m)'
                   PROVE  path[m] \in objects' \cup {NoPhoto}
        BY <3>1 DEF PostsThere
      <4>1. m # n /\ Posting(m) /\ Active(m) /\ Uploads(m) /\ ~ Posted(m)
        BY <2>7, <3>2 DEF Posting, Posted, Active
      <4>2. path[m] \in objects \cup {NoPhoto}
        BY <2>5, <4>1 DEF PostsThere
      <4>3. path[m] \notin attached
        BY <1>0, <2>4, <3>2, <4>1, OwnPaths
      <4> QED
        BY <2>5, <3>1, <4>2, <4>3 DEF OldOnes
    <3>5. Owned'
      BY <2>5, <2>7, <3>1, <3>2 DEF Owned
    <3>6. OldOnes'
      BY <2>5, <3>1 DEF OldOnes
    <3>7. Replaced'
      BY <2>1, <2>5, <3>1 DEF Replaced
    <3> QED
      BY <3>3, <3>4, <3>5, <3>6, <3>7
  <2>13. CASE Reap(n)
    <3>1. /\ pc[n] = "reap" /\ pc'[n] = "done"
          /\ \/ /\ \A m \in 1..(n - 1) : path[m] # path[n]
                /\ objects' = objects \ {path[n]}
             \/ objects' = objects
          /\ UNCHANGED <<photo, attached, old, path>>
      BY <1>0, <2>13 DEF Reap, Goto, Shaped, backendVars, historyVars
    <3>2. /\ Active(n) /\ Uploads(n) /\ ~ Posted(n)
          /\ ~ Posting(n) /\ ~ Posting(n)'
      BY <2>1, <3>1 DEF Active, Uploads, Posted, Posting, Reaping
    <3>3. CASE objects' = objects
      BY <2>9, <3>1, <3>2, <3>3
    <3>4. CASE /\ \A m \in 1..(n - 1) : path[m] # path[n]
               /\ objects' = objects \ {path[n]}
      <4>1. path[n] \notin attached
        <5> SUFFICES ASSUME path[n] \in attached PROVE FALSE
          OBVIOUS
        <5>1. PICK m \in Requests : Posted(m) /\ path[m] = path[n]
          BY <2>5 DEF Owned
        <5>2. m # n /\ Uploads(m) /\ pc[m] # "new"
          BY <3>2, <5>1 DEF Posted
        <5>3. CASE mixed
          BY <2>4, <3>2, <5>1, <5>2, <5>3 DEF Unharmed, Distinct, Uploads
        <5>4. CASE ~ mixed
          <6>1. m < n
            BY <1>0, <3>2, <5>2, <5>4 DEF Sequential
          <6>2. m \in 1..(n - 1)
            BY <6>1, StudentAssumption DEF Requests
          <6> QED
            BY <3>4, <5>1, <6>2
        <5> QED
          BY <5>3, <5>4
      <4>2. PhotoThere'
        BY <1>0, <2>5, <3>1, <3>4, <4>1 DEF PhotoThere
      <4>3. PostsThere'
        <5> SUFFICES ASSUME NEW m \in Requests, Posting(m)'
                     PROVE  path[m] \in objects' \cup {NoPhoto}
          BY <3>1 DEF PostsThere
        <5>1. m # n /\ Posting(m) /\ Active(m) /\ Uploads(m) /\ ~ Posted(m)
          BY <2>7, <3>2 DEF Posting, Posted, Active
        <5>2. path[m] \in objects \cup {NoPhoto}
          BY <2>5, <5>1 DEF PostsThere
        <5>3. path[m] # path[n]
          BY <1>0, <2>4, <3>2, <5>1, OwnPaths
        <5> QED
          BY <3>4, <5>2, <5>3
      <4>4. Owned'
        BY <2>5, <2>7, <3>1, <3>2 DEF Owned
      <4>5. OldOnes'
        BY <2>5, <3>1 DEF OldOnes
      <4>6. Replaced'
        BY <2>1, <2>5, <3>1 DEF Replaced
      <4> QED
        BY <4>2, <4>3, <4>4, <4>5, <4>6
    <3> QED
      BY <3>1, <3>3, <3>4
  <2>14. CASE ReadStudent(n)
    <3>1. /\ pc[n] = "read" /\ pc'[n] \in {"attach", "enrol", "erase", "reap", "done"}
          /\ pc'[n] = "attach" => op[n] = "photo"
          /\ old'[n] = photo /\ UNCHANGED <<photo, objects, attached>>
      BY <1>0, <2>14
      DEF ReadStudent, Goto, ToEnrol, Shaped, backendVars, historyVars, TypeOK, RequestTypes
    <3>2. ~ Posted(n) /\ (Posting(n)' => Posting(n))
      BY <2>1, <3>1 DEF Posted, Posting, Uploads
    <3>3. PhotoThere'
      BY <2>5, <3>1 DEF PhotoThere
    <3>4. PostsThere'
      BY <2>2, <2>5, <2>7, <3>1, <3>2 DEF PostsThere, Posting, Uploads
    <3>5. Owned'
      BY <2>2, <2>5, <2>7, <3>1, <3>2 DEF Owned
    <3>6. OldOnes'
      BY <2>2, <2>5, <3>1 DEF OldOnes, PhotoThere
    <3>7. Replaced'
      BY <2>1, <2>2, <2>5, <3>1 DEF Replaced
    <3> QED
      BY <3>3, <3>4, <3>5, <3>6, <3>7
  <2>15. CASE /\ ~ CreateProfile(n) /\ ~ Attach(n) /\ ~ Clean(n) /\ ~ Reap(n)
              /\ ~ ReadStudent(n)
    BY <1>0, <1>2, <2>3, <2>6, <2>9, <2>15, PhotosKept
  <2> QED
    BY <2>10, <2>11, <2>12, <2>13, <2>14, <2>15
<1>3. CASE Recognise \/ SaveMatch \/ SaveDetections \/ JobFails \/ UNCHANGED vars
  <2>1. UNCHANGED <<photo, objects, pc, op, path, old, marks, attached, mixed>>
    BY <1>3, WorkersApart
  <2>2. PhotoThere /\ PostsThere /\ Owned /\ OldOnes /\ Replaced
    BY <2>1 DEF RowPhoto, Unharmed, Deleting, Distinct
  <2> QED
    BY <2>1, <2>2
    DEF PhotoThere, PostsThere, Owned, OldOnes, Replaced, Posting, Posted, Uploads
<1> QED
  BY <1>1, <1>2, <1>3 DEF Next

-----------------------------------------------------------------------------
\* No photo is left that the row no longer names.

\* Unless requests have overlapped, all the others are over or have not begun.
LEMMA OthersRest ==
  ASSUME NEW n \in Requests, Shaped, Calls, Sequential, ~ mixed,
         RequestStep(n) \/ CallStep(n), ~ Start(n)
  PROVE  \A m \in Requests \ {n} :
           /\ pc[m] \in {"new", "done"} /\ pc'[m] = pc[m]
           /\ ~ Calling(m) /\ ~ Calling(m)' /\ ~ Active(m) /\ ~ Active(m)'
<1>1. /\ Active(n) \/ Calling(n)
      /\ \A m \in Requests \ {n} :
           Active(m)' = Active(m) /\ Calling(m)' = Calling(m) /\ pc'[m] = pc[m]
  BY OthersUntouched
<1>2. \A m \in Requests \ {n} : pc[m] # "new" => ~ Active(m) /\ ~ Calling(m)
  BY <1>1 DEF Sequential
<1>3. \A m \in Requests : pc[m] = "new" => ~ Active(m) /\ ~ Calling(m)
  BY DEF Calls, CallOf, BeforeCall, Active, Calling
<1> QED
  BY <1>1, <1>2, <1>3 DEF Active

\* The steps that leave photos and the profile alone, and where they lead.
LEMMA SweptKept ==
  ASSUME NEW n \in Requests, Shaped, Kinds,
         RequestStep(n) \/ CallStep(n), marks' \cap {"photo", "crash"} = {},
         ~ Start(n), ~ CreateProfile(n), ~ Attach(n), ~ Clean(n), ~ Reap(n),
         ~ ReadStudent(n), ~ DropObject(n), ~ DeleteRows(n)
  PROVE  /\ UNCHANGED <<profile, photo, objects, attached, old, op, path>>
         /\ pc[n] = "clean" => pc'[n] = "clean"
         /\ \/ pc'[n] = pc[n]
            \/ pc'[n] \in {"profile", "status", "reply", "reap", "done"}
            \/ pc'[n] = "wait" /\ (op[n] = "delete" => pc[n] = "erase")
            \/ pc'[n] = "drop" /\ op[n] = "delete" /\ pc[n] = "wait"
<1> USE DEF Shaped, Kinds, KindsOf, backend, ml, backendVars, mlVars, indexVars, historyVars,
    boundVars
<1>1. CASE CreateLogin(n) \/ Undo(n) \/ Enrol(n) \/ Erase(n)
  BY <1>1 DEF CreateLogin, Undo, Enrol, Erase, Call, Goto, Fault
<1>2. CASE Answered(n) \/ TimeOut(n) \/ SetStatus(n)
  BY <1>2 DEF Answered, AfterCall, TimeOut, SetStatus, Goto, Fault
<1>3. CASE Reply(n) \/ Crash(n)
  BY <1>3 DEF Reply, Crash, Goto, Fault
<1>4. CASE CallFails(n) \/ WipeRefs(n) \/ StoreRefs(n) \/ ListRefs(n) \/ Embed(n)
  BY <1>4 DEF CallFails, WipeRefs, MFrame, StoreRefs, ListRefs, Embed, Fault
<1>5. CASE Upsert(n) \/ EraseIndex(n) \/ EraseRefs(n) \/ EraseMatches(n) \/
           EraseCandidates(n)
  BY <1>5 DEF Upsert, MFrame, EraseIndex, EraseRefs, EraseMatches, EraseCandidates,
     SaveBreaks, LoadFails, IFrame, Fault, Answer, MGoto
<1> QED
  BY <1>1, <1>2, <1>3, <1>4, <1>5 DEF RequestStep, CallStep

\* A photo that is replaced or erased goes, unless that failed and was logged.
LEMMA SweptStep ==
  ASSUME TypeOK, Kinds, Calls, Paths, InOrder, Logins, Swept, [Next]_vars
  PROVE  Swept'
<1> SUFFICES ASSUME Tidy'
             PROVE  (Leftover /\ CleansSet /\ ReadIsCurrent /\ DroppedAll /\ NoneBefore)'
  BY DEF Swept
<1>0. Shaped /\ Sequential
  BY TypesShape DEF TypeOK, InOrder
<1>1. ASSUME NEW n \in Requests, Start(n)
      PROVE  (Leftover /\ CleansSet /\ ReadIsCurrent /\ DroppedAll /\ NoneBefore)'
  <2>1. /\ pc[n] = "new" /\ pc'[n] \in {"login", "read"}
        /\ objects' = (IF path'[n] \in attached THEN objects
                                                ELSE objects \cup ({path'[n]} \ {NoPhoto}))
        /\ \A m \in Requests \ {n} :
             pc'[m] = pc[m] /\ op'[m] = op[m] /\ path'[m] = path[m]
        /\ mixed' = (mixed \/ Busy)
        /\ UNCHANGED <<profile, photo, old, marks, attached>>
    BY <1>1, StartsAs DEF TypeOK, backendVars
  <2>2. Leftover /\ CleansSet /\ ReadIsCurrent /\ DroppedAll /\ NoneBefore
    BY <2>1 DEF Swept, Tidy
  <2>3. attached \cap objects' = attached \cap objects
    BY <2>1
  <2>4. Leftover' /\ DroppedAll'
    BY <2>1, <2>2, <2>3 DEF Leftover, DroppedAll
  <2>5. CleansSet' /\ ReadIsCurrent' /\ NoneBefore'
    BY <2>1, <2>2 DEF CleansSet, ReadIsCurrent, NoneBefore
  <2> QED
    BY <2>4, <2>5
<1>2. ASSUME NEW n \in Requests, RequestStep(n) \/ CallStep(n), ~ Start(n)
      PROVE  (Leftover /\ CleansSet /\ ReadIsCurrent /\ DroppedAll /\ NoneBefore)'
  <2>1. /\ mixed' = mixed /\ marks \subseteq marks'
        /\ pc[n] # "read" => old'[n] = old[n] /\ path'[n] = path[n]
    BY <1>2, LocalsKept DEF TypeOK
  <2>2. ~ mixed /\ marks' \cap {"photo", "crash"} = {} /\ Tidy
    BY <2>1 DEF Tidy
  <2>3. \A m \in Requests \ {n} : pc[m] \in {"new", "done"} /\ pc'[m] \in {"new", "done"}
    BY <1>0, <1>2, <2>2, OthersRest
  <2>4. Leftover /\ CleansSet /\ ReadIsCurrent /\ DroppedAll /\ NoneBefore
    BY <2>2 DEF Swept
  <2>5. op' = op
    BY <1>0, <1>2, OthersUntouched
  <2> USE DEF Leftover, CleansSet, ReadIsCurrent, DroppedAll, NoneBefore
  <2>6. CASE CreateProfile(n)
    <3>1. /\ pc[n] = "profile" /\ UNCHANGED <<objects, old, path>>
          /\ \/ /\ pc'[n] \in {"enrol", "done"} /\ photo' = path[n] /\ profile' = "row"
                /\ attached' = attached \cup ({path[n]} \ {NoPhoto})
             \/ pc'[n] = "undo" /\ UNCHANGED <<profile, photo, attached>>
      BY <1>0, <2>6 DEF CreateProfile, Goto, Shaped
    <3>2. profile = "none" /\ attached = {}
      BY <2>4, <3>1 DEF Logins, PendingAlone, Pending
    <3>3. op[n] = "create"
      BY <3>1 DEF Kinds, KindsOf
    <3> QED
      BY <2>3, <2>4, <2>5, <3>1, <3>2, <3>3
  <2>7. CASE Attach(n)
    <3>1. /\ pc[n] = "attach" /\ UNCHANGED <<profile, objects, old, path>>
          /\ \/ /\ pc'[n] = "clean" /\ photo' = path[n] /\ profile = "row"
                /\ attached' = attached \cup {path[n]}
             \/ pc'[n] = "reap" /\ UNCHANGED <<photo, attached>>
      BY <1>0, <2>7 DEF Attach, Goto, Shaped
    <3>2. old[n] = photo
      BY <2>4, <3>1
    <3>3. \A p \in attached \cap objects : p = photo
      BY <2>3, <2>4, <3>1
    <3> QED
      BY <2>3, <2>4, <2>5, <3>1, <3>2, <3>3
  <2>8. CASE Clean(n)
    <3>1. /\ pc[n] = "clean" /\ pc'[n] = "enrol"
          /\ objects' = objects \ ({old[n]} \ {path[n]})
          /\ UNCHANGED <<profile, photo, attached, old, path>>
      BY <1>0, <2>2, <2>8 DEF Clean, Goto, Shaped, backendVars
    <3>2. photo = path[n]
      BY <2>4, <3>1
    <3>3. \A p \in attached \cap objects : p = photo \/ p = old[n]
      BY <2>3, <2>4, <3>1
    <3>4. op[n] = "photo"
      BY <3>1 DEF Kinds, KindsOf
    <3> QED
      BY <2>3, <2>4, <2>5, <3>1, <3>2, <3>3, <3>4
  <2>9. CASE Reap(n)
    <3>1. /\ pc[n] = "reap" /\ pc'[n] = "done" /\ objects' \subseteq objects
          /\ UNCHANGED <<profile, photo, attached, old, path>>
      BY <1>0, <2>9 DEF Reap, Goto, Shaped, backendVars, historyVars
    <3> QED
      BY <2>3, <2>4, <2>5, <3>1
  <2>10. CASE ReadStudent(n)
    <3>1. /\ pc[n] = "read" /\ pc'[n] \in {"attach", "enrol", "erase", "reap", "done"}
          /\ old'[n] = photo /\ UNCHANGED <<profile, photo, objects, attached>>
      BY <1>0, <2>10
      DEF ReadStudent, Goto, ToEnrol, Shaped, backendVars, historyVars, TypeOK, RequestTypes
    <3> QED
      BY <2>3, <2>4, <2>5, <3>1
  <2>11. CASE DropObject(n)
    <3>1. /\ pc[n] = "drop" /\ pc'[n] = "rows"
          /\ objects' = objects \ {old[n]}
          /\ UNCHANGED <<profile, photo, attached, old, path>>
      BY <1>0, <2>2, <2>11 DEF DropObject, Goto, Shaped, backendVars
    <3>2. op[n] = "delete" /\ old[n] = photo
      BY <2>4, <3>1 DEF Kinds, KindsOf
    <3>3. attached \cap objects' = {}
      BY <2>3, <2>4, <3>1, <3>2
    <3> QED
      BY <2>3, <2>4, <2>5, <3>1, <3>2, <3>3
  <2>12. CASE DeleteRows(n)
    <3>1. /\ pc[n] = "rows" /\ pc'[n] = "done"
          /\ profile' = "gone" \/ (profile' = profile /\ photo' = photo)
          /\ UNCHANGED <<objects, attached, old, path>>
      BY <1>0, <2>12 DEF DeleteRows, Goto, Shaped
    <3>2. attached \cap objects = {}
      BY <2>4, <3>1
    <3> QED
      BY <2>3, <2>4, <2>5, <3>1, <3>2
  <2>13. CASE /\ ~ CreateProfile(n) /\ ~ Attach(n) /\ ~ Clean(n) /\ ~ Reap(n)
              /\ ~ ReadStudent(n) /\ ~ DropObject(n) /\ ~ DeleteRows(n)
    <3>1. /\ UNCHANGED <<profile, photo, objects, attached, old, op, path>>
          /\ pc[n] = "clean" => pc'[n] = "clean"
          /\ \/ pc'[n] = pc[n]
             \/ pc'[n] \in {"profile", "status", "reply", "reap", "done"}
             \/ pc'[n] = "wait" /\ (op[n] = "delete" => pc[n] = "erase")
             \/ pc'[n] = "drop" /\ op[n] = "delete" /\ pc[n] = "wait"
      BY <1>0, <1>2, <2>2, <2>13, SweptKept
    <3> QED
      BY <2>3, <2>4, <3>1
  <2> QED
    BY <2>6, <2>7, <2>8, <2>9, <2>10, <2>11, <2>12, <2>13
<1>3. CASE Recognise \/ SaveMatch \/ SaveDetections \/ JobFails \/ UNCHANGED vars
  <2>1. UNCHANGED <<profile, photo, objects, pc, op, path, old, marks, attached, mixed>>
    BY <1>3, WorkersApart
  <2>2. Leftover /\ CleansSet /\ ReadIsCurrent /\ DroppedAll /\ NoneBefore
    BY <2>1 DEF Swept, Tidy
  <2> QED
    BY <2>1, <2>2 DEF Leftover, CleansSet, ReadIsCurrent, DroppedAll, NoneBefore
<1> QED
  BY <1>1, <1>2, <1>3 DEF Next

\* The object store holds the photo the profile names, under requests and calls
\* that overlap, and no photo it has named before, unless a failure was logged.
THEOREM PhotosKeepToRows == Spec => []PhotosFollowRows
<1> DEFINE Inv == TypeOK /\ Places /\ InOrder /\ Logins /\ Reaping /\ RowPhoto /\ Swept
<1>1. Init => Inv
  <2>1. Init => InOrder
    BY DEF Init, InOrder, Ordered, Sequential, Active, Calling
  <2>2. Init => Logins
    BY DEF Init, Logins, SeenFirst, GoneByDelete, RowHasLogin, PendingAlone,
       LoginInHand, Pending
  <2>3. Init => Reaping /\ RowPhoto
    BY DEF Init, Reaping, RowPhoto, PhotoThere, PostsThere, Owned, OldOnes,
       Replaced, Posting, Uploads
  <2>4. Init => Swept
    BY DEF Init, Swept, Leftover, CleansSet, ReadIsCurrent, DroppedAll, NoneBefore
  <2> QED
    BY <2>1, <2>2, <2>3, <2>4, PlacesInit
<1>2. Inv /\ [Next]_vars => Inv'
  BY PlacesKept, InOrderStep, LoginsStep, ReapingStep, RowPhotoStep, SweptStep DEF Places
<1>3. Inv => PhotosFollowRows
  <2>1. Inv => RowPhotoExists
    BY DEF RowPhoto, Unharmed, Distinct, PhotoThere, RowPhotoExists
  <2>2. Inv => ReplacedPhotosGone
    <3> SUFFICES ASSUME Inv, ~ Busy, Tidy
                 PROVE  attached \cap objects \subseteq {photo}
      BY DEF ReplacedPhotosGone, Tidy
    <3>1. Leftover
      BY DEF Swept
    <3>2. \A n \in Requests : pc[n] # "clean"
      BY DEF Busy, UnderWay, Active
    <3> QED
      BY <3>1, <3>2 DEF Leftover
  <2> QED
    BY <2>1, <2>2 DEF PhotosFollowRows
<1> QED
  BY <1>1, <1>2, <1>3, PTL DEF Spec

-----------------------------------------------------------------------------
\* An enrolled student is found by the photo shown.

\* What Shown says of one request.
ShownOf(n) ==
  /\ status = "enrolled" /\ ~ Enrolling(n) => face = {photo} /\ refs = {photo}
  /\ Enrolling(n) => photo = path[n] /\ profile = "row"
  /\ mpc[n] = "store" => have[n] = refs
  /\ mpc[n] \in {"list", "embed", "upsert"} => refs = {path[n]}
  /\ mpc[n] \in {"embed", "upsert"} => have[n] = {path[n]}
  /\ pc[n] \in {"wait", "status"} /\ result[n] = "stored"
       => mpc[n] = "done" /\ face = {path[n]} /\ refs = {path[n]}
  /\ Calling(n) /\ ~ Enrolling(n) => status # "enrolled"

\* A step of a request keeps what is shown, the others being at rest.
LEMMA RequestKeepsShown ==
  ASSUME NEW n \in Requests, Shaped, Kinds, Calls, ShownOf(n), op[n] # "delete",
         marks' \cap {"status", "crash"} = {}, RequestStep(n), ~ Start(n)
  PROVE  ShownOf(n)'
<1> USE DEF Shaped, Kinds, KindsOf, Calls, CallOf, BeforeCall, ShownOf, Enrolling,
    Calling, backend, ml, backendVars, mlVars, indexVars, historyVars, boundVars, Goto
<1>1. CASE CreateLogin(n)
  BY <1>1 DEF CreateLogin, Fault
<1>2. CASE CreateProfile(n)
  BY <1>2 DEF CreateProfile
<1>3. CASE Undo(n)
  BY <1>3 DEF Undo, Fault
<1>4. CASE ReadStudent(n)
  BY <1>4 DEF ReadStudent, ToEnrol
<1>5. CASE Attach(n)
  BY <1>5 DEF Attach, Fault
<1>6. CASE Clean(n)
  BY <1>6 DEF Clean, Fault
<1>7. CASE Enrol(n)
  BY <1>7 DEF Enrol, Call, Fault
<1>8. CASE Answered(n)
  BY <1>8 DEF Answered, AfterCall
<1>9. CASE TimeOut(n)
  BY <1>9 DEF TimeOut
<1>10. CASE SetStatus(n)
  BY <1>10 DEF SetStatus, Fault
<1>11. CASE Reply(n)
  BY <1>11 DEF Reply, Fault
<1>12. CASE Reap(n)
  BY <1>12 DEF Reap
<1>13. CASE Crash(n)
  BY <1>13 DEF Crash, Fault
<1>14. ~ Erase(n) /\ ~ DropObject(n) /\ ~ DeleteRows(n)
  BY DEF Erase, DropObject, DeleteRows
<1> QED
  BY <1>1, <1>2, <1>3, <1>4, <1>5, <1>6, <1>7, <1>8, <1>9, <1>10, <1>11, <1>12,
     <1>13, <1>14 DEF RequestStep

\* So does a step of its call.
LEMMA CallKeepsShown ==
  ASSUME NEW n \in Requests, Shaped, Kinds, Calls, ShownOf(n), op[n] # "delete",
         CallStep(n)
  PROVE  ShownOf(n)'
<1> USE DEF Shaped, Kinds, KindsOf, DeletePlaces, Calls, CallOf, BeforeCall, ShownOf,
    Enrolling, Calling, backend, ml, backendVars, mlVars, indexVars, historyVars, boundVars,
    MGoto, MFrame
<1>1. CASE CallFails(n)
  BY <1>1 DEF CallFails, Answer, Fault
<1>2. CASE WipeRefs(n)
  BY <1>2 DEF WipeRefs
<1>3. CASE StoreRefs(n)
  BY <1>3 DEF StoreRefs
<1>4. CASE ListRefs(n)
  BY <1>4 DEF ListRefs
<1>5. CASE Embed(n)
  <2>1. mpc[n] = "embed" /\ UNCHANGED <<refs, face, status, photo, profile, path, pc>>
    BY <1>5 DEF Embed
  <2>2. \/ mpc' = [mpc EXCEPT ![n] = "upsert"] /\ result' = result /\ have'[n] # {}
           /\ have'[n] \subseteq have[n]
        \/ Answer(n, "no face")
    <3>1. PICK found : /\ found = (have[n] \cap objects) \ Faceless
                       /\ \/ found = {} /\ Answer(n, "no face")
                          \/ /\ found # {} /\ mpc' = [mpc EXCEPT ![n] = "upsert"]
                             /\ have' = [have EXCEPT ![n] = found] /\ UNCHANGED result
      BY <1>5 DEF Embed
    <3>2. have' = [have EXCEPT ![n] = found] => have'[n] = found
      OBVIOUS
    <3>3. found \subseteq have[n]
      BY <3>1
    <3>4. CASE Answer(n, "no face")
      BY <3>4
    <3>5. CASE /\ found # {} /\ mpc' = [mpc EXCEPT ![n] = "upsert"]
               /\ have' = [have EXCEPT ![n] = found] /\ UNCHANGED result
      BY <3>2, <3>3, <3>5
    <3> QED
      BY <3>1, <3>4, <3>5
  <2>3. Answer(n, "no face") => mpc'[n] = "done" /\ result'[n] \in {result[n], "no face"}
    BY DEF Answer
  <2>4. /\ mpc[n] = "embed" /\ UNCHANGED <<refs, face, status, photo, profile, path, pc>>
        /\ \/ /\ mpc'[n] = "upsert" /\ have'[n] # {} /\ have'[n] \subseteq have[n]
              /\ result'[n] = result[n]
           \/ mpc'[n] = "done" /\ result'[n] \in {result[n], "no face"}
    BY <2>1, <2>2, <2>3
  <2>5. have[n] = {path[n]}
    BY <2>4
  <2>6. have'[n] # {} /\ have'[n] \subseteq have[n] => have'[n] = {path[n]}
    BY <2>5
  <2>7. ~ (pc[n] \in {"wait", "status"} /\ result[n] = "stored")
    BY <2>4
  <2> QED
    BY <2>4, <2>6, <2>7
<1>6. CASE Upsert(n)
  BY <1>6 DEF Upsert, Answer,
     SaveBreaks, LoadFails, IFrame, Fault, MGoto
<1>7. ~ EraseIndex(n) /\ ~ EraseRefs(n) /\ ~ EraseMatches(n) /\ ~ EraseCandidates(n)
  BY DEF EraseIndex, EraseRefs, EraseMatches, EraseCandidates,
     SaveBreaks, LoadFails, IFrame, Fault, Answer, MGoto
<1> QED
  BY <1>1, <1>2, <1>3, <1>4, <1>5, <1>6, <1>7 DEF CallStep

\* A student shown as enrolled has the embedding of the photo shown.
LEMMA ShownStep ==
  ASSUME TypeOK, Kinds, Calls, InOrder, Shown, [Next]_vars
  PROVE  Shown'
<1> DEFINE All == FaceShown /\ EnrolsShown /\ CallOnPath /\ StoredIsShown /\ LateCalls
<1> SUFFICES ASSUME Plain'
             PROVE  All'
  BY DEF Shown
<1>0. Shaped /\ Sequential
  BY TypesShape DEF TypeOK, InOrder
<1>1. ASSUME NEW n \in Requests, Start(n)
      PROVE  All'
  <2>1. /\ pc[n] = "new" /\ pc'[n] \in {"login", "read"}
        /\ \A m \in Requests \ {n} :
             pc'[m] = pc[m] /\ op'[m] = op[m] /\ path'[m] = path[m]
        /\ mixed' = (mixed \/ Busy)
        /\ UNCHANGED <<profile, photo, status, refs, face, result, mpc, have, marks>>
    BY <1>1, StartsAs DEF TypeOK, backendVars, mlVars, indexVars
  <2>2. op[n] = "none" /\ mpc[n] = "none" /\ result[n] = "none"
    BY <2>1 DEF Kinds, KindsOf, Calls, CallOf, BeforeCall
  <2>3. Plain
    BY <2>1, <2>2 DEF Plain, Deleting
  <2>4. All
    BY <2>3 DEF Shown
  <2>5. \A m \in Requests : Enrolling(m)' = Enrolling(m)
    BY <2>1 DEF Enrolling
  <2>6. FaceShown' /\ LateCalls'
    BY <2>1, <2>4, <2>5 DEF FaceShown, LateCalls, Calling
  <2>7. EnrolsShown' /\ CallOnPath' /\ StoredIsShown'
    BY <2>1, <2>2, <2>4, <2>5 DEF EnrolsShown, CallOnPath, StoredIsShown, Enrolling
  <2> QED
    BY <2>6, <2>7
<1>2. ASSUME NEW n \in Requests, RequestStep(n) \/ CallStep(n), ~ Start(n)
      PROVE  All'
  <2>1. mixed' = mixed /\ marks \subseteq marks'
    BY <1>2, LocalsKept DEF TypeOK
  <2>2. op' = op /\ \A m \in Requests \ {n} : mpc'[m] = mpc[m]
    BY <1>0, <1>2, OthersUntouched
  <2>3. Plain /\ ~ mixed /\ op[n] # "delete" /\ marks' \cap {"status", "crash"} = {}
    BY <2>1, <2>2 DEF Plain, Deleting
  <2>4. \A m \in Requests \ {n} :
          /\ pc[m] \in {"new", "done"} /\ pc'[m] = pc[m]
          /\ ~ Calling(m) /\ ~ Calling(m)'
    BY <1>0, <1>2, <2>3, OthersRest
  <2>5. All
    BY <2>3 DEF Shown
  <2>6. \A m \in Requests \ {n} : ~ Enrolling(m) /\ ~ Enrolling(m)'
    BY <2>4 DEF Enrolling
  <2>7. ShownOf(n)
    BY <2>5, <2>6
    DEF ShownOf, FaceShown, EnrolsShown, CallOnPath, StoredIsShown, LateCalls
  <2>8. ShownOf(n)'
    BY <1>0, <1>2, <2>3, <2>7, RequestKeepsShown, CallKeepsShown
  <2>9. FaceShown'
    BY <2>6, <2>8 DEF ShownOf, FaceShown
  <2>10. EnrolsShown' /\ LateCalls'
    BY <2>4, <2>6, <2>8 DEF ShownOf, EnrolsShown, LateCalls
  <2>11. CallOnPath' /\ StoredIsShown'
    BY <2>4, <2>8 DEF ShownOf, CallOnPath, StoredIsShown, Calling
  <2> QED
    BY <2>9, <2>10, <2>11
<1>3. CASE Recognise \/ SaveMatch \/ SaveDetections \/ JobFails \/ UNCHANGED vars
  <2>1. UNCHANGED <<profile, photo, status, pc, op, path, result, mpc, have,
                    refs, face, marks, mixed>>
    BY <1>3, WorkersApart
  <2>2. All
    BY <2>1 DEF Shown, Plain, Deleting
  <2> QED
    BY <2>1, <2>2
    DEF FaceShown, EnrolsShown, CallOnPath, StoredIsShown, LateCalls, Enrolling, Calling
<1> QED
  BY <1>1, <1>2, <1>3 DEF Next

\* An enrolled student is found by the photo the profile shows and by no other,
\* unless requests overlapped or the failure to write the status was logged.
THEOREM EnrolledAreShown == Spec => []EnrolledByShownPhoto
<1> DEFINE Inv == TypeOK /\ Places /\ InOrder /\ Shown
<1>1. Init => Inv
  <2>1. Init => InOrder
    BY DEF Init, InOrder, Ordered, Sequential, Active, Calling
  <2>2. Init => Shown
    BY DEF Init, Shown, FaceShown, EnrolsShown, CallOnPath, StoredIsShown,
       LateCalls, Enrolling, Calling
  <2> QED
    BY <2>1, <2>2, PlacesInit
<1>2. Inv /\ [Next]_vars => Inv'
  BY PlacesKept, InOrderStep, ShownStep DEF Places
<1>3. Inv => EnrolledByShownPhoto
  BY DEF Shown, Plain, FaceShown, Enrolling, EnrolledByShownPhoto, Busy, UnderWay, Active
<1> QED
  BY <1>1, <1>2, <1>3, PTL DEF Spec

=============================================================================
