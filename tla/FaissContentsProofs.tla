------------------------ MODULE FaissContentsProofs ------------------------
(***************************************************************************)
(* Theorems about what FaissIndex keeps in its three files and what its    *)
(* searches find: that only a lost lease loses a finished write, that the  *)
(* faces of an erased student are out of the index file, that the files    *)
(* implement the roster, that no search names one erased, and that one     *)
(* which no write overlaps is exact.                                       *)
(***************************************************************************)
EXTENDS FaissIndexProofs

-----------------------------------------------------------------------------
\* What a triple says.

\* A triple whose rows line up.
Triple(b) ==
  b.index \in Seq(Faces) /\ b.idMap \in Seq(Students) /\ Len(b.index) = Len(b.idMap)

\* Each row of the index has the name of whose face it is, and the faces of one
\* student are of one enrolment.
Sound(b) ==
  /\ Triple(b)
  /\ \A i \in 1..Len(b.idMap) : b.index[i].of = b.idMap[i]
  /\ \A i, j \in 1..Len(b.idMap) :
       b.idMap[i] = b.idMap[j] => b.index[i].enrolment = b.index[j].enrolment

Names(b) == {b.idMap[i] : i \in 1..Len(b.idMap)}

\* A student is on the roster of a sound triple if its id map names them, with
\* the enrolment of any of their rows.
LEMMA Unnamed ==
  ASSUME NEW b, Triple(b), NEW s, s \notin Names(b)
  PROVE  EnrolmentIn(b, s) = 0
<1> DEFINE own == {row.face : row \in {q \in Rows(b) : q.name = s}}
<1>1. \A q \in Rows(b) : q.name # s
  BY DEF Triple, Names, Rows
<1>2. own = {}
  BY <1>1
<1> HIDE DEF own
<1>3. EnrolmentIn(b, s) =
        CASE own = {} -> 0
          [] own # {} /\ \E e \in 1..MaxWrites : \A f \in own : f.of = s /\ f.enrolment = e
             -> (CHOOSE f \in own : TRUE).enrolment
          [] OTHER -> -1
  BY DEF EnrolmentIn, own
<1> QED
  BY <1>2, <1>3

LEMMA Named ==
  ASSUME NEW b, Sound(b), NEW i \in 1..Len(b.idMap)
  PROVE  EnrolmentIn(b, b.idMap[i]) = b.index[i].enrolment
<1> DEFINE s == b.idMap[i]
           own == {row.face : row \in {q \in Rows(b) : q.name = s}}
           e == b.index[i].enrolment
<1>1. \A q \in Rows(b) :
        \E j \in 1..Len(b.idMap) : q = [face |-> b.index[j], name |-> b.idMap[j]]
  BY DEF Rows
<1>2. ASSUME NEW f \in own
      PROVE  f.of = s /\ f.enrolment = e
  <2>1. PICK q \in Rows(b) : q.name = s /\ f = q.face
    OBVIOUS
  <2>2. PICK j \in 1..Len(b.idMap) : q = [face |-> b.index[j], name |-> b.idMap[j]]
    BY <1>1
  <2> QED
    BY <2>1, <2>2 DEF Sound
<1>3. b.index[i] \in own
  <2>1. i \in 1..Len(b.index)
    BY DEF Sound, Triple
  <2>2. [face |-> b.index[i], name |-> b.idMap[i]] \in Rows(b)
    BY <2>1 DEF Rows
  <2> QED
    BY <2>2
<1>4. e \in 1..MaxWrites
  <2>1. b.index[i] \in Faces
    BY DEF Sound, Triple
  <2> QED
    BY <2>1 DEF Faces
<1>5. EnrolmentIn(b, s) =
        CASE own = {} -> 0
          [] own # {} /\ \E x \in 1..MaxWrites : \A f \in own : f.of = s /\ f.enrolment = x
             -> (CHOOSE f \in own : TRUE).enrolment
          [] OTHER -> -1
  BY DEF EnrolmentIn
<1> HIDE DEF s, own, e
<1>6. own # {} /\ \E x \in 1..MaxWrites : \A f \in own : f.of = s /\ f.enrolment = x
  BY <1>2, <1>3, <1>4
<1>7. (CHOOSE f \in own : TRUE) \in own
  BY <1>3
<1>8. EnrolmentIn(b, s) = (CHOOSE f \in own : TRUE).enrolment
  BY <1>5, <1>6
<1>9. EnrolmentIn(b, s) = e
  BY <1>2, <1>7, <1>8
<1> QED
  BY <1>9 DEF s, e

\* A finished request leaves its enrolment, or none if it erased.

\* A rewrite of a sound triple is sound, gives the student the request's
\* enrolment and leaves every other student's as it was.
LEMMA RebuiltSound ==
  ASSUME NEW w, buf[w] \in Blobs, Sound(buf[w]), req[w] \in Operations,
         embedder \in 0..MaxUpgrades
  PROVE  /\ Sound(Rebuilt(w))
         /\ Names(Rebuilt(w)) = (Names(buf[w]) \ {req[w].student})
              \cup (IF req[w].kind = "upsert" THEN {req[w].student} ELSE {})
         /\ EnrolmentIn(Rebuilt(w), req[w].student) = Outcome(w)
         /\ \A t \in Students \ {req[w].student} :
              EnrolmentIn(Rebuilt(w), t) = EnrolmentIn(buf[w], t)
<1> DEFINE old == buf[w]
           new == Rebuilt(w)
           s == req[w].student
           n == Others(w)
           m == Added(w)
           K == OldRow(w)
<1>1. /\ n \in Nat /\ m \in Nat
      /\ new.index \in Seq(Faces) /\ new.idMap \in Seq(Students)
      /\ Len(new.index) = n + m /\ Len(new.idMap) = n + m
      /\ \A j \in 1..n : /\ K[j] \in 1..Len(old.idMap)
                         /\ new.index[j] = old.index[K[j]]
                         /\ new.idMap[j] = old.idMap[K[j]]
                         /\ new.idMap[j] # s
      /\ \A i \in 1..Len(old.idMap) : old.idMap[i] # s => \E j \in 1..n : K[j] = i
      /\ \A j \in 1..(n + m) : j > n => new.index[j] = NewFace(w) /\ new.idMap[j] = s
  <2>1. ~ Mismatched(buf[w])
    BY DEF Sound, Triple, Mismatched
  <2> QED
    BY <2>1, RebuiltRows, Zenon
<1>2. /\ NewFace(w).of = s /\ NewFace(w).enrolment = req[w].enrolment
      /\ req[w].kind = "upsert" => m \in Nat /\ m >= 1
      /\ req[w].kind # "upsert" => m = 0
  BY FaissAssumption DEF NewFace, Added, Operations
<1>3. /\ Len(old.idMap) \in Nat
      /\ \A i \in 1..Len(old.idMap) : old.index[i].of = old.idMap[i]
      /\ \A i, j \in 1..Len(old.idMap) :
           old.idMap[i] = old.idMap[j] => old.index[i].enrolment = old.index[j].enrolment
  BY DEF Sound, Triple
<1>4. Sound(old)
  OBVIOUS
<1> HIDE DEF old, new, s, n, m, K
<1>5. \A j \in 1..(n + m) : j \in 1..n \/ j > n
  BY <1>1
<1>6. Triple(new)
  BY <1>1 DEF Triple
<1>7. Sound(new)
  <2>1. ASSUME NEW i \in 1..(n + m)
        PROVE  new.index[i].of = new.idMap[i]
    <3>1. CASE i \in 1..n
      <4>1. K[i] \in 1..Len(old.idMap) /\ old.index[K[i]].of = old.idMap[K[i]]
        BY <3>1, <1>1, <1>3
      <4> QED
        BY <3>1, <4>1, <1>1
    <3>2. CASE i > n
      <4>1. new.index[i] = NewFace(w) /\ new.idMap[i] = s
        BY <3>2, <1>1
      <4> QED
        BY <4>1, <1>2
    <3> QED
      BY <3>1, <3>2, <1>5
  <2>2. ASSUME NEW i \in 1..(n + m), NEW j \in 1..(n + m), new.idMap[i] = new.idMap[j]
        PROVE  new.index[i].enrolment = new.index[j].enrolment
    <3>1. CASE i \in 1..n /\ j \in 1..n
      <4>1. /\ K[i] \in 1..Len(old.idMap) /\ K[j] \in 1..Len(old.idMap)
            /\ new.idMap[i] = old.idMap[K[i]] /\ new.idMap[j] = old.idMap[K[j]]
            /\ new.index[i] = old.index[K[i]] /\ new.index[j] = old.index[K[j]]
        BY <3>1, <1>1
      <4>2. old.idMap[K[i]] = old.idMap[K[j]]
        BY <4>1, <2>2
      <4>3. old.index[K[i]].enrolment = old.index[K[j]].enrolment
        BY <4>1, <4>2, <1>3
      <4> QED
        BY <4>1, <4>3
    <3>2. CASE ~ (i \in 1..n) /\ ~ (j \in 1..n)
      BY <2>2, <3>2, <1>1, <1>5
    <3>3. CASE (i \in 1..n) # (j \in 1..n)
      BY <2>2, <3>3, <1>1, <1>5
    <3> QED
      BY <3>1, <3>2, <3>3
  <2> QED
    BY <1>1, <1>6, <2>1, <2>2 DEF Sound
<1>8. Names(new) = (Names(old) \ {s}) \cup (IF req[w].kind = "upsert" THEN {s} ELSE {})
  <2>1. ASSUME NEW t \in Names(new)
        PROVE  t \in Names(old) \ {s} \/ (req[w].kind = "upsert" /\ t = s)
    <3>1. PICK j \in 1..(n + m) : t = new.idMap[j]
      BY <1>1 DEF Names
    <3>2. CASE j \in 1..n
      <4>1. K[j] \in 1..Len(old.idMap) /\ t = old.idMap[K[j]] /\ t # s
        BY <3>1, <3>2, <1>1
      <4> QED
        BY <4>1 DEF Names
    <3>3. CASE j > n
      <4>1. t = s /\ m # 0
        BY <3>1, <3>3, <1>1
      <4> QED
        BY <4>1, <1>2
    <3> QED
      BY <3>2, <3>3, <1>5
  <2>2. ASSUME NEW t \in Names(old), t # s
        PROVE  t \in Names(new)
    <3>1. PICK i \in 1..Len(old.idMap) : t = old.idMap[i]
      BY DEF Names
    <3>2. PICK j \in 1..n : K[j] = i
      BY <3>1, <2>2, <1>1
    <3>3. j \in 1..(n + m) /\ new.idMap[j] = t
      BY <3>1, <3>2, <1>1
    <3> QED
      BY <3>3, <1>1 DEF Names
  <2>3. req[w].kind = "upsert" => s \in Names(new)
    <3> SUFFICES ASSUME req[w].kind = "upsert" PROVE s \in Names(new)
      OBVIOUS
    <3>1. n + 1 \in 1..(n + m) /\ n + 1 > n
      BY <1>1, <1>2
    <3>2. new.idMap[n + 1] = s
      BY <3>1, <1>1
    <3> QED
      BY <3>1, <3>2, <1>1 DEF Names
  <2> QED
    BY <2>1, <2>2, <2>3
<1>9. EnrolmentIn(new, s) = Outcome(w)
  <2>1. CASE req[w].kind = "upsert"
    <3>1. n + 1 \in 1..(n + m) /\ n + 1 > n
      BY <1>1, <1>2, <2>1
    <3>2. new.idMap[n + 1] = s /\ new.index[n + 1] = NewFace(w)
      BY <3>1, <1>1
    <3>3. n + 1 \in 1..Len(new.idMap)
      BY <3>1, <1>1
    <3>4. EnrolmentIn(new, new.idMap[n + 1]) = new.index[n + 1].enrolment
      BY <3>3, <1>7, Named
    <3> QED
      BY <3>2, <3>4, <1>2, <2>1 DEF Outcome
  <2>2. CASE req[w].kind # "upsert"
    <3>1. s \notin Names(new)
      BY <1>8, <2>2
    <3> QED
      BY <3>1, <1>6, Unnamed, <2>2 DEF Outcome
  <2> QED
    BY <2>1, <2>2
<1>10. ASSUME NEW t \in Students, t # s
       PROVE  EnrolmentIn(new, t) = EnrolmentIn(old, t)
  <2>1. CASE t \notin Names(old)
    <3>1. t \notin Names(new)
      BY <1>8, <2>1, <1>10
    <3> QED
      BY <3>1, <2>1, <1>4, <1>6, Unnamed DEF Sound
  <2>2. CASE t \in Names(old)
    <3>1. PICK i \in 1..Len(old.idMap) : t = old.idMap[i]
      BY <2>2 DEF Names
    <3>2. PICK j \in 1..n : K[j] = i
      BY <3>1, <1>10, <1>1
    <3>3. /\ j \in 1..Len(new.idMap) /\ new.idMap[j] = t
          /\ new.index[j] = old.index[i]
      BY <3>1, <3>2, <1>1
    <3>4. EnrolmentIn(new, new.idMap[j]) = new.index[j].enrolment
      BY <3>3, <1>7, Named
    <3>5. EnrolmentIn(old, old.idMap[i]) = old.index[i].enrolment
      BY <1>4, Named
    <3> QED
      BY <3>1, <3>3, <3>4, <3>5
  <2> QED
    BY <2>1, <2>2
<1> QED
  BY <1>7, <1>8, <1>9, <1>10 DEF old, new, s

-----------------------------------------------------------------------------
\* Who writes, and who is at rest.

\* Nobody holds a part of a load outside it.
AtRest ==
  /\ \A w \in Writers : wpc[w] \in {"idle", "wait"} => step[w] = 1 /\ buf[w] = Absent
  /\ \A r \in Readers : rpc[r] # "load" => step[r] = 1 /\ buf[r] = Absent

\* As long as no lease has ended early, who is between acquire and release holds
\* the lock.
WritersHold == losses = 0 => \A w \in Writers : Writing(w) => lock = w

Placing == Typed /\ AtRest /\ WritersHold

LEMMA PlacingInit == Init => Placing
  BY TypedInit, FaissAssumption DEF Init, Placing, AtRest, WritersHold, Writing

LEMMA PlacingStep == Placing /\ [Next]_vars => Placing'
<1> SUFFICES ASSUME Placing, [Next]_vars PROVE AtRest' /\ WritersHold'
  BY TypedStep DEF Placing
<1> USE DEF Placing, Typed, writerVars, searchVars, boundVars
<1>1. Writers \cap Readers = {} /\ NoOne \notin Writers
  BY FaissAssumption
<1>2. /\ wpc \in [Writers -> {"idle", "wait", "load", "save", "finish"}]
      /\ rpc \in [Readers -> {"idle", "lookup", "load"}]
      /\ step \in [Writers \cup Readers -> 1..4]
      /\ buf \in [Writers \cup Readers -> Blobs]
  BY DEF TypeOK
<1>3. ASSUME NEW w \in Writers, Request(w) \/ AcquireFails(w) PROVE AtRest' /\ WritersHold'
  BY <1>2, <1>3 DEF Request, AcquireFails, AtRest, WritersHold, Writing
<1>4. ASSUME NEW w \in Writers, Acquire(w) \/ LoseLease(w) \/ Lapse(w)
      PROVE  AtRest' /\ WritersHold'
  <2>1. losses \in Nat
    BY Bounded DEF TypeOK
  <2> QED
    BY <1>1, <1>2, <1>4, <2>1 DEF Acquire, LoseLease, Lapse, AtRest, WritersHold, Writing
<1>5. ASSUME NEW w \in Writers, LoadFiles(w) PROVE AtRest' /\ WritersHold'
  <2>1. /\ wpc[w] = "load" /\ UNCHANGED <<wpc, rpc, lock, losses>>
        /\ \A q \in Writers \cup Readers : q # w => buf'[q] = buf[q] /\ step'[q] = step[q]
    BY <1>5, LoadTypes DEF LoadFiles
  <2> QED
    BY <1>1, <2>1 DEF AtRest, WritersHold, Writing
<1>6. ASSUME NEW w \in Writers, Rebuild(w) \/ SaveFile(w) PROVE AtRest' /\ WritersHold'
  <2>1. /\ wpc[w] \in {"load", "save"} /\ wpc'[w] \in {"save", "finish"}
        /\ UNCHANGED <<rpc, lock, losses, buf>>
        /\ \A q \in Writers \cup Readers : q # w => step'[q] = step[q]
        /\ \A v \in Writers : v # w => wpc'[v] = wpc[v]
    BY <1>2, <1>6 DEF Rebuild, SaveFile
  <2> QED
    BY <1>1, <2>1 DEF AtRest, WritersHold, Writing
<1>7. ASSUME NEW w \in Writers,
             RefuseCorrupt(w) \/ NothingToDelete(w) \/ Finish(w) \/ GiveUp(w)
      PROVE  AtRest' /\ WritersHold'
  <2>1. Leave(w) /\ UNCHANGED <<rpc, losses>>
    BY <1>7 DEF RefuseCorrupt, NothingToDelete, Finish, GiveUp, Release
  <2>2. /\ wpc'[w] = "idle" /\ step'[w] = 1 /\ buf'[w] = Absent
        /\ \A q \in Writers \cup Readers : q # w => step'[q] = step[q] /\ buf'[q] = buf[q]
        /\ \A v \in Writers : v # w => wpc'[v] = wpc[v]
        /\ lock' = lock \/ lock = w
    BY <1>2, <2>1 DEF Leave
  <2> QED
    BY <1>1, <2>1, <2>2 DEF AtRest, WritersHold, Writing
<1>8. ASSUME NEW r \in Readers, Reload(r) PROVE AtRest' /\ WritersHold'
  <2>1. /\ rpc[r] = "load" /\ UNCHANGED <<wpc, rpc, lock, losses>>
        /\ \A q \in Writers \cup Readers : q # r => buf'[q] = buf[q] /\ step'[q] = step[q]
    BY <1>8, LoadTypes DEF Reload
  <2> QED
    BY <1>1, <2>1 DEF AtRest, WritersHold, Writing
<1>9. ASSUME NEW r \in Readers, Answer(r) PROVE AtRest' /\ WritersHold'
  <2>1. /\ rpc'[r] = "idle" /\ step'[r] = 1 /\ buf'[r] = Absent
        /\ UNCHANGED <<wpc, lock, losses>>
        /\ \A q \in Writers \cup Readers : q # r => buf'[q] = buf[q] /\ step'[q] = step[q]
        /\ \A q \in Readers : q # r => rpc'[q] = rpc[q]
    BY <1>2, <1>9 DEF Answer
  <2> QED
    BY <1>1, <2>1 DEF AtRest, WritersHold, Writing
<1>10. ASSUME NEW r \in Readers, BeginSearch(r) \/ LookUp(r) \/ Evict(r)
       PROVE  AtRest' /\ WritersHold'
  <2>1. /\ UNCHANGED <<wpc, lock, losses, buf, step>>
        /\ \A q \in Readers : rpc'[q] # "load" => rpc[q] # "load"
    BY <1>2, <1>10 DEF BeginSearch, LookUp, Evict
  <2> QED
    BY <2>1 DEF AtRest, WritersHold, Writing
<1>11. CASE Upgrade \/ UNCHANGED vars
  BY <1>11 DEF Upgrade, vars, AtRest, WritersHold, Writing
<1> QED
  BY <1>3, <1>4, <1>5, <1>6, <1>7, <1>8, <1>9, <1>10, <1>11 DEF Next, Write, Search

-----------------------------------------------------------------------------
\* What the files say, as long as nothing has broken off and nobody rewrites them
\* without the lock: whoever has lost it will log that, or the failure of the
\* release, when releasing.

Clean ==
  /\ faults = 0 /\ blips = 0 /\ (logged => losses = 0)
  /\ \A w \in Writers : Writing(w) => lock = w

FilesSound ==
  (\A w \in Writers : ~ Torn(w))
    => Sound(files) /\ (files.meta.version = 0 => files = Absent)

\* A load has read the files as they are.
LoadsCurrent ==
  \A w \in Writers : wpc[w] = "load" =>
    \A j \in 1..3 : j < step[w] => buf[w][LoadOrder[j]] = files[LoadOrder[j]]

\* A save replaces what its request has loaded, file by file.
SavesCurrent ==
  \A w \in Writers : wpc[w] = "save" =>
    /\ Sound(buf[w])
    /\ \A j \in 1..3 :
         files[SaveOrder[j]] = IF j < step[w] THEN Rebuilt(w)[SaveOrder[j]]
                                              ELSE buf[w][SaveOrder[j]]

\* The finished writes are those of the files, or of the triple they are being
\* rewritten from; one that has saved but not answered is the exception.
WritesKept ==
  /\ \A w \in Writers : Torn(w) =>
       \A s \in Students : last[s] = EnrolmentIn(buf[w], s)
  /\ (\A w \in Writers : ~ Torn(w)) =>
       \A s \in Students :
         \/ last[s] = EnrolmentIn(files, s)
         \/ \E w \in Writers : wpc[w] = "finish" /\ req[w].student = s
  /\ \A w \in Writers :
       wpc[w] = "finish" => EnrolmentIn(files, req[w].student) = Outcome(w)

Current == FilesSound /\ LoadsCurrent /\ SavesCurrent /\ WritesKept

\* A step cannot make the index clean.
LEMMA CleanBefore ==
  ASSUME Placing, [Next]_vars, Clean'
  PROVE  Clean
<1> USE DEF Placing, Typed, writerVars, searchVars, boundVars
<1>1. faults \in Nat /\ blips \in Nat /\ logged \in BOOLEAN
  BY Bounded DEF TypeOK
<1>2. /\ wpc \in [Writers -> {"idle", "wait", "load", "save", "finish"}]
      /\ NoOne \notin Writers
  BY FaissAssumption DEF TypeOK
<1>3. ASSUME NEW w \in Writers, Request(w) \/ AcquireFails(w) PROVE Clean
  BY <1>2, <1>3 DEF Request, AcquireFails, Clean, Writing
<1>4. ASSUME NEW w \in Writers, Acquire(w) PROVE Clean
  BY <1>2, <1>4 DEF Acquire, Clean, Writing
<1>5. ASSUME NEW w \in Writers, LoseLease(w) \/ Lapse(w) PROVE Clean
  <2>1. LoseLease(w) => FALSE
    BY <1>2 DEF LoseLease, Clean, Writing
  <2> QED
    BY <1>2, <1>5, <2>1 DEF Lapse, Clean, Writing
<1>6. ASSUME NEW w \in Writers, LoadFiles(w) PROVE Clean
  <2>1. blips' = blips \/ blips' = blips + 1
    BY <1>6 DEF LoadFiles, Load
  <2> QED
    BY <1>1, <1>6, <2>1 DEF LoadFiles, Clean, Writing
<1>7. ASSUME NEW w \in Writers, Rebuild(w) \/ SaveFile(w) PROVE Clean
  BY <1>2, <1>7 DEF Rebuild, SaveFile, Clean, Writing
<1>8. ASSUME NEW w \in Writers, Writing(w), Leave(w), UNCHANGED <<blips, losses>>,
             lock = w \/ (logged' /\ losses = 0), logged => logged', faults = 0
      PROVE  Clean
  <2>1. lock = w
    BY <1>8 DEF Clean, WritersHold
  <2>2. /\ \A v \in Writers : v # w => wpc'[v] = wpc[v]
        /\ lock' = lock \/ lock' = NoOne
    BY <1>2, <1>8 DEF Leave
  <2> QED
    BY <1>2, <1>8, <2>1, <2>2 DEF Clean, Writing
<1>9. ASSUME NEW w \in Writers,
             RefuseCorrupt(w) \/ NothingToDelete(w) \/ Finish(w) \/ GiveUp(w)
      PROVE  Clean
  <2>1. Writing(w) /\ Leave(w) /\ UNCHANGED <<blips, losses>>
    BY <1>9 DEF RefuseCorrupt, NothingToDelete, Finish, GiveUp, Release, Writing
  <2>2. faults = 0 /\ (Release(w) \/ (UNCHANGED logged /\ lock = w))
    <3>1. faults' = 0
      BY DEF Clean
    <3>2. CASE RefuseCorrupt(w) \/ NothingToDelete(w) \/ Finish(w)
      BY <3>1, <3>2 DEF RefuseCorrupt, NothingToDelete, Finish
    <3>3. CASE GiveUp(w)
      BY <1>1, <3>1, <3>3 DEF GiveUp
    <3> QED
      BY <1>9, <3>2, <3>3
  <2>3. logged => logged'
    BY <2>2 DEF Release
  <2>4. lock = w \/ logged'
    BY <2>2 DEF Release
  <2>5. logged' => losses = 0
    BY <2>1 DEF Clean
  <2> QED
    BY <1>8, <2>1, <2>2, <2>3, <2>4, <2>5
<1>10. ASSUME NEW r \in Readers, Reload(r) PROVE Clean
  <2>1. blips' = blips \/ blips' = blips + 1
    BY <1>10 DEF Reload, Load
  <2> QED
    BY <1>1, <1>10, <2>1 DEF Reload, Clean, Writing
<1>11. ASSUME NEW r \in Readers, BeginSearch(r) PROVE Clean
  BY <1>1, <1>11 DEF BeginSearch, Clean, Writing
<1>12. ASSUME NEW r \in Readers, LookUp(r) \/ Evict(r) \/ Answer(r) PROVE Clean
  BY <1>12 DEF LookUp, Evict, Answer, Clean, Writing
<1>13. CASE Upgrade \/ UNCHANGED vars
  BY <1>13 DEF Upgrade, vars, Clean, Writing
<1> QED
  BY <1>3, <1>4, <1>5, <1>6, <1>7, <1>8, <1>9, <1>10, <1>11, <1>12, <1>13
  DEF Next, Write, Search

LEMMA CurrentInit == Init => Current
<1> SUFFICES ASSUME Init PROVE Current
  OBVIOUS
<1>1. Triple(Absent) /\ Sound(Absent) /\ Names(Absent) = {}
  BY DEF Absent, Triple, Sound, Names
<1>2. \A s \in Students : EnrolmentIn(Absent, s) = 0
  BY <1>1, Unnamed
<1> QED
  BY <1>1, <1>2 DEF Init, Current, FilesSound, LoadsCurrent, SavesCurrent, WritesKept, Torn

\* What says nothing of the files, the writes and the writers at work.
LEMMA CurrentFrame ==
  ASSUME Current, UNCHANGED <<files, last>>,
         \A w \in Writers : Writing(w)' <=> Writing(w),
         \A w \in Writers : Writing(w) => /\ wpc'[w] = wpc[w] /\ req'[w] = req[w]
                                          /\ step'[w] = step[w] /\ buf'[w] = buf[w]
                                          /\ embedder' = embedder
  PROVE  Current'
<1>1. \A w \in Writers : Torn(w)' <=> Torn(w)
  BY DEF Torn, Writing
<1>2. \A w \in Writers : wpc[w] = "save" => Rebuilt(w)' = Rebuilt(w)
  BY DEF Rebuilt, NextVersion, Writing
<1>3. \A w \in Writers : wpc[w] = "finish" => Outcome(w)' = Outcome(w)
  BY DEF Outcome, Writing
<1>4. FilesSound'
  BY <1>1 DEF Current, FilesSound
<1>5. LoadsCurrent'
  BY DEF Current, LoadsCurrent, Writing
<1>6. SavesCurrent'
  <2> SUFFICES ASSUME NEW w \in Writers, wpc'[w] = "save"
               PROVE  /\ Sound(buf'[w])
                      /\ \A j \in 1..3 :
                           files'[SaveOrder[j]] =
                             IF j < step'[w] THEN Rebuilt(w)'[SaveOrder[j]]
                                             ELSE buf'[w][SaveOrder[j]]
    BY DEF SavesCurrent
  <2>1. wpc[w] = "save" /\ step'[w] = step[w] /\ buf'[w] = buf[w]
    BY DEF Writing
  <2>2. Rebuilt(w)' = Rebuilt(w)
    BY <1>2, <2>1
  <2> QED
    BY <2>1, <2>2 DEF Current, SavesCurrent
<1>7. WritesKept'
  <2>1. \A w \in Writers : Torn(w)' =>
          \A s \in Students : last'[s] = EnrolmentIn(buf'[w], s)
    BY <1>1 DEF Current, WritesKept, Torn, Writing
  <2>2. (\A w \in Writers : ~ Torn(w)') =>
          \A s \in Students :
            \/ last'[s] = EnrolmentIn(files', s)
            \/ \E w \in Writers : wpc'[w] = "finish" /\ req'[w].student = s
    <3>1. \A w \in Writers : wpc[w] = "finish" => wpc'[w] = "finish" /\ req'[w] = req[w]
      BY DEF Writing
    <3> QED
      BY <1>1, <3>1 DEF Current, WritesKept
  <2>3. \A w \in Writers :
          wpc'[w] = "finish" => EnrolmentIn(files', req'[w].student) = Outcome(w)'
    <3>1. \A w \in Writers : wpc'[w] = "finish" => wpc[w] = "finish" /\ req'[w] = req[w]
      BY DEF Writing
    <3> QED
      BY <1>3, <3>1 DEF Current, WritesKept
  <2> QED
    BY <2>1, <2>2, <2>3 DEF WritesKept
<1> QED
  BY <1>4, <1>5, <1>6, <1>7 DEF Current

\* The three files make the triple.
LEMMA SameTriple ==
  ASSUME NEW b \in Blobs, NEW c \in Blobs, \A g \in FileNames : b[g] = c[g]
  PROVE  b = c
<1>1. b.index = c.index /\ b.idMap = c.idMap /\ b.meta = c.meta
  BY DEF FileNames
<1> QED
  BY <1>1 DEF Blobs

LEMMA Orders ==
  /\ \A j \in 1..3 : LoadOrder[j] \in FileNames /\ SaveOrder[j] \in FileNames
  /\ \A g \in FileNames : \E j \in 1..3 : LoadOrder[j] = g
  /\ \A g \in FileNames : \E j \in 1..3 : SaveOrder[j] = g
  /\ \A i, j \in 1..3 : LoadOrder[i] = LoadOrder[j] => i = j
  /\ \A i, j \in 1..3 : SaveOrder[i] = SaveOrder[j] => i = j
<1>1. CASE MetaFirst
  BY <1>1 DEF LoadOrder, SaveOrder, FileNames
<1>2. CASE ~ MetaFirst
  BY <1>2 DEF LoadOrder, SaveOrder, FileNames
<1> QED
  BY <1>1, <1>2

\* Under a clean lock a writer at work is the only one.
LEMMA Alone ==
  ASSUME Clean, NEW w \in Writers, Writing(w)
  PROVE  \A v \in Writers : v # w => ~ Writing(v)
  BY DEF Clean

\* A load that is done has the files as they are.
LEMMA LoadedAll ==
  ASSUME Placing, Clean, Current, NEW w \in Writers, wpc[w] = "load", step[w] = 4
  PROVE  buf[w] = files /\ Sound(files) /\ files \in Blobs
<1>1. buf[w] \in Blobs /\ files \in Blobs
  BY DEF Placing, Typed, TypeOK
<1>2. \A j \in 1..3 : buf[w][LoadOrder[j]] = files[LoadOrder[j]]
  BY DEF Current, LoadsCurrent
<1>3. \A g \in FileNames : buf[w][g] = files[g]
  BY <1>2, Orders
<1>4. \A v \in Writers : ~ Torn(v)
  BY Alone DEF Writing, Torn
<1> QED
  BY <1>1, <1>3, <1>4, SameTriple DEF Current, FilesSound

\* Nobody has begun to write.
LEMMA AcquireCurrent ==
  ASSUME Placing, Clean, Current, NEW w \in Writers, Acquire(w)
  PROVE  Current'
<1>1. \A v \in Writers : ~ Writing(v)
  BY FaissAssumption DEF Acquire, Clean
<1>2. /\ wpc'[w] = "load" /\ step'[w] = 1
      /\ \A v \in Writers : v # w => wpc'[v] = wpc[v]
      /\ UNCHANGED <<files, last, buf, step, req, embedder>>
  BY DEF Acquire, Placing, Typed, TypeOK, AtRest
<1>3. \A v \in Writers : wpc'[v] \in {"load", "save", "finish"} => v = w
  BY <1>1, <1>2 DEF Writing
<1>4. \A v \in Writers : ~ Torn(v) /\ ~ Torn(v)'
  BY <1>1, <1>2, <1>3 DEF Writing, Torn
<1>5. \A v \in Writers : wpc[v] # "finish" /\ wpc'[v] # "finish" /\ wpc'[v] # "save"
  BY <1>1, <1>2, <1>3 DEF Writing
<1> QED
  BY <1>2, <1>3, <1>4, <1>5
  DEF Current, FilesSound, LoadsCurrent, SavesCurrent, WritesKept

LEMMA LoadCurrent ==
  ASSUME Placing, Clean, Clean', Current, NEW w \in Writers, LoadFiles(w)
  PROVE  Current'
<1> USE DEF writerVars, searchVars
<1>1. /\ wpc[w] = "load" /\ Load(w)
      /\ UNCHANGED <<files, last, wpc, req, embedder>>
      /\ \A q \in Writers \cup Readers : q # w => buf'[q] = buf[q] /\ step'[q] = step[q]
      /\ buf \in [Writers \cup Readers -> Blobs] /\ step \in [Writers \cup Readers -> 1..4]
      /\ files \in Blobs
  BY LoadTypes DEF LoadFiles, Placing, Typed, TypeOK
<1>2. \A v \in Writers : v # w => ~ Writing(v)
  BY <1>1, Alone DEF Writing
<1>3. \A v \in Writers : wpc'[v] \in {"load", "save", "finish"} => v = w
  BY <1>1, <1>2 DEF Writing
<1>4. \A v \in Writers : ~ Torn(v) /\ ~ Torn(v)'
  BY <1>1, <1>2 DEF Writing, Torn
<1>5. \A v \in Writers : wpc[v] # "finish" /\ wpc'[v] # "finish" /\ wpc'[v] # "save"
  BY <1>1, <1>3
<1>6. \A j \in 1..3 : j < step'[w] => buf'[w][LoadOrder[j]] = files[LoadOrder[j]]
  <2>1. blips' = 0 /\ blips = 0
    BY DEF Clean
  <2>2. CASE step[w] = 1 /\ files.meta.version = 0 /\ buf' = [buf EXCEPT ![w] = Absent]
    <3>1. files = Absent
      BY <1>4, <2>2 DEF Current, FilesSound
    <3> QED
      BY <1>1, <2>2, <3>1
  <2>3. CASE /\ step[w] <= 3
             /\ buf' = [buf EXCEPT ![w] =
                         [@ EXCEPT ![LoadOrder[step[w]]] = files[LoadOrder[step[w]]]]]
             /\ step' = [step EXCEPT ![w] = @ + 1]
    <3> DEFINE f == LoadOrder[step[w]]
    <3>1. step[w] \in 1..3 /\ step'[w] = step[w] + 1
      BY <1>1, <2>3
    <3>2. f \in FileNames
      BY <3>1, Orders
    <3>3. buf'[w] = [buf[w] EXCEPT ![f] = files[f]]
      BY <1>1, <2>3
    <3>4. buf[w] \in Blobs
      BY <1>1
    <3> HIDE DEF f
    <3>5. \A g \in FileNames : buf'[w][g] = IF g = f THEN files[g] ELSE buf[w][g]
      <4>1. buf[w] = [g \in FileNames |-> buf[w][g]]
        BY <3>4 DEF Blobs, FileNames
      <4> QED
        BY <3>2, <3>3, <4>1
    <3>6. ASSUME NEW j \in 1..3, j < step[w] + 1
          PROVE  buf'[w][LoadOrder[j]] = files[LoadOrder[j]]
      <4>1. LoadOrder[j] \in FileNames
        BY Orders
      <4>2. j = step[w] => LoadOrder[j] = f
        BY DEF f
      <4>3. j # step[w] => buf[w][LoadOrder[j]] = files[LoadOrder[j]]
        BY <1>1, <3>1, <3>6 DEF Current, LoadsCurrent
      <4> QED
        BY <3>5, <4>1, <4>2, <4>3
    <3> QED
      BY <3>1, <3>6
  <2> QED
    BY <1>1, <2>1, <2>2, <2>3 DEF Load
<1>7. LoadsCurrent'
  BY <1>1, <1>3, <1>6 DEF LoadsCurrent
<1> QED
  BY <1>1, <1>4, <1>5, <1>7 DEF Current, FilesSound, SavesCurrent, WritesKept

LEMMA RebuildCurrent ==
  ASSUME Placing, Clean, Current, NEW w \in Writers, Rebuild(w)
  PROVE  Current'
<1> USE DEF writerVars, searchVars, boundVars
<1>1. /\ wpc[w] = "load" /\ step[w] = 4 /\ wpc'[w] = "save" /\ step'[w] = 1
      /\ UNCHANGED <<files, last, req, buf, embedder>>
      /\ \A v \in Writers : v # w => wpc'[v] = wpc[v]
  BY DEF Rebuild, Placing, Typed, TypeOK
<1>2. buf[w] = files /\ Sound(files)
  BY <1>1, LoadedAll
<1>3. \A v \in Writers : v # w => ~ Writing(v)
  BY <1>1, Alone DEF Writing
<1>4. \A v \in Writers : wpc'[v] \in {"load", "save", "finish"} => v = w
  BY <1>1, <1>3 DEF Writing
<1>5. \A v \in Writers : ~ Torn(v) /\ ~ Torn(v)'
  BY <1>1, <1>3, <1>4 DEF Writing, Torn
<1>6. \A v \in Writers : wpc[v] # "finish" /\ wpc'[v] # "finish" /\ wpc'[v] # "load"
  BY <1>1, <1>3, <1>4 DEF Writing
<1>7. SavesCurrent'
  BY <1>1, <1>2, <1>4 DEF SavesCurrent
<1> QED
  BY <1>1, <1>5, <1>6, <1>7 DEF Current, FilesSound, LoadsCurrent, WritesKept

\* A writer leaves the files as they are, and its student as last says.
LEMMA LeaveCurrent ==
  ASSUME Placing, Clean, Current, NEW w \in Writers, Leave(w), Writing(w), ~ Torn(w),
         UNCHANGED <<files, embedder>>, last' \in [Students -> -1..MaxWrites],
         \/ wpc[w] # "finish" /\ last'[req[w].student] = last[req[w].student]
         \/ last'[req[w].student] = EnrolmentIn(files, req[w].student),
         \A s \in Students : s # req[w].student => last'[s] = last[s]
  PROVE  Current'
<1>1. /\ wpc'[w] = "idle"
      /\ \A v \in Writers : v # w => wpc'[v] = wpc[v]
  BY DEF Leave, Placing, Typed, TypeOK
<1>2. \A v \in Writers : v # w => ~ Writing(v)
  BY Alone
<1>3. \A v \in Writers : wpc'[v] \notin {"load", "save", "finish"}
  BY <1>1, <1>2 DEF Writing
<1>4. \A v \in Writers : ~ Torn(v) /\ ~ Torn(v)'
  BY <1>2, <1>3 DEF Writing, Torn
<1>5. \A v \in Writers : wpc[v] = "finish" => v = w
  BY <1>2 DEF Writing
<1>6. \A s \in Students : last'[s] = EnrolmentIn(files, s)
  BY <1>4, <1>5 DEF Current, WritesKept
<1> QED
  BY <1>3, <1>4, <1>6 DEF Current, FilesSound, LoadsCurrent, SavesCurrent, WritesKept

LEMMA EndCurrent ==
  ASSUME Placing, Clean, Clean', Current, NEW w \in Writers,
         RefuseCorrupt(w) \/ NothingToDelete(w) \/ Finish(w) \/ GiveUp(w)
  PROVE  Current'
<1> USE DEF writerVars, searchVars, boundVars
<1>1. /\ Leave(w) /\ UNCHANGED <<files, embedder>> /\ Writing(w) /\ ~ Torn(w)
      /\ last \in [Students -> -1..MaxWrites]
  <2>1. GiveUp(w) => ~ Torn(w)
    <3>1. faults = 0 /\ faults' = 0
      BY DEF Clean
    <3> QED
      BY <3>1 DEF GiveUp
  <2> QED
    BY <2>1 DEF RefuseCorrupt, NothingToDelete, Finish, GiveUp, Release, Writing, Torn,
                Placing, Typed, TypeOK
<1>2. req[w] \in Operations /\ req[w].student \in Students
  BY <1>1 DEF Placing, Typed, Placed, Operations, Writing
<1>3. /\ last' \in [Students -> -1..MaxWrites]
      /\ \A s \in Students : s # req[w].student => last'[s] = last[s]
  <2>1. MaxWrites \in Nat /\ req[w].enrolment \in 1..MaxWrites
    BY <1>2, FaissAssumption DEF Operations
  <2>2. Outcome(w) \in -1..MaxWrites
    BY <2>1 DEF Outcome
  <2> QED
    BY <1>1, <1>2, <2>1, <2>2 DEF RefuseCorrupt, NothingToDelete, Finish, GiveUp
<1>4. CASE RefuseCorrupt(w)
  <2>1. wpc[w] = "load" /\ last'[req[w].student] = last[req[w].student]
    BY <1>4 DEF RefuseCorrupt
  <2> QED
    BY <1>1, <1>3, <2>1, LeaveCurrent
<1>5. CASE NothingToDelete(w)
  <2>1. wpc[w] = "load" /\ step[w] = 4 /\ ~ Listed(w) /\ last'[req[w].student] = 0
    BY <1>1, <1>2, <1>5 DEF NothingToDelete
  <2>2. buf[w] = files /\ Sound(files)
    BY <2>1, LoadedAll
  <2>3. req[w].student \notin Names(files)
    BY <2>1, <2>2 DEF Listed, Names
  <2>4. EnrolmentIn(files, req[w].student) = 0
    BY <2>2, <2>3, Unnamed DEF Sound
  <2> QED
    BY <1>1, <1>3, <2>1, <2>4, LeaveCurrent
<1>6. CASE Finish(w)
  <2>1. wpc[w] = "finish" /\ last'[req[w].student] = Outcome(w)
    BY <1>1, <1>2, <1>6 DEF Finish
  <2>2. EnrolmentIn(files, req[w].student) = Outcome(w)
    BY <2>1 DEF Current, WritesKept
  <2> QED
    BY <1>1, <1>3, <2>1, <2>2, LeaveCurrent
<1>7. CASE GiveUp(w)
  <2>1. last'[req[w].student] = IF wpc[w] = "finish" THEN Outcome(w)
                                                     ELSE last[req[w].student]
    BY <1>1, <1>2, <1>7 DEF GiveUp
  <2>2. wpc[w] = "finish" => EnrolmentIn(files, req[w].student) = Outcome(w)
    BY DEF Current, WritesKept
  <2> QED
    BY <1>1, <1>3, <2>1, <2>2, LeaveCurrent
<1> QED
  BY <1>4, <1>5, <1>6, <1>7

LEMMA SaveCurrent ==
  ASSUME Placing, Clean, Current, NEW w \in Writers, SaveFile(w)
  PROVE  Current'
<1> USE DEF writerVars, searchVars, boundVars
<1>1. /\ step[w] \in 1..3 /\ files' \in Blobs
      /\ \A g \in FileNames :
           files'[g] = IF g = SaveOrder[step[w]] THEN Rebuilt(w)[g] ELSE files[g]
  BY SaveTypes DEF Placing
<1>2. /\ wpc[w] = "save"
      /\ UNCHANGED <<last, req, buf, embedder>>
      /\ \A v \in Writers : v # w => wpc'[v] = wpc[v] /\ step'[v] = step[v]
      /\ step[w] = 3 => wpc'[w] = "finish" /\ step'[w] = 3
      /\ step[w] # 3 => wpc'[w] = "save" /\ step'[w] = step[w] + 1
  BY DEF SaveFile, Placing, Typed, TypeOK
<1>3. \A v \in Writers : v # w => ~ Writing(v)
  BY <1>2, Alone DEF Writing
<1>4. \A v \in Writers : wpc'[v] \in {"load", "save", "finish"} => v = w
  BY <1>2, <1>3 DEF Writing
<1>5. /\ req[w] \in Operations /\ req[w].student \in Students
      /\ buf[w] \in Blobs /\ embedder \in 0..MaxUpgrades /\ files \in Blobs
  BY <1>2 DEF Placing, Typed, Placed, TypeOK, Operations
<1>6. Sound(buf[w])
  BY <1>2 DEF Current, SavesCurrent
<1>7. Rebuilt(w)' = Rebuilt(w)
  BY <1>2 DEF Rebuilt, NextVersion
<1>8. \A j \in 1..3 :
        files'[SaveOrder[j]] = IF j < step[w] + 1 THEN Rebuilt(w)[SaveOrder[j]]
                                                  ELSE buf[w][SaveOrder[j]]
  <2> TAKE j \in 1..3
  <2>1. /\ SaveOrder[j] \in FileNames
        /\ SaveOrder[j] = SaveOrder[step[w]] <=> j = step[w]
    BY <1>1, Orders
  <2>2. files[SaveOrder[j]] = IF j < step[w] THEN Rebuilt(w)[SaveOrder[j]]
                                             ELSE buf[w][SaveOrder[j]]
    BY <1>2 DEF Current, SavesCurrent
  <2>3. CASE j = step[w]
    BY <1>1, <2>1, <2>3
  <2>4. CASE j # step[w]
    <3>1. files'[SaveOrder[j]] = files[SaveOrder[j]]
      BY <1>1, <2>1, <2>4
    <3> QED
      BY <1>1, <2>2, <2>4, <3>1
  <2> QED
    BY <2>3, <2>4
\* While it rewrites, the finished writes are those of what it loaded.
<1>9. \A s \in Students : last[s] = EnrolmentIn(buf[w], s)
  <2>1. CASE step[w] = 1
    <3>1. \A j \in 1..3 : files[SaveOrder[j]] = buf[w][SaveOrder[j]]
      BY <1>2, <2>1 DEF Current, SavesCurrent
    <3>2. \A g \in FileNames : files[g] = buf[w][g]
      BY <3>1, Orders
    <3>3. files = buf[w]
      BY <1>5, <3>2, SameTriple
    <3>4. \A v \in Writers : ~ Torn(v) /\ wpc[v] # "finish"
      BY <1>2, <1>3, <2>1 DEF Torn, Writing
    <3> QED
      BY <3>3, <3>4 DEF Current, WritesKept
  <2>2. CASE step[w] # 1
    <3>1. Torn(w)
      BY <1>1, <1>2, <2>2 DEF Torn
    <3> QED
      BY <3>1 DEF Current, WritesKept
  <2> QED
    BY <2>1, <2>2
<1>10. CASE step[w] # 3
  <2>1. Torn(w)' /\ \A v \in Writers : Torn(v)' => v = w
    BY <1>1, <1>2, <1>4, <1>10 DEF Torn
  <2>2. \A v \in Writers : wpc'[v] # "load" /\ wpc'[v] # "finish"
    BY <1>2, <1>4, <1>10
  <2>3. SavesCurrent'
    BY <1>2, <1>4, <1>6, <1>7, <1>8, <1>10 DEF SavesCurrent
  <2> QED
    BY <1>2, <1>9, <2>1, <2>2, <2>3 DEF Current, FilesSound, LoadsCurrent, WritesKept
<1>11. CASE step[w] = 3
  <2>1. /\ Sound(Rebuilt(w))
        /\ EnrolmentIn(Rebuilt(w), req[w].student) = Outcome(w)
        /\ \A t \in Students \ {req[w].student} :
             EnrolmentIn(Rebuilt(w), t) = EnrolmentIn(buf[w], t)
    BY <1>5, <1>6, RebuiltSound
  <2>2. \A j \in 1..3 : files'[SaveOrder[j]] = Rebuilt(w)[SaveOrder[j]]
    BY <1>8, <1>11
  <2>3. \A g \in FileNames : files'[g] = Rebuilt(w)[g]
    BY <2>2, Orders
  <2>4. /\ files'.index = Rebuilt(w).index /\ files'.idMap = Rebuilt(w).idMap
        /\ files'.meta = Rebuilt(w).meta
    BY <2>3 DEF FileNames
  <2>5. files'.meta.version # 0
    <3>1. \A b \in Blobs : b.meta.version \in Nat
      BY FaissAssumption DEF Blobs, Metas
    <3>2. buf[w].meta.version \in Nat
      BY <1>5, <3>1
    <3>3. Rebuilt(w).meta.version = buf[w].meta.version + 1
      BY DEF Rebuilt, NextVersion
    <3> QED
      BY <2>4, <3>2, <3>3
  <2>6. Sound(files')
    BY <2>1, <2>4 DEF Sound, Triple
  <2>7. \A t : EnrolmentIn(files', t) = EnrolmentIn(Rebuilt(w), t)
    <3>1. Rows(files') = Rows(Rebuilt(w))
      BY <2>4 DEF Rows
    <3> QED
      BY <3>1 DEF EnrolmentIn
  <2>8. \A v \in Writers : wpc'[v] # "load" /\ wpc'[v] # "save"
    BY <1>2, <1>4, <1>11
  <2>9. \A v \in Writers : ~ Torn(v)'
    BY <2>8 DEF Torn
  <2>10. WritesKept'
    <3>1. \A s \in Students : \/ last'[s] = EnrolmentIn(files', s)
                              \/ wpc'[w] = "finish" /\ req'[w].student = s
      BY <1>2, <1>9, <1>11, <2>1, <2>7
    <3>2. EnrolmentIn(files', req'[w].student) = Outcome(w)'
      BY <1>2, <2>1, <2>7 DEF Outcome
    <3> QED
      BY <1>4, <2>9, <3>1, <3>2 DEF WritesKept
  <2> QED
    BY <2>5, <2>6, <2>8, <2>10 DEF Current, FilesSound, LoadsCurrent, SavesCurrent
<1> QED
  BY <1>10, <1>11

LEMMA CurrentStep ==
  ASSUME Placing, Clean, Clean', Current, [Next]_vars
  PROVE  Current'
<1> USE DEF writerVars, searchVars, boundVars
<1>1. /\ wpc \in [Writers -> {"idle", "wait", "load", "save", "finish"}]
      /\ buf \in [Writers \cup Readers -> Blobs]
      /\ step \in [Writers \cup Readers -> 1..4]
      /\ req \in [Writers -> Operations \cup {NoRequest}]
  BY DEF Placing, Typed, TypeOK
<1>2. ASSUME NEW w \in Writers, Request(w) \/ AcquireFails(w) \/ Lapse(w) PROVE Current'
  <2>1. /\ UNCHANGED <<files, last, buf, step, embedder>>
        /\ ~ Writing(w) /\ ~ Writing(w)'
        /\ \A v \in Writers : v # w => wpc'[v] = wpc[v] /\ req'[v] = req[v]
    BY <1>1, <1>2 DEF Request, AcquireFails, Lapse, Writing
  <2> QED
    BY <2>1, CurrentFrame DEF Writing
<1>3. \A w \in Writers : ~ LoseLease(w)
  BY FaissAssumption DEF LoseLease, Clean, Writing
<1>4. ASSUME NEW r \in Readers,
             BeginSearch(r) \/ LookUp(r) \/ Reload(r) \/ Answer(r) \/ Evict(r)
      PROVE  Current'
  <2>1. /\ UNCHANGED <<files, last, wpc, req, embedder>>
        /\ \A q \in Writers : q # r => buf'[q] = buf[q] /\ step'[q] = step[q]
    <3>1. CASE Reload(r)
      BY <3>1, LoadTypes DEF Reload, Placing, Typed
    <3>2. CASE BeginSearch(r) \/ LookUp(r) \/ Answer(r) \/ Evict(r)
      BY <1>1, <3>2 DEF BeginSearch, LookUp, Answer, Evict
    <3> QED
      BY <1>4, <3>1, <3>2
  <2>2. r \notin Writers
    BY FaissAssumption
  <2> QED
    BY <2>1, <2>2, CurrentFrame DEF Writing
<1>5. CASE Upgrade
  <2>1. /\ \A w \in Writers : ~ Writing(w) /\ ~ Writing(w)'
        /\ UNCHANGED <<files, last>>
    BY <1>5 DEF Upgrade, Writing
  <2> QED
    BY <2>1, CurrentFrame
<1>6. CASE UNCHANGED vars
  BY <1>6, CurrentFrame DEF vars, Writing
<1> QED
  BY <1>2, <1>3, <1>4, <1>5, <1>6, AcquireCurrent, LoadCurrent, RebuildCurrent, SaveCurrent,
     EndCurrent DEF Next, Write, Search

\* Finished writes are never lost without a trace: if no save has broken off, no
\* process has died without its lease, no download has failed and neither a lost
\* lease nor a failed release has been logged, then at rest the files hold, for
\* every student, the enrolment that last answered, or nothing after a delete.
THEOREM LossesAreLogged == Spec => []LostWritesAreLogged
<1> DEFINE Inv == Placing /\ (Clean => Current)
<1>1. Init => Inv
  BY PlacingInit, CurrentInit
<1>2. Inv /\ [Next]_vars => Inv'
  BY PlacingStep, CleanBefore, CurrentStep
<1>3. Inv => LostWritesAreLogged
  <2> SUFFICES ASSUME Placing, Clean => Current, \A w \in Writers : ~ Writing(w),
                      ~ logged, faults = 0, blips = 0, NEW s \in Students
               PROVE  last[s] = EnrolmentIn(files, s)
    BY DEF LostWritesAreLogged
  <2>1. Current
    BY DEF Clean
  <2>2. \A w \in Writers : ~ Torn(w) /\ wpc[w] # "finish"
    BY DEF Torn, Writing
  <2> QED
    BY <2>1, <2>2 DEF Current, WritesKept
<1> HIDE DEF Inv
<1> QED
  BY <1>1, <1>2, <1>3, PTL DEF Spec

-----------------------------------------------------------------------------
\* Without failed downloads and lost leases only a save that breaks off can leave
\* the files otherwise than a finished one.

SoFarClean == faults = 0 => Current

LEMMA SoFarCleanStep ==
  ASSUME MaxBlips = 0, MaxLeaseLosses = 0, WriteInv, WriteInv', Placing, SoFarClean,
         [Next]_vars
  PROVE  SoFarClean'
<1> USE DEF writerVars, searchVars, boundVars
<1> SUFFICES ASSUME faults' = 0 PROVE Current'
  BY DEF SoFarClean
<1>1. /\ faults \in Nat /\ blips = 0 /\ blips' = 0
      /\ losses = 0 /\ losses' = 0
  BY PlacingStep, Bounded DEF Placing, Typed, TypeOK
<1>2. faults = 0
  <2>1. ASSUME NEW w \in Writers, GiveUp(w) PROVE faults = 0
    BY <1>1, <2>1 DEF GiveUp
  <2>2. (\A w \in Writers : ~ GiveUp(w)) => UNCHANGED faults
    BY DEF Next, Write, Search, Request, Acquire, AcquireFails, LoadFiles,
       Rebuild, RefuseCorrupt, NothingToDelete, SaveFile, Finish, LoseLease, Lapse,
       BeginSearch, LookUp, Reload, Answer, Evict, Upgrade, vars
  <2> QED
    BY <2>1, <2>2
<1>3. Current /\ Clean
  BY <1>1, <1>2 DEF SoFarClean, Clean, WriteInv, WritersHoldLock
<1>4. Clean'
  BY <1>1 DEF Clean, WriteInv, WritersHoldLock
<1> QED
  BY <1>3, <1>4, CurrentStep

\* A student of a sound triple without an enrolment has no face in it.
LEMMA ZeroUnnamed ==
  ASSUME NEW b, Sound(b), NEW s, EnrolmentIn(b, s) = 0
  PROVE  s \notin Names(b)
<1> SUFFICES ASSUME s \in Names(b) PROVE FALSE
  OBVIOUS
<1>1. PICK i \in 1..Len(b.idMap) : s = b.idMap[i]
  BY DEF Names
<1>2. EnrolmentIn(b, s) = b.index[i].enrolment
  BY <1>1, Named
<1>3. b.index[i] \in Faces
  BY DEF Sound, Triple
<1> QED
  BY <1>2, <1>3 DEF Faces

LEMMA UnnamedNoFace ==
  ASSUME NEW b, Sound(b), NEW s, s \notin Names(b)
  PROVE  \A i \in 1..Len(b.index) : b.index[i].of # s
  BY DEF Sound, Triple, Names

\* Once a delete has written its files, and until the student is enrolled again,
\* the index file holds no embedding of theirs, whatever is being rewritten and
\* whatever requests fail or die, unless one broke off between two of its files.
THEOREM ErasedLeaveTheFile ==
  ASSUME MaxBlips = 0, MaxLeaseLosses = 0
  PROVE  Spec => []ErasedFacesAreGone
<1> DEFINE Inv == WriteInv /\ Placing /\ SoFarClean
<1>1. Init => Inv
  BY WriteInit, PlacingInit, CurrentInit DEF Init, SoFarClean
<1>2. Inv /\ [Next]_vars => Inv'
  BY WriteStep, PlacingStep, SoFarCleanStep
<1>3. Inv => ErasedFacesAreGone
  <2> SUFFICES ASSUME Inv, NEW s \in Students, faults = 0, last[s] = 0,
                      \A w \in Writers : Writing(w) => req[w].student # s
               PROVE  \A i \in 1..Len(files.index) : files.index[i].of # s
    BY DEF ErasedFacesAreGone
  <2>1. Current
    BY DEF SoFarClean
  <2>2. CASE \A w \in Writers : ~ Torn(w)
    <3>1. Sound(files) /\ EnrolmentIn(files, s) = 0
      BY <2>1, <2>2 DEF Current, FilesSound, WritesKept, Writing
    <3> QED
      BY <3>1, ZeroUnnamed, UnnamedNoFace
  <2>3. CASE \E w \in Writers : Torn(w)
    <3>1. PICK w \in Writers : Torn(w)
      BY <2>3
    <3>2. /\ wpc[w] = "save" /\ step[w] \in 1..3 /\ step[w] > 1
          /\ req[w] \in Operations /\ buf[w] \in Blobs /\ embedder \in 0..MaxUpgrades
      BY <3>1 DEF Torn, Placing, Typed, Placed, TypeOK
    <3>3. Sound(buf[w]) /\ files[SaveOrder[1]] = Rebuilt(w)[SaveOrder[1]]
      BY <2>1, <3>2 DEF Current, SavesCurrent
    <3>4. files.index = Rebuilt(w).index
      BY <3>3 DEF SaveOrder
    <3>5. EnrolmentIn(buf[w], s) = 0 /\ req[w].student # s
      BY <2>1, <3>1, <3>2 DEF Current, WritesKept, Writing
    <3>6. s \notin Names(buf[w])
      BY <3>3, <3>5, ZeroUnnamed
    <3>7. /\ Sound(Rebuilt(w))
          /\ Names(Rebuilt(w)) = (Names(buf[w]) \ {req[w].student})
               \cup (IF req[w].kind = "upsert" THEN {req[w].student} ELSE {})
      BY <3>2, <3>3, RebuiltSound
    <3>8. s \notin Names(Rebuilt(w))
      BY <3>5, <3>6, <3>7
    <3> QED
      BY <3>4, <3>7, <3>8, UnnamedNoFace
  <2> QED
    BY <2>2, <2>3
<1> HIDE DEF Inv
<1> QED
  BY <1>1, <1>2, <1>3, PTL DEF Spec

-----------------------------------------------------------------------------
\* The roster.

\* Enrolments are numbered by their requests, and nobody's is answered before
\* its request ends.
FreshEnrolments ==
  /\ \A w \in Writers : wpc[w] # "idle" =>
       /\ req[w].enrolment <= writes
       /\ \A s \in Students : last[s] # req[w].enrolment
       /\ \A v \in Writers \ {w} : wpc[v] # "idle" => req[v].enrolment # req[w].enrolment
  /\ \A s \in Students : last[s] <= writes

LEMMA FreshStep ==
  ASSUME Placing, FreshEnrolments, [Next]_vars
  PROVE  FreshEnrolments'
<1> USE DEF writerVars, searchVars, boundVars
<1>1. /\ wpc \in [Writers -> {"idle", "wait", "load", "save", "finish"}]
      /\ req \in [Writers -> Operations \cup {NoRequest}]
      /\ last \in [Students -> -1..MaxWrites]
      /\ writes \in Nat /\ MaxWrites \in Nat
  BY FaissAssumption DEF Placing, Typed, TypeOK
<1>2. \A w \in Writers : wpc[w] # "idle" =>
        req[w].student \in Students /\ req[w].enrolment \in 1..MaxWrites
  BY DEF Placing, Typed, Placed, Operations
<1>3. \A s \in Students : last[s] \in Int /\ last[s] <= writes
  BY <1>1 DEF FreshEnrolments
<1>4. ASSUME NEW w \in Writers, Request(w) PROVE FreshEnrolments'
  <2>1. /\ writes' = writes + 1 /\ req'[w].enrolment = writes + 1 /\ UNCHANGED last
        /\ \A v \in Writers : v # w => wpc'[v] = wpc[v] /\ req'[v] = req[v]
    BY <1>1, <1>4 DEF Request
  <2>2. \A s \in Students : last'[s] <= writes' /\ last'[s] # req'[w].enrolment
    BY <1>1, <1>3, <2>1
  <2>3. \A v \in Writers : v # w /\ wpc'[v] # "idle" =>
          /\ req'[v].enrolment <= writes' /\ req'[v].enrolment # req'[w].enrolment
          /\ \A s \in Students : last'[s] # req'[v].enrolment
          /\ \A u \in Writers : u # w /\ u # v /\ wpc'[u] # "idle" =>
               req'[u].enrolment # req'[v].enrolment
    <3> TAKE v \in Writers
    <3> HAVE v # w /\ wpc'[v] # "idle"
    <3>1. wpc[v] # "idle" /\ req'[v] = req[v]
      BY <2>1
    <3>2. req[v].enrolment \in 1..MaxWrites /\ req[v].enrolment <= writes
      BY <1>2, <3>1 DEF FreshEnrolments
    <3>3. req'[v].enrolment <= writes' /\ req'[v].enrolment # req'[w].enrolment
      BY <1>1, <2>1, <3>1, <3>2
    <3> QED
      BY <2>1, <3>1, <3>3 DEF FreshEnrolments
  <2> QED
    BY <2>1, <2>2, <2>3, <1>1 DEF FreshEnrolments
\* A request that ends leaves its enrolment, none or an unknown one.
<1>5. ASSUME NEW w \in Writers, Leave(w), UNCHANGED writes, wpc[w] # "idle",
             \A s \in Students : last'[s] \in {last[s], 0, Unknown, req[w].enrolment}
      PROVE  FreshEnrolments'
  <2>1. /\ wpc'[w] = "idle"
        /\ \A v \in Writers : v # w => wpc'[v] = wpc[v] /\ req'[v] = req[v]
    BY <1>1, <1>5 DEF Leave
  <2>2. req[w].enrolment \in Nat /\ req[w].enrolment <= writes
    BY <1>2, <1>5 DEF FreshEnrolments
  <2>3. \A s \in Students : last'[s] <= writes'
    BY <1>1, <1>3, <1>5, <2>2 DEF Unknown
  <2>4. ASSUME NEW v \in Writers, wpc'[v] # "idle", NEW s \in Students
        PROVE  last'[s] # req'[v].enrolment
    <3>1. v # w /\ wpc[v] # "idle" /\ req'[v] = req[v]
      BY <2>1, <2>4
    <3>2. last[s] # req[v].enrolment /\ req[w].enrolment # req[v].enrolment
      BY <1>5, <3>1 DEF FreshEnrolments
    <3>3. req[v].enrolment \in 1..MaxWrites
      BY <1>2, <3>1
    <3> QED
      BY <1>5, <3>1, <3>2, <3>3 DEF Unknown
  <2> QED
    BY <1>5, <2>1, <2>3, <2>4 DEF FreshEnrolments
<1>6. ASSUME NEW w \in Writers,
             RefuseCorrupt(w) \/ NothingToDelete(w) \/ Finish(w) \/ GiveUp(w)
      PROVE  FreshEnrolments'
  <2>1. Leave(w) /\ UNCHANGED writes /\ wpc[w] # "idle"
    BY <1>6 DEF RefuseCorrupt, NothingToDelete, Finish, GiveUp, Release, Writing
  <2>2. \A s \in Students : last'[s] \in {last[s], 0, Unknown, req[w].enrolment}
    BY <1>1, <1>6 DEF RefuseCorrupt, NothingToDelete, Finish, GiveUp, Outcome
  <2> QED
    BY <2>1, <2>2, <1>5
<1>7. ASSUME NEW w \in Writers, AcquireFails(w) PROVE FreshEnrolments'
  BY <1>1, <1>7 DEF AcquireFails, FreshEnrolments
<1>8. ASSUME NEW w \in Writers,
             Acquire(w) \/ LoadFiles(w) \/ Rebuild(w) \/ SaveFile(w) \/ LoseLease(w)
               \/ Lapse(w)
      PROVE  FreshEnrolments'
  <2>1. /\ UNCHANGED <<req, last, writes>>
        /\ \A v \in Writers : wpc'[v] # "idle" => wpc[v] # "idle"
    BY <1>1, <1>8 DEF Acquire, LoadFiles, Rebuild, SaveFile, LoseLease, Lapse
  <2> QED
    BY <2>1 DEF FreshEnrolments
<1>9. ASSUME UNCHANGED <<wpc, req, last, writes>> PROVE FreshEnrolments'
  BY <1>9 DEF FreshEnrolments
<1>10. ASSUME NEW r \in Readers,
              BeginSearch(r) \/ LookUp(r) \/ Reload(r) \/ Answer(r) \/ Evict(r)
       PROVE  FreshEnrolments'
  BY <1>9, <1>10 DEF BeginSearch, LookUp, Reload, Answer, Evict
<1>11. CASE Upgrade \/ UNCHANGED vars
  BY <1>9, <1>11 DEF Upgrade, vars
<1> QED
  BY <1>4, <1>6, <1>7, <1>8, <1>10, <1>11 DEF Next, Write, Search

\* Nothing fails.
Calm == MaxFaults = 0 /\ MaxBlips = 0 /\ MaxLeaseLosses = 0

CalmInv == WriteInv /\ Placing /\ SoFarClean /\ FreshEnrolments

LEMMA CalmInit == Calm /\ Init => CalmInv
<1> SUFFICES ASSUME Calm, Init PROVE CalmInv
  OBVIOUS
<1>1. FreshEnrolments
  BY DEF Init, FreshEnrolments
<1> QED
  BY <1>1, WriteInit, PlacingInit, CurrentInit DEF Init, SoFarClean, CalmInv

LEMMA CalmStep == Calm /\ CalmInv /\ [Next]_vars => CalmInv'
  BY WriteStep, PlacingStep, SoFarCleanStep, FreshStep DEF Calm, CalmInv

LEMMA CalmIsClean == Calm /\ CalmInv => Clean /\ Current
<1> SUFFICES ASSUME Calm, CalmInv PROVE Clean /\ Current
  OBVIOUS
<1>1. faults = 0 /\ blips = 0 /\ losses = 0
  BY DEF Calm, CalmInv, Placing, Typed, TypeOK
<1> QED
  BY <1>1 DEF CalmInv, SoFarClean, Clean, WriteInv, WritersHoldLock

\* The roster the files stand for.
RosterNow == [s \in Students |-> EnrolmentIn(Committed, s)]

\* At most one writer has replaced a file and not yet the meta file.
LEMMA RewriterAlone ==
  ASSUME Clean
  PROVE  /\ Rewriting = {w \in Writers : Torn(w)}
         /\ \A w \in Writers : Torn(w) => Rewriting = {w} /\ Committed = buf[w]
         /\ (\A w \in Writers : ~ Torn(w)) => Committed = files
<1>1. Rewriting = {w \in Writers : Torn(w)}
  BY DEF Rewriting, Torn
<1>2. \A v, w \in Writers : Torn(v) /\ Torn(w) => v = w
  BY DEF Clean, Torn, Writing
<1>3. ASSUME NEW w \in Writers, Torn(w)
      PROVE  Rewriting = {w} /\ Committed = buf[w]
  <2>1. Rewriting = {w}
    BY <1>1, <1>2, <1>3
  <2>2. (CHOOSE v \in Rewriting : TRUE) = w
    BY <2>1
  <2> QED
    BY <2>1, <2>2 DEF Committed
<1>4. (\A w \in Writers : ~ Torn(w)) => Committed = files
  BY <1>1 DEF Committed
<1> QED
  BY <1>1, <1>3, <1>4

\* The roster changes when the meta file is written, by that request's outcome.
LEMMA SaveRoster ==
  ASSUME Calm, CalmInv, CalmInv', NEW w \in Writers, SaveFile(w)
  PROVE  [Roster!Next]_RosterNow
<1> USE DEF writerVars, searchVars, boundVars
<1>1. Clean /\ Current /\ Clean' /\ Current'
  <2>1. Clean' /\ Current'
    <3>1. faults' = 0 /\ blips' = 0 /\ losses' = 0
      BY DEF Calm, CalmInv, Placing, Typed, TypeOK
    <3> QED
      BY <3>1 DEF CalmInv, SoFarClean, Clean, WriteInv, WritersHoldLock
  <2> QED
    BY <2>1, CalmIsClean
<1>2. /\ wpc[w] = "save" /\ step[w] \in 1..3
      /\ UNCHANGED <<last, req, buf, embedder>>
      /\ step[w] = 3 => wpc'[w] = "finish"
      /\ step[w] # 3 => wpc'[w] = "save" /\ step'[w] = step[w] + 1
      /\ req[w] \in Operations /\ req[w].student \in Students
      /\ buf[w] \in Blobs /\ embedder \in 0..MaxUpgrades /\ files \in Blobs
  BY DEF SaveFile, CalmInv, Placing, Typed, TypeOK, Placed, Operations
<1>3. Sound(buf[w])
  BY <1>1, <1>2 DEF Current, SavesCurrent
<1>4. /\ \A v \in Writers : v # w => ~ Writing(v)
      /\ \A v \in Writers : v # w => ~ Writing(v)'
  <2>1. \A v \in Writers : v # w => ~ Writing(v)
    BY <1>1, <1>2, Alone DEF Writing
  <2>2. \A v \in Writers : v # w => wpc'[v] = wpc[v]
    BY DEF SaveFile, CalmInv, Placing, Typed, TypeOK
  <2> QED
    BY <2>1, <2>2 DEF Writing
\* Before the step the files stand for what w has loaded.
<1>5. \A s \in Students : EnrolmentIn(Committed, s) = EnrolmentIn(buf[w], s)
  <2>1. CASE step[w] = 1
    <3>1. \A j \in 1..3 : files[SaveOrder[j]] = buf[w][SaveOrder[j]]
      BY <1>1, <1>2, <2>1 DEF Current, SavesCurrent
    <3>2. files = buf[w]
      BY <1>2, <3>1, Orders, SameTriple
    <3>3. \A v \in Writers : ~ Torn(v)
      BY <1>2, <1>4, <2>1 DEF Torn, Writing
    <3> QED
      BY <1>1, <3>2, <3>3, RewriterAlone
  <2>2. CASE step[w] # 1
    <3>1. Torn(w)
      BY <1>2, <2>2 DEF Torn
    <3> QED
      BY <1>1, <3>1, RewriterAlone
  <2> QED
    BY <2>1, <2>2
<1>6. CASE step[w] # 3
  <2>1. wpc'[w] = "save" /\ step'[w] > 1
    BY <1>2, <1>6
  <2>2. Rewriting' = {w} /\ Committed' = buf[w]
    <3>1. Rewriting' = {w}
      BY <1>4, <2>1 DEF Rewriting, Torn, Writing
    <3>2. (CHOOSE v \in {w} : TRUE) = w
      OBVIOUS
    <3> QED
      BY <1>2, <3>1, <3>2 DEF Committed
  <2>3. RosterNow' = RosterNow
    BY <1>5, <2>2 DEF RosterNow
  <2> QED
    BY <2>3
<1>7. CASE step[w] = 3
  <2>1. Committed' = files'
    <3>1. Rewriting' = {}
      BY <1>2, <1>4, <1>7 DEF Rewriting, Torn, Writing
    <3> QED
      BY <3>1 DEF Committed
  <2>2. \A g \in FileNames : files'[g] = Rebuilt(w)[g]
    <3>1. \A g \in FileNames :
            files'[g] = IF g = SaveOrder[3] THEN Rebuilt(w)[g] ELSE files[g]
      BY <1>7, SaveTypes DEF CalmInv, Placing
    <3>2. \A j \in 1..3 : j < 3 => files[SaveOrder[j]] = Rebuilt(w)[SaveOrder[j]]
      BY <1>1, <1>2, <1>7 DEF Current, SavesCurrent
    <3>3. files["index"] = Rebuilt(w)["index"] /\ files["idMap"] = Rebuilt(w)["idMap"]
      BY <3>2 DEF SaveOrder
    <3> QED
      BY <3>1, <3>3 DEF FileNames, SaveOrder
  <2>3. \A s : EnrolmentIn(files', s) = EnrolmentIn(Rebuilt(w), s)
    <3>1. files'.index = Rebuilt(w).index /\ files'.idMap = Rebuilt(w).idMap
      BY <2>2 DEF FileNames
    <3>2. Rows(files') = Rows(Rebuilt(w))
      BY <3>1 DEF Rows
    <3> QED
      BY <3>2 DEF EnrolmentIn
  <2>4. /\ EnrolmentIn(Rebuilt(w), req[w].student) = Outcome(w)
        /\ \A t \in Students \ {req[w].student} :
             EnrolmentIn(Rebuilt(w), t) = EnrolmentIn(buf[w], t)
    BY <1>2, <1>3, RebuiltSound
  <2>5. RosterNow' = [RosterNow EXCEPT ![req[w].student] = Outcome(w)]
    BY <1>2, <1>5, <2>1, <2>3, <2>4 DEF RosterNow
  <2>6. CASE req[w].kind = "upsert"
    <3>1. Outcome(w) = req[w].enrolment /\ req[w].enrolment \in 1..MaxWrites
      BY <1>2, <2>6 DEF Outcome, Operations
    <3>2. \A t \in Students : last[t] = EnrolmentIn(buf[w], t)
      BY <1>1, <1>2, <1>7 DEF Current, WritesKept, Torn
    <3>3. \A t \in Students : RosterNow[t] # req[w].enrolment
      BY <1>2, <1>5, <3>2 DEF RosterNow, CalmInv, FreshEnrolments
    <3>4. Roster!Enrol(req[w].student, req[w].enrolment)
      BY <2>5, <3>1, <3>3 DEF Roster!Enrol, RosterNow
    <3> QED
      BY <1>2, <3>1, <3>4 DEF Roster!Next
  <2>7. CASE req[w].kind # "upsert"
    <3>1. Roster!Erase(req[w].student)
      BY <2>5, <2>7 DEF Roster!Erase, Outcome, RosterNow
    <3> QED
      BY <1>2, <3>1 DEF Roster!Next
  <2> QED
    BY <2>6, <2>7
<1> QED
  BY <1>6, <1>7

\* No other step begins or ends a rewrite, or changes what it rewrites from.
LEMMA RewritersStay ==
  ASSUME Calm, CalmInv, [Next]_vars, \A w \in Writers : ~ SaveFile(w)
  PROVE  /\ UNCHANGED files
         /\ \A v \in Writers :
              /\ Torn(v)' <=> Torn(v)
              /\ Torn(v) => buf'[v] = buf[v]
<1> USE DEF writerVars, searchVars, boundVars
<1>1. UNCHANGED files
  BY DEF Next, Write, Search, Request, Acquire, AcquireFails, LoadFiles,
     Rebuild, RefuseCorrupt, NothingToDelete, Finish, GiveUp, LoseLease, Lapse,
     BeginSearch, LookUp, Reload, Answer, Evict, Upgrade, vars
<1>3. /\ wpc \in [Writers -> {"idle", "wait", "load", "save", "finish"}]
      /\ buf \in [Writers \cup Readers -> Blobs]
      /\ step \in [Writers \cup Readers -> 1..4]
      /\ faults = 0 /\ MaxFaults = 0 /\ Writers \cap Readers = {}
  BY FaissAssumption DEF Calm, CalmInv, Placing, Typed, TypeOK
<1>4. \A v \in Writers :
        (Torn(v)' <=> Torn(v)) /\ (Torn(v) => buf'[v] = buf[v])
  <2>1. ASSUME NEW w \in Writers,
               Request(w) \/ Acquire(w) \/ AcquireFails(w) \/ LoseLease(w) \/ Lapse(w)
        PROVE  \A v \in Writers :
                 (Torn(v)' <=> Torn(v)) /\ (Torn(v) => buf'[v] = buf[v])
    BY <1>3, <2>1 DEF Request, Acquire, AcquireFails, LoseLease, Lapse, Torn
  <2>2. ASSUME NEW w \in Writers, LoadFiles(w)
        PROVE  \A v \in Writers :
                 (Torn(v)' <=> Torn(v)) /\ (Torn(v) => buf'[v] = buf[v])
    <3>1. /\ wpc[w] = "load" /\ UNCHANGED wpc
          /\ \A q \in Writers \cup Readers : q # w => buf'[q] = buf[q] /\ step'[q] = step[q]
      BY <2>2, LoadTypes DEF LoadFiles, CalmInv, Placing, Typed
    <3> QED
      BY <3>1 DEF Torn
  <2>3. ASSUME NEW w \in Writers, Rebuild(w)
        PROVE  \A v \in Writers :
                 (Torn(v)' <=> Torn(v)) /\ (Torn(v) => buf'[v] = buf[v])
    <3>1. /\ wpc[w] = "load" /\ step'[w] = 1 /\ UNCHANGED buf
          /\ \A v \in Writers : v # w => wpc'[v] = wpc[v] /\ step'[v] = step[v]
      BY <1>3, <2>3 DEF Rebuild
    <3> QED
      BY <3>1 DEF Torn
  <2>4. ASSUME NEW w \in Writers,
               RefuseCorrupt(w) \/ NothingToDelete(w) \/ Finish(w) \/ GiveUp(w)
        PROVE  \A v \in Writers :
                 (Torn(v)' <=> Torn(v)) /\ (Torn(v) => buf'[v] = buf[v])
    <3>1. Leave(w) /\ ~ Torn(w)
      BY <1>3, <2>4 DEF RefuseCorrupt, NothingToDelete, Finish, GiveUp, Release, Torn
    <3>2. /\ wpc'[w] = "idle"
          /\ \A q \in Writers \cup Readers : q # w => buf'[q] = buf[q] /\ step'[q] = step[q]
          /\ \A v \in Writers : v # w => wpc'[v] = wpc[v]
      BY <1>3, <3>1 DEF Leave
    <3> QED
      BY <3>1, <3>2 DEF Torn
  <2>6. ASSUME NEW r \in Readers,
               BeginSearch(r) \/ LookUp(r) \/ Reload(r) \/ Answer(r) \/ Evict(r)
        PROVE  \A v \in Writers :
                 (Torn(v)' <=> Torn(v)) /\ (Torn(v) => buf'[v] = buf[v])
    <3>1. /\ UNCHANGED wpc
          /\ \A q \in Writers \cup Readers : q # r => buf'[q] = buf[q] /\ step'[q] = step[q]
      <4>1. CASE Reload(r)
        BY <4>1, LoadTypes DEF Reload, CalmInv, Placing, Typed
      <4>2. CASE BeginSearch(r) \/ LookUp(r) \/ Answer(r) \/ Evict(r)
        BY <1>3, <4>2 DEF BeginSearch, LookUp, Answer, Evict
      <4> QED
        BY <2>6, <4>1, <4>2
    <3> QED
      BY <1>3, <3>1 DEF Torn
  <2>7. CASE Upgrade \/ UNCHANGED vars
    BY <2>7 DEF Upgrade, vars, Torn
  <2> QED
    BY <2>1, <2>2, <2>3, <2>4, <2>6, <2>7 DEF Next, Write, Search
<1> QED
  BY <1>1, <1>4

\* So no other step changes the roster.
LEMMA RosterStays ==
  ASSUME Calm, CalmInv, [Next]_vars, \A w \in Writers : ~ SaveFile(w)
  PROVE  RosterNow' = RosterNow
<1>1. UNCHANGED files
  BY RewritersStay
<1>2. Clean
  BY CalmIsClean
<1>4. \A v \in Writers :
        (Torn(v)' <=> Torn(v)) /\ (Torn(v) => buf'[v] = buf[v])
  BY RewritersStay
<1>5. Rewriting' = Rewriting
  BY <1>4 DEF Rewriting, Torn
<1>6. Committed' = Committed
  <2>1. CASE \A w \in Writers : ~ Torn(w)
    <3>1. Rewriting = {}
      BY <2>1 DEF Rewriting, Torn
    <3> QED
      BY <1>1, <1>5, <3>1 DEF Committed
  <2>2. CASE \E w \in Writers : Torn(w)
    <3>1. PICK w \in Writers : Torn(w)
      BY <2>2
    <3>2. Rewriting = {w}
      BY <1>2, <3>1, RewriterAlone
    <3>3. (CHOOSE v \in {w} : TRUE) = w
      OBVIOUS
    <3> QED
      BY <1>4, <1>5, <3>1, <3>2, <3>3 DEF Committed
  <2> QED
    BY <2>1, <2>2
<1> QED
  BY <1>6 DEF RosterNow

\* Under the lock every request takes effect at once, when it writes the meta
\* file, and on its own student only (FR-E3, "atomically replaces"): the three
\* files, however its saves and the loads of others interleave, implement the
\* roster.
THEOREM FilesImplementTheRoster ==
  ASSUME Calm
  PROVE  Spec => ImplementsRoster
<1>1. Init => RosterNow = [s \in Students |-> 0]
  <2> SUFFICES ASSUME Init PROVE RosterNow = [s \in Students |-> 0]
    OBVIOUS
  <2>1. Committed = Absent
    <3>1. Rewriting = {}
      BY DEF Init, Rewriting, Torn
    <3> QED
      BY <3>1 DEF Init, Committed
  <2>2. Triple(Absent) /\ Names(Absent) = {}
    BY DEF Absent, Triple, Names
  <2>3. \A s \in Students : EnrolmentIn(Absent, s) = 0
    BY <2>2, Unnamed
  <2> QED
    BY <2>1, <2>3 DEF RosterNow
<1>2. Init => Roster!Init
  BY <1>1 DEF Roster!Init, RosterNow
<1>3. CalmInv /\ CalmInv' /\ [Next]_vars => [Roster!Next]_RosterNow
  <2> SUFFICES ASSUME CalmInv, CalmInv', [Next]_vars PROVE [Roster!Next]_RosterNow
    OBVIOUS
  <2>1. CASE \E w \in Writers : SaveFile(w)
    BY <2>1, SaveRoster
  <2>2. CASE \A w \in Writers : ~ SaveFile(w)
    BY <2>2, RosterStays
  <2> QED
    BY <2>1, <2>2
<1>4. CalmInv /\ CalmInv' /\ [Next]_vars
        => [Roster!Next]_([s \in Students |-> EnrolmentIn(Committed, s)])
  BY <1>3 DEF RosterNow
<1>5. Init => CalmInv
  BY CalmInit
<1>6. CalmInv /\ [Next]_vars => CalmInv'
  BY CalmStep
<1> QED
  BY <1>2, <1>4, <1>5, <1>6, PTL DEF Spec, ImplementsRoster, Roster!Spec

-----------------------------------------------------------------------------
\* What the searches see, in a store that shows the meta file first.

\* No cache or load is ahead of the files.
NotAhead ==
  \A r \in Readers :
    /\ cache[r].meta.version <= files.meta.version
    /\ rpc[r] = "load" => buf[r].meta.version <= files.meta.version

\* A cache of the version in the meta file is the files, or while they are
\* rewritten names whom the triples before or after the rewrite name.
CachesCurrent ==
  \A r \in Readers :
    0 < cache[r].meta.version /\ cache[r].meta.version = files.meta.version =>
      /\ (\A w \in Writers : ~ Torn(w)) => cache[r] = files
      /\ \A w \in Writers : Torn(w) =>
           cache[r].idMap \in {buf[w].idMap, Rebuilt(w).idMap}

\* So is a load that began with that version.
ReadsCurrent ==
  \A r \in Readers :
    rpc[r] = "load" /\ 0 < buf[r].meta.version
      /\ buf[r].meta.version = files.meta.version =>
        /\ (\A w \in Writers : ~ Torn(w)) =>
             \A j \in 1..3 : j < step[r] => buf[r][LoadOrder[j]] = files[LoadOrder[j]]
        /\ \A w \in Writers : Torn(w) /\ step[r] = 4 =>
             buf[r].idMap \in {buf[w].idMap, Rebuilt(w).idMap}

\* Whom a search takes to be stable nobody is writing.
StableUnwritten ==
  \A r \in Readers, w \in Writers :
    \A s \in stable[r] : Writing(w) => req[w].student # s

SearchesCurrent == NotAhead /\ CachesCurrent /\ ReadsCurrent /\ StableUnwritten

\* A search knows nothing of a stable student whose last answer was a delete.
Forgotten(r, s) ==
  /\ \A h \in hits[r] : h.name # s
  /\ rpc[r] = "lookup" /\ cache[r].meta.version = seen[r] => s \notin Names(cache[r])
  /\ rpc[r] = "load" => s \notin Names(buf[r])

ErasedForgotten ==
  \A r \in Readers, s \in Students : s \in stable[r] /\ last[s] = 0 => Forgotten(r, s)

\* What a search answers, or will answer, when no write has overlapped it.
Exact(rows) ==
  /\ \A h \in rows : h.face.of = h.name /\ h.face.enrolment = last[h.name]
  /\ \A s \in Students : last[s] # 0 => \E h \in rows : h.name = s

QuietExact ==
  \A r \in Readers : stable[r] = Students /\ Students # {} =>
    /\ rpc[r] = "idle" => Exact(hits[r])
    /\ rpc[r] = "lookup" => seen[r] = files.meta.version
    /\ rpc[r] # "idle" => 0 < files.meta.version
    /\ rpc[r] = "load" =>
         \A j \in 1..3 : j < step[r] => buf[r][LoadOrder[j]] = files[LoadOrder[j]]

-----------------------------------------------------------------------------
\* What a step can do to a reader.

\* One more file of a load.
ReadsFile(r) ==
  /\ rpc[r] = "load" /\ step[r] \in 1..3 /\ step'[r] = step[r] + 1
  /\ buf'[r] \in Blobs
  /\ \A g \in FileNames :
       buf'[r][g] = IF g = LoadOrder[step[r]] THEN files[g] ELSE buf[r][g]

LEMMA ReadCases ==
  ASSUME Calm, CalmInv, NEW p \in Writers \cup Readers, Load(p)
  PROVE  \/ buf'[p] = Absent /\ files.meta.version = 0
         \/ /\ step[p] \in 1..3 /\ step'[p] = step[p] + 1 /\ buf'[p] \in Blobs
            /\ \A g \in FileNames :
                 buf'[p][g] = IF g = LoadOrder[step[p]] THEN files[g] ELSE buf[p][g]
<1>1. /\ buf \in [Writers \cup Readers -> Blobs] /\ step \in [Writers \cup Readers -> 1..4]
      /\ files \in Blobs /\ blips = 0 /\ MaxBlips = 0
  BY DEF Calm, CalmInv, Placing, Typed, TypeOK
<1>2. buf'[p] \in Blobs
  BY LoadTypes DEF CalmInv, Placing, Typed
<1>3. CASE step[p] = 1 /\ files.meta.version = 0 /\ buf' = [buf EXCEPT ![p] = Absent]
  BY <1>1, <1>3
<1>4. CASE /\ step[p] <= 3
           /\ buf' = [buf EXCEPT ![p] =
                       [@ EXCEPT ![LoadOrder[step[p]]] = files[LoadOrder[step[p]]]]]
           /\ step' = [step EXCEPT ![p] = @ + 1]
  <2> DEFINE f == LoadOrder[step[p]]
  <2>1. step[p] \in 1..3 /\ step'[p] = step[p] + 1
    BY <1>1, <1>4
  <2>2. f \in FileNames
    BY <2>1, Orders
  <2>3. buf'[p] = [buf[p] EXCEPT ![f] = files[f]]
    BY <1>1, <1>4
  <2>4. buf[p] \in Blobs
    BY <1>1
  <2> HIDE DEF f
  <2>5. \A g \in FileNames : buf'[p][g] = IF g = f THEN files[g] ELSE buf[p][g]
    <3>1. buf[p] = [g \in FileNames |-> buf[p][g]]
      BY <2>4 DEF Blobs, FileNames
    <3> QED
      BY <2>2, <2>3, <3>1
  <2> QED
    BY <1>2, <2>1, <2>5 DEF f
<1> QED
  BY <1>1, <1>3, <1>4 DEF Load

\* A cache entry goes or is what was loaded; a load goes on, starts or stays.
LEMMA ReaderMoves ==
  ASSUME Calm, CalmInv, [Next]_vars, NEW r \in Readers
  PROVE  /\ \/ cache'[r] \in {cache[r], Absent}
            \/ rpc[r] = "load" /\ step[r] = 4 /\ cache'[r] = buf[r]
         /\ rpc'[r] = "load" =>
              \/ rpc[r] = "load" /\ buf'[r] = buf[r] /\ step'[r] = step[r]
              \/ buf'[r] = Absent
              \/ ReadsFile(r)
<1> USE DEF writerVars, searchVars, boundVars
<1> DEFINE Goal ==
      /\ \/ cache'[r] \in {cache[r], Absent}
         \/ rpc[r] = "load" /\ step[r] = 4 /\ cache'[r] = buf[r]
      /\ rpc'[r] = "load" =>
           \/ rpc[r] = "load" /\ buf'[r] = buf[r] /\ step'[r] = step[r]
           \/ buf'[r] = Absent
           \/ ReadsFile(r)
<1>1. /\ rpc \in [Readers -> {"idle", "lookup", "load"}]
      /\ cache \in [Readers -> Blobs] /\ buf \in [Writers \cup Readers -> Blobs]
      /\ step \in [Writers \cup Readers -> 1..4]
  BY DEF CalmInv, Placing, Typed, TypeOK
<1>2. \A w \in Writers : w # r
  BY FaissAssumption
<1>3. rpc[r] # "load" => buf[r] = Absent
  BY DEF CalmInv, Placing, AtRest
<1>4. ASSUME NEW w \in Writers,
             Request(w) \/ Acquire(w) \/ AcquireFails(w) \/ Rebuild(w) \/ SaveFile(w)
               \/ LoseLease(w) \/ Lapse(w)
      PROVE  Goal
  <2>1. UNCHANGED <<rpc, cache, buf>> /\ step'[r] = step[r]
    BY <1>1, <1>2, <1>4 DEF Request, Acquire, AcquireFails, Rebuild, SaveFile, LoseLease, Lapse
  <2> QED
    BY <2>1
<1>5. ASSUME NEW w \in Writers, LoadFiles(w) PROVE Goal
  <2>1. UNCHANGED <<rpc, cache>> /\ buf'[r] = buf[r] /\ step'[r] = step[r]
    BY <1>2, <1>5, LoadTypes DEF LoadFiles, CalmInv, Placing, Typed
  <2> QED
    BY <2>1
<1>6. ASSUME NEW w \in Writers,
             RefuseCorrupt(w) \/ NothingToDelete(w) \/ Finish(w) \/ GiveUp(w)
      PROVE  Goal
  <2>1. Leave(w) /\ UNCHANGED rpc /\ cache'[r] \in {cache[r], Absent}
    BY <1>6 DEF RefuseCorrupt, NothingToDelete, Finish, GiveUp, Release
  <2>2. buf'[r] = buf[r] /\ step'[r] = step[r]
    BY <1>1, <1>2, <2>1 DEF Leave
  <2> QED
    BY <2>1, <2>2
<1>7. ASSUME NEW q \in Readers, BeginSearch(q) \/ LookUp(q) \/ Evict(q) PROVE Goal
  <2>1. UNCHANGED <<buf, step>> /\ cache'[r] \in {cache[r], Absent}
    BY <1>1, <1>7 DEF BeginSearch, LookUp, Evict
  <2> QED
    BY <1>3, <2>1
<1>8. ASSUME NEW q \in Readers, Reload(q) PROVE Goal
  <2>1. UNCHANGED <<rpc, cache>> /\ rpc[q] = "load" /\ Load(q)
    BY <1>8 DEF Reload
  <2>2. q # r => buf'[r] = buf[r] /\ step'[r] = step[r]
    BY <2>1, LoadTypes DEF CalmInv, Placing, Typed
  <2>3. q = r => buf'[r] = Absent \/ ReadsFile(r)
    BY <2>1, ReadCases DEF ReadsFile
  <2> QED
    BY <2>1, <2>2, <2>3
<1>9. ASSUME NEW q \in Readers, Answer(q) PROVE Goal
  <2>1. CASE q = r
    <3>1. rpc[r] = "load" /\ step[r] = 4 /\ cache'[r] \in {cache[r], buf[r]} /\ rpc'[r] = "idle"
      BY <1>1, <1>9, <2>1 DEF Answer
    <3> QED
      BY <3>1
  <2>2. CASE q # r
    <3>1. /\ cache'[r] = cache[r] /\ rpc'[r] = rpc[r] /\ buf'[r] = buf[r] /\ step'[r] = step[r]
      BY <1>1, <1>9, <2>2 DEF Answer
    <3> QED
      BY <3>1
  <2> QED
    BY <2>1, <2>2
<1>10. ASSUME Upgrade \/ UNCHANGED vars PROVE Goal
  <2>1. cache'[r] \in {cache[r], Absent} /\ UNCHANGED <<rpc, buf, step>>
    BY <1>10 DEF Upgrade, vars
  <2> QED
    BY <2>1
<1> HIDE DEF Goal
<1>11. Goal
  BY <1>4, <1>5, <1>6, <1>7, <1>8, <1>9, <1>10 DEF Next, Write, Search
<1> QED
  BY <1>11 DEF Goal

\* Answers come from the cache or from what was loaded, and nobody becomes
\* stable but when a search begins.
LEMMA SearchMoves ==
  ASSUME Calm, CalmInv, [Next]_vars, NEW r \in Readers, ~ BeginSearch(r)
  PROVE  /\ stable'[r] \subseteq stable[r]
         /\ \/ hits'[r] = hits[r]
            \/ hits'[r] = {}
            \/ rpc[r] = "lookup" /\ cache[r].meta.version = seen[r] /\ hits'[r] = Rows(cache[r])
            \/ rpc[r] = "load" /\ step[r] = 4 /\ hits'[r] = Rows(buf[r])
         /\ rpc'[r] = "lookup" => /\ rpc[r] = "lookup" /\ seen'[r] = seen[r]
                                  /\ cache'[r] \in {cache[r], Absent}
<1> USE DEF writerVars, searchVars, boundVars
<1> DEFINE Goal ==
      /\ stable'[r] \subseteq stable[r]
      /\ \/ hits'[r] = hits[r]
         \/ hits'[r] = {}
         \/ rpc[r] = "lookup" /\ cache[r].meta.version = seen[r] /\ hits'[r] = Rows(cache[r])
         \/ rpc[r] = "load" /\ step[r] = 4 /\ hits'[r] = Rows(buf[r])
      /\ rpc'[r] = "lookup" => /\ rpc[r] = "lookup" /\ seen'[r] = seen[r]
                               /\ cache'[r] \in {cache[r], Absent}
<1>1. /\ rpc \in [Readers -> {"idle", "lookup", "load"}]
      /\ cache \in [Readers -> Blobs] /\ seen \in [Readers -> 0..MaxWrites]
      /\ hits \in [Readers -> SUBSET [face : Faces, name : Students]]
      /\ stable \in [Readers -> SUBSET Students]
  BY DEF CalmInv, Placing, Typed, TypeOK
<1>2. ASSUME NEW w \in Writers,
             Request(w) \/ Acquire(w) \/ AcquireFails(w) \/ LoadFiles(w) \/ Rebuild(w)
               \/ SaveFile(w) \/ LoseLease(w) \/ Lapse(w)
      PROVE  Goal
  <2>1. UNCHANGED searchVars
    BY <1>2 DEF Request, Acquire, AcquireFails, LoadFiles, Rebuild, SaveFile, LoseLease, Lapse
  <2>2. stable'[r] \subseteq stable[r]
    BY <1>2 DEF Request, Acquire, AcquireFails, LoadFiles, Rebuild, SaveFile, LoseLease, Lapse
  <2> QED
    BY <2>1, <2>2
<1>3. ASSUME NEW w \in Writers,
             RefuseCorrupt(w) \/ NothingToDelete(w) \/ Finish(w) \/ GiveUp(w)
      PROVE  Goal
  <2>1. UNCHANGED <<rpc, seen, hits, stable>> /\ cache'[r] \in {cache[r], Absent}
    BY <1>3 DEF RefuseCorrupt, NothingToDelete, Finish, GiveUp
  <2> QED
    BY <2>1
<1>4. ASSUME NEW q \in Readers, BeginSearch(q) PROVE Goal
  <2>1. q # r
    BY <1>4
  <2>2. /\ hits'[r] = hits[r] /\ rpc'[r] = rpc[r] /\ seen'[r] = seen[r]
        /\ stable'[r] = stable[r] /\ UNCHANGED cache
    BY <1>1, <1>4, <2>1 DEF BeginSearch
  <2> QED
    BY <2>2
<1>5. ASSUME NEW q \in Readers, LookUp(q) PROVE Goal
  <2>1. CASE q = r
    <3>1. /\ rpc[r] = "lookup" /\ rpc'[r] # "lookup" /\ UNCHANGED stable
          /\ \/ hits'[r] = hits[r]
             \/ cache[r].meta.version = seen[r] /\ hits'[r] = Rows(cache[r])
      BY <1>1, <1>5, <2>1 DEF LookUp
    <3> QED
      BY <3>1
  <2>2. CASE q # r
    <3>1. /\ hits'[r] = hits[r] /\ rpc'[r] = rpc[r] /\ seen'[r] = seen[r]
          /\ UNCHANGED <<stable, cache>>
      BY <1>1, <1>5, <2>2 DEF LookUp
    <3> QED
      BY <3>1
  <2> QED
    BY <2>1, <2>2
<1>6. ASSUME NEW q \in Readers, Reload(q) \/ Evict(q) PROVE Goal
  <2>1. UNCHANGED <<rpc, seen, hits, stable>> /\ cache'[r] \in {cache[r], Absent}
    BY <1>1, <1>6 DEF Reload, Evict
  <2> QED
    BY <2>1
<1>7. ASSUME NEW q \in Readers, Answer(q) PROVE Goal
  <2>1. CASE q = r
    <3>1. /\ rpc[r] = "load" /\ step[r] = 4 /\ rpc'[r] # "lookup" /\ UNCHANGED stable
          /\ hits'[r] = hits[r] \/ hits'[r] = Rows(buf[r])
      BY <1>1, <1>7, <2>1 DEF Answer
    <3> QED
      BY <3>1
  <2>2. CASE q # r
    <3>1. /\ hits'[r] = hits[r] /\ rpc'[r] = rpc[r] /\ cache'[r] = cache[r]
          /\ UNCHANGED <<stable, seen>>
      BY <1>1, <1>7, <2>2 DEF Answer
    <3> QED
      BY <3>1
  <2> QED
    BY <2>1, <2>2
<1>8. ASSUME Upgrade PROVE Goal
  <2>1. hits'[r] = {} /\ cache'[r] = Absent /\ UNCHANGED <<rpc, seen, stable>>
    BY <1>8 DEF Upgrade
  <2> QED
    BY <2>1
<1>9. ASSUME UNCHANGED vars PROVE Goal
  BY <1>9 DEF vars
<1> HIDE DEF Goal
<1>10. Goal
  BY <1>2, <1>3, <1>4, <1>5, <1>6, <1>7, <1>8, <1>9 DEF Next, Write, Search
<1> QED
  BY <1>10 DEF Goal

\* What a save does, seen by the readers.
LEMMA SaveMoves ==
  ASSUME Calm, CalmInv, NEW w \in Writers, SaveFile(w)
  PROVE  /\ UNCHANGED <<cache, rpc, hits, seen, stable, last, buf, req>>
         /\ \A r \in Readers : step'[r] = step[r]
         /\ \A v \in Writers : v # w => ~ Writing(v) /\ ~ Writing(v)'
         /\ Writing(w) /\ Rebuilt(w)' = Rebuilt(w) /\ step[w] \in 1..3
         /\ step[w] = 1 => files = buf[w] /\ \A v \in Writers : ~ Torn(v)
         /\ step[w] # 1 => Torn(w)
         /\ step[w] # 3 => files'.meta = files.meta /\ Torn(w)'
         /\ files.meta.version \in Nat
         /\ step[w] = 3 => files'.meta.version = files.meta.version + 1
<1> USE DEF writerVars, searchVars, boundVars
<1>1. Clean /\ Current
  BY CalmIsClean
<1>2. /\ wpc[w] = "save" /\ step[w] \in 1..3
      /\ UNCHANGED <<cache, rpc, hits, seen, stable, last, buf, req, embedder>>
      /\ step[w] = 3 => wpc'[w] = "finish"
      /\ step[w] # 3 => wpc'[w] = "save" /\ step'[w] = step[w] + 1
      /\ \A p \in Writers \cup Readers : p # w => step'[p] = step[p]
      /\ \A v \in Writers : v # w => wpc'[v] = wpc[v]
      /\ buf[w] \in Blobs /\ files \in Blobs
  BY DEF SaveFile, CalmInv, Placing, Typed, TypeOK, Placed
<1>3. \A r \in Readers : step'[r] = step[r]
  BY <1>2, FaissAssumption
<1>4. \A v \in Writers : v # w => ~ Writing(v) /\ ~ Writing(v)'
  <2>1. \A v \in Writers : v # w => ~ Writing(v)
    BY <1>1, <1>2, Alone DEF Writing
  <2> QED
    BY <1>2, <2>1 DEF Writing
<1>5. Rebuilt(w)' = Rebuilt(w)
  BY <1>2 DEF Rebuilt, NextVersion
<1>6. \A j \in 1..3 :
        files[SaveOrder[j]] = IF j < step[w] THEN Rebuilt(w)[SaveOrder[j]]
                                             ELSE buf[w][SaveOrder[j]]
  BY <1>1, <1>2 DEF Current, SavesCurrent
<1>7. step[w] = 1 => files = buf[w] /\ \A v \in Writers : ~ Torn(v)
  <2> SUFFICES ASSUME step[w] = 1
               PROVE  files = buf[w] /\ \A v \in Writers : ~ Torn(v)
    OBVIOUS
  <2>1. \A j \in 1..3 : files[SaveOrder[j]] = buf[w][SaveOrder[j]]
    BY <1>6
  <2>2. files = buf[w]
    BY <1>2, <2>1, Orders, SameTriple
  <2>3. \A v \in Writers : ~ Torn(v)
    BY <1>4 DEF Torn, Writing
  <2> QED
    BY <2>2, <2>3
<1>8. /\ step[w] # 1 => Torn(w)
      /\ step[w] # 3 => Torn(w)'
  BY <1>2 DEF Torn
<1>9. \A g \in FileNames :
        files'[g] = IF g = SaveOrder[step[w]] THEN Rebuilt(w)[g] ELSE files[g]
  BY SaveTypes DEF CalmInv, Placing
<1>10. step[w] # 3 => files'.meta = files.meta
  <2>1. step[w] # 3 => SaveOrder[step[w]] # "meta"
    BY <1>2 DEF SaveOrder
  <2> QED
    BY <1>9, <2>1 DEF FileNames
<1>11. files.meta.version \in Nat
  <2>1. \A b \in Blobs : b.meta.version \in Nat
    BY FaissAssumption DEF Blobs, Metas
  <2> QED
    BY <1>2, <2>1
<1>12. step[w] = 3 => files'.meta.version = files.meta.version + 1
  <2> SUFFICES ASSUME step[w] = 3
               PROVE  files'.meta.version = files.meta.version + 1
    OBVIOUS
  <2>1. files.meta = buf[w].meta
    <3>1. files[SaveOrder[3]] = buf[w][SaveOrder[3]]
      BY <1>6
    <3> QED
      BY <3>1 DEF SaveOrder
  <2>2. files'.meta = Rebuilt(w).meta
    BY <1>9 DEF FileNames, SaveOrder
  <2>3. Rebuilt(w).meta.version = buf[w].meta.version + 1
    BY DEF Rebuilt, NextVersion
  <2> QED
    BY <2>1, <2>2, <2>3
<1>13. Writing(w)
  BY <1>2 DEF Writing
<1> QED
  BY <1>2, <1>3, <1>4, <1>5, <1>7, <1>8, <1>10, <1>11, <1>12, <1>13

\* The other steps leave a rewrite's result what it is.
LEMMA ResultStays ==
  ASSUME Calm, CalmInv, [Next]_vars, \A w \in Writers : ~ SaveFile(w),
         NEW v \in Writers, Torn(v)
  PROVE  Rebuilt(v)' = Rebuilt(v)
<1> USE DEF writerVars, searchVars, boundVars
<1>1. wpc[v] = "save" /\ req \in [Writers -> Operations \cup {NoRequest}]
  BY DEF Torn, CalmInv, Placing, Typed, TypeOK
<1>2. MaxFaults = 0 /\ faults = 0
  BY DEF Calm, CalmInv, Placing, Typed, TypeOK
<1>3. req'[v] = req[v] /\ embedder' = embedder
  <2>1. ASSUME NEW w \in Writers, Request(w) \/ AcquireFails(w)
        PROVE  req'[v] = req[v] /\ embedder' = embedder
    BY <1>1, <2>1 DEF Request, AcquireFails
  <2>2. ASSUME NEW w \in Writers,
               Acquire(w) \/ LoadFiles(w) \/ Rebuild(w) \/ LoseLease(w) \/ Lapse(w)
        PROVE  req'[v] = req[v] /\ embedder' = embedder
    BY <2>2 DEF Acquire, LoadFiles, Rebuild, LoseLease, Lapse
  <2>3. ASSUME NEW w \in Writers,
               RefuseCorrupt(w) \/ NothingToDelete(w) \/ Finish(w) \/ GiveUp(w)
        PROVE  req'[v] = req[v] /\ embedder' = embedder
    <3>1. Leave(w) /\ ~ Torn(w) /\ UNCHANGED embedder
      BY <1>2, <2>3 DEF RefuseCorrupt, NothingToDelete, Finish, GiveUp, Release, Torn
    <3> QED
      BY <1>1, <3>1 DEF Leave
  <2>4. ASSUME NEW r \in Readers,
               BeginSearch(r) \/ LookUp(r) \/ Reload(r) \/ Answer(r) \/ Evict(r)
        PROVE  req'[v] = req[v] /\ embedder' = embedder
    BY <2>4 DEF BeginSearch, LookUp, Reload, Answer, Evict
  <2>5. ~ Upgrade
    BY <1>1 DEF Upgrade
  <2> QED
    BY <2>1, <2>2, <2>3, <2>4, <2>5 DEF Next, Write, Search, vars
<1>4. buf'[v] = buf[v]
  BY RewritersStay
<1> QED
  BY <1>3, <1>4 DEF Rebuilt, NextVersion

\* The last answer on a student is changed by a request on that student.
LEMMA LastStays ==
  ASSUME Calm, CalmInv, [Next]_vars, NEW s \in Students, last'[s] # last[s]
  PROVE  \E w \in Writers : Writing(w) /\ req[w].student = s
<1> USE DEF writerVars, searchVars, boundVars
<1>1. last \in [Students -> -1..MaxWrites]
  BY DEF CalmInv, Placing, Typed, TypeOK
<1>2. ASSUME NEW w \in Writers, NothingToDelete(w) \/ Finish(w) \/ GiveUp(w)
      PROVE  Writing(w) /\ req[w].student = s
  BY <1>1, <1>2 DEF NothingToDelete, Finish, GiveUp, Writing
<1>3. (\A w \in Writers : ~ (NothingToDelete(w) \/ Finish(w) \/ GiveUp(w))) => UNCHANGED last
  BY DEF Next, Write, Search, Request, Acquire, AcquireFails, LoadFiles,
     Rebuild, RefuseCorrupt, SaveFile, LoseLease, Lapse, BeginSearch, LookUp, Reload, Answer,
     Evict, Upgrade, vars
<1> QED
  BY <1>2, <1>3

\* A writer that begins takes its student from what is stable.
LEMMA StableStep ==
  ASSUME Calm, CalmInv, StableUnwritten, [Next]_vars
  PROVE  StableUnwritten'
<1> USE DEF writerVars, searchVars, boundVars
<1>1. /\ wpc \in [Writers -> {"idle", "wait", "load", "save", "finish"}]
      /\ req \in [Writers -> Operations \cup {NoRequest}]
      /\ stable \in [Readers -> SUBSET Students]
  BY DEF CalmInv, Placing, Typed, TypeOK
<1>2. ASSUME NEW w \in Writers, Acquire(w) PROVE StableUnwritten'
  <2>1. /\ UNCHANGED req
        /\ \A v \in Writers : v # w => wpc'[v] = wpc[v]
        /\ \A r \in Readers : stable'[r] = stable[r] \ {req[w].student}
    BY <1>1, <1>2 DEF Acquire
  <2> QED
    BY <2>1 DEF StableUnwritten, Writing
<1>3. ASSUME UNCHANGED stable,
             \A v \in Writers : Writing(v)' => Writing(v) /\ req'[v] = req[v]
      PROVE  StableUnwritten'
  BY <1>3 DEF StableUnwritten
<1>4. ASSUME NEW w \in Writers,
             Request(w) \/ AcquireFails(w) \/ LoadFiles(w) \/ Rebuild(w) \/ SaveFile(w)
               \/ LoseLease(w) \/ Lapse(w)
      PROVE  StableUnwritten'
  <2>1. UNCHANGED stable
    BY <1>4 DEF Request, AcquireFails, LoadFiles, Rebuild, SaveFile, LoseLease, Lapse
  <2>2. \A v \in Writers : Writing(v)' => Writing(v) /\ req'[v] = req[v]
    BY <1>1, <1>4 DEF Request, AcquireFails, LoadFiles, Rebuild, SaveFile, LoseLease, Lapse, Writing
  <2> QED
    BY <1>3, <2>1, <2>2
<1>5. ASSUME NEW w \in Writers,
             RefuseCorrupt(w) \/ NothingToDelete(w) \/ Finish(w) \/ GiveUp(w)
      PROVE  StableUnwritten'
  <2>1. UNCHANGED stable /\ Leave(w)
    BY <1>5 DEF RefuseCorrupt, NothingToDelete, Finish, GiveUp, Release
  <2>2. \A v \in Writers : Writing(v)' => Writing(v) /\ req'[v] = req[v]
    BY <1>1, <2>1 DEF Leave, Writing
  <2> QED
    BY <1>3, <2>1, <2>2
<1>6. ASSUME NEW r \in Readers, BeginSearch(r) PROVE StableUnwritten'
  <2>1. /\ UNCHANGED <<wpc, req>>
        /\ \A q \in Readers : q # r => stable'[q] = stable[q]
        /\ stable'[r] = {s \in Students : \A w \in Writers :
                                            Writing(w) => req[w].student # s}
    BY <1>1, <1>6 DEF BeginSearch
  <2> QED
    BY <2>1 DEF StableUnwritten, Writing
<1>7. ASSUME NEW r \in Readers, LookUp(r) \/ Reload(r) \/ Answer(r) \/ Evict(r)
      PROVE  StableUnwritten'
  <2>1. UNCHANGED <<stable, wpc, req>>
    BY <1>7 DEF LookUp, Reload, Answer, Evict
  <2> QED
    BY <1>3, <2>1 DEF Writing
<1>8. CASE Upgrade \/ UNCHANGED vars
  <2>1. UNCHANGED <<stable, wpc, req>>
    BY <1>8 DEF Upgrade, vars
  <2> QED
    BY <1>3, <2>1 DEF Writing
<1> QED
  BY <1>2, <1>4, <1>5, <1>6, <1>7, <1>8 DEF Next, Write, Search

LEMMA VersionTypes ==
  ASSUME CalmInv
  PROVE  /\ files \in Blobs /\ files.meta.version \in Nat
         /\ \A p \in Writers \cup Readers : buf[p] \in Blobs /\ buf[p].meta.version \in Nat
         /\ \A r \in Readers : cache[r] \in Blobs /\ cache[r].meta.version \in Nat
         /\ Absent \in Blobs /\ Absent.meta.version = 0 /\ Absent.idMap = <<>>
<1>1. \A b \in Blobs : b.meta.version \in Nat
  BY FaissAssumption DEF Blobs, Metas
<1>2. /\ files \in Blobs /\ \A p \in Writers \cup Readers : buf[p] \in Blobs
      /\ \A r \in Readers : cache[r] \in Blobs
  BY DEF CalmInv, Placing, Typed, TypeOK
<1>3. Absent.idMap = <<>>
  BY DEF Absent
<1> QED
  BY <1>1, <1>2, <1>3, Empty

\* The version read or kept is never ahead of the meta file.
LEMMA NotAheadStep ==
  ASSUME Calm, MetaFirst, CalmInv, NotAhead, [Next]_vars
  PROVE  NotAhead'
<1>1. files'.meta.version \in Nat /\ files'.meta.version >= files.meta.version
  <2>1. CASE \E w \in Writers : SaveFile(w)
    BY <2>1, SaveMoves
  <2>2. CASE \A w \in Writers : ~ SaveFile(w)
    BY <2>2, RewritersStay, VersionTypes
  <2> QED
    BY <2>1, <2>2
<1> SUFFICES ASSUME NEW r \in Readers
             PROVE  /\ cache'[r].meta.version <= files'.meta.version
                    /\ rpc'[r] = "load" => buf'[r].meta.version <= files'.meta.version
  BY DEF NotAhead
<1>2. /\ files.meta.version \in Nat /\ buf[r].meta.version \in Nat
      /\ cache[r].meta.version \in Nat /\ Absent.meta.version = 0
  BY VersionTypes
<1>3. /\ cache[r].meta.version <= files.meta.version
      /\ rpc[r] = "load" => buf[r].meta.version <= files.meta.version
  BY DEF NotAhead
<1>4. cache'[r].meta.version <= files'.meta.version
  <2>1. \/ cache'[r] = cache[r] \/ cache'[r] = Absent
        \/ rpc[r] = "load" /\ cache'[r] = buf[r]
    BY ReaderMoves
  <2> QED
    BY <1>1, <1>2, <1>3, <2>1
<1>5. ASSUME rpc'[r] = "load"
      PROVE  buf'[r].meta.version <= files'.meta.version
  <2>1. CASE buf'[r] = Absent
    BY <1>1, <1>2, <2>1
  <2>2. CASE rpc[r] = "load" /\ buf'[r] = buf[r]
    BY <1>1, <1>2, <1>3, <2>2
  <2>3. CASE ReadsFile(r)
    <3>1. rpc[r] = "load" /\ buf'[r].meta \in {buf[r].meta, files.meta}
      BY <2>3 DEF ReadsFile, FileNames
    <3> QED
      BY <1>1, <1>2, <1>3, <3>1
  <2> QED
    BY <1>5, <2>1, <2>2, <2>3, ReaderMoves
<1> QED
  BY <1>4, <1>5

\* The file a reader of the id map finds while w rewrites.
LEMMA IdMapThen ==
  ASSUME Calm, CalmInv, NEW w \in Writers, Torn(w)
  PROVE  files.idMap \in {buf[w].idMap, Rebuilt(w).idMap}
<1>1. wpc[w] = "save" /\ Current
  BY CalmIsClean DEF Torn
<1>2. files[SaveOrder[2]] = IF 2 < step[w] THEN Rebuilt(w)[SaveOrder[2]]
                                           ELSE buf[w][SaveOrder[2]]
  BY <1>1 DEF Current, SavesCurrent
<1> QED
  BY <1>2 DEF SaveOrder

LEMMA CachesStep ==
  ASSUME Calm, CalmInv, NotAhead, CachesCurrent, ReadsCurrent, [Next]_vars
  PROVE  CachesCurrent'
<1> SUFFICES ASSUME NEW r \in Readers, 0 < cache'[r].meta.version,
                    cache'[r].meta.version = files'.meta.version
             PROVE  /\ (\A w \in Writers : ~ Torn(w)') => cache'[r] = files'
                    /\ \A w \in Writers : Torn(w)' =>
                         cache'[r].idMap \in {buf'[w].idMap, Rebuilt(w)'.idMap}
  BY DEF CachesCurrent
<1>1. CASE \A w \in Writers : ~ SaveFile(w)
  <2>1. /\ UNCHANGED files
        /\ \A v \in Writers : /\ Torn(v)' <=> Torn(v)
                              /\ Torn(v) => buf'[v] = buf[v] /\ Rebuilt(v)' = Rebuilt(v)
    BY <1>1, RewritersStay, ResultStays
  <2>2. cache'[r] # Absent
    BY VersionTypes
  <2>3. CASE cache'[r] = cache[r]
    BY <2>1, <2>3 DEF CachesCurrent
  <2>4. CASE rpc[r] = "load" /\ step[r] = 4 /\ cache'[r] = buf[r]
    <3>1. 0 < buf[r].meta.version /\ buf[r].meta.version = files.meta.version
      BY <2>1, <2>4
    <3>2. ASSUME \A w \in Writers : ~ Torn(w)
          PROVE  buf[r] = files
      <4>1. \A j \in 1..3 : buf[r][LoadOrder[j]] = files[LoadOrder[j]]
        BY <2>4, <3>1, <3>2 DEF ReadsCurrent
      <4>2. \A g \in FileNames : buf[r][g] = files[g]
        BY <4>1, Orders
      <4> QED
        BY <4>2, SameTriple, VersionTypes
    <3>3. \A w \in Writers : Torn(w) => buf[r].idMap \in {buf[w].idMap, Rebuilt(w).idMap}
      BY <2>4, <3>1 DEF ReadsCurrent
    <3> QED
      BY <2>1, <2>4, <3>2, <3>3
  <2> QED
    BY <2>2, <2>3, <2>4, ReaderMoves
<1>2. ASSUME NEW w \in Writers, SaveFile(w)
      PROVE  /\ (\A v \in Writers : ~ Torn(v)') => cache'[r] = files'
             /\ \A v \in Writers : Torn(v)' =>
                  cache'[r].idMap \in {buf'[v].idMap, Rebuilt(v)'.idMap}
  <2>1. /\ cache' = cache /\ buf' = buf /\ Rebuilt(w)' = Rebuilt(w) /\ step[w] \in 1..3
        /\ \A v \in Writers : Torn(v)' => v = w
    BY <1>2, SaveMoves DEF Torn, Writing
  <2>2. cache[r].meta.version <= files.meta.version /\ cache[r].meta.version \in Nat
    BY VersionTypes DEF NotAhead
  <2>3. step[w] # 3
    BY <1>2, <2>1, <2>2, SaveMoves
  <2>4. files'.meta = files.meta /\ Torn(w)'
    BY <1>2, <2>3, SaveMoves
  <2>5. cache[r].idMap \in {buf[w].idMap, Rebuilt(w).idMap}
    <3>1. CASE step[w] = 1
      <4>1. files = buf[w] /\ \A v \in Writers : ~ Torn(v)
        BY <1>2, <3>1, SaveMoves
      <4> QED
        BY <2>1, <2>4, <4>1 DEF CachesCurrent
    <3>2. CASE step[w] # 1
      <4>1. Torn(w)
        BY <1>2, <3>2, SaveMoves
      <4> QED
        BY <2>1, <2>4, <4>1 DEF CachesCurrent
    <3> QED
      BY <3>1, <3>2
  <2> QED
    BY <2>1, <2>4, <2>5
<1> QED
  BY <1>1, <1>2

LEMMA ReadsStep ==
  ASSUME Calm, MetaFirst, CalmInv, NotAhead, ReadsCurrent, [Next]_vars
  PROVE  ReadsCurrent'
<1> SUFFICES ASSUME NEW r \in Readers, rpc'[r] = "load", 0 < buf'[r].meta.version,
                    buf'[r].meta.version = files'.meta.version
             PROVE  /\ (\A w \in Writers : ~ Torn(w)') =>
                         \A j \in 1..3 :
                           j < step'[r] => buf'[r][LoadOrder[j]] = files'[LoadOrder[j]]
                    /\ \A w \in Writers : Torn(w)' /\ step'[r] = 4 =>
                         buf'[r].idMap \in {buf'[w].idMap, Rebuilt(w)'.idMap}
  BY DEF ReadsCurrent
<1>1. CASE \A w \in Writers : ~ SaveFile(w)
  <2>1. /\ UNCHANGED files
        /\ \A v \in Writers : /\ Torn(v)' <=> Torn(v)
                              /\ Torn(v) => buf'[v] = buf[v] /\ Rebuilt(v)' = Rebuilt(v)
    BY <1>1, RewritersStay, ResultStays
  <2>2. buf'[r] # Absent
    BY VersionTypes
  <2>3. CASE rpc[r] = "load" /\ buf'[r] = buf[r] /\ step'[r] = step[r]
    BY <2>1, <2>3 DEF ReadsCurrent
  <2>4. CASE ReadsFile(r)
    <3>1. /\ step[r] \in 1..3 /\ step'[r] = step[r] + 1 /\ rpc[r] = "load"
          /\ \A g \in FileNames :
               buf'[r][g] = IF g = LoadOrder[step[r]] THEN files[g] ELSE buf[r][g]
      BY <2>4 DEF ReadsFile
    \* After the first file the load keeps the version it began with.
    <3>2. step[r] # 1 => buf[r].meta.version = files.meta.version
      <4>1. step[r] # 1 => LoadOrder[step[r]] # "meta"
        BY <3>1 DEF LoadOrder
      <4>2. step[r] # 1 => buf'[r].meta = buf[r].meta
        BY <3>1, <4>1 DEF FileNames
      <4> QED
        BY <2>1, <4>2
    <3>3. ASSUME \A w \in Writers : ~ Torn(w), NEW j \in 1..3, j < step[r] + 1
          PROVE  buf'[r][LoadOrder[j]] = files[LoadOrder[j]]
      <4>1. LoadOrder[j] \in FileNames
        BY Orders
      <4>2. CASE j = step[r]
        BY <3>1, <4>1, <4>2
      <4>3. CASE j # step[r]
        <5>1. j < step[r] /\ step[r] # 1
          BY <3>1, <3>3, <4>3
        <5>2. 0 < buf[r].meta.version
          BY <2>1, <3>2, <5>1
        <5>3. buf[r][LoadOrder[j]] = files[LoadOrder[j]]
          BY <3>1, <3>2, <3>3, <5>1, <5>2 DEF ReadsCurrent
        <5> QED
          BY <3>1, <4>1, <5>3
      <4> QED
        BY <4>2, <4>3
    <3>4. ASSUME NEW w \in Writers, Torn(w), step'[r] = 4
          PROVE  buf'[r].idMap \in {buf[w].idMap, Rebuilt(w).idMap}
      <4>1. LoadOrder[step[r]] = "idMap"
        BY <3>1, <3>4 DEF LoadOrder
      <4>2. buf'[r].idMap = files.idMap
        BY <3>1, <4>1 DEF FileNames
      <4> QED
        BY <3>4, <4>2, IdMapThen
    <3> QED
      BY <2>1, <3>1, <3>3, <3>4
  <2> QED
    BY <2>2, <2>3, <2>4, ReaderMoves
<1>2. ASSUME NEW w \in Writers, SaveFile(w)
      PROVE  /\ (\A v \in Writers : ~ Torn(v)') =>
                  \A j \in 1..3 :
                    j < step'[r] => buf'[r][LoadOrder[j]] = files'[LoadOrder[j]]
             /\ \A v \in Writers : Torn(v)' /\ step'[r] = 4 =>
                  buf'[r].idMap \in {buf'[v].idMap, Rebuilt(v)'.idMap}
  <2>1. /\ rpc' = rpc /\ buf' = buf /\ Rebuilt(w)' = Rebuilt(w) /\ step[w] \in 1..3
        /\ step'[r] = step[r]
        /\ \A v \in Writers : Torn(v)' => v = w
    BY <1>2, SaveMoves DEF Torn, Writing
  <2>2. buf[r].meta.version <= files.meta.version /\ buf[r].meta.version \in Nat
    BY <2>1, VersionTypes DEF NotAhead
  <2>3. step[w] # 3
    BY <1>2, <2>1, <2>2, SaveMoves
  <2>4. files'.meta = files.meta /\ Torn(w)'
    BY <1>2, <2>3, SaveMoves
  <2>5. ASSUME step[r] = 4
        PROVE  buf[r].idMap \in {buf[w].idMap, Rebuilt(w).idMap}
    <3>1. CASE step[w] = 1
      <4>1. files = buf[w] /\ \A v \in Writers : ~ Torn(v)
        BY <1>2, <3>1, SaveMoves
      <4>2. \A j \in 1..3 : buf[r][LoadOrder[j]] = files[LoadOrder[j]]
        BY <2>1, <2>4, <2>5, <4>1 DEF ReadsCurrent
      <4>3. \A g \in FileNames : buf[r][g] = files[g]
        BY <4>2, Orders
      <4>4. buf[r].idMap = files.idMap
        BY <4>3 DEF FileNames
      <4> QED
        BY <4>1, <4>4
    <3>2. CASE step[w] # 1
      <4>1. Torn(w)
        BY <1>2, <3>2, SaveMoves
      <4> QED
        BY <2>1, <2>4, <2>5, <4>1 DEF ReadsCurrent
    <3> QED
      BY <3>1, <3>2
  <2> QED
    BY <2>1, <2>4, <2>5
<1> QED
  BY <1>1, <1>2

\* Nobody is on the files, or on what they are rewritten from or to, whose last
\* answer was a delete and whom nobody is writing.
LEMMA ErasedUnnamed ==
  ASSUME Calm, CalmInv, NEW s \in Students, last[s] = 0,
         \A w \in Writers : Writing(w) => req[w].student # s
  PROVE  /\ s \notin Names(files)
         /\ \A w \in Writers : Torn(w) => /\ s \notin Names(buf[w])
                                              /\ s \notin Names(Rebuilt(w))
<1>1. Current
  BY CalmIsClean
<1>2. ASSUME NEW w \in Writers, Torn(w)
      PROVE  s \notin Names(buf[w]) /\ s \notin Names(Rebuilt(w))
  <2>1. /\ wpc[w] = "save" /\ req[w] \in Operations /\ buf[w] \in Blobs
        /\ embedder \in 0..MaxUpgrades
    BY <1>2 DEF Torn, CalmInv, Placing, Typed, Placed, TypeOK
  <2>2. Sound(buf[w]) /\ EnrolmentIn(buf[w], s) = 0 /\ req[w].student # s
    BY <1>1, <1>2, <2>1 DEF Current, SavesCurrent, WritesKept, Writing
  <2>3. s \notin Names(buf[w])
    BY <2>2, ZeroUnnamed
  <2>4. Names(Rebuilt(w)) = (Names(buf[w]) \ {req[w].student})
          \cup (IF req[w].kind = "upsert" THEN {req[w].student} ELSE {})
    BY <2>1, <2>2, RebuiltSound
  <2> QED
    BY <2>2, <2>3, <2>4
<1>3. s \notin Names(files)
  <2>1. CASE \A w \in Writers : ~ Torn(w)
    <3>1. Sound(files) /\ EnrolmentIn(files, s) = 0
      BY <1>1, <2>1 DEF Current, FilesSound, WritesKept, Writing
    <3> QED
      BY <3>1, ZeroUnnamed
  <2>2. CASE \E w \in Writers : Torn(w)
    <3>1. PICK w \in Writers : Torn(w)
      BY <2>2
    <3>2. files.idMap \in {buf[w].idMap, Rebuilt(w).idMap}
      BY <3>1, IdMapThen
    <3> QED
      BY <1>2, <3>1, <3>2 DEF Names
  <2> QED
    BY <2>1, <2>2
<1> QED
  BY <1>2, <1>3

LEMMA ForgottenStep ==
  ASSUME Calm, CalmInv, CachesCurrent, StableUnwritten, ErasedForgotten, [Next]_vars
  PROVE  ErasedForgotten'
<1> USE DEF writerVars, searchVars, boundVars
<1> SUFFICES ASSUME NEW r \in Readers, NEW s \in Students, s \in stable'[r], last'[s] = 0
             PROVE  Forgotten(r, s)'
  BY DEF ErasedForgotten
<1>1. /\ rpc \in [Readers -> {"idle", "lookup", "load"}]
      /\ hits \in [Readers -> SUBSET [face : Faces, name : Students]]
      /\ seen \in [Readers -> 0..MaxWrites] /\ stable \in [Readers -> SUBSET Students]
  BY DEF CalmInv, Placing, Typed, TypeOK
<1>2. Names(Absent) = {}
  BY DEF Names, Absent
<1>3. \A b : \A h \in Rows(b) : h.name \in Names(b)
  BY DEF Rows, Names
<1>4. CASE BeginSearch(r)
  <2>1. /\ UNCHANGED <<last, cache, wpc, req>> /\ hits'[r] = {} /\ rpc[r] = "idle"
        /\ \A w \in Writers : Writing(w) => req[w].student # s
    BY <1>1, <1>4 DEF BeginSearch
  <2>2. rpc'[r] # "load"
    BY <1>1, <1>4 DEF BeginSearch
  <2>3. rpc'[r] = "lookup" => 0 < files.meta.version /\ seen'[r] = files.meta.version
    BY <1>1, <1>4 DEF BeginSearch
  <2>4. /\ s \notin Names(files)
        /\ \A w \in Writers : Torn(w) => /\ s \notin Names(buf[w])
                                             /\ s \notin Names(Rebuilt(w))
    BY <2>1, ErasedUnnamed
  <2>5. ASSUME rpc'[r] = "lookup", cache'[r].meta.version = seen'[r]
        PROVE  s \notin Names(cache'[r])
    <3>1. 0 < cache[r].meta.version /\ cache[r].meta.version = files.meta.version
      BY <2>1, <2>3, <2>5
    <3>2. CASE \A w \in Writers : ~ Torn(w)
      BY <2>1, <2>4, <3>1, <3>2 DEF CachesCurrent
    <3>3. CASE \E w \in Writers : Torn(w)
      <4>1. PICK w \in Writers : Torn(w)
        BY <3>3
      <4>2. cache[r].idMap \in {buf[w].idMap, Rebuilt(w).idMap}
        BY <3>1, <4>1 DEF CachesCurrent
      <4> QED
        BY <2>1, <2>4, <4>1, <4>2 DEF Names
    <3> QED
      BY <3>2, <3>3
  <2> QED
    BY <2>1, <2>2, <2>5 DEF Forgotten
<1>5. CASE ~ BeginSearch(r)
  <2>1. s \in stable[r]
    BY <1>5, SearchMoves
  <2>2. \A w \in Writers : Writing(w) => req[w].student # s
    BY <2>1 DEF StableUnwritten
  <2>3. last[s] = 0
    BY <2>2, LastStays
  <2>4. Forgotten(r, s)
    BY <2>1, <2>3 DEF ErasedForgotten
  <2>5. \A h \in hits'[r] : h.name # s
    <3>1. \/ hits'[r] = hits[r]
          \/ hits'[r] = {}
          \/ rpc[r] = "lookup" /\ cache[r].meta.version = seen[r] /\ hits'[r] = Rows(cache[r])
          \/ rpc[r] = "load" /\ step[r] = 4 /\ hits'[r] = Rows(buf[r])
      BY <1>5, SearchMoves
    <3> QED
      BY <1>3, <2>4, <3>1 DEF Forgotten
  <2>6. ASSUME rpc'[r] = "lookup", cache'[r].meta.version = seen'[r]
        PROVE  s \notin Names(cache'[r])
    <3>1. rpc[r] = "lookup" /\ seen'[r] = seen[r] /\ cache'[r] \in {cache[r], Absent}
      BY <1>5, <2>6, SearchMoves
    <3> QED
      BY <1>2, <2>4, <2>6, <3>1 DEF Forgotten
  <2>7. ASSUME rpc'[r] = "load"
        PROVE  s \notin Names(buf'[r])
    <3>1. CASE rpc[r] = "load" /\ buf'[r] = buf[r]
      BY <2>4, <3>1 DEF Forgotten
    <3>2. CASE buf'[r] = Absent
      BY <1>2, <3>2
    <3>3. CASE ReadsFile(r)
      <4>1. rpc[r] = "load" /\ buf'[r].idMap \in {buf[r].idMap, files.idMap}
        BY <3>3 DEF ReadsFile, FileNames
      <4>2. s \notin Names(files) /\ s \notin Names(buf[r])
        BY <2>2, <2>3, <2>4, <4>1, ErasedUnnamed DEF Forgotten
      <4> QED
        BY <4>1, <4>2 DEF Names
    <3> QED
      BY <2>7, <3>1, <3>2, <3>3, ReaderMoves
  <2> QED
    BY <2>5, <2>6, <2>7 DEF Forgotten
<1> QED
  BY <1>4, <1>5

SearchInv == CalmInv /\ SearchesCurrent /\ ErasedForgotten

LEMMA SearchInit == Calm /\ Init => SearchInv
<1> SUFFICES ASSUME Calm, Init PROVE SearchesCurrent /\ ErasedForgotten
  BY CalmInit DEF SearchInv
<1>1. NotAhead
  BY Empty DEF Init, NotAhead
<1>2. CachesCurrent /\ ReadsCurrent
  BY Empty DEF Init, CachesCurrent, ReadsCurrent
<1>3. StableUnwritten /\ ErasedForgotten
  BY DEF Init, StableUnwritten, ErasedForgotten
<1> QED
  BY <1>1, <1>2, <1>3 DEF SearchesCurrent

LEMMA SearchStep == Calm /\ MetaFirst /\ SearchInv /\ [Next]_vars => SearchInv'
  BY CalmStep, NotAheadStep, CachesStep, ReadsStep, StableStep, ForgottenStep
  DEF SearchInv, SearchesCurrent

\* Once a delete has answered no search that begins later names the student,
\* until the student is enrolled again: not one that overlaps the writes of
\* others, and not one served by the cache of a process that has not heard of
\* the delete. It takes a store that shows the meta file first and in which no
\* request dies halfway (half_saved.cfg shows what happens when one does).
THEOREM ErasedAreNotFound ==
  ASSUME Calm, MetaFirst
  PROVE  Spec => []ErasedStayErased
<1>1. SearchInv => ErasedStayErased
  BY DEF SearchInv, ErasedForgotten, Forgotten, ErasedStayErased
<1>2. Init => SearchInv
  BY SearchInit
<1>3. SearchInv /\ [Next]_vars => SearchInv'
  BY SearchStep
<1> QED
  BY <1>1, <1>2, <1>3, PTL DEF Spec

-----------------------------------------------------------------------------
\* Searches that no write overlaps.

\* The rows of the files are exact when nobody is writing.
LEMMA FilesExact ==
  ASSUME Calm, CalmInv, \A w \in Writers : ~ Writing(w)
  PROVE  Exact(Rows(files)) /\ (files.meta.version = 0 => Exact({}))
<1>1. /\ Sound(files)
      /\ files.meta.version = 0 => files = Absent
      /\ \A s \in Students : last[s] = EnrolmentIn(files, s)
  <2>1. \A w \in Writers : ~ Torn(w) /\ wpc[w] # "finish"
    BY DEF Torn, Writing
  <2> QED
    BY <2>1, CalmIsClean DEF Current, FilesSound, WritesKept
<1>2. ASSUME NEW h \in Rows(files)
      PROVE  h.face.of = h.name /\ h.face.enrolment = last[h.name]
  <2>1. PICK i \in 1..Len(files.idMap) : h = [face |-> files.index[i], name |-> files.idMap[i]]
    BY DEF Rows
  <2>2. files.index[i].of = files.idMap[i] /\ files.idMap[i] \in Students
    BY <1>1 DEF Sound, Triple
  <2>3. EnrolmentIn(files, files.idMap[i]) = files.index[i].enrolment
    BY <1>1, Named
  <2> QED
    BY <1>1, <2>1, <2>2, <2>3
<1>3. ASSUME NEW s \in Students, last[s] # 0
      PROVE  \E h \in Rows(files) : h.name = s
  <2>1. s \in Names(files)
    BY <1>1, <1>3, Unnamed DEF Sound
  <2>2. PICK i \in 1..Len(files.idMap) : files.idMap[i] = s
    BY <2>1 DEF Names
  <2>3. i \in 1..Len(files.index)
    BY <1>1 DEF Sound, Triple
  <2>4. [face |-> files.index[i], name |-> files.idMap[i]] \in Rows(files)
    BY <2>3 DEF Rows
  <2> QED
    BY <2>2, <2>4
<1>4. ASSUME files.meta.version = 0
      PROVE  Exact({})
  <2>1. files = Absent
    BY <1>1, <1>4
  <2>2. Rows(files) = {}
    BY <2>1 DEF Rows, Absent
  <2> QED
    BY <1>3, <2>2 DEF Exact
<1> QED
  BY <1>2, <1>3, <1>4 DEF Exact

\* What a search goes through while nobody writes.
LEMMA QuietMoves ==
  ASSUME Calm, MaxUpgrades = 0, CalmInv, [Next]_vars, NEW r \in Readers,
         ~ BeginSearch(r), \A w \in Writers : ~ Writing(w), 0 < files.meta.version \/ rpc[r] = "idle"
  PROVE  \/ rpc[r] = "idle" /\ rpc'[r] = "idle" /\ hits'[r] = hits[r]
         \/ rpc[r] = "lookup" /\ rpc'[r] = "lookup" /\ seen'[r] = seen[r]
         \/ /\ rpc[r] = "lookup" /\ rpc'[r] = "idle"
            /\ cache[r].meta.version = seen[r] /\ hits'[r] = Rows(cache[r])
         \/ rpc[r] = "lookup" /\ rpc'[r] = "load" /\ step'[r] = 1
         \/ rpc[r] = "load" /\ rpc'[r] = "load" /\ buf'[r] = buf[r] /\ step'[r] = step[r]
         \/ rpc[r] = "load" /\ rpc'[r] = "load" /\ ReadsFile(r)
         \/ /\ rpc[r] = "load" /\ step[r] = 4 /\ rpc'[r] = "idle"
            /\ buf[r].meta.version > 0 /\ buf[r].meta.model = embedder
                 => hits'[r] = Rows(buf[r])
<1> USE DEF writerVars, searchVars, boundVars
<1> DEFINE Goal ==
      \/ rpc[r] = "idle" /\ rpc'[r] = "idle" /\ hits'[r] = hits[r]
      \/ rpc[r] = "lookup" /\ rpc'[r] = "lookup" /\ seen'[r] = seen[r]
      \/ /\ rpc[r] = "lookup" /\ rpc'[r] = "idle"
         /\ cache[r].meta.version = seen[r] /\ hits'[r] = Rows(cache[r])
      \/ rpc[r] = "lookup" /\ rpc'[r] = "load" /\ step'[r] = 1
      \/ rpc[r] = "load" /\ rpc'[r] = "load" /\ buf'[r] = buf[r] /\ step'[r] = step[r]
      \/ rpc[r] = "load" /\ rpc'[r] = "load" /\ ReadsFile(r)
      \/ /\ rpc[r] = "load" /\ step[r] = 4 /\ rpc'[r] = "idle"
         /\ buf[r].meta.version > 0 /\ buf[r].meta.model = embedder
              => hits'[r] = Rows(buf[r])
<1>1. /\ rpc \in [Readers -> {"idle", "lookup", "load"}]
      /\ cache \in [Readers -> Blobs] /\ seen \in [Readers -> 0..MaxWrites]
      /\ hits \in [Readers -> SUBSET [face : Faces, name : Students]]
      /\ buf \in [Writers \cup Readers -> Blobs]
      /\ step \in [Writers \cup Readers -> 1..4]
      /\ upgrades = 0
  BY DEF CalmInv, Placing, Typed, TypeOK
<1>2. ASSUME /\ rpc'[r] = rpc[r] /\ hits'[r] = hits[r] /\ seen'[r] = seen[r]
             /\ buf'[r] = buf[r] /\ step'[r] = step[r]
      PROVE  Goal
  BY <1>1, <1>2
<1>3. ASSUME NEW w \in Writers, 
             Request(w) \/ Acquire(w) \/ AcquireFails(w) \/ LoseLease(w) \/ Lapse(w)
      PROVE  Goal
  <2>1. UNCHANGED <<rpc, hits, seen, buf, step>>
    BY <1>3 DEF Request, Acquire, AcquireFails, LoseLease, Lapse
  <2> QED
    BY <1>2, <2>1
<1>4. \A w \in Writers : ~ (LoadFiles(w) \/ Rebuild(w) \/ RefuseCorrupt(w)
                              \/ NothingToDelete(w) \/ SaveFile(w) \/ Finish(w) \/ GiveUp(w))
  BY DEF LoadFiles, Rebuild, RefuseCorrupt, NothingToDelete, SaveFile, Finish, GiveUp, Writing
<1>5. ASSUME NEW q \in Readers, BeginSearch(q) \/ Evict(q) PROVE Goal
  <2>1. /\ rpc'[r] = rpc[r] /\ hits'[r] = hits[r] /\ seen'[r] = seen[r]
        /\ UNCHANGED <<buf, step>>
    <3>1. CASE Evict(q)
      BY <3>1 DEF Evict
    <3>2. CASE BeginSearch(q)
      <4>1. q # r
        BY <3>2
      <4> QED
        BY <1>1, <3>2, <4>1 DEF BeginSearch
    <3> QED
      BY <1>5, <3>1, <3>2
  <2> QED
    BY <1>2, <2>1
<1>6. ASSUME NEW q \in Readers, LookUp(q) PROVE Goal
  <2>1. ASSUME q # r PROVE Goal
    <3>1. /\ rpc'[r] = rpc[r] /\ hits'[r] = hits[r] /\ seen'[r] = seen[r]
          /\ UNCHANGED <<buf, step>>
      BY <1>1, <1>6, <2>1 DEF LookUp
    <3> QED
      BY <1>2, <3>1
  <2>2. ASSUME q = r PROVE Goal
    <3>1. step[r] = 1
      BY <1>6, <2>2 DEF LookUp, CalmInv, Placing, AtRest
    <3>2. /\ rpc[r] = "lookup" /\ UNCHANGED step
          /\ \/ /\ cache[r].meta.version = seen[r] /\ hits'[r] = Rows(cache[r])
                /\ rpc'[r] = "idle"
             \/ rpc'[r] = "load"
      BY <1>1, <1>6, <2>2 DEF LookUp
    <3> QED
      BY <3>1, <3>2
  <2> HIDE DEF Goal
  <2> QED
    BY <2>1, <2>2
<1>7. ASSUME NEW q \in Readers, Reload(q) PROVE Goal
  <2>1. UNCHANGED <<rpc, hits, seen>> /\ rpc[q] = "load" /\ Load(q)
    BY <1>7 DEF Reload
  <2>2. ASSUME q # r PROVE Goal
    <3>1. buf'[r] = buf[r] /\ step'[r] = step[r]
      BY <2>1, <2>2, LoadTypes DEF CalmInv, Placing, Typed
    <3> QED
      BY <1>2, <2>1, <3>1
  <2>3. ASSUME q = r PROVE Goal
    <3>1. files.meta.version # 0
      BY <2>1, <2>3, VersionTypes
    <3>2. ReadsFile(r)
      BY <2>1, <2>3, <3>1, ReadCases DEF ReadsFile
    <3> QED
      BY <2>1, <2>3, <3>2
  <2> HIDE DEF Goal
  <2> QED
    BY <2>2, <2>3
<1>8. ASSUME NEW q \in Readers, Answer(q) PROVE Goal
  <2>1. ASSUME q # r PROVE Goal
    <3>1. /\ rpc'[r] = rpc[r] /\ hits'[r] = hits[r] /\ UNCHANGED seen
          /\ buf'[r] = buf[r] /\ step'[r] = step[r]
      BY <1>1, <1>8, <2>1 DEF Answer
    <3> QED
      BY <1>2, <3>1
  <2>2. ASSUME q = r PROVE Goal
    BY <1>1, <1>8, <2>2 DEF Answer
  <2> HIDE DEF Goal
  <2> QED
    BY <2>1, <2>2
<1>9. ~ Upgrade
  BY <1>1 DEF Upgrade
<1>10. ASSUME UNCHANGED vars PROVE Goal
  <2>1. UNCHANGED <<rpc, hits, seen, buf, step>>
    BY <1>10 DEF vars
  <2> QED
    BY <1>2, <2>1
<1> HIDE DEF Goal
<1>11. Goal
  BY <1>3, <1>4, <1>5, <1>6, <1>7, <1>8, <1>9, <1>10 DEF Next, Write, Search
<1> QED
  BY <1>11 DEF Goal

\* Nobody writes while every student is stable, and nothing changes.
LEMMA QuietFrame ==
  ASSUME Calm, CalmInv, StableUnwritten, [Next]_vars, NEW r \in Readers,
         \/ stable[r] = Students \/ BeginSearch(r),
         stable'[r] = Students
  PROVE  (\A w \in Writers : ~ Writing(w)) /\ UNCHANGED <<files, last>>
<1>1. /\ stable \in [Readers -> SUBSET Students]
      /\ \A w \in Writers : Writing(w) => req[w].student \in Students
  <2>1. \A w \in Writers : Writing(w) => req[w] \in Operations
    BY DEF CalmInv, Placing, Typed, Placed, TypeOK, Writing
  <2> QED
    BY <2>1 DEF CalmInv, Placing, Typed, TypeOK, Operations
<1>2. \A w \in Writers : ~ Writing(w)
  <2>1. CASE stable[r] = Students
    BY <1>1, <2>1 DEF StableUnwritten
  <2>2. CASE BeginSearch(r)
    <3>1. stable'[r] = {s \in Students : \A w \in Writers : Writing(w) => req[w].student # s}
      BY <1>1, <2>2 DEF BeginSearch
    <3> QED
      BY <1>1, <3>1
  <2> QED
    BY <2>1, <2>2
<1>3. UNCHANGED files
  <2>1. \A w \in Writers : ~ SaveFile(w)
    BY <1>2 DEF SaveFile, Writing
  <2> QED
    BY <2>1, RewritersStay
<1>4. UNCHANGED last
  <2>1. last \in [Students -> -1..MaxWrites] /\ last' \in [Students -> -1..MaxWrites]
    BY CalmStep DEF CalmInv, Placing, Typed, TypeOK
  <2>2. \A s \in Students : last'[s] = last[s]
    BY <1>2, LastStays
  <2> QED
    BY <2>1, <2>2
<1> QED
  BY <1>2, <1>3, <1>4

LEMMA QuietStep ==
  ASSUME Calm, MetaFirst, MaxUpgrades = 0, CalmInv, SearchesCurrent, QuietExact, [Next]_vars
  PROVE  QuietExact'
<1> SUFFICES ASSUME NEW r \in Readers, stable'[r] = Students, Students # {}
             PROVE  /\ rpc'[r] = "idle" => Exact(hits[r])'
                    /\ rpc'[r] = "lookup" => seen'[r] = files'.meta.version
                    /\ rpc'[r] # "idle" => 0 < files'.meta.version
                    /\ rpc'[r] = "load" =>
                         \A j \in 1..3 :
                           j < step'[r] => buf'[r][LoadOrder[j]] = files'[LoadOrder[j]]
  BY DEF QuietExact
<1>1. /\ rpc \in [Readers -> {"idle", "lookup", "load"}]
      /\ hits \in [Readers -> SUBSET [face : Faces, name : Students]]
      /\ seen \in [Readers -> 0..MaxWrites] /\ stable \in [Readers -> SUBSET Students]
      /\ step \in [Writers \cup Readers -> 1..4]
      /\ embedder \in 0..MaxUpgrades
  BY DEF CalmInv, Placing, Typed, TypeOK
<1>2. \A b \in Blobs : b.meta.model = embedder
  BY <1>1, FaissAssumption DEF Blobs, Metas
<1>3. stable[r] = Students \/ BeginSearch(r)
  BY <1>1, SearchMoves
<1>4. (\A w \in Writers : ~ Writing(w)) /\ UNCHANGED <<files, last>>
  BY <1>3, QuietFrame DEF SearchesCurrent
<1>5. Exact(Rows(files)) /\ (files.meta.version = 0 => Exact({}))
  BY <1>4, FilesExact
<1>6. \A rows : Exact(rows) => Exact(rows)'
  BY <1>4 DEF Exact
<1>7. \A w \in Writers : ~ Torn(w)
  BY <1>4 DEF Torn, Writing
<1>8. CASE BeginSearch(r)
  <2>1. /\ hits'[r] = {} /\ rpc[r] = "idle"
        /\ \/ rpc'[r] = "lookup" /\ seen'[r] = files.meta.version /\ 0 < files.meta.version
           \/ rpc'[r] = "idle" /\ files.meta.version = 0
    <3>1. files.meta.model = embedder /\ MaxBlips = 0 /\ blips = 0
      BY <1>2, VersionTypes DEF Calm, CalmInv, Placing, Typed, TypeOK
    <3> QED
      BY <1>1, <1>8, <3>1 DEF BeginSearch
  <2>2. CASE rpc'[r] = "lookup"
    BY <1>4, <2>1, <2>2
  <2>3. CASE rpc'[r] = "idle" /\ files.meta.version = 0
    <3>1. Exact(hits'[r])
      BY <1>5, <2>1, <2>3
    <3>2. Exact(hits[r])'
      BY <1>4, <3>1 DEF Exact
    <3> QED
      BY <2>3, <3>2
  <2> QED
    BY <2>1, <2>2, <2>3
<1>9. CASE ~ BeginSearch(r)
  <2>1. /\ rpc[r] = "idle" => Exact(hits[r])
        /\ rpc[r] = "lookup" => seen[r] = files.meta.version
        /\ rpc[r] # "idle" => 0 < files.meta.version
        /\ rpc[r] = "load" =>
             \A j \in 1..3 : j < step[r] => buf[r][LoadOrder[j]] = files[LoadOrder[j]]
    BY <1>3, <1>9 DEF QuietExact
  <2>2. \/ rpc[r] = "idle" /\ rpc'[r] = "idle" /\ hits'[r] = hits[r]
        \/ rpc[r] = "lookup" /\ rpc'[r] = "lookup" /\ seen'[r] = seen[r]
        \/ /\ rpc[r] = "lookup" /\ rpc'[r] = "idle"
           /\ cache[r].meta.version = seen[r] /\ hits'[r] = Rows(cache[r])
        \/ rpc[r] = "lookup" /\ rpc'[r] = "load" /\ step'[r] = 1
        \/ rpc[r] = "load" /\ rpc'[r] = "load" /\ buf'[r] = buf[r] /\ step'[r] = step[r]
        \/ rpc[r] = "load" /\ rpc'[r] = "load" /\ ReadsFile(r)
        \/ /\ rpc[r] = "load" /\ step[r] = 4 /\ rpc'[r] = "idle"
           /\ buf[r].meta.version > 0 /\ buf[r].meta.model = embedder
                => hits'[r] = Rows(buf[r])
    <3>1. 0 < files.meta.version \/ rpc[r] = "idle"
      BY <2>1
    <3> QED
      BY <1>4, <1>9, <3>1, QuietMoves
  <2>3. ASSUME rpc'[r] = "idle", Exact(hits'[r])
        PROVE  Exact(hits[r])'
    BY <1>4, <2>3 DEF Exact
  <2>4. CASE rpc[r] = "idle" /\ rpc'[r] = "idle" /\ hits'[r] = hits[r]
    BY <2>1, <2>3, <2>4
  <2>5. CASE rpc[r] = "lookup" /\ rpc'[r] = "lookup" /\ seen'[r] = seen[r]
    BY <1>4, <2>1, <2>5
  <2>6. CASE /\ rpc[r] = "lookup" /\ rpc'[r] = "idle"
             /\ cache[r].meta.version = seen[r] /\ hits'[r] = Rows(cache[r])
    <3>1. cache[r] = files
      BY <1>7, <2>1, <2>6 DEF SearchesCurrent, CachesCurrent
    <3> QED
      BY <1>5, <2>3, <2>6, <3>1
  <2>7. CASE rpc[r] = "lookup" /\ rpc'[r] = "load" /\ step'[r] = 1
    BY <1>4, <2>1, <2>7
  <2>8. CASE rpc[r] = "load" /\ rpc'[r] = "load" /\ buf'[r] = buf[r] /\ step'[r] = step[r]
    BY <1>4, <2>1, <2>8
  <2>9. CASE rpc[r] = "load" /\ rpc'[r] = "load" /\ ReadsFile(r)
    <3>1. ASSUME NEW j \in 1..3, j < step'[r]
          PROVE  buf'[r][LoadOrder[j]] = files[LoadOrder[j]]
      <4>1. LoadOrder[j] \in FileNames
        BY Orders
      <4>2. j < step[r] \/ j = step[r]
        BY <2>9, <3>1 DEF ReadsFile
      <4> QED
        BY <2>1, <2>9, <4>1, <4>2 DEF ReadsFile
    <3> QED
      BY <1>4, <2>1, <2>9, <3>1
  <2>10. CASE /\ rpc[r] = "load" /\ step[r] = 4 /\ rpc'[r] = "idle"
              /\ buf[r].meta.version > 0 /\ buf[r].meta.model = embedder
                   => hits'[r] = Rows(buf[r])
    <3>1. \A j \in 1..3 : buf[r][LoadOrder[j]] = files[LoadOrder[j]]
      BY <2>1, <2>10
    <3>2. \A g \in FileNames : buf[r][g] = files[g]
      BY <3>1, Orders
    <3>3. buf[r] = files
      BY <3>2, SameTriple, VersionTypes
    <3>4. buf[r].meta.version > 0 /\ buf[r].meta.model = embedder
      BY <1>2, <2>1, <2>10, <3>3, VersionTypes
    <3> QED
      BY <1>5, <2>3, <2>10, <3>3, <3>4
  <2> QED
    BY <2>2, <2>4, <2>5, <2>6, <2>7, <2>8, <2>9, <2>10
<1> QED
  BY <1>8, <1>9

\* A search that no write overlaps answers exactly the faces of the finished
\* writes, each under its own name, whatever entries the caches were left with
\* by earlier writes and other processes. It takes a calm index of one embedder:
\* after an upgrade a search answers nothing until the school is enrolled again.
THEOREM QuietSearchesStayExact ==
  ASSUME Calm, MetaFirst, MaxUpgrades = 0
  PROVE  Spec => []QuietSearchesAreExact
<1> DEFINE Inv == SearchInv /\ QuietExact
<1>1. Inv => QuietSearchesAreExact
  <2> SUFFICES ASSUME Inv, NEW r \in Readers, rpc[r] = "idle", stable[r] = Students
               PROVE  Exact(hits[r])
    BY DEF QuietSearchesAreExact, Exact
  <2>1. CASE Students # {}
    BY <2>1 DEF QuietExact
  <2>2. CASE Students = {}
    <3>1. hits[r] \subseteq [face : Faces, name : Students]
      BY DEF SearchInv, CalmInv, Placing, Typed, TypeOK
    <3>2. \A h \in [face : Faces, name : Students] : h.name \in Students
      OBVIOUS
    <3> QED
      BY <2>2, <3>1, <3>2 DEF Exact
  <2> QED
    BY <2>1, <2>2
<1>2. Init => Inv
  <2> SUFFICES ASSUME Init PROVE QuietExact
    BY SearchInit
  <2> QED
    BY DEF Init, QuietExact
<1>3. Inv /\ [Next]_vars => Inv'
  BY SearchStep, QuietStep DEF SearchInv
<1> HIDE DEF Inv
<1> QED
  BY <1>1, <1>2, <1>3, PTL DEF Spec

=============================================================================
