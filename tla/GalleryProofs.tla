---------------------------- MODULE GalleryProofs ----------------------------
(***************************************************************************)
(* Proofs about who appears on an event's photos and who is told, for any  *)
(* number of students, photos, workers, requests and changes, and whatever *)
(* the face search comes up with.                                          *)
(***************************************************************************)
EXTENDS Gallery, FiniteSetTheorems, WellFoundedInduction, TLAPS

-----------------------------------------------------------------------------
\* The decision for one face.

\* A set of natural numbers that is not empty has a least one.
LEMMA LeastIn ==
  ASSUME NEW S, S \subseteq Nat, S # {}
  PROVE  \E x \in S : \A y \in S : x <= y
<1>1. PICK x \in S : \A y \in S : ~ (<<y, x>> \in OpToRel(<, Nat))
  BY NatLessThanWellFounded, WFMin, Zenon
<1>2. ASSUME NEW y \in S PROVE x <= y
  <2>1. x \in Nat /\ y \in Nat
    OBVIOUS
  <2>2. ~ (<<y, x>> \in OpToRel(<, Nat))
    BY <1>1, Zenon
  <2>3. ~ (y < x)
    BY <2>1, <2>2 DEF OpToRel
  <2> QED
    BY <2>1, <2>3
<1> QED
  BY <1>2

\* The best of some positions: the first of those with the highest score.
BestOf(S, f, i) == i \in S /\ \A j \in S : f[j] < f[i] \/ (f[j] = f[i] /\ i <= j)

LEMMA BestExists ==
  ASSUME NEW n \in Nat, NEW S \in SUBSET (1..n), S # {}, NEW f, \A i \in S : f[i] \in Nat
  PROVE  \E i \in S : BestOf(S, f, i)
<1> DEFINE Upto(k) == S \cap 1..k
           Bad == {k \in Nat : Upto(k) # {} /\ ~ \E i \in Upto(k) : BestOf(Upto(k), f, i)}
<1>1. Upto(n) = S
  OBVIOUS
<1>2. Bad = {}
  <2> SUFFICES ASSUME Bad # {} PROVE FALSE
    OBVIOUS
  <2>1. PICK k \in Bad : \A l \in Bad : k <= l
    <3>1. Bad \subseteq Nat
      OBVIOUS
    <3> HIDE DEF Bad
    <3> QED
      BY <3>1, LeastIn
  <2>2. k \in Nat /\ k # 0 /\ Upto(k) # {} /\ ~ \E i \in Upto(k) : BestOf(Upto(k), f, i)
    BY <2>1
  <2>3. k - 1 \in Nat /\ k - 1 \notin Bad
    <3> HIDE DEF Bad
    <3>1. k - 1 \in Nat /\ ~ (k <= k - 1)
      BY <2>2
    <3> QED
      BY <2>1, <3>1
  <2>4. Upto(k) = Upto(k - 1) \/ (k \in S /\ Upto(k) = Upto(k - 1) \cup {k})
    BY <2>2
  <2>5. Upto(k) = Upto(k - 1) \cup {k} /\ k \in S
    BY <2>2, <2>3, <2>4
  <2>6. CASE Upto(k - 1) = {}
    <3>1. Upto(k) = {k}
      BY <2>5, <2>6
    <3>2. BestOf(Upto(k), f, k)
      BY <2>2, <3>1 DEF BestOf
    <3> QED
      BY <2>2, <3>1, <3>2
  <2>7. CASE Upto(k - 1) # {}
    <3>1. PICK i \in Upto(k - 1) : BestOf(Upto(k - 1), f, i)
      BY <2>3, <2>7
    <3>2. \A j \in Upto(k) : j \in Upto(k - 1) \/ j = k
      BY <2>5
    <3>3. i \in Upto(k) /\ k \in Upto(k) /\ i < k
      BY <2>2, <2>5, <3>1
    <3>4. \A j \in S : f[j] \in Nat
      OBVIOUS
    <3>5. \A j \in Upto(k - 1) : j \in S /\ j \in Nat /\ j < k
      BY <2>2
    <3> HIDE DEF Upto
    <3>6. CASE f[k] > f[i]
      <4>1. BestOf(Upto(k), f, k)
        BY <2>2, <2>5, <3>1, <3>2, <3>3, <3>4, <3>5, <3>6 DEF BestOf
      <4> QED
        BY <2>2, <3>3, <4>1
    <3>7. CASE ~ (f[k] > f[i])
      <4>1. BestOf(Upto(k), f, i)
        BY <2>2, <2>5, <3>1, <3>2, <3>3, <3>4, <3>5, <3>7 DEF BestOf
      <4> QED
        BY <2>2, <3>3, <4>1
    <3> QED
      BY <3>6, <3>7
  <2> QED
    BY <2>6, <2>7
<1> QED
  BY <1>1, <1>2

FaceOf(face) == face \in Seq(DetectionRows)

LEMMA FaceTypes ==
  ASSUME NEW face, FaceOf(face)
  PROVE  /\ Len(face) \in Nat /\ DOMAIN face = 1..Len(face)
         /\ \A i \in DOMAIN face : face[i].student \in Students /\ face[i].score \in Nat
         /\ Clearing(face) \subseteq 1..Len(face)
         /\ Named(face) \subseteq Students
         /\ \A s : HitsOf(face, s) \subseteq Clearing(face)
<1>1. \A i \in DOMAIN face : face[i] \in DetectionRows
  BY DEF FaceOf
<1>2. \A i \in DOMAIN face : face[i].student \in Students /\ face[i].score \in Nat
  BY <1>1 DEF DetectionRows
<1> QED
  BY <1>2 DEF FaceOf, Clearing, Named, HitsOf

\* The best hit of someone who is named, and their score.
LEMMA BestHitIs ==
  ASSUME NEW face, FaceOf(face), NEW s \in Named(face)
  PROVE  /\ BestHit(face, s) \in HitsOf(face, s)
         /\ BestScore(face, s) \in Nat /\ BestScore(face, s) >= Confidence
         /\ \E i \in DOMAIN face : face[i].student = s /\ face[i].score = BestScore(face, s)
         /\ \A j \in HitsOf(face, s) : face[j].score <= BestScore(face, s)
         /\ \A j \in DOMAIN face : face[j].student = s => face[j].score <= BestScore(face, s)
<1> DEFINE H == HitsOf(face, s)
           f == [j \in DOMAIN face |-> face[j].score]
           b == BestHit(face, s)
<1>1. H # {} /\ H \in SUBSET (1..Len(face)) /\ \A j \in H : f[j] = face[j].score /\ f[j] \in Nat
  BY FaceTypes DEF Named, HitsOf
<1>2. PICK i \in H : BestOf(H, f, i)
  <2> HIDE DEF H, f
  <2> QED
    BY <1>1, BestExists, FaceTypes
<1>3. \A j \in H : face[j].score < face[i].score \/ (face[j].score = face[i].score /\ i <= j)
  BY <1>1, <1>2 DEF BestOf
<1>4. b \in H /\ \A j \in H : face[j].score < face[b].score
                               \/ (face[j].score = face[b].score /\ b <= j)
  BY <1>3 DEF BestHit
<1>5. BestScore(face, s) = face[b].score
  BY DEF BestScore
<1>6. /\ \A j \in H : j \in DOMAIN face /\ face[j].score \in Nat
                       /\ face[j].score >= Confidence /\ face[j].student = s
      /\ \A j \in DOMAIN face : face[j].student = s /\ j \notin H => face[j].score < Confidence
  BY FaceTypes, ThresholdsAssumption DEF HitsOf, Clearing, Clears
<1>7. \A j \in DOMAIN face : face[j].score \in Nat
  BY FaceTypes
<1> HIDE DEF H, f, b
<1>8. \A j \in H : face[j].score <= face[b].score
  BY <1>4, <1>6
<1>9. \A j \in DOMAIN face : face[j].student = s => face[j].score <= face[b].score
  BY <1>4, <1>6, <1>7, <1>8, ThresholdsAssumption
<1> QED
  BY <1>4, <1>5, <1>6, <1>8, <1>9 DEF H, b

\* Among any of the students named one outranks the others, and only one does.
LEMMA LeaderExists ==
  ASSUME NEW face, FaceOf(face), NEW N \in SUBSET Named(face), N # {}
  PROVE  \E s \in N : \A t \in N \ {s} : Outranks(face, s, t)
<1> DEFINE S == {i \in Clearing(face) : face[i].student \in N}
           f == [i \in DOMAIN face |-> BestScore(face, face[i].student)]
<1>1. S # {} /\ S \in SUBSET (1..Len(face))
  BY FaceTypes DEF Named
<1>2. \A i \in S : face[i].student \in N /\ f[i] = BestScore(face, face[i].student) /\ f[i] \in Nat
  <2>1. \A i \in S : face[i].student \in N /\ i \in DOMAIN face
    BY FaceTypes
  <2>2. \A s \in N : BestScore(face, s) \in Nat
    BY BestHitIs
  <2> QED
    BY <2>1, <2>2
<1>3. PICK i \in S : BestOf(S, f, i)
  <2> HIDE DEF S, f
  <2> QED
    BY <1>1, <1>2, BestExists, FaceTypes
<1>4. ASSUME NEW t \in N \ {face[i].student}
      PROVE  Outranks(face, face[i].student, t)
  <2>1. HitsOf(face, t) # {} /\ HitsOf(face, t) \subseteq S
    BY FaceTypes DEF HitsOf, Named
  <2>2. \A j \in HitsOf(face, t) : face[j].student = t /\ f[j] = BestScore(face, t)
    BY <1>2, <2>1 DEF HitsOf
  <2>3. f[i] = BestScore(face, face[i].student) /\ f[i] \in Nat
    BY <1>2
  <2>4. BestScore(face, t) \in Nat
    BY BestHitIs
  <2>5. \A j \in HitsOf(face, t) :
          BestScore(face, t) < f[i] \/ (BestScore(face, t) = f[i] /\ i <= j)
    <3> HIDE DEF S, f
    <3> QED
      BY <1>3, <2>1, <2>2 DEF BestOf
  <2>6. CASE BestScore(face, t) < f[i]
    BY <2>3, <2>4, <2>6 DEF Outranks
  <2>7. CASE ~ (BestScore(face, t) < f[i])
    <3>1. BestScore(face, t) = f[i] /\ \A j \in HitsOf(face, t) : i <= j
      BY <2>1, <2>5, <2>7
    <3>2. \A j \in HitsOf(face, t) : i # j
      BY <2>2
    <3>3. i \in Nat /\ \A j \in HitsOf(face, t) : j \in Nat
      BY <1>1, <2>1
    <3>4. i \in HitsOf(face, face[i].student)
      BY DEF HitsOf
    <3>5. SeenBefore(face, face[i].student, t)
      BY <3>1, <3>2, <3>3, <3>4 DEF SeenBefore
    <3> QED
      BY <2>3, <3>1, <3>5 DEF Outranks
  <2> QED
    BY <2>6, <2>7
<1>5. face[i].student \in N
  BY <1>2
<1> QED
  BY <1>4, <1>5

LEMMA LeaderAlone ==
  ASSUME NEW face, FaceOf(face), NEW s \in Named(face), NEW t \in Named(face)
  PROVE  ~ (Outranks(face, s, t) /\ Outranks(face, t, s))
<1> SUFFICES ASSUME Outranks(face, s, t), Outranks(face, t, s) PROVE FALSE
  OBVIOUS
<1>1. BestScore(face, s) \in Nat /\ BestScore(face, t) \in Nat
  BY BestHitIs
<1>2. SeenBefore(face, s, t) /\ SeenBefore(face, t, s)
  BY <1>1 DEF Outranks
<1>3. PICK i \in HitsOf(face, s) : \A j \in HitsOf(face, t) : i < j
  BY <1>2 DEF SeenBefore
<1>4. PICK j \in HitsOf(face, t) : \A k \in HitsOf(face, s) : j < k
  BY <1>2 DEF SeenBefore
<1>5. i \in Nat /\ j \in Nat /\ i < j /\ j < i
  BY <1>3, <1>4, FaceTypes
<1> QED
  BY <1>5

\* The first and the second of a face.
LEMMA FirstIs ==
  ASSUME NEW face, FaceOf(face)
  PROVE  /\ First(face) \subseteq Named(face)
         /\ \A s, t \in First(face) : s = t
         /\ Named(face) # {} => First(face) # {}
         /\ \A s \in First(face), t \in Named(face) : BestScore(face, t) <= BestScore(face, s)
<1>1. First(face) \subseteq Named(face)
  BY DEF First
<1>2. \A s, t \in First(face) : s = t
  BY LeaderAlone DEF First
<1>3. Named(face) # {} => First(face) # {}
  <2>1. Named(face) \in SUBSET Named(face)
    OBVIOUS
  <2> QED
    BY <2>1, LeaderExists DEF First
<1>4. ASSUME NEW s \in First(face), NEW t \in Named(face)
      PROVE  BestScore(face, t) <= BestScore(face, s)
  <2>1. BestScore(face, s) \in Nat /\ BestScore(face, t) \in Nat
    BY <1>1, BestHitIs
  <2>2. s = t \/ Outranks(face, s, t)
    BY DEF First
  <2> QED
    BY <2>1, <2>2 DEF Outranks
<1> QED
  BY <1>1, <1>2, <1>3, <1>4

LEMMA SecondIs ==
  ASSUME NEW face, FaceOf(face)
  PROVE  /\ Second(face) \subseteq Named(face) \ First(face)
         /\ Named(face) \ First(face) # {} => Second(face) # {}
         /\ \A s \in Second(face), t \in Named(face) \ First(face) :
              BestScore(face, t) <= BestScore(face, s)
<1> DEFINE others == Named(face) \ First(face)
<1>1. Second(face) = {s \in others : \A t \in others \ {s} : Outranks(face, s, t)}
  BY DEF Second
<1>2. others # {} => Second(face) # {}
  <2>1. others \in SUBSET Named(face)
    OBVIOUS
  <2> HIDE DEF others
  <2> QED
    BY <1>1, <2>1, LeaderExists
<1>3. ASSUME NEW s \in Second(face), NEW t \in others
      PROVE  BestScore(face, t) <= BestScore(face, s)
  <2>1. BestScore(face, s) \in Nat /\ BestScore(face, t) \in Nat
    BY <1>1, BestHitIs
  <2>2. s = t \/ Outranks(face, s, t)
    BY <1>1
  <2> QED
    BY <2>1, <2>2 DEF Outranks
<1> QED
  BY <1>1, <1>2, <1>3

LEMMA EmittedNamed ==
  ASSUME NEW face, FaceOf(face)
  PROVE  /\ Emitted(face) \subseteq Named(face)
         /\ ClearWinner(face) => Emitted(face) = First(face)
         /\ ~ ClearWinner(face) => Emitted(face) = First(face) \cup Second(face)
BY FirstIs, SecondIs DEF Emitted

\* Whoever a face is taken for, it is rightly taken for, with their best score.
LEMMA EmittedIsTaken ==
  ASSUME NEW face, FaceOf(face), NEW s \in Emitted(face)
  PROVE  TakenFor(face, s, [score |-> BestScore(face, s), review |-> ~ ClearWinner(face)])
<1> DEFINE row == [score |-> BestScore(face, s), review |-> ~ ClearWinner(face)]
           others == {i \in DOMAIN face : Clears(face[i]) /\ face[i].student # s}
           ahead == {i \in others : face[i].score > row.score}
<1>1. /\ s \in Named(face) /\ row.score = BestScore(face, s)
      /\ row.review = ~ ClearWinner(face) /\ BestScore(face, s) \in Nat
  BY EmittedNamed, BestHitIs
<1>2. /\ row.score >= Confidence
      /\ \E i \in DOMAIN face : face[i].student = s /\ face[i].score = row.score
      /\ \A i \in DOMAIN face : face[i].student = s => face[i].score <= row.score
  BY <1>1, BestHitIs
<1>3. \E i \in DOMAIN face : face[i] = [student |-> s, score |-> row.score]
  <2>1. PICK i \in DOMAIN face : face[i].student = s /\ face[i].score = row.score
    BY <1>2
  <2>2. face[i] \in DetectionRows
    BY DEF FaceOf
  <2>3. face[i] = [student |-> face[i].student, score |-> face[i].score]
    BY <2>2 DEF DetectionRows
  <2> QED
    BY <2>1, <2>3
\* The other students of the face, with their best scores.
<1>4. ASSUME NEW i \in others
      PROVE  /\ face[i].student \in Named(face) \ {s} /\ i \in HitsOf(face, face[i].student)
             /\ face[i].score \in Nat
             /\ face[i].score <= BestScore(face, face[i].student)
             /\ BestScore(face, face[i].student) \in Nat
  <2>1. face[i].student \in Named(face) \ {s} /\ i \in HitsOf(face, face[i].student)
    BY DEF Named, HitsOf, Clearing
  <2> QED
    BY <2>1, BestHitIs, FaceTypes
<1>5. GapLimit \in Nat
  BY ThresholdsAssumption
<1> HIDE DEF row
<1>6. ASSUME ~ row.review, NEW i \in others
      PROVE  row.score - face[i].score > GapLimit
  <2>1. ClearWinner(face) /\ s \in First(face)
    BY <1>1, <1>6, EmittedNamed
  <2>2. face[i].student \in Named(face) \ First(face)
    BY <1>4, <2>1, FirstIs
  <2>3. PICK t \in Second(face) : TRUE
    BY <2>2, SecondIs
  <2>4. BestScore(face, face[i].student) <= BestScore(face, t) /\ BestScore(face, t) \in Nat
    BY <2>2, <2>3, SecondIs, BestHitIs
  <2>5. BestScore(face, s) - BestScore(face, t) > GapLimit
    BY <2>1, <2>3 DEF ClearWinner
  <2> QED
    BY <1>1, <1>4, <1>5, <2>4, <2>5
<1>7. ASSUME row.review
      PROVE  \E a \in First(face), b \in Second(face) :
               BestScore(face, a) - BestScore(face, b) <= GapLimit
  <2>1. PICK a \in First(face), b \in Second(face) :
          ~ (BestScore(face, a) - BestScore(face, b) > GapLimit)
    BY <1>1, <1>7 DEF ClearWinner
  <2>2. BestScore(face, a) \in Nat /\ BestScore(face, b) \in Nat
    BY FirstIs, SecondIs, BestHitIs
  <2> QED
    BY <1>5, <2>1, <2>2
<1>8. ASSUME row.review
      PROVE  /\ Cardinality({face[i].student : i \in ahead}) <= 1
             /\ \A i \in ahead : face[i].score - row.score <= GapLimit
             /\ \E i \in others : row.score - face[i].score <= GapLimit
  <2>1. PICK a \in First(face), b \in Second(face) :
          BestScore(face, a) - BestScore(face, b) <= GapLimit
    BY <1>7, <1>8
  <2>2. /\ a \in Named(face) /\ b \in Named(face) /\ a # b
        /\ BestScore(face, a) \in Nat /\ BestScore(face, b) \in Nat
        /\ BestScore(face, b) <= BestScore(face, a)
        /\ \A t \in Named(face) : BestScore(face, t) <= BestScore(face, a)
        /\ \A t \in Named(face) : t # a => BestScore(face, t) <= BestScore(face, b)
    BY FirstIs, SecondIs, BestHitIs
  <2>3. BestScore(face, b) <= row.score /\ (s = a \/ BestScore(face, s) = BestScore(face, b))
    <3>1. s = a \/ s \in Second(face)
      BY <1>1, <1>8, EmittedNamed, FirstIs
    <3>2. s \in Second(face) => BestScore(face, b) <= BestScore(face, s)
      BY SecondIs
    <3> QED
      BY <1>1, <2>2, <3>1, <3>2
  <2>4. \A i \in ahead : face[i].student = a
    <3> SUFFICES ASSUME NEW i \in ahead, face[i].student # a PROVE FALSE
      OBVIOUS
    <3>1. BestScore(face, face[i].student) <= BestScore(face, b)
      BY <1>4, <2>2
    <3> QED
      BY <1>1, <1>4, <2>2, <2>3, <3>1
  <2>5. Cardinality({face[i].student : i \in ahead}) <= 1
    <3> DEFINE T == {face[i].student : i \in ahead}
    <3>1. T = {} \/ T = {a}
      BY <2>4
    <3> HIDE DEF T
    <3>2. Cardinality(T) <= 1
      BY <3>1, FS_EmptySet, FS_Singleton
    <3> QED
      BY <3>2 DEF T
  <2>6. \A i \in ahead : face[i].score - row.score <= GapLimit
    <3> TAKE i \in ahead
    <3>1. i \in others /\ face[i].student = a
      BY <2>4
    <3>2. face[i].score <= BestScore(face, a) /\ face[i].score \in Nat
      BY <1>4, <3>1
    <3> QED
      BY <1>1, <1>5, <2>1, <2>2, <2>3, <3>2
  <2>7. \E i \in others : row.score - face[i].score <= GapLimit
    <3> DEFINE t == IF s = a THEN b ELSE a
    <3>1. t \in Named(face) /\ t # s
      BY <2>2
    <3>2. PICK i \in DOMAIN face : face[i].student = t /\ face[i].score = BestScore(face, t)
      BY <3>1, BestHitIs
    <3>3. BestScore(face, t) >= Confidence
      BY <3>1, BestHitIs
    <3>4. i \in others
      BY <3>1, <3>2, <3>3 DEF Clears
    <3>5. row.score - BestScore(face, t) <= GapLimit
      BY <1>1, <1>5, <2>1, <2>2, <2>3
    <3> HIDE DEF t, others
    <3> QED
      BY <3>2, <3>4, <3>5
  <2> QED
    BY <2>5, <2>6, <2>7
<1> HIDE DEF others, ahead
<1>9. TakenFor(face, s, row)
  BY <1>2, <1>3, <1>6, <1>8 DEF TakenFor, others, ahead
<1> QED
  BY <1>9 DEF row

\* Who stands first in a face, it is taken for.
LEMMA FirstIsEmitted ==
  ASSUME NEW face, FaceOf(face), NEW j \in DOMAIN face, Stands1st(face, j)
  PROVE  face[j].student \in Emitted(face)
<1> DEFINE s == face[j].student
<1>1. s \in Named(face) /\ j \in HitsOf(face, s)
  BY DEF Stands1st, Named, HitsOf, Clearing
<1>2. BestScore(face, s) \in Nat /\ face[j].score <= BestScore(face, s) /\ face[j].score \in Nat
  BY <1>1, BestHitIs, FaceTypes
<1>3. ASSUME NEW t \in Named(face) \ {s}
      PROVE  Outranks(face, s, t)
  <2>1. PICK i \in DOMAIN face : face[i].student = t /\ face[i].score = BestScore(face, t)
    BY BestHitIs
  <2>2. face[i].score < face[j].score /\ face[i].score \in Nat
    BY <2>1, FaceTypes DEF Stands1st
  <2>3. BestScore(face, s) > BestScore(face, t)
    BY <1>2, <2>1, <2>2
  <2> QED
    BY <2>3 DEF Outranks
<1> HIDE DEF s
<1>4. s \in First(face)
  BY <1>1, <1>3 DEF First
<1>5. s \in Emitted(face)
  BY <1>4, EmittedNamed
<1> QED
  BY <1>5 DEF s

-----------------------------------------------------------------------------
\* The people of a scene.

LEMMA SceneTypes ==
  ASSUME NEW sc \in Scenes
  PROVE  /\ Views[sc] \in Seq(Seq(DetectionRows))
         /\ Len(Views[sc]) \in Nat /\ DOMAIN Views[sc] = 1..Len(Views[sc])
         /\ \A i \in DOMAIN Views[sc] : FaceOf(Views[sc][i])
<1>1. Views[sc] \in Seq(Seq(DetectionRows))
  BY ViewsAssumption DEF Scenes
<1>2. \A i \in DOMAIN Views[sc] : Views[sc][i] \in Seq(DetectionRows)
  BY <1>1
<1> QED
  BY <1>1, <1>2 DEF FaceOf

\* Each person's record is that of their best face.
LEMMA PeopleAre ==
  ASSUME NEW sc \in Scenes, NEW s \in People(Views[sc])
  PROVE  LET i == BestFace(Views[sc], s) IN
         /\ i \in DOMAIN Views[sc] /\ s \in Emitted(Views[sc][i])
         /\ PeopleOf[sc][s] = [score |-> BestScore(Views[sc][i], s),
                               review |-> ~ ClearWinner(Views[sc][i])]
         /\ \A j \in DOMAIN Views[sc] :
              s \in Emitted(Views[sc][j])
                => BestScore(Views[sc][j], s) <= BestScore(Views[sc][i], s)
<1> DEFINE V == Views[sc]
           on == {j \in DOMAIN V : s \in Emitted(V[j])}
           f == [j \in DOMAIN V |-> BestScore(V[j], s)]
           b == BestFace(V, s)
<1>1. on # {} /\ on \in SUBSET (1..Len(V)) /\ Len(V) \in Nat
  BY SceneTypes DEF People
<1>2. \A j \in on : f[j] = BestScore(V[j], s) /\ f[j] \in Nat
  <2>1. \A j \in on : s \in Named(V[j]) /\ FaceOf(V[j])
    BY SceneTypes, EmittedNamed
  <2> QED
    BY <2>1, BestHitIs
<1>3. PICK i \in on : BestOf(on, f, i)
  <2> HIDE DEF on, f, V
  <2> QED
    BY <1>1, <1>2, BestExists
<1>4. \A j \in on : \/ BestScore(V[j], s) < BestScore(V[i], s)
                    \/ BestScore(V[j], s) = BestScore(V[i], s) /\ i <= j
  BY <1>2, <1>3 DEF BestOf
<1>5. b \in on /\ \A j \in on : \/ BestScore(V[j], s) < BestScore(V[b], s)
                                \/ BestScore(V[j], s) = BestScore(V[b], s) /\ b <= j
  BY <1>4 DEF BestFace
<1>6. \A j \in on : BestScore(V[j], s) <= BestScore(V[b], s)
  <2>1. \A j \in on : BestScore(V[j], s) \in Nat
    BY <1>2
  <2> HIDE DEF on, b
  <2> QED
    BY <1>5, <2>1
<1>7. PeopleOf[sc][s] = [score |-> BestScore(V[b], s), review |-> ~ ClearWinner(V[b])]
  BY DEF PeopleOf, Hit
<1> QED
  BY <1>5, <1>6, <1>7

LEMMA ScenePeople ==
  ASSUME NEW sc \in Scenes
  PROVE  /\ DOMAIN PeopleOf[sc] = People(Views[sc])
         /\ People(Views[sc]) \subseteq Known[sc] /\ Known[sc] \subseteq Students
         /\ \A s \in People(Views[sc]) :
              /\ PeopleOf[sc][s] \in MatchRows
              /\ \E i \in DOMAIN Views[sc] : TakenFor(Views[sc][i], s, PeopleOf[sc][s])
         /\ \A i \in DOMAIN Views[sc] : \A s \in Emitted(Views[sc][i]) :
              /\ s \in People(Views[sc])
              /\ BestScore(Views[sc][i], s) <= PeopleOf[sc][s].score
<1>1. DOMAIN PeopleOf[sc] = People(Views[sc])
  BY DEF PeopleOf
<1>2. \A i \in DOMAIN Views[sc] : Emitted(Views[sc][i]) \subseteq Named(Views[sc][i])
  BY SceneTypes, EmittedNamed
<1>3. People(Views[sc]) \subseteq Known[sc]
  <2> SUFFICES ASSUME NEW s \in People(Views[sc]) PROVE s \in Known[sc]
    OBVIOUS
  <2>1. PICK i \in DOMAIN Views[sc] : s \in Named(Views[sc][i])
    BY <1>2 DEF People
  <2>2. PICK j \in DOMAIN Views[sc][i] : Views[sc][i][j].student = s
    BY <2>1 DEF Named, Clearing
  <2> QED
    BY <2>2 DEF Known
<1>4. Known[sc] \subseteq Students
  <2>1. \A i \in DOMAIN Views[sc] : \A j \in DOMAIN Views[sc][i] :
          Views[sc][i][j].student \in Students
    BY SceneTypes, FaceTypes
  <2> QED
    BY <2>1 DEF Known
<1>5. ASSUME NEW s \in People(Views[sc])
      PROVE  /\ PeopleOf[sc][s] \in MatchRows
             /\ \E i \in DOMAIN Views[sc] : TakenFor(Views[sc][i], s, PeopleOf[sc][s])
  <2> DEFINE i == BestFace(Views[sc], s)
  <2>1. /\ i \in DOMAIN Views[sc] /\ s \in Emitted(Views[sc][i])
        /\ PeopleOf[sc][s] = [score |-> BestScore(Views[sc][i], s),
                              review |-> ~ ClearWinner(Views[sc][i])]
    BY PeopleAre
  <2>2. FaceOf(Views[sc][i]) /\ s \in Named(Views[sc][i])
    BY <1>2, <2>1, SceneTypes
  <2> HIDE DEF i
  <2>3. BestScore(Views[sc][i], s) \in Nat
    BY <2>2, BestHitIs
  <2>4. (~ ClearWinner(Views[sc][i])) \in BOOLEAN
    BY DEF ClearWinner
  <2>5. PeopleOf[sc][s] \in MatchRows
    BY <2>1, <2>3, <2>4 DEF MatchRows
  <2>6. TakenFor(Views[sc][i], s, PeopleOf[sc][s])
    BY <2>1, <2>2, EmittedIsTaken
  <2> QED
    BY <2>1, <2>5, <2>6
<1>6. ASSUME NEW i \in DOMAIN Views[sc], NEW s \in Emitted(Views[sc][i])
      PROVE  /\ s \in People(Views[sc])
             /\ BestScore(Views[sc][i], s) <= PeopleOf[sc][s].score
  <2>1. s \in People(Views[sc])
    BY DEF People
  <2> DEFINE b == BestFace(Views[sc], s)
  <2>2. PeopleOf[sc][s].score = BestScore(Views[sc][b], s)
    <3>1. PeopleOf[sc][s] = [score |-> BestScore(Views[sc][b], s),
                             review |-> ~ ClearWinner(Views[sc][b])]
      BY <2>1, PeopleAre
    <3> QED
      BY <3>1
  <2>3. BestScore(Views[sc][i], s) <= BestScore(Views[sc][b], s)
    BY <2>1, PeopleAre
  <2> QED
    BY <2>1, <2>2, <2>3
<1> QED
  BY <1>1, <1>3, <1>4, <1>5, <1>6

\* The evidence of a scene claims nobody who is not among its people, and nobody more
\* surely than their record.
LEMMA SceneEvidence ==
  ASSUME NEW sc \in Scenes
  PROVE  /\ EvidenceOf[sc] \subseteq DetectionRows
         /\ \A d \in EvidenceOf[sc] : d.student \in People(Views[sc])
                                      /\ d.score <= PeopleOf[sc][d.student].score
<1> SUFFICES ASSUME NEW d \in EvidenceOf[sc]
             PROVE  /\ d \in DetectionRows /\ d.student \in People(Views[sc])
                    /\ d.score <= PeopleOf[sc][d.student].score
  OBVIOUS
<1>0. PICK i \in DOMAIN Views[sc] : \E j \in DOMAIN Views[sc][i] :
        d = Views[sc][i][j] /\ Views[sc][i][j].student \in Emitted(Views[sc][i])
  BY DEF EvidenceOf
<1>1. PICK j \in DOMAIN Views[sc][i] :
        d = Views[sc][i][j] /\ Views[sc][i][j].student \in Emitted(Views[sc][i])
  BY <1>0
<1> DEFINE face == Views[sc][i]
           s == d.student
<1>2. FaceOf(face) /\ s \in Emitted(face) /\ s \in Named(face)
  BY <1>1, SceneTypes, EmittedNamed
<1>3. d \in DetectionRows /\ d.score \in Nat
  BY <1>1, <1>2, FaceTypes DEF FaceOf
<1>4. d.score <= BestScore(face, s) /\ BestScore(face, s) \in Nat
  BY <1>1, <1>2, BestHitIs
<1>5. s \in People(Views[sc]) /\ BestScore(face, s) <= PeopleOf[sc][s].score
  BY <1>1, <1>2, ScenePeople
<1>6. PeopleOf[sc][s].score \in Nat
  BY <1>5, ScenePeople DEF MatchRows
<1> QED
  BY <1>3, <1>4, <1>5, <1>6

-----------------------------------------------------------------------------
\* Types, and what a request is about at each of its steps.

Kinds == {"none", "verdict", "add", "notme", "save", "undo", "batch", "listing", "lane",
          "inbox", "detail", "roster", "notify"}
Steps == {"idle", "undo", "reads", "matches", "corrections", "write", "record", "stamp",
          "event", "answer"}

RequestRecords ==
  [kind : Kinds, who : Students \cup {NoStudent}, photo : Media \cup {NoMedia},
   verdict : {"none", "confirmed", "rejected"}, step : Steps,
   read : SUBSET Pairs, flagged : SUBSET Pairs, pairs : SUBSET Pairs, no : SUBSET Pairs,
   mark : Nat, opens : [Students -> Nat]]

Aimed(q) ==
  /\ q.kind \in {"verdict", "add", "notme", "save", "undo"} => q.who \in Students /\ q.photo \in Media
  /\ q.kind = "batch" => q.who = NoStudent /\ q.photo = NoMedia
  /\ q.kind \in {"verdict", "notme"} => q.verdict # "none"
  /\ q.step = "undo" => q.kind = "undo"
  /\ q.step = "record" => q.kind = "save"
  /\ q.step = "stamp" => q.kind = "notify"
  /\ q.step = "event" => q.kind = "inbox"
  /\ q.step = "reads" => q.kind \in {"inbox", "roster"}
  /\ q.step = "write" => q.kind \in {"verdict", "add", "batch", "notme"}
  /\ q.step \in {"corrections", "answer"} => ~ Writes(q)
  /\ q.step \in {"write", "record"} /\ q.kind # "batch" => q.pairs \subseteq {<<q.who, q.photo>>}

\* A run that is under way is at a photo, with a scene.
RunsPlaced ==
  \A w \in Workers :
    run[w].step # "idle" => run[w].photo \in Media /\ run[w].scene \in Scenes

Typed ==
  /\ RowsTyped /\ InboxTyped /\ RunsTyped /\ RunsPlaced
  /\ detections \in [Media -> SUBSET DetectionRows] /\ ran \in [Media -> SUBSET Scenes]
  /\ indexed \subseteq Students /\ cached \subseteq stray \ indexed
  /\ erasing \in [Students -> {"no", "unindexed", "unmatched", "purged", "gone"}]
  /\ audit \subseteq Pairs
  /\ req \in [Requests -> RequestRecords] /\ \A r \in Requests : Aimed(req[r])
  /\ stray \subseteq Students /\ churned \in BOOLEAN /\ moves \in 0..MaxMoves
  /\ heldSince \in [Requests -> SUBSET Pairs] /\ stoodSince \in [Requests -> SUBSET Standings]
  /\ opened \in [Students -> SUBSET {"notified", "completed"}]

\* Once the index has forgotten a student no run recognises them, unless they are stray.
Forgotten ==
  \A s \in Students :
    /\ erasing[s] # "no" => s \notin indexed
    /\ s \notin indexed /\ s \notin stray =>
         \A w \in Workers : run[w].step # "idle" => s \notin DOMAIN PeopleOf[run[w].scene]

\* How far the erasure of a student has come.
Cleared ==
  \A s \in Students :
    /\ s \notin stray /\ erasing[s] \in {"unmatched", "purged", "gone"} =>
         \A m \in Media : ~ Matched(<<s, m>>)
    /\ s \notin stray /\ erasing[s] \in {"purged", "gone"} =>
         \A m \in Media : \A d \in detections[m] : d.student # s
    /\ erasing[s] = "gone" =>
         seen[s] = 0 /\ \A m \in Media : corrections[<<s, m>>] = NoRow /\ <<s, m>> \notin audit

\* An announcement is opened if it is seen since.
OpenedIsSeen ==
  \A s \in Students :
    /\ event.notified # 0 => ("notified" \in opened[s] <=> seen[s] # 0 /\ seen[s] >= event.notified)
    /\ "completed" \in opened[s] <=> seen[s] # 0 /\ seen[s] >= event.completed

\* What an inbox or a roster has read of the stamps stood so since it began.
StoodSo(r, at, announced) ==
  \A s \in Students : <<s, Standing(at[s], announced)>> \in stoodSince[r]

StampsRead(r) ==
  /\ req[r].mark <= now /\ \A s \in Students : req[r].opens[s] <= now
  /\ req[r].kind = "inbox" /\ req[r].step = "event" =>
       StoodSo(r, req[r].opens, EffectiveAnnouncedAt(event))
  /\ req[r].kind = "inbox" /\ req[r].step = "answer" => StoodSo(r, req[r].opens, req[r].mark)
  /\ req[r].kind = "roster" /\ req[r].step = "reads" =>
       /\ StoodSo(r, seen, req[r].mark)
       /\ \/ Standings \subseteq stoodSince[r]
          \/ req[r].mark # 0 => EffectiveAnnouncedAt(event) # 0
  /\ req[r].kind = "roster" /\ req[r].step \in {"matches", "corrections", "answer"} =>
       StoodSo(r, req[r].opens, req[r].mark)

StampsTrue == OpenedIsSeen /\ \A r \in Requests : StampsRead(r)

\* Unless a match changed under a correction, the corrections and the requests about to
\* write one know which matches are flagged.
FlagsKnown ==
  ~ churned =>
    /\ \A p \in Pairs : corrections[p] # NoRow => (corrections[p].resolves <=> Flagged(p))
    /\ \A r \in Requests, p \in Pairs :
         Correcting(r, p) => (p \in req[r].flagged <=> Flagged(p))

\* Between its two reads a request has read matches that still stand, or a lane matches
\* that belonged in it since.
ReadsHold ==
  \A r \in Requests :
    /\ req[r].step \notin {"idle", "undo"} /\ ~ Writes(req[r]) => Held(r) \subseteq heldSince[r]
    /\ req[r].step = "corrections" =>
         /\ req[r].read \cup req[r].flagged \subseteq InScope(req[r], Pairs)
         /\ \A p \in req[r].read : p[1] \in indexed => Matched(p)
         /\ req[r].kind = "lane" =>
              \A p \in req[r].flagged : churned \/ Flagged(p) \/ p \in heldSince[r]

\* The rows of a photo are those of its runs, none worse than any run's.
RowsOfRuns ==
  /\ \A m \in Media, s \in Students, sc \in Scenes :
       sc \in ran[m] /\ s \in indexed /\ s \in DOMAIN PeopleOf[sc] =>
         Matched(<<s, m>>) /\ matches[<<s, m>>].score >= PeopleOf[sc][s].score
  /\ \A m \in Media, s \in Students :
       Matched(<<s, m>>) => \E sc \in ran[m] : s \in DOMAIN PeopleOf[sc]
                                               /\ matches[<<s, m>>] = PeopleOf[sc][s]
  /\ \A w \in Workers : run[w].step = "detections" => run[w].scene \in ran[run[w].photo]
  /\ \A m \in Media : \E sc \in ran[m] : detections[m] \subseteq EvidenceOf[sc]

LEMMA NothingTyped == /\ NoRequest \in RequestRecords /\ Aimed(NoRequest) /\ ~ Writes(NoRequest)
                      /\ NoRequest.kind = "none" /\ NoRequest.step = "idle"
                      /\ NoRequest.mark = 0 /\ NoRequest.opens = [s \in Students |-> 0]
                      /\ NoRequest.read = {} /\ NoRequest.flagged = {} /\ NoRequest.pairs = {}
BY DEF NoRequest, RequestRecords, Kinds, Steps, Aimed, Writes

LEMMA NoRequestTyped == NoRequest.who = NoStudent /\ NoRequest.photo = NoMedia
BY DEF NoRequest

\* A request as it begins.
Fresh(q) ==
  /\ q \in RequestRecords /\ Aimed(q) /\ q.step \in {"matches", "reads", "undo"}
  /\ q.kind = "roster" <=> q.step = "reads"
  /\ q.mark = IF q.kind = "roster" THEN EffectiveAnnouncedAt(event) ELSE 0
  /\ q.opens = [s \in Students |-> 0]

LEMMA Announced ==
  ASSUME InboxTyped
  PROVE  EffectiveAnnouncedAt(event) \in Nat /\ EffectiveAnnouncedAt(event) <= now
BY DEF InboxTyped, EffectiveAnnouncedAt

\* The requests begun; each begins fresh, and the rest of its steps is as they are named.
LEMMA RequestCases ==
  ASSUME Typed, NEW r \in Requests, RequestStep(r)
  PROVE  \/ \E q \in RequestRecords : Fresh(q) /\ Begin(r, q)
         \/ ReadMatches(r) \/ ReadCorrections(r) \/ ReadReads(r) \/ ReadEvent(r)
         \/ (\E p \in Pairs : Write(r, p)) \/ Undo(r) \/ Record(r) \/ Stamp(r) \/ End(r)
<1> DEFINE Begun == \E q \in RequestRecords : Fresh(q) /\ Begin(r, q)
<1>1. ASSUME NEW q, Begin(r, q), Fresh(q) PROVE Begun
  BY <1>1 DEF Fresh
<1>2. ASSUME NEW s \in Students, NEW m \in Media, BeginVerdict(r, s, m) PROVE Begun
  <2>1. PICK v \in {"confirmed", "rejected"} :
          Begin(r, [NoRequest EXCEPT !.kind = "verdict", !.who = s, !.photo = m,
                                     !.verdict = v, !.step = "matches"])
    BY <1>2 DEF BeginVerdict
  <2>2. Fresh([NoRequest EXCEPT !.kind = "verdict", !.who = s, !.photo = m,
                                !.verdict = v, !.step = "matches"])
    BY DEF Fresh, NoRequest, RequestRecords, Kinds, Steps, Aimed, Writes
  <2> QED
    BY <1>1, <2>1, <2>2
<1>3. ASSUME NEW s \in Students, NEW m \in Media, BeginAdd(r, s, m) PROVE Begun
  <2>1. Fresh([NoRequest EXCEPT !.kind = "add", !.who = s, !.photo = m, !.verdict = "confirmed",
                                !.step = "matches"])
    BY DEF Fresh, NoRequest, RequestRecords, Kinds, Steps, Aimed, Writes
  <2> QED
    BY <1>1, <1>3, <2>1 DEF BeginAdd
<1>4. ASSUME NEW s \in Students, NEW m \in Media, BeginNotMe(r, s, m) PROVE Begun
  <2>1. Fresh([NoRequest EXCEPT !.kind = "notme", !.who = s, !.photo = m, !.verdict = "rejected",
                                !.step = "matches"])
    BY DEF Fresh, NoRequest, RequestRecords, Kinds, Steps, Aimed, Writes
  <2> QED
    BY <1>1, <1>4, <2>1 DEF BeginNotMe
<1>5. ASSUME NEW s \in Students, NEW m \in Media, BeginSave(r, s, m) PROVE Begun
  <2>1. Fresh([NoRequest EXCEPT !.kind = "save", !.who = s, !.photo = m, !.step = "matches"])
    BY DEF Fresh, NoRequest, RequestRecords, Kinds, Steps, Aimed, Writes
  <2> QED
    BY <1>1, <1>5, <2>1 DEF BeginSave
<1>6. ASSUME NEW s \in Students, NEW m \in Media, BeginUndo(r, s, m) PROVE Begun
  <2>1. Fresh([NoRequest EXCEPT !.kind = "undo", !.who = s, !.photo = m, !.step = "undo"])
    BY DEF Fresh, NoRequest, RequestRecords, Kinds, Steps, Aimed, Writes
  <2> QED
    BY <1>1, <1>6, <2>1 DEF BeginUndo
<1>7. ASSUME NEW P \in SUBSET Pairs, NEW N \in SUBSET P, BeginBatch(r, P, N)
      PROVE  Begun
  <2>1. Fresh([NoRequest EXCEPT !.kind = "batch", !.pairs = P, !.no = N, !.step = "matches"])
    BY DEF Fresh, NoRequest, RequestRecords, Kinds, Steps, Aimed, Writes
  <2> QED
    BY <1>1, <1>7, <2>1 DEF BeginBatch
<1>8. ASSUME BeginEventListing(r) PROVE Begun
  <2>1. Fresh([NoRequest EXCEPT !.kind = "listing", !.step = "matches"])
    BY DEF Fresh, NoRequest, RequestRecords, Kinds, Steps, Aimed, Writes
  <2> QED
    BY <1>1, <1>8, <2>1 DEF BeginEventListing
<1>9. ASSUME NEW s \in Students, BeginStudentListing(r, s) PROVE Begun
  <2>1. Fresh([NoRequest EXCEPT !.kind = "listing", !.who = s, !.step = "matches"])
    BY DEF Fresh, NoRequest, RequestRecords, Kinds, Steps, Aimed, Writes
  <2> QED
    BY <1>1, <1>9, <2>1 DEF BeginStudentListing
<1>10. ASSUME NEW m \in Media, BeginDetail(r, m) PROVE Begun
  <2>1. Fresh([NoRequest EXCEPT !.kind = "detail", !.photo = m, !.step = "matches"])
    BY DEF Fresh, NoRequest, RequestRecords, Kinds, Steps, Aimed, Writes
  <2> QED
    BY <1>1, <1>10, <2>1 DEF BeginDetail
<1>11. ASSUME BeginLane(r) PROVE Begun
  <2>1. Fresh([NoRequest EXCEPT !.kind = "lane", !.step = "matches"])
    BY DEF Fresh, NoRequest, RequestRecords, Kinds, Steps, Aimed, Writes
  <2> QED
    BY <1>1, <1>11, <2>1 DEF BeginLane
<1>12. ASSUME NEW s \in Students, BeginInbox(r, s) PROVE Begun
  <2>1. Fresh([NoRequest EXCEPT !.kind = "inbox", !.who = s, !.step = "matches"])
    BY DEF Fresh, NoRequest, RequestRecords, Kinds, Steps, Aimed, Writes
  <2> QED
    BY <1>1, <1>12, <2>1 DEF BeginInbox
<1>13. ASSUME BeginRoster(r) PROVE Begun
  <2>1. EffectiveAnnouncedAt(event) \in Nat
    BY Announced DEF Typed
  <2>2. Fresh([NoRequest EXCEPT !.kind = "roster", !.mark = EffectiveAnnouncedAt(event),
                                !.step = "reads"])
    BY <2>1 DEF Fresh, NoRequest, RequestRecords, Kinds, Steps, Aimed, Writes
  <2> QED
    BY <1>1, <1>13, <2>2 DEF BeginRoster
<1>14. ASSUME BeginNotify(r) PROVE Begun
  <2>1. Fresh([NoRequest EXCEPT !.kind = "notify", !.step = "matches"])
    BY DEF Fresh, NoRequest, RequestRecords, Kinds, Steps, Aimed, Writes
  <2> QED
    BY <1>1, <1>14, <2>1 DEF BeginNotify
<1> HIDE DEF Begun
<1>15. \/ Begun \/ ReadMatches(r) \/ ReadCorrections(r) \/ ReadReads(r) \/ ReadEvent(r)
       \/ (\E p \in Pairs : Write(r, p)) \/ Undo(r) \/ Record(r) \/ Stamp(r) \/ End(r)
  BY <1>2, <1>3, <1>4, <1>5, <1>6, <1>7, <1>8, <1>9, <1>10, <1>11, <1>12, <1>13, <1>14
     DEF RequestStep
<1> QED
  BY <1>15 DEF Begun

\* What each step makes of a request: its kind and aim stay.
SameAim(q, n) == n.kind = q.kind /\ n.who = q.who /\ n.photo = q.photo /\ n.verdict = q.verdict

Others(r) == \A x \in Requests : x # r => req'[x] = req[x]

LEMMA ReqTyped ==
  ASSUME Typed, NEW r \in Requests
  PROVE  /\ req \in [Requests -> RequestRecords] /\ req[r] \in RequestRecords /\ Aimed(req[r])
         /\ req[r].kind \in Kinds /\ req[r].who \in Students \cup {NoStudent}
         /\ req[r].photo \in Media \cup {NoMedia} /\ req[r].step \in Steps
         /\ req[r].read \subseteq Pairs /\ req[r].flagged \subseteq Pairs
         /\ req[r].pairs \subseteq Pairs /\ req[r].mark \in Nat
         /\ req[r].opens \in [Students -> Nat] /\ req[r].no \subseteq Pairs
BY DEF Typed, RequestRecords

LEMMA ScopeIs ==
  ASSUME NEW q, NEW P
  PROVE  InScope(q, P) \subseteq P
BY DEF InScope

\* The one pair in the scope of a request about a student and a photo.
LEMMA OnePair ==
  ASSUME NEW q, q.who \in Students, q.photo \in Media, NEW P \in SUBSET Pairs
  PROVE  InScope(q, P) \subseteq {<<q.who, q.photo>>}
BY NoneAssumption DEF InScope, Pairs

LEMMA DoneDoes ==
  ASSUME Typed, NEW r \in Requests, Done(r)
  PROVE  /\ req' \in [Requests -> RequestRecords] /\ Others(r)
         /\ req'[r] = NoRequest /\ Aimed(req'[r])
BY ReqTyped, NothingTyped DEF Done, Others

LEMMA BeginDoes ==
  ASSUME Typed, NEW r \in Requests, NEW q \in RequestRecords, Fresh(q), Begin(r, q)
  PROVE  /\ req' \in [Requests -> RequestRecords] /\ Others(r)
         /\ req'[r] = q /\ Aimed(req'[r])
         /\ req[r].step = "idle" /\ (q.who # NoStudent => Exists(q.who))
BY ReqTyped DEF Begin, Others, Fresh

LEMMA ReadMatchesDoes ==
  ASSUME Typed, NEW r \in Requests, ReadMatches(r)
  PROVE  /\ req' \in [Requests -> RequestRecords] /\ Others(r)
         /\ SameAim(req[r], req'[r]) /\ Aimed(req'[r])
         /\ req'[r].mark = req[r].mark /\ req'[r].opens = req[r].opens
         /\ req[r].step = "matches"
         /\ req'[r].step = IF Writes(req[r]) THEN "write" ELSE "corrections"
         /\ req'[r].read = InScope(req[r], AllMatched)
         /\ req'[r].flagged = InScope(req[r], AllFlagged)
         /\ req'[r].pairs = IF req[r].kind = "batch" THEN req[r].pairs \cap AllMatched
                            ELSE IF Writes(req[r]) THEN {<<req[r].who, req[r].photo>>} ELSE {}
<1> DEFINE q == req[r]
           pairs == IF q.kind = "batch" THEN q.pairs \cap AllMatched
                    ELSE IF Writes(q) THEN {<<q.who, q.photo>>} ELSE {}
           next == IF Writes(q) THEN "write" ELSE "corrections"
           R == InScope(q, AllMatched)
           F == InScope(q, AllFlagged)
           n == [q EXCEPT !.read = R, !.flagged = F, !.pairs = pairs, !.step = next]
<1>1. /\ req \in [Requests -> RequestRecords] /\ q \in RequestRecords /\ Aimed(q)
      /\ q.step = "matches"
      /\ req' = [req EXCEPT ![r] = n]
  BY ReqTyped DEF ReadMatches
<1>2. R \subseteq Pairs /\ F \subseteq Pairs /\ next \in {"write", "corrections"}
  BY ScopeIs DEF AllMatched, AllFlagged
<1>3. pairs \subseteq Pairs
  <2>1. Writes(q) /\ q.kind # "batch" => q.who \in Students /\ q.photo \in Media
    BY <1>1 DEF Aimed, Writes
  <2>2. q.pairs \subseteq Pairs
    BY ReqTyped
  <2> QED
    BY <2>1, <2>2 DEF Pairs
<1> HIDE DEF q, pairs, next, R, F
<1>4. /\ n \in RequestRecords /\ SameAim(q, n) /\ n.mark = q.mark /\ n.opens = q.opens
      /\ n.step = next /\ n.read = R /\ n.flagged = F /\ n.pairs = pairs
  BY <1>1, <1>2, <1>3 DEF RequestRecords, SameAim, Steps
<1>5. Aimed(n)
  <2>1. n.kind = q.kind /\ n.who = q.who /\ n.photo = q.photo /\ n.verdict = q.verdict
    BY <1>4 DEF SameAim
  <2>2. next = "write" => q.kind \in {"verdict", "add", "batch"}
    BY DEF next, Writes
  <2>3. next = "write" /\ q.kind # "batch" => pairs \subseteq {<<q.who, q.photo>>}
    BY DEF next, pairs
  <2>4. next \in {"corrections", "answer"} => ~ Writes(q)
    BY DEF next
  <2> HIDE DEF n
  <2> QED
    BY <1>1, <1>2, <1>4, <2>1, <2>2, <2>3, <2>4 DEF Aimed, Writes
<1>6. req' \in [Requests -> RequestRecords] /\ Others(r) /\ req'[r] = n
  <2> HIDE DEF n
  <2> QED
    BY <1>1, <1>4 DEF Others
<1> HIDE DEF n
<1> QED
  BY <1>1, <1>4, <1>5, <1>6 DEF q, pairs, next, R, F

\* What a request makes of its two reads, and where it goes on from there.
Found(q) == {p \in InScope(q, Overlay(q.kind, q.read, q.flagged, Verdicts)) : Exists(p[1])}

After(k) == CASE k = "notme" -> "write" [] k = "save" -> "record" [] k = "notify" -> "stamp"
              [] k = "inbox" -> "reads" [] OTHER -> "answer"

LEMMA AfterIs ==
  ASSUME NEW k
  PROVE  /\ After(k) \in {"write", "record", "stamp", "reads", "answer"}
         /\ (After(k) = "write" <=> k = "notme") /\ (After(k) = "record" <=> k = "save")
         /\ (After(k) = "stamp" <=> k = "notify") /\ (After(k) = "reads" <=> k = "inbox")
<1>1. CASE k = "notme"
  BY <1>1 DEF After
<1>2. CASE k = "save"
  BY <1>2 DEF After
<1>3. CASE k = "notify"
  BY <1>3 DEF After
<1>4. CASE k = "inbox"
  BY <1>4 DEF After
<1>5. CASE k \notin {"notme", "save", "notify", "inbox"}
  BY <1>5 DEF After
<1> QED
  BY <1>1, <1>2, <1>3, <1>4, <1>5

LEMMA OverlayIs ==
  ASSUME NEW k, NEW R, NEW F, NEW v
  PROVE  /\ k \in {"save", "notme"} => Overlay(k, R, F, v) = OverMedia(R, v)
         /\ k = "detail" => Overlay(k, R, F, v) = OnDetail(R, v)
         /\ k = "lane" => Overlay(k, R, F, v) = InLane(F, v)
         /\ k \notin {"save", "notme", "detail", "lane"} => Overlay(k, R, F, v) = OverPairs(R, v)
         /\ R \subseteq Pairs /\ F \subseteq Pairs => Overlay(k, R, F, v) \subseteq Pairs
<1>1. CASE k \in {"save", "notme"}
  BY <1>1 DEF Overlay, OverMedia
<1>2. CASE k = "detail"
  BY <1>2 DEF Overlay, OnDetail
<1>3. CASE k = "lane"
  BY <1>3 DEF Overlay, InLane
<1>4. CASE k \notin {"save", "notme", "detail", "lane"}
  BY <1>4 DEF Overlay, OverPairs
<1> QED
  BY <1>1, <1>2, <1>3, <1>4

LEMMA FoundTyped ==
  ASSUME Typed, NEW r \in Requests
  PROVE  /\ Found(req[r]) \subseteq Pairs
         /\ req[r].kind \in {"notme", "save"} =>
              Found(req[r]) \subseteq {<<req[r].who, req[r].photo>>}
<1> DEFINE q == req[r]
           O == Overlay(q.kind, q.read, q.flagged, Verdicts)
<1>1. O \subseteq Pairs
  BY ReqTyped, OverlayIs
<1>2. Found(q) \subseteq InScope(q, O)
  BY DEF Found
<1>3. q.kind \in {"notme", "save"} => q.who \in Students /\ q.photo \in Media
  BY ReqTyped DEF Aimed
<1> HIDE DEF O, q
<1> QED
  BY <1>1, <1>2, <1>3, ScopeIs, OnePair DEF q

LEMMA ReadCorrectionsDoes ==
  ASSUME Typed, NEW r \in Requests, ReadCorrections(r)
  PROVE  /\ req' \in [Requests -> RequestRecords] /\ Others(r) /\ Aimed(req'[r])
         /\ req[r].step = "corrections"
         /\ \/ req'[r] = NoRequest /\ Found(req[r]) = {}
            \/ /\ SameAim(req[r], req'[r])
               /\ req'[r].mark = req[r].mark /\ req'[r].opens = req[r].opens
               /\ req'[r].step = After(req[r].kind)
               /\ req'[r].pairs = Found(req[r])
               /\ req'[r].read = {}
               /\ req[r].kind = "notme" => req'[r].flagged = req[r].flagged
<1> DEFINE q == req[r]
           found == Found(q)
           then == After(q.kind)
           F == IF then = "write" THEN q.flagged ELSE {}
           n == [q EXCEPT !.pairs = found, !.step = then, !.read = {}, !.flagged = F]
<1>1. /\ req \in [Requests -> RequestRecords] /\ q \in RequestRecords /\ Aimed(q)
      /\ q.step = "corrections"
      /\ IF q.kind \in {"notme", "save"} /\ found = {} THEN Done(r)
         ELSE req' = [req EXCEPT ![r] = n]
  BY ReqTyped DEF ReadCorrections, Found, After
<1>2. CASE Done(r)
  <2>1. Found(req[r]) = {} \/ req' = [req EXCEPT ![r] = n]
    BY <1>1
  <2>2. CASE Found(req[r]) = {}
    BY <1>1, <1>2, <2>2, DoneDoes
  <2>3. CASE req' = [req EXCEPT ![r] = n] /\ Found(req[r]) # {}
    <3>1. n.pairs # {}
      BY <1>1, <2>3 DEF RequestRecords
    <3>2. req'[r] = n /\ req'[r].pairs = {}
      BY <1>1, <1>2, <2>3, DoneDoes, NothingTyped
    <3> QED
      BY <3>1, <3>2
  <2> QED
    BY <2>1, <2>2, <2>3
<1>3. CASE req' = [req EXCEPT ![r] = n]
  <2>1. /\ found \subseteq Pairs
        /\ q.kind \in {"notme", "save"} => found \subseteq {<<q.who, q.photo>>}
    BY FoundTyped
  <2>2. /\ then \in {"write", "record", "stamp", "reads", "answer"}
        /\ (then = "write" <=> q.kind = "notme") /\ (then = "record" <=> q.kind = "save")
        /\ (then = "stamp" <=> q.kind = "notify") /\ (then = "reads" <=> q.kind = "inbox")
    BY AfterIs
  <2>3. F \subseteq Pairs /\ (q.kind = "notme" => F = q.flagged)
    BY <2>2, ReqTyped
  <2> HIDE DEF q, found, then, F
  <2>4. /\ n \in RequestRecords /\ SameAim(q, n) /\ n.mark = q.mark /\ n.opens = q.opens
        /\ n.step = then /\ n.read = {} /\ n.flagged = F /\ n.pairs = found
    BY <1>1, <2>1, <2>2, <2>3 DEF RequestRecords, SameAim, Steps
  <2>5. Aimed(n)
    <3>1. n.kind = q.kind /\ n.who = q.who /\ n.photo = q.photo /\ n.verdict = q.verdict
      BY <2>4 DEF SameAim
    <3>2. q.kind \notin {"verdict", "add", "batch"}
      BY <1>1 DEF Aimed, Writes
    <3> HIDE DEF n
    <3> QED
      BY <1>1, <2>1, <2>2, <2>4, <3>1, <3>2 DEF Aimed, Writes
  <2>6. req' \in [Requests -> RequestRecords] /\ Others(r) /\ req'[r] = n
    <3> HIDE DEF n
    <3> QED
      BY <1>1, <1>3, <2>4 DEF Others
  <2> HIDE DEF n
  <2> QED
    BY <1>1, <2>3, <2>4, <2>5, <2>6 DEF q, found, then
<1> QED
  BY <1>1, <1>2, <1>3

LEMMA ReadReadsDoes ==
  ASSUME Typed, NEW r \in Requests, ReadReads(r)
  PROVE  /\ req' \in [Requests -> RequestRecords] /\ Others(r) /\ Aimed(req'[r])
         /\ SameAim(req[r], req'[r]) /\ req[r].step = "reads"
         /\ req'[r].mark = req[r].mark /\ req'[r].opens = seen
         /\ req'[r].pairs = req[r].pairs
         /\ req'[r].step = IF req[r].kind = "inbox" THEN "event" ELSE "matches"
<1> DEFINE q == req[r]
           next == IF q.kind = "inbox" THEN "event" ELSE "matches"
           n == [q EXCEPT !.opens = seen, !.step = next]
<1>1. /\ req \in [Requests -> RequestRecords] /\ q \in RequestRecords /\ Aimed(q)
      /\ q.step = "reads" /\ req' = [req EXCEPT ![r] = n] /\ seen \in [Students -> Nat]
  BY ReqTyped DEF ReadReads, Typed, InboxTyped
<1>2. next \in {"event", "matches"} /\ (next = "event" => q.kind = "inbox")
  OBVIOUS
<1> HIDE DEF q, next
<1>3. /\ n \in RequestRecords /\ SameAim(q, n) /\ n.mark = q.mark /\ n.opens = seen
      /\ n.step = next /\ n.pairs = q.pairs
  BY <1>1, <1>2 DEF RequestRecords, SameAim, Steps
<1> HIDE DEF n
<1>4. Aimed(n)
  BY <1>1, <1>2, <1>3 DEF Aimed, SameAim, Writes
<1>5. req' \in [Requests -> RequestRecords] /\ Others(r) /\ req'[r] = n
  BY <1>1, <1>3 DEF Others
<1> QED
  BY <1>1, <1>3, <1>4, <1>5 DEF q, next

LEMMA ReadEventDoes ==
  ASSUME Typed, NEW r \in Requests, ReadEvent(r)
  PROVE  /\ req' \in [Requests -> RequestRecords] /\ Others(r) /\ Aimed(req'[r])
         /\ SameAim(req[r], req'[r]) /\ req[r].step = "event"
         /\ req'[r].mark = EffectiveAnnouncedAt(event) /\ req'[r].opens = req[r].opens
         /\ req'[r].step = "answer" /\ req'[r].pairs = req[r].pairs
<1> DEFINE q == req[r]
           at == EffectiveAnnouncedAt(event)
           n == [q EXCEPT !.mark = at, !.step = "answer"]
<1>1. /\ req \in [Requests -> RequestRecords] /\ q \in RequestRecords /\ Aimed(q)
      /\ q.step = "event" /\ req' = [req EXCEPT ![r] = n] /\ at \in Nat
  BY ReqTyped, Announced DEF ReadEvent, Typed
<1> HIDE DEF q, at
<1>3. /\ n \in RequestRecords /\ SameAim(q, n) /\ n.mark = at /\ n.opens = q.opens
      /\ n.step = "answer" /\ n.pairs = q.pairs
  BY <1>1 DEF RequestRecords, SameAim, Steps
<1> HIDE DEF n
<1>4. Aimed(n)
  BY <1>1, <1>3 DEF Aimed, SameAim, Writes
<1>5. req' \in [Requests -> RequestRecords] /\ Others(r) /\ req'[r] = n
  BY <1>1, <1>3 DEF Others
<1> QED
  BY <1>1, <1>3, <1>4, <1>5 DEF q, at

LEMMA StampDoes ==
  ASSUME Typed, NEW r \in Requests, Stamp(r)
  PROVE  /\ req' \in [Requests -> RequestRecords] /\ Others(r) /\ Aimed(req'[r])
         /\ SameAim(req[r], req'[r]) /\ req[r].step = "stamp"
         /\ req'[r].mark = req[r].mark /\ req'[r].opens = req[r].opens
         /\ req'[r].step = "answer" /\ req'[r].pairs = req[r].pairs
<1> DEFINE q == req[r]
           n == [q EXCEPT !.step = "answer"]
<1>1. /\ req \in [Requests -> RequestRecords] /\ q \in RequestRecords /\ Aimed(q)
      /\ q.step = "stamp" /\ req' = [req EXCEPT ![r] = n]
  BY ReqTyped DEF Stamp
<1> HIDE DEF q
<1>3. /\ n \in RequestRecords /\ SameAim(q, n) /\ n.mark = q.mark /\ n.opens = q.opens
      /\ n.step = "answer" /\ n.pairs = q.pairs
  BY <1>1 DEF RequestRecords, SameAim, Steps
<1> HIDE DEF n
<1>4. Aimed(n)
  BY <1>1, <1>3 DEF Aimed, SameAim, Writes
<1>5. req' \in [Requests -> RequestRecords] /\ Others(r) /\ req'[r] = n
  BY <1>1, <1>3 DEF Others
<1> QED
  BY <1>1, <1>3, <1>4, <1>5 DEF q

LEMMA WriteDoes ==
  ASSUME Typed, NEW r \in Requests, NEW p \in Pairs, Write(r, p)
  PROVE  /\ req' \in [Requests -> RequestRecords] /\ Others(r) /\ Aimed(req'[r])
         /\ req[r].step = "write" /\ p \in req[r].pairs
         /\ \/ req'[r] = NoRequest
            \/ /\ SameAim(req[r], req'[r]) /\ req'[r].step = "write"
               /\ req'[r].mark = req[r].mark /\ req'[r].opens = req[r].opens
               /\ req'[r].pairs \subseteq req[r].pairs /\ req'[r].flagged = req[r].flagged
         /\ \/ UNCHANGED corrections
            \/ /\ Exists(p[1])
               /\ corrections' = [corrections EXCEPT ![p] =
                    [verdict |-> VerdictOf(req[r], p), resolves |-> Resolves(req[r], p)]]
<1> DEFINE q == req[r]
           n == [q EXCEPT !.pairs = @ \ {p}]
<1>1. /\ req \in [Requests -> RequestRecords] /\ q \in RequestRecords /\ Aimed(q)
      /\ q.step = "write" /\ p \in q.pairs
      /\ Done(r) \/ req' = [req EXCEPT ![r] = n]
      /\ \/ UNCHANGED corrections
         \/ /\ Exists(p[1])
            /\ corrections' = [corrections EXCEPT ![p] =
                 [verdict |-> VerdictOf(q, p), resolves |-> Resolves(q, p)]]
  BY ReqTyped DEF Write
<1>2. CASE Done(r)
  BY <1>1, <1>2, DoneDoes
<1>3. CASE req' = [req EXCEPT ![r] = n]
  <2> HIDE DEF q
  <2>3. /\ n \in RequestRecords /\ SameAim(q, n) /\ n.mark = q.mark /\ n.opens = q.opens
        /\ n.step = "write" /\ n.pairs \subseteq q.pairs /\ n.flagged = q.flagged
    BY <1>1 DEF RequestRecords, SameAim, Steps
  <2> HIDE DEF n
  <2>4. Aimed(n)
    BY <1>1, <2>3 DEF Aimed, SameAim, Writes
  <2>5. req' \in [Requests -> RequestRecords] /\ Others(r) /\ req'[r] = n
    BY <1>1, <1>3, <2>3 DEF Others
  <2> QED
    BY <1>1, <2>3, <2>4, <2>5 DEF q
<1> QED
  BY <1>1, <1>2, <1>3

LEMMA WitnessTyped ==
  ASSUME Typed, Witness
  PROVE  /\ heldSince' \in [Requests -> SUBSET Pairs]
         /\ stoodSince' \in [Requests -> SUBSET Standings]
<1>1. \A r \in Requests : Held(r)' \subseteq Pairs
  BY DEF Held, InScope, Pairs
<1>2. \A s \in Students : <<s, Stands(s)'>> \in Standings
  BY DEF Stands, Standings
<1>3. heldSince' \in [Requests -> SUBSET Pairs]
  BY <1>1 DEF Witness, Typed
<1>4. stoodSince' \in [Requests -> SUBSET Standings]
  BY <1>2 DEF Witness, Typed
<1> QED
  BY <1>3, <1>4

LEMMA TypedInit == Init => Typed
<1> SUFFICES ASSUME Init PROVE Typed
  OBVIOUS
<1>1. PICK made \in [Media -> Scenes] :
        /\ matches = [p \in Pairs |-> IF p[1] \in DOMAIN PeopleOf[made[p[2]]]
                                        THEN PeopleOf[made[p[2]]][p[1]] ELSE NoRow]
        /\ ran = [m \in Media |-> {made[m]}]
        /\ detections = [m \in Media |-> EvidenceOf[made[m]]]
  BY DEF Init
<1>2. matches \in [Pairs -> MatchRows \cup {NoRow}]
  <2>1. \A p \in Pairs : p[2] \in Media /\ made[p[2]] \in Scenes
    BY DEF Pairs
  <2>2. \A sc \in Scenes : \A s \in DOMAIN PeopleOf[sc] : PeopleOf[sc][s] \in MatchRows
    BY ScenePeople
  <2> QED
    BY <1>1, <2>1, <2>2
<1>3. detections \in [Media -> SUBSET DetectionRows] /\ ran \in [Media -> SUBSET Scenes]
  BY <1>1, SceneEvidence
<1>4. corrections \in [Pairs -> CorrectionRows \cup {NoRow}]
  BY DEF Init
<1>5. InboxTyped
  BY DEF Init, InboxTyped
<1>6. RunsTyped /\ RunsPlaced
  BY DEF Init, RunsTyped, RunsPlaced, NoRun
<1>7. req \in [Requests -> RequestRecords] /\ \A r \in Requests : Aimed(req[r])
  BY NothingTyped DEF Init
<1>8. /\ indexed \subseteq Students /\ cached \subseteq stray \ indexed
      /\ erasing \in [Students -> {"no", "unindexed", "unmatched", "purged", "gone"}]
      /\ audit \subseteq Pairs /\ stray \subseteq Students /\ churned \in BOOLEAN
      /\ heldSince \in [Requests -> SUBSET Pairs] /\ stoodSince \in [Requests -> SUBSET Standings]
      /\ opened \in [Students -> SUBSET {"notified", "completed"}]
  BY DEF Init
<1>9. moves \in 0..MaxMoves
  BY BoundAssumption DEF Init
<1> QED
  BY <1>2, <1>3, <1>4, <1>5, <1>6, <1>7, <1>8, <1>9 DEF Typed, RowsTyped

\* The types, of each part that a step may change.
RowsAre == RowsTyped /\ detections \in [Media -> SUBSET DetectionRows]
RunsAre == RunsTyped /\ RunsPlaced /\ ran \in [Media -> SUBSET Scenes]
RequestsAre == req \in [Requests -> RequestRecords] /\ \A r \in Requests : Aimed(req[r])
ErasuresAre ==
  /\ indexed \subseteq Students /\ audit \subseteq Pairs /\ stray \subseteq Students
  /\ cached \subseteq stray \ indexed
  /\ erasing \in [Students -> {"no", "unindexed", "unmatched", "purged", "gone"}]
InboxIs == InboxTyped /\ opened \in [Students -> SUBSET {"notified", "completed"}]
BoundsAre == churned \in BOOLEAN /\ moves \in 0..MaxMoves

LEMMA TypedParts ==
  /\ Typed => RowsAre /\ RunsAre /\ RequestsAre /\ ErasuresAre /\ InboxIs /\ BoundsAre
  /\ RowsAre' /\ RunsAre' /\ RequestsAre' /\ ErasuresAre' /\ InboxIs' /\ BoundsAre'
       /\ heldSince' \in [Requests -> SUBSET Pairs]
       /\ stoodSince' \in [Requests -> SUBSET Standings] => Typed'
BY DEF Typed, RowsAre, RunsAre, RequestsAre, ErasuresAre, InboxIs, BoundsAre

\* The parts that are left alone stay what they are.
LEMMA RowsStay == RowsAre /\ UNCHANGED <<matches, corrections, detections>> => RowsAre'
BY DEF RowsAre, RowsTyped
LEMMA RunsStay == RunsAre /\ UNCHANGED <<run, ran>> => RunsAre'
BY DEF RunsAre, RunsTyped, RunsPlaced
LEMMA RequestsStay == RequestsAre /\ UNCHANGED req => RequestsAre'
BY DEF RequestsAre
LEMMA ErasuresStay ==
  ErasuresAre /\ UNCHANGED <<indexed, cached, audit, stray, erasing>> => ErasuresAre'
BY DEF ErasuresAre
LEMMA InboxStays == InboxIs /\ UNCHANGED <<event, seen, now, opened>> => InboxIs'
BY DEF InboxIs, InboxTyped
LEMMA MoveTyped == BoundsAre /\ Move /\ churned' \in BOOLEAN => BoundsAre'
BY BoundAssumption DEF BoundsAre, Move

LEMMA WorkerTypes ==
  ASSUME Typed, NEW w \in Workers, WorkerStep(w)
  PROVE  Typed'
<1> USE DEF results, inbox, history
<1>1. /\ run \in [Workers -> [photo : Media \cup {NoMedia}, scene : Scenes \cup {NoScene},
                              step : {"idle", "matches", "detections"}]]
      /\ run[w].step # "idle" => run[w].photo \in Media /\ run[w].scene \in Scenes
      /\ ran \in [Media -> SUBSET Scenes]
      /\ \A v \in Workers : run[v].step # "idle" => run[v].photo \in Media /\ run[v].scene \in Scenes
      /\ NoRun \in [photo : Media \cup {NoMedia}, scene : Scenes \cup {NoScene},
                    step : {"idle", "matches", "detections"}] /\ NoRun.step = "idle"
  BY DEF Typed, RunsTyped, RunsPlaced, NoRun
<1>2. /\ RowsAre /\ RunsAre /\ RequestsAre /\ ErasuresAre /\ InboxIs /\ BoundsAre
      /\ churned \in BOOLEAN
  BY TypedParts DEF BoundsAre
<1>3. Witness
  BY DEF WorkerStep, Recognise, SaveMatches, SaveDetections, WorkerDies
<1>4. UNCHANGED <<req, indexed, cached, audit, stray, erasing, event, seen, now, opened,
                corrections>>
  BY DEF WorkerStep, Recognise, SaveMatches, SaveDetections, WorkerDies
<1>5. RequestsAre' /\ ErasuresAre' /\ InboxIs'
  BY <1>2, <1>4, RequestsStay, ErasuresStay, InboxStays
<1>6. RowsAre' /\ RunsAre' /\ BoundsAre'
  <2>1. ASSUME NEW m \in Media, NEW sc \in Scenes, Recognise(w, m, sc)
        PROVE  RowsAre' /\ RunsAre' /\ BoundsAre'
    <3>1. RowsAre' /\ BoundsAre'
      BY <1>2, <2>1, RowsStay, MoveTyped DEF Recognise
    <3>2. RunsAre'
      <4> DEFINE n == [photo |-> m, scene |-> sc, step |-> "matches"]
      <4>1. n \in [photo : Media \cup {NoMedia}, scene : Scenes \cup {NoScene},
                   step : {"idle", "matches", "detections"}] /\ n.photo \in Media /\ n.scene \in Scenes
        OBVIOUS
      <4>2. run' = [run EXCEPT ![w] = n] /\ UNCHANGED ran
        BY <2>1 DEF Recognise
      <4> HIDE DEF n
      <4> QED
        BY <1>1, <4>1, <4>2 DEF RunsAre, RunsTyped, RunsPlaced
    <3> QED
      BY <3>1, <3>2
  <2>2. ASSUME SaveMatches(w) PROVE RowsAre' /\ RunsAre' /\ BoundsAre'
    <3> DEFINE sc == run[w].scene
               m == run[w].photo
    <3>1. sc \in Scenes /\ m \in Media
      BY <1>1, <2>2 DEF SaveMatches
    <3>2. \A s \in DOMAIN PeopleOf[sc] : PeopleOf[sc][s] \in MatchRows
      BY <3>1, ScenePeople
    <3>3. PICK wins \in SUBSET Pairs :
            /\ \A p \in wins : p[1] \in DOMAIN PeopleOf[sc]
            /\ matches' = [p \in Pairs |-> IF p \in wins THEN PeopleOf[sc][p[1]] ELSE matches[p]]
      <4> DEFINE W == {p \in Pairs : /\ p[2] = m /\ p[1] \in DOMAIN PeopleOf[sc]
                                     /\ Better(matches[p], PeopleOf[sc][p[1]])}
      <4>1. matches' = [p \in Pairs |-> IF p \in W THEN PeopleOf[sc][p[1]] ELSE matches[p]]
        BY <2>2 DEF SaveMatches
      <4> QED
        BY <4>1
    <3>4. RowsAre'
      <4>1. matches \in [Pairs -> MatchRows \cup {NoRow}]
        BY <1>2 DEF RowsAre, RowsTyped
      <4>2. matches' \in [Pairs -> MatchRows \cup {NoRow}]
        BY <3>2, <3>3, <4>1
      <4> QED
        BY <1>2, <1>4, <2>2, <4>2 DEF RowsAre, RowsTyped, SaveMatches
    <3>5. RunsAre'
      <4>1. run' = [run EXCEPT ![w].step = "detections"] /\ ran' = [ran EXCEPT ![m] = @ \cup {sc}]
        BY <2>2 DEF SaveMatches
      <4> DEFINE n == [run[w] EXCEPT !.step = "detections"]
      <4>2. n \in [photo : Media \cup {NoMedia}, scene : Scenes \cup {NoScene},
                   step : {"idle", "matches", "detections"}] /\ n.photo \in Media /\ n.scene \in Scenes
        BY <1>1, <3>1
      <4>3. run' = [run EXCEPT ![w] = n]
        BY <4>1
      <4> HIDE DEF n
      <4>4. RunsTyped' /\ RunsPlaced'
        BY <1>1, <4>2, <4>3 DEF RunsTyped, RunsPlaced
      <4>5. ran' \in [Media -> SUBSET Scenes]
        BY <1>1, <3>1, <4>1
      <4> QED
        BY <4>4, <4>5 DEF RunsAre
    <3>6. BoundsAre'
      BY <1>2, <2>2 DEF SaveMatches, Churn, BoundsAre
    <3> QED
      BY <3>4, <3>5, <3>6
  <2>3. ASSUME SaveDetections(w) PROVE RowsAre' /\ RunsAre' /\ BoundsAre'
    <3>1. run[w].scene \in Scenes /\ run[w].photo \in Media
      BY <1>1, <2>3 DEF SaveDetections
    <3>2. EvidenceOf[run[w].scene] \subseteq DetectionRows
      BY <3>1, SceneEvidence
    <3>3. RowsAre'
      BY <1>2, <1>4, <2>3, <3>2 DEF SaveDetections, RowsAre, RowsTyped
    <3>4. RunsAre'
      BY <1>1, <2>3 DEF SaveDetections, RunsAre, RunsTyped, RunsPlaced
    <3> QED
      BY <1>2, <2>3, <3>3, <3>4 DEF SaveDetections, BoundsAre
  <2>4. ASSUME WorkerDies(w) PROVE RowsAre' /\ RunsAre' /\ BoundsAre'
    <3>1. RunsAre'
      BY <1>1, <2>4 DEF WorkerDies, RunsAre, RunsTyped, RunsPlaced
    <3>2. RowsAre'
      BY <1>2, <2>4, RowsStay DEF WorkerDies
    <3> QED
      BY <1>2, <2>4, <3>1, <3>2 DEF WorkerDies, BoundsAre
  <2> QED
    BY <2>1, <2>2, <2>3, <2>4 DEF WorkerStep
<1> QED
  BY <1>3, <1>5, <1>6, TypedParts, WitnessTyped

LEMMA ErasureTypes ==
  ASSUME Typed, NEW s \in Students, ErasureStep(s)
  PROVE  Typed'
<1> USE DEF results, inbox, history
<1>1. RowsAre /\ RunsAre /\ RequestsAre /\ ErasuresAre /\ InboxIs /\ BoundsAre
  BY TypedParts
<1>2. Witness
  BY DEF ErasureStep, Unindex, UnindexBreaks, PurgeMatches, PurgeCandidates, DeleteRow, ErasureStops
<1>3. UNCHANGED <<run, ran, req, event, now>>
  BY DEF ErasureStep, Unindex, UnindexBreaks, PurgeMatches, PurgeCandidates, DeleteRow, ErasureStops
<1>4. RunsAre' /\ RequestsAre'
  BY <1>1, <1>3, RunsStay, RequestsStay
<1>5. ASSUME Unindex(s) PROVE RowsAre' /\ ErasuresAre' /\ InboxIs' /\ BoundsAre'
  <2>1. RowsAre' /\ InboxIs'
    BY <1>1, <1>5, RowsStay, InboxStays DEF Unindex
  <2>2. BoundsAre'
    BY <1>1, <1>5, MoveTyped DEF Unindex, UnindexBreaks, BoundsAre
  <2>3. ErasuresAre'
    BY <1>1, <1>5 DEF Unindex, UnindexBreaks, ErasuresAre
  <2> QED
    BY <2>1, <2>2, <2>3
<1>11. ASSUME UnindexBreaks(s) PROVE RowsAre' /\ ErasuresAre' /\ InboxIs' /\ BoundsAre'
  <2>1. RowsAre' /\ InboxIs'
    BY <1>1, <1>11, RowsStay, InboxStays DEF UnindexBreaks
  <2>2. BoundsAre'
    BY <1>1, <1>11, MoveTyped DEF UnindexBreaks, BoundsAre
  <2>3. ErasuresAre'
    BY <1>1, <1>11 DEF UnindexBreaks, ErasuresAre
  <2> QED
    BY <2>1, <2>2, <2>3
<1>6. ASSUME PurgeMatches(s) PROVE RowsAre' /\ ErasuresAre' /\ InboxIs' /\ BoundsAre'
  <2>1. InboxIs'
    BY <1>1, <1>6, InboxStays DEF PurgeMatches
  <2>2. RowsAre'
    BY <1>1, <1>6 DEF PurgeMatches, RowsAre, RowsTyped
  <2>3. ErasuresAre'
    BY <1>1, <1>6 DEF PurgeMatches, ErasuresAre
  <2>4. BoundsAre'
    BY <1>1, <1>6 DEF PurgeMatches, BoundsAre, Churn
  <2> QED
    BY <2>1, <2>2, <2>3, <2>4
<1>7. ASSUME PurgeCandidates(s) PROVE RowsAre' /\ ErasuresAre' /\ InboxIs' /\ BoundsAre'
  <2>1. InboxIs'
    BY <1>1, <1>7, InboxStays DEF PurgeCandidates
  <2>2. RowsAre'
    BY <1>1, <1>7 DEF PurgeCandidates, RowsAre, RowsTyped
  <2>3. ErasuresAre'
    BY <1>1, <1>7 DEF PurgeCandidates, ErasuresAre
  <2>4. BoundsAre'
    BY <1>1, <1>7 DEF PurgeCandidates, BoundsAre
  <2> QED
    BY <2>1, <2>2, <2>3, <2>4
<1>8. ASSUME DeleteRow(s) PROVE RowsAre' /\ ErasuresAre' /\ InboxIs' /\ BoundsAre'
  <2>1. InboxIs'
    BY <1>1, <1>8 DEF DeleteRow, InboxIs, InboxTyped
  <2>2. RowsAre'
    BY <1>1, <1>8 DEF DeleteRow, RowsAre, RowsTyped
  <2>3. ErasuresAre'
    BY <1>1, <1>8 DEF DeleteRow, ErasuresAre
  <2>4. BoundsAre'
    BY <1>1, <1>8 DEF DeleteRow, BoundsAre
  <2> QED
    BY <2>1, <2>2, <2>3, <2>4
<1>9. ASSUME ErasureStops(s) PROVE RowsAre' /\ ErasuresAre' /\ InboxIs' /\ BoundsAre'
  <2>1. RowsAre' /\ InboxIs'
    BY <1>1, <1>9, RowsStay, InboxStays DEF ErasureStops
  <2>2. ErasuresAre' /\ BoundsAre'
    BY <1>1, <1>9 DEF ErasureStops, ErasuresAre, BoundsAre
  <2> QED
    BY <2>1, <2>2
<1>10. RowsAre' /\ ErasuresAre' /\ InboxIs' /\ BoundsAre'
  BY <1>5, <1>6, <1>7, <1>8, <1>9, <1>11 DEF ErasureStep
<1> QED
  BY <1>2, <1>4, <1>10, TypedParts, WitnessTyped

LEMMA EventTypes ==
  ASSUME Typed, Complete \/ SwitchEvent \/ \E s \in Students : MarkSeen(s)
  PROVE  Typed'
<1> USE DEF results, inbox, history
<1>1. RowsAre /\ RunsAre /\ RequestsAre /\ ErasuresAre /\ InboxIs /\ BoundsAre
  BY TypedParts
<1>2. Witness /\ Move
  BY DEF Complete, SwitchEvent, MarkSeen
<1>3. /\ UNCHANGED <<run, ran, req, matches, corrections, detections>>
      /\ UNCHANGED <<indexed, cached, audit, stray, erasing, churned>>
  BY DEF Complete, SwitchEvent, MarkSeen
<1>4. RowsAre' /\ RunsAre' /\ RequestsAre' /\ ErasuresAre'
  BY <1>1, <1>3, RowsStay, RunsStay, RequestsStay, ErasuresStay
<1>5. BoundsAre'
  BY <1>1, <1>2, <1>3, MoveTyped DEF BoundsAre
<1>6. InboxIs'
  <2>1. CASE Complete
    BY <1>1, <2>1 DEF Complete, InboxIs, InboxTyped
  <2>2. CASE SwitchEvent
    BY <1>1, <2>2 DEF SwitchEvent, InboxIs, InboxTyped
  <2>3. ASSUME NEW s \in Students, MarkSeen(s) PROVE InboxIs'
    BY <1>1, <2>3 DEF MarkSeen, InboxIs, InboxTyped
  <2> QED
    BY <2>1, <2>2, <2>3
<1> QED
  BY <1>2, <1>4, <1>5, <1>6, TypedParts, WitnessTyped

\* The verdict of a request that writes one.
LEMMA VerdictTyped ==
  ASSUME Typed, NEW r \in Requests, req[r].step = "write", NEW p
  PROVE  [verdict |-> VerdictOf(req[r], p), resolves |-> Resolves(req[r], p)] \in CorrectionRows
<1>1. req[r].verdict \in {"none", "confirmed", "rejected"}
  BY ReqTyped DEF RequestRecords
<1>2. req[r].kind \in {"verdict", "notme"} => req[r].verdict # "none"
  BY ReqTyped DEF Aimed
<1>5. req[r].kind \in {"verdict", "add", "batch", "notme"}
  BY ReqTyped DEF Aimed
<1>3. VerdictOf(req[r], p) \in {"confirmed", "rejected", "added"}
  BY <1>1, <1>2, <1>5 DEF VerdictOf
<1>4. Resolves(req[r], p) \in BOOLEAN
  BY DEF Resolves
<1> HIDE DEF VerdictOf, Resolves
<1> QED
  BY <1>3, <1>4 DEF CorrectionRows

LEMMA RequestTypes ==
  ASSUME Typed, NEW r \in Requests, RequestStep(r)
  PROVE  Typed'
<1> USE DEF results, inbox, history
<1>1. RowsAre /\ RunsAre /\ RequestsAre /\ ErasuresAre /\ InboxIs /\ BoundsAre
  BY TypedParts
<1> DEFINE Goal == /\ Witness /\ RowsAre' /\ RunsAre' /\ RequestsAre' /\ ErasuresAre'
                   /\ InboxIs' /\ BoundsAre'
<1>2. ASSUME req' \in [Requests -> RequestRecords], Others(r), Aimed(req'[r])
      PROVE  RequestsAre'
  BY <1>1, <1>2 DEF RequestsAre, Others
<1>3. ASSUME UNCHANGED <<results, indexed, cached, erasing, corrections, inbox, audit, history>>
      PROVE  RowsAre' /\ RunsAre' /\ ErasuresAre' /\ InboxIs' /\ churned' \in BOOLEAN
  BY <1>1, <1>3, RowsStay, RunsStay, ErasuresStay, InboxStays DEF BoundsAre
<1>4. ASSUME NEW q \in RequestRecords, Fresh(q), Begin(r, q) PROVE Goal
  <2>1. RequestsAre'
    BY <1>2, <1>4, BeginDoes
  <2>2. RowsAre' /\ RunsAre' /\ ErasuresAre' /\ InboxIs' /\ churned' \in BOOLEAN
    BY <1>3, <1>4 DEF Begin
  <2> QED
    BY <1>1, <1>4, <2>1, <2>2, MoveTyped DEF Begin
<1>5. ASSUME ReadMatches(r) \/ ReadCorrections(r) \/ ReadReads(r) \/ ReadEvent(r) \/ End(r)
      PROVE  Goal
  <2>1. RequestsAre'
    BY <1>2, <1>5, ReadMatchesDoes, ReadCorrectionsDoes, ReadReadsDoes, ReadEventDoes, DoneDoes
       DEF End
  <2>2. RowsAre' /\ RunsAre' /\ ErasuresAre' /\ InboxIs' /\ churned' \in BOOLEAN
    BY <1>3, <1>5 DEF ReadMatches, ReadCorrections, ReadReads, ReadEvent, End
  <2>3. Witness /\ UNCHANGED moves
    BY <1>5 DEF ReadMatches, ReadCorrections, ReadReads, ReadEvent, End
  <2>4. BoundsAre'
    BY <1>1, <2>2, <2>3 DEF BoundsAre
  <2> QED
    BY <2>1, <2>2, <2>3, <2>4
<1>6. ASSUME NEW p \in Pairs, Write(r, p) PROVE Goal
  <2>1. RequestsAre'
    BY <1>2, <1>6, WriteDoes
  <2>2. RunsAre' /\ ErasuresAre' /\ InboxIs' /\ BoundsAre'
    BY <1>1, <1>6, RunsStay, ErasuresStay, InboxStays DEF Write, BoundsAre
  <2>3. [verdict |-> VerdictOf(req[r], p), resolves |-> Resolves(req[r], p)] \in CorrectionRows
    BY <1>6, VerdictTyped DEF Write
  <2>4. corrections' \in [Pairs -> CorrectionRows \cup {NoRow}]
    BY <1>1, <1>6, <2>3, WriteDoes DEF RowsAre, RowsTyped
  <2>5. RowsAre'
    BY <1>1, <1>6, <2>4 DEF Write, RowsAre, RowsTyped
  <2> QED
    BY <1>6, <2>1, <2>2, <2>5 DEF Write
<1>7. ASSUME Undo(r) PROVE Goal
  <2>1. RequestsAre'
    BY <1>2, <1>7, DoneDoes DEF Undo
  <2>2. RunsAre' /\ ErasuresAre' /\ InboxIs' /\ BoundsAre'
    BY <1>1, <1>7, RunsStay, ErasuresStay, InboxStays DEF Undo, BoundsAre
  <2>3. RowsAre'
    BY <1>1, <1>7 DEF Undo, RowsAre, RowsTyped
  <2> QED
    BY <1>7, <2>1, <2>2, <2>3 DEF Undo
<1>8. ASSUME Record(r) PROVE Goal
  <2>1. RequestsAre'
    BY <1>2, <1>8, DoneDoes DEF Record
  <2>2. RowsAre' /\ RunsAre' /\ InboxIs' /\ BoundsAre'
    BY <1>1, <1>8, RowsStay, RunsStay, InboxStays DEF Record, BoundsAre
  <2>3. req[r].pairs \subseteq Pairs
    BY ReqTyped
  <2>4. ErasuresAre'
    BY <1>1, <1>8, <2>3 DEF Record, ErasuresAre
  <2> QED
    BY <1>8, <2>1, <2>2, <2>4 DEF Record
<1>9. ASSUME Stamp(r) PROVE Goal
  <2>1. RequestsAre'
    BY <1>2, <1>9, StampDoes
  <2>2. RowsAre' /\ RunsAre' /\ ErasuresAre' /\ BoundsAre'
    BY <1>1, <1>9, RowsStay, RunsStay, ErasuresStay DEF Stamp, BoundsAre
  <2>3. InboxIs'
    BY <1>1, <1>9 DEF Stamp, InboxIs, InboxTyped
  <2> QED
    BY <1>9, <2>1, <2>2, <2>3 DEF Stamp
<1> HIDE DEF Goal
<1>10. Goal
  BY <1>4, <1>5, <1>6, <1>7, <1>8, <1>9, RequestCases
<1> QED
  BY <1>10, TypedParts, WitnessTyped DEF Goal

LEMMA TypedStep == Typed /\ [Next]_vars => Typed'
<1> SUFFICES ASSUME Typed, [Next]_vars PROVE Typed'
  OBVIOUS
<1>1. CASE UNCHANGED vars
  <2>1. Typed' = Typed
    BY <1>1 DEF vars, results, inbox, history, Typed, RowsTyped, InboxTyped, RunsTyped, RunsPlaced
  <2> QED
    BY <2>1
<1> QED
  BY <1>1, WorkerTypes, ErasureTypes, EventTypes, RequestTypes DEF Next

\* Every variable of the galleries has the values the code can give it, and no stamp is
\* ahead of the clock: it rests on what a request is about at each of its steps, and on
\* what the decision makes of every scene.
THEOREM TypesHold == Spec => []TypeOK
<1>1. Typed => TypeOK
  <2> SUFFICES ASSUME Typed PROVE TypeOK
    OBVIOUS
  <2>1. \A r \in Requests : RequestTyped(req[r])
    <3> SUFFICES ASSUME NEW r \in Requests PROVE RequestTyped(req[r])
      OBVIOUS
    <3>1. req[r].verdict \in {"none", "confirmed", "rejected"}
      BY ReqTyped DEF RequestRecords
    <3>2. req[r].step \in {"record", "undo"} => req[r].who \in Students
      BY ReqTyped DEF Aimed
    <3> QED
      BY <3>1, <3>2, ReqTyped DEF RequestTyped, Kinds, Steps
  <2> QED
    BY <2>1 DEF Typed, TypeOK
<1> QED
  BY <1>1, TypedInit, TypedStep, PTL DEF Spec

-----------------------------------------------------------------------------
\* The erasure.

\* A run that saves its matches puts each of its people's records where there was none or a
\* worse one, and touches nothing else.
LEMMA SaveMatchesDoes ==
  ASSUME Typed, NEW w \in Workers, SaveMatches(w)
  PROVE  /\ run[w].photo \in Media /\ run[w].scene \in Scenes
         /\ matches \in [Pairs -> MatchRows \cup {NoRow}]
         /\ matches' \in [Pairs -> MatchRows \cup {NoRow}]
         /\ run' = [run EXCEPT ![w].step = "detections"]
         /\ ran' = [ran EXCEPT ![run[w].photo] = @ \cup {run[w].scene}]
         /\ \A p \in Pairs :
              \/ matches'[p] = matches[p]
                 /\ (p[2] = run[w].photo /\ p[1] \in DOMAIN PeopleOf[run[w].scene]
                       => ~ Better(matches[p], PeopleOf[run[w].scene][p[1]]))
              \/ /\ p[2] = run[w].photo /\ p[1] \in DOMAIN PeopleOf[run[w].scene]
                 /\ matches'[p] = PeopleOf[run[w].scene][p[1]]
                 /\ Better(matches[p], PeopleOf[run[w].scene][p[1]])
<1> DEFINE m == run[w].photo
           new == PeopleOf[run[w].scene]
           W == {p \in Pairs : /\ p[2] = m /\ p[1] \in DOMAIN new
                               /\ Better(matches[p], new[p[1]])}
<1>1. m \in Media /\ run[w].scene \in Scenes
  BY DEF Typed, RunsPlaced, SaveMatches
<1>2. matches \in [Pairs -> MatchRows \cup {NoRow}] /\ matches' \in [Pairs -> MatchRows \cup {NoRow}]
  <2>1. Typed'
    BY WorkerTypes DEF WorkerStep
  <2> QED
    BY <2>1 DEF Typed, RowsTyped
<1>3. /\ matches' = [p \in Pairs |-> IF p \in W THEN new[p[1]] ELSE matches[p]]
      /\ run' = [run EXCEPT ![w].step = "detections"]
      /\ ran' = [ran EXCEPT ![m] = @ \cup {run[w].scene}]
  BY DEF SaveMatches
<1> HIDE DEF m, new
<1> QED
  BY <1>1, <1>2, <1>3 DEF m, new

LEMMA ForgottenInit == Init => Forgotten
BY DEF Init, Forgotten, NoRun

\* The runs under way after a step: those before it, and at most one begun with people the
\* index knew, or a copy of it that still passes for current.
LEMMA RunsGoOn ==
  ASSUME Typed, [Next]_vars, NEW w \in Workers, run'[w].step # "idle"
  PROVE  \/ run[w].step # "idle" /\ run'[w].scene = run[w].scene /\ run'[w].photo = run[w].photo
         \/ run'[w].scene \in Scenes /\ Known[run'[w].scene] \subseteq indexed \cup cached
<1> USE DEF results, inbox, history
<1>1. ASSUME UNCHANGED run
      PROVE  run[w].step # "idle" /\ run'[w].scene = run[w].scene /\ run'[w].photo = run[w].photo
  BY <1>1
<1>2. CASE UNCHANGED vars
  BY <1>1, <1>2 DEF vars
<1>3. run \in [Workers -> [photo : Media \cup {NoMedia}, scene : Scenes \cup {NoScene},
                           step : {"idle", "matches", "detections"}]] /\ NoRun.step = "idle"
  BY DEF Typed, RunsTyped, NoRun
<1>4. CASE \E v \in Workers : WorkerStep(v)
  <2>1. PICK v \in Workers : WorkerStep(v)
    BY <1>4
  <2>2. CASE \E m \in Media, sc \in Scenes : Recognise(v, m, sc)
    <3>1. PICK m \in Media, sc \in Scenes : Recognise(v, m, sc)
      BY <2>2
    <3> QED
      BY <1>3, <3>1 DEF Recognise
  <2>3. CASE SaveMatches(v)
    BY <1>3, <2>3 DEF SaveMatches
  <2>4. CASE SaveDetections(v) \/ WorkerDies(v)
    BY <1>3, <2>4 DEF SaveDetections, WorkerDies
  <2> QED
    BY <2>1, <2>2, <2>3, <2>4 DEF WorkerStep
<1>5. CASE \E s \in Students : ErasureStep(s)
  BY <1>1, <1>5 DEF ErasureStep, Unindex, UnindexBreaks, PurgeMatches, PurgeCandidates,
       DeleteRow, ErasureStops
<1>6. CASE Complete \/ SwitchEvent \/ \E s \in Students : MarkSeen(s)
  BY <1>1, <1>6 DEF Complete, SwitchEvent, MarkSeen
<1>7. CASE \E r \in Requests : RequestStep(r)
  <2>1. UNCHANGED run
    BY <1>7, RequestCases DEF Begin, ReadMatches, ReadCorrections, ReadReads, ReadEvent, Write,
       Undo, Record, Stamp, End
  <2> QED
    BY <1>1, <2>1
<1> QED
  BY <1>2, <1>4, <1>5, <1>6, <1>7 DEF Next

\* What a step does to the standing of an erasure.
LEMMA ErasureGoesOn ==
  ASSUME Typed, [Next]_vars
  PROVE  /\ indexed' \subseteq indexed /\ stray \subseteq stray'
         /\ \/ UNCHANGED <<indexed, erasing, stray>>
            \/ \E s \in Students : ErasureStep(s)
<1> USE DEF results, inbox, history
<1>1. CASE UNCHANGED vars
  BY <1>1 DEF vars
<1>2. CASE \E w \in Workers : WorkerStep(w)
  BY <1>2 DEF WorkerStep, Recognise, SaveMatches, SaveDetections, WorkerDies
<1>3. CASE \E s \in Students : ErasureStep(s)
  BY <1>3 DEF ErasureStep, Unindex, UnindexBreaks, PurgeMatches, PurgeCandidates, DeleteRow,
       ErasureStops
<1>4. CASE Complete \/ SwitchEvent \/ \E s \in Students : MarkSeen(s)
  BY <1>4 DEF Complete, SwitchEvent, MarkSeen
<1>5. CASE \E r \in Requests : RequestStep(r)
  BY <1>5, RequestCases DEF Begin, ReadMatches, ReadCorrections, ReadReads, ReadEvent, Write,
     Undo, Record, Stamp, End
<1> QED
  BY <1>1, <1>2, <1>3, <1>4, <1>5 DEF Next

LEMMA ForgottenStep == Typed /\ Forgotten /\ [Next]_vars => Forgotten'
<1> SUFFICES ASSUME Typed, Forgotten, [Next]_vars, NEW x \in Students
             PROVE  /\ erasing'[x] # "no" => x \notin indexed'
                    /\ x \notin indexed' /\ x \notin stray' =>
                         \A w \in Workers :
                           run'[w].step # "idle" => x \notin DOMAIN PeopleOf[run'[w].scene]
  BY DEF Forgotten
<1>1. erasing \in [Students -> {"no", "unindexed", "unmatched", "purged", "gone"}]
  BY DEF Typed
<1>2. erasing'[x] # "no" => x \notin indexed'
  <2>1. CASE UNCHANGED <<indexed, erasing>>
    BY <2>1 DEF Forgotten
  <2>2. ASSUME NEW s \in Students, ErasureStep(s) PROVE erasing'[x] # "no" => x \notin indexed'
    BY <1>1, <2>2
       DEF Forgotten, ErasureStep, Unindex, UnindexBreaks, PurgeMatches, PurgeCandidates,
           DeleteRow, ErasureStops
  <2> QED
    BY <2>1, <2>2, ErasureGoesOn
<1>3. ASSUME x \notin indexed', x \notin stray', NEW w \in Workers, run'[w].step # "idle"
      PROVE  x \notin DOMAIN PeopleOf[run'[w].scene]
  <2>1. x \notin stray
    BY <1>3, ErasureGoesOn
  <2>2. CASE run'[w].scene \in Scenes /\ Known[run'[w].scene] \subseteq indexed \cup cached
    <3>1. x \notin indexed => x \notin DOMAIN PeopleOf[run'[w].scene]
      BY <2>1, <2>2, ScenePeople DEF Typed
    <3>2. CASE x \in indexed
      <4>1. PICK s \in Students : ErasureStep(s) /\ indexed' # indexed
        BY <1>3, <3>2, ErasureGoesOn
      <4>2. Unindex(s) /\ s = x /\ UNCHANGED run
        BY <1>3, <3>2, <4>1
           DEF results, ErasureStep, Unindex, UnindexBreaks, PurgeMatches, PurgeCandidates,
               DeleteRow, ErasureStops
      <4>3. Recognised(x) = {}
        BY <1>3, <4>2 DEF Unindex
      <4> QED
        BY <1>3, <4>2, <4>3 DEF Recognised
    <3> QED
      BY <3>1, <3>2
  <2>3. CASE run[w].step # "idle" /\ run'[w].scene = run[w].scene
    <3>1. CASE x \notin indexed
      BY <2>1, <2>3, <3>1 DEF Forgotten
    <3>2. CASE x \in indexed
      <4>1. PICK s \in Students : ErasureStep(s) /\ indexed' # indexed
        BY <1>3, <3>2, ErasureGoesOn
      <4>2. Unindex(s) /\ s = x
        BY <1>3, <3>2, <4>1
           DEF ErasureStep, Unindex, UnindexBreaks, PurgeMatches, PurgeCandidates, DeleteRow,
               ErasureStops
      <4>3. Recognised(x) = {}
        BY <1>3, <4>2 DEF Unindex
      <4> QED
        BY <2>3, <4>3 DEF Recognised
    <3> QED
      BY <3>1, <3>2
  <2> QED
    BY <1>3, <2>2, <2>3, RunsGoOn
<1> QED
  BY <1>2, <1>3

\* A student who is cleared stays so: what no step beside the erasure undoes.
ClearOfMatches(s) == \A m \in Media : ~ Matched(<<s, m>>)
ClearOfEvidence(s) == \A m \in Media : \A d \in detections[m] : d.student # s
ClearOfRows(s) ==
  seen[s] = 0 /\ \A m \in Media : corrections[<<s, m>>] = NoRow /\ <<s, m>> \notin audit

LEMMA ClearedIs ==
  Cleared <=>
    \A s \in Students :
      /\ s \notin stray /\ erasing[s] \in {"unmatched", "purged", "gone"} => ClearOfMatches(s)
      /\ s \notin stray /\ erasing[s] \in {"purged", "gone"} => ClearOfEvidence(s)
      /\ erasing[s] = "gone" => ClearOfRows(s)
BY DEF Cleared, ClearOfMatches, ClearOfEvidence, ClearOfRows

LEMMA WorkerClears ==
  ASSUME Typed, Forgotten, Cleared, NEW w \in Workers, WorkerStep(w)
  PROVE  Cleared'
<1> USE DEF results, inbox, history
<1>1. UNCHANGED <<erasing, stray, seen, corrections, audit, indexed>>
  BY DEF WorkerStep, Recognise, SaveMatches, SaveDetections, WorkerDies
<1>2. ASSUME NEW s \in Students, s \notin stray, erasing[s] # "no", ClearOfMatches(s)
      PROVE  ClearOfMatches(s)'
  <2>1. CASE SaveMatches(w)
    <3>1. s \notin DOMAIN PeopleOf[run[w].scene]
      BY <1>2, <2>1 DEF Forgotten, SaveMatches
    <3>2. ASSUME NEW m \in Media PROVE matches'[<<s, m>>] = matches[<<s, m>>]
      <4>1. <<s, m>> \in Pairs
        BY DEF Pairs
      <4> QED
        BY <2>1, <3>1, <4>1, SaveMatchesDoes
    <3> QED
      BY <1>2, <3>2 DEF ClearOfMatches, Matched
  <2>2. CASE UNCHANGED matches
    BY <1>2, <2>2 DEF ClearOfMatches, Matched
  <2> QED
    BY <2>1, <2>2 DEF WorkerStep, Recognise, SaveDetections, WorkerDies
<1>3. ASSUME NEW s \in Students, s \notin stray, erasing[s] # "no", ClearOfEvidence(s)
      PROVE  ClearOfEvidence(s)'
  <2>1. CASE SaveDetections(w)
    <3>1. s \notin DOMAIN PeopleOf[run[w].scene] /\ run[w].scene \in Scenes
      BY <1>3, <2>1 DEF Forgotten, SaveDetections, Typed, RunsPlaced
    <3>2. \A d \in EvidenceOf[run[w].scene] : d.student # s
      BY <3>1, SceneEvidence, ScenePeople
    <3> QED
      BY <1>3, <2>1, <3>2 DEF ClearOfEvidence, SaveDetections, Typed
  <2>2. CASE UNCHANGED detections
    BY <1>3, <2>2 DEF ClearOfEvidence
  <2> QED
    BY <2>1, <2>2 DEF WorkerStep, Recognise, SaveMatches, WorkerDies
<1>4. \A s \in Students : ClearOfRows(s) => ClearOfRows(s)'
  BY <1>1 DEF ClearOfRows
<1>5. \A s \in Students :
        /\ s \notin stray' /\ erasing'[s] \in {"unmatched", "purged", "gone"} => ClearOfMatches(s)'
        /\ s \notin stray' /\ erasing'[s] \in {"purged", "gone"} => ClearOfEvidence(s)'
        /\ erasing'[s] = "gone" => ClearOfRows(s)'
  <2>1. \A s \in Students : s \notin stray' => s \notin stray
    BY <1>1
  <2> QED
    BY <1>1, <1>2, <1>3, <1>4, <2>1, ClearedIs
<1> QED
  BY <1>5 DEF Cleared, ClearOfMatches, ClearOfEvidence, ClearOfRows

LEMMA ErasureClears ==
  ASSUME Typed, Cleared, NEW x \in Students, ErasureStep(x)
  PROVE  Cleared'
<1> USE DEF results, inbox, history
<1>1. erasing \in [Students -> {"no", "unindexed", "unmatched", "purged", "gone"}]
  BY DEF Typed
<1>2. /\ \A p \in Pairs : matches[p] = NoRow => matches'[p] = NoRow
      /\ \A m \in Media : detections'[m] \subseteq detections[m]
      /\ \A p \in Pairs : corrections[p] = NoRow => corrections'[p] = NoRow
      /\ audit' \subseteq audit
      /\ \A s \in Students : seen[s] = 0 => seen'[s] = 0
      /\ stray \subseteq stray'
  BY DEF ErasureStep, Unindex, UnindexBreaks, PurgeMatches, PurgeCandidates, DeleteRow,
       ErasureStops, Typed,
     RowsTyped, InboxTyped
<1>3. \A s \in Students : /\ ClearOfMatches(s) => ClearOfMatches(s)'
                          /\ ClearOfEvidence(s) => ClearOfEvidence(s)'
                          /\ ClearOfRows(s) => ClearOfRows(s)'
  BY <1>2 DEF ClearOfMatches, ClearOfEvidence, ClearOfRows, Matched, Pairs
<1>4. \A s \in Students : s # x => erasing'[s] = erasing[s]
  BY <1>1 DEF ErasureStep, Unindex, UnindexBreaks, PurgeMatches, PurgeCandidates, DeleteRow,
       ErasureStops
<1>5. \A s \in Students : s \notin stray' => s \notin stray
  BY <1>2
<1>6. ASSUME x \notin stray', erasing'[x] \in {"unmatched", "purged", "gone"}
      PROVE  ClearOfMatches(x)'
  <2>1. CASE PurgeMatches(x)
    BY <2>1 DEF PurgeMatches, ClearOfMatches, Matched, Pairs
  <2>2. CASE PurgeCandidates(x) \/ DeleteRow(x)
    <3>1. ClearOfMatches(x)
      BY <1>5, <1>6, <2>2, ClearedIs DEF PurgeCandidates, DeleteRow
    <3> QED
      BY <1>3, <3>1
  <2>3. CASE Unindex(x) \/ UnindexBreaks(x) \/ ErasureStops(x)
    BY <1>1, <1>6, <2>3 DEF Unindex, UnindexBreaks, ErasureStops
  <2> QED
    BY <2>1, <2>2, <2>3 DEF ErasureStep
<1>7. ASSUME x \notin stray', erasing'[x] \in {"purged", "gone"}
      PROVE  ClearOfEvidence(x)'
  <2>1. CASE PurgeCandidates(x)
    BY <2>1 DEF PurgeCandidates, ClearOfEvidence
  <2>2. CASE DeleteRow(x)
    <3>1. ClearOfEvidence(x)
      BY <1>5, <1>7, <2>2, ClearedIs DEF DeleteRow
    <3> QED
      BY <1>3, <3>1
  <2>3. CASE Unindex(x) \/ UnindexBreaks(x) \/ ErasureStops(x) \/ PurgeMatches(x)
    BY <1>1, <1>7, <2>3 DEF Unindex, UnindexBreaks, ErasureStops, PurgeMatches
  <2> QED
    BY <2>1, <2>2, <2>3 DEF ErasureStep
<1>8. ASSUME erasing'[x] = "gone" PROVE ClearOfRows(x)'
  <2>1. CASE DeleteRow(x)
    BY <2>1 DEF DeleteRow, ClearOfRows, Pairs, Typed, InboxTyped
  <2>2. CASE Unindex(x) \/ UnindexBreaks(x) \/ ErasureStops(x) \/ PurgeMatches(x)
           \/ PurgeCandidates(x)
    BY <1>1, <1>8, <2>2 DEF Unindex, UnindexBreaks, ErasureStops, PurgeMatches, PurgeCandidates
  <2> QED
    BY <2>1, <2>2 DEF ErasureStep
<1> HIDE DEF ErasureStep
<1>9. \A s \in Students \ {x} :
        /\ s \notin stray' /\ erasing'[s] \in {"unmatched", "purged", "gone"} => ClearOfMatches(s)'
        /\ s \notin stray' /\ erasing'[s] \in {"purged", "gone"} => ClearOfEvidence(s)'
        /\ erasing'[s] = "gone" => ClearOfRows(s)'
  BY <1>3, <1>4, <1>5, ClearedIs
<1>10. \A s \in Students :
        /\ s \notin stray' /\ erasing'[s] \in {"unmatched", "purged", "gone"} => ClearOfMatches(s)'
        /\ s \notin stray' /\ erasing'[s] \in {"purged", "gone"} => ClearOfEvidence(s)'
        /\ erasing'[s] = "gone" => ClearOfRows(s)'
  <2> SUFFICES ASSUME NEW s \in Students
               PROVE  /\ s \notin stray' /\ erasing'[s] \in {"unmatched", "purged", "gone"}
                           => ClearOfMatches(s)'
                      /\ s \notin stray' /\ erasing'[s] \in {"purged", "gone"}
                           => ClearOfEvidence(s)'
                      /\ erasing'[s] = "gone" => ClearOfRows(s)'
    OBVIOUS
  <2> QED
    BY <1>6, <1>7, <1>8, <1>9
<1> QED
  BY <1>10 DEF Cleared, ClearOfMatches, ClearOfEvidence, ClearOfRows

LEMMA EventClears ==
  ASSUME Typed, Cleared, Complete \/ SwitchEvent \/ \E s \in Students : MarkSeen(s)
  PROVE  Cleared'
<1> USE DEF results, inbox, history
<1>1. UNCHANGED <<matches, detections, erasing, stray, corrections, audit>>
  BY DEF Complete, SwitchEvent, MarkSeen
<1>2. \A s \in Students : erasing[s] = "gone" => seen'[s] = seen[s]
  BY DEF Complete, SwitchEvent, MarkSeen, Exists, Typed, InboxTyped
<1> QED
  BY <1>1, <1>2 DEF Cleared, Matched

LEMMA RequestClears ==
  ASSUME Typed, Cleared, NEW r \in Requests, RequestStep(r)
  PROVE  Cleared'
<1> USE DEF results, inbox, history
<1>1. UNCHANGED <<matches, detections, erasing, stray, seen>>
  BY RequestCases DEF Begin, ReadMatches, ReadCorrections, ReadReads, ReadEvent, Write, Undo,
     Record, Stamp, End
<1>2. corrections \in [Pairs -> CorrectionRows \cup {NoRow}]
  BY DEF Typed, RowsTyped
<1>3. ASSUME NEW p \in Pairs, erasing[p[1]] = "gone", corrections[p] = NoRow, p \notin audit
      PROVE  corrections'[p] = NoRow /\ p \notin audit'
  <2>1. CASE UNCHANGED <<corrections, audit>>
    BY <1>3, <2>1
  <2>2. ASSUME NEW y \in Pairs, Write(r, y) PROVE corrections'[p] = NoRow /\ p \notin audit'
    <3>1. UNCHANGED audit
      BY <2>2 DEF Write
    <3> QED
      BY <1>2, <1>3, <2>2, <3>1, WriteDoes DEF Exists
  <2>3. CASE Undo(r)
    BY <1>2, <1>3, <2>3 DEF Undo
  <2>4. CASE Record(r)
    <3>1. req[r].pairs \subseteq {<<req[r].who, req[r].photo>>}
      BY <2>4, ReqTyped DEF Record, Aimed
    <3>2. Exists(req[r].who) => p \notin req[r].pairs
      BY <1>3, <3>1 DEF Exists
    <3> QED
      BY <1>3, <2>4, <3>2 DEF Record
  <2> QED
    BY <2>1, <2>2, <2>3, <2>4, RequestCases DEF Begin, ReadMatches, ReadCorrections, ReadReads,
       ReadEvent, Stamp, End
<1>4. \A s \in Students, m \in Media :
        erasing[s] = "gone" =>
          (corrections[<<s, m>>] = NoRow /\ <<s, m>> \notin audit
            => corrections'[<<s, m>>] = NoRow /\ <<s, m>> \notin audit')
  BY <1>3 DEF Pairs
<1> QED
  BY <1>1, <1>4 DEF Cleared, Matched

\* Once a student's row is gone nothing names them, whichever step of the deletion broke off
\* and was asked for again, and whatever requests and runs go on beside it - except what a
\* run that had recognised them before writes late, and what is recognised from a copy of
\* the index that a broken rewrite of it has left current.
THEOREM ErasedAreForgotten == Spec => []ErasedLeaveNothing
<1> DEFINE Inv == Typed /\ Forgotten /\ Cleared
<1>1. Init => Inv
  <2>1. Init => Cleared
    BY DEF Init, Cleared
  <2> QED
    BY <2>1, TypedInit, ForgottenInit
<1>2. Inv /\ [Next]_vars => Inv'
  <2> SUFFICES ASSUME Inv, [Next]_vars PROVE Inv'
    OBVIOUS
  <2>1. Typed' /\ Forgotten'
    BY TypedStep, ForgottenStep
  <2>2. CASE UNCHANGED vars
    BY <2>1, <2>2 DEF vars, results, inbox, history, Cleared, Matched
  <2>3. CASE Next
    BY <2>1, <2>3, WorkerClears, ErasureClears, EventClears, RequestClears DEF Next
  <2> QED
    BY <2>2, <2>3
<1>3. Inv => ErasedLeaveNothing
  BY DEF Cleared, ErasedLeaveNothing
<1> QED
  BY <1>1, <1>2, <1>3, PTL DEF Spec

-----------------------------------------------------------------------------
\* The matches.

\* The conjuncts of RowsOfRuns for one student and one photo.
BestKept(s, m) ==
  \A sc \in Scenes : sc \in ran[m] /\ s \in indexed /\ s \in DOMAIN PeopleOf[sc] =>
    Matched(<<s, m>>) /\ matches[<<s, m>>].score >= PeopleOf[sc][s].score
FromARun(s, m) ==
  Matched(<<s, m>>) => \E sc \in ran[m] : s \in DOMAIN PeopleOf[sc]
                                          /\ matches[<<s, m>>] = PeopleOf[sc][s]
EvidenceOfARun(m) == \E sc \in ran[m] : detections[m] \subseteq EvidenceOf[sc]
RunsSaved ==
  \A w \in Workers : run[w].step = "detections" => run[w].scene \in ran[run[w].photo]

LEMMA RowsInit == Init => RowsOfRuns
<1> SUFFICES ASSUME Init PROVE RowsOfRuns
  OBVIOUS
<1>1. PICK made \in [Media -> Scenes] :
        /\ matches = [p \in Pairs |-> IF p[1] \in DOMAIN PeopleOf[made[p[2]]]
                                        THEN PeopleOf[made[p[2]]][p[1]] ELSE NoRow]
        /\ ran = [m \in Media |-> {made[m]}]
        /\ detections = [m \in Media |-> EvidenceOf[made[m]]]
  BY DEF Init
<1>2. ASSUME NEW m \in Media, NEW s \in Students
      PROVE  /\ matches[<<s, m>>] = IF s \in DOMAIN PeopleOf[made[m]]
                                      THEN PeopleOf[made[m]][s] ELSE NoRow
             /\ ran[m] = {made[m]} /\ made[m] \in Scenes
             /\ s \in DOMAIN PeopleOf[made[m]] => PeopleOf[made[m]][s] \in MatchRows
  <2>1. <<s, m>> \in Pairs /\ <<s, m>>[1] = s /\ <<s, m>>[2] = m
    BY DEF Pairs
  <2> QED
    BY <1>1, <2>1, ScenePeople
<1>3. \A row \in MatchRows : row # NoRow /\ row.score >= row.score
  BY NoRowAssumption DEF MatchRows
<1>4. ASSUME NEW m \in Media, NEW s \in Students
      PROVE  BestKept(s, m) /\ FromARun(s, m)
  <2>1. CASE s \in DOMAIN PeopleOf[made[m]]
    <3>1. matches[<<s, m>>] = PeopleOf[made[m]][s] /\ matches[<<s, m>>] \in MatchRows
      BY <1>2, <2>1
    <3>2. Matched(<<s, m>>) /\ matches[<<s, m>>].score >= matches[<<s, m>>].score
      BY <1>3, <3>1 DEF Matched
    <3>3. ran[m] = {made[m]}
      BY <1>2
    <3> QED
      BY <2>1, <3>1, <3>2, <3>3 DEF BestKept, FromARun
  <2>2. CASE s \notin DOMAIN PeopleOf[made[m]]
    <3>1. ~ Matched(<<s, m>>) /\ ran[m] = {made[m]}
      BY <1>2, <2>2 DEF Matched
    <3> QED
      BY <2>2, <3>1 DEF BestKept, FromARun
  <2> QED
    BY <2>1, <2>2
<1>5. RunsSaved /\ \A m \in Media : EvidenceOfARun(m)
  BY <1>1 DEF RunsSaved, EvidenceOfARun, Init, NoRun
<1> QED
  BY <1>4, <1>5 DEF RowsOfRuns, BestKept, FromARun, EvidenceOfARun, RunsSaved

LEMMA SaveMatchesKeepsRows ==
  ASSUME Typed, RowsOfRuns, NEW w \in Workers, SaveMatches(w)
  PROVE  RowsOfRuns'
<1> USE DEF results, inbox, history
<1> DEFINE photo == run[w].photo
           scene == run[w].scene
<1>1. /\ photo \in Media /\ scene \in Scenes
      /\ matches \in [Pairs -> MatchRows \cup {NoRow}]
      /\ matches' \in [Pairs -> MatchRows \cup {NoRow}]
      /\ run' = [run EXCEPT ![w].step = "detections"]
      /\ ran' = [ran EXCEPT ![photo] = @ \cup {scene}]
      /\ \A p \in Pairs :
           \/ /\ matches'[p] = matches[p]
              /\ (p[2] = photo /\ p[1] \in DOMAIN PeopleOf[scene]
                    => ~ Better(matches[p], PeopleOf[scene][p[1]]))
           \/ /\ p[2] = photo /\ p[1] \in DOMAIN PeopleOf[scene]
              /\ matches'[p] = PeopleOf[scene][p[1]]
              /\ Better(matches[p], PeopleOf[scene][p[1]])
  BY SaveMatchesDoes
<1>2. /\ ran \in [Media -> SUBSET Scenes] /\ indexed' = indexed /\ detections' = detections
      /\ run \in [Workers -> [photo : Media \cup {NoMedia}, scene : Scenes \cup {NoScene},
                              step : {"idle", "matches", "detections"}]]
  BY DEF Typed, RunsTyped, SaveMatches
<1>3. \A row \in MatchRows : row.score \in Nat /\ row # NoRow
  BY NoRowAssumption DEF MatchRows
<1>4. \A sc \in Scenes : \A s \in DOMAIN PeopleOf[sc] : PeopleOf[sc][s] \in MatchRows
  BY ScenePeople
<1>5. ran'[photo] = ran[photo] \cup {scene} /\ \A m \in Media : ran[m] \subseteq ran'[m]
  BY <1>1, <1>2
<1>6. \A m \in Media \ {photo} : ran'[m] = ran[m]
  BY <1>1, <1>2
<1> HIDE DEF photo, scene
<1>7. ASSUME NEW m \in Media, NEW s \in Students
      PROVE  BestKept(s, m)' /\ FromARun(s, m)'
  <2> DEFINE p == <<s, m>>
  <2>1. p \in Pairs /\ p[1] = s /\ p[2] = m
    BY DEF Pairs
  <2>2. BestKept(s, m) /\ FromARun(s, m)
    BY DEF RowsOfRuns, BestKept, FromARun
  <2> HIDE DEF p
  <2>3. CASE /\ m = photo /\ s \in DOMAIN PeopleOf[scene]
             /\ matches'[p] = PeopleOf[scene][s] /\ Better(matches[p], PeopleOf[scene][s])
    <3>1. matches'[p] \in MatchRows /\ matches'[p] # NoRow /\ matches'[p].score \in Nat
      BY <1>1, <1>3, <1>4, <2>3
    <3>2. FromARun(s, m)'
      BY <1>5, <2>3 DEF FromARun, p
    <3>3. ASSUME NEW sc \in ran[m], sc \in Scenes, s \in indexed, s \in DOMAIN PeopleOf[sc]
          PROVE  matches'[p].score >= PeopleOf[sc][s].score
      <4>1. matches[p] # NoRow /\ matches[p].score >= PeopleOf[sc][s].score
        BY <2>2, <3>3 DEF BestKept, Matched, p
      <4>2. matches[p] \in MatchRows
        BY <1>1, <2>1, <4>1
      <4>3. matches'[p].score > matches[p].score
        BY <2>3, <4>1 DEF Better
      <4>4. matches[p].score \in Nat /\ PeopleOf[sc][s].score \in Nat
        BY <1>3, <1>4, <3>3, <4>2
      <4> QED
        BY <3>1, <4>1, <4>3, <4>4
    <3>4. matches'[p].score >= PeopleOf[scene][s].score
      BY <2>3, <3>1
    <3>5. BestKept(s, m)'
      BY <1>2, <1>5, <2>3, <3>1, <3>3, <3>4 DEF BestKept, Matched, p
    <3> QED
      BY <3>2, <3>5
  <2>4. CASE /\ matches'[p] = matches[p]
             /\ m = photo /\ s \in DOMAIN PeopleOf[scene]
                  => ~ Better(matches[p], PeopleOf[scene][s])
    <3>1. FromARun(s, m)'
      BY <1>5, <2>2, <2>4 DEF FromARun, Matched, p
    <3>2. ASSUME m = photo, s \in DOMAIN PeopleOf[scene]
          PROVE  matches[p] # NoRow /\ matches[p].score >= PeopleOf[scene][s].score
      <4>1. matches[p] # NoRow /\ ~ (PeopleOf[scene][s].score > matches[p].score)
        BY <2>4, <3>2 DEF Better
      <4>2. matches[p].score \in Nat /\ PeopleOf[scene][s].score \in Nat
        BY <1>1, <1>3, <1>4, <2>1, <3>2, <4>1
      <4> QED
        BY <4>1, <4>2
    <3>3. \A sc \in ran'[m] : sc \in ran[m] \/ (m = photo /\ sc = scene)
      BY <1>5, <1>6
    <3>4. BestKept(s, m)'
      BY <1>2, <2>2, <2>4, <3>2, <3>3 DEF BestKept, Matched, p
    <3> QED
      BY <3>1, <3>4
  <2> QED
    BY <1>1, <2>1, <2>3, <2>4
<1>8. \A m \in Media : EvidenceOfARun(m)'
  BY <1>2, <1>5 DEF RowsOfRuns, EvidenceOfARun
<1>9. RunsSaved'
  <2> SUFFICES ASSUME NEW v \in Workers, run'[v].step = "detections"
               PROVE  run'[v].scene \in ran'[run'[v].photo]
    BY DEF RunsSaved
  <2>1. CASE v = w
    BY <1>1, <1>2, <1>5, <2>1 DEF photo, scene
  <2>2. CASE v # w
    <3>1. run'[v] = run[v] /\ run[v].scene \in ran[run[v].photo]
      BY <1>1, <1>2, <2>2 DEF RowsOfRuns
    <3>2. run[v].photo \in Media
      BY <3>1 DEF Typed, RunsPlaced
    <3> QED
      BY <1>5, <3>1, <3>2
  <2> QED
    BY <2>1, <2>2
<1> QED
  BY <1>7, <1>8, <1>9 DEF RowsOfRuns, BestKept, FromARun, EvidenceOfARun, RunsSaved

\* The other steps save no match: they may forget some, or some evidence, and a student
\* whose matches go the index knows no more.
LEMMA RowsKeptOtherwise ==
  ASSUME Typed, RowsOfRuns,
         UNCHANGED ran, indexed' \subseteq indexed, RunsSaved',
         \A p \in Pairs : matches'[p] = matches[p] \/ (matches'[p] = NoRow /\ p[1] \notin indexed),
         \A m \in Media : detections'[m] \subseteq detections[m]
                          \/ \E sc \in ran[m] : detections'[m] \subseteq EvidenceOf[sc]
  PROVE  RowsOfRuns'
<1>1. ASSUME NEW m \in Media, NEW s \in Students
      PROVE  BestKept(s, m)' /\ FromARun(s, m)'
  <2>1. \/ matches'[<<s, m>>] = matches[<<s, m>>]
        \/ matches'[<<s, m>>] = NoRow /\ s \notin indexed
    BY DEF Pairs
  <2>2. BestKept(s, m) /\ FromARun(s, m)
    BY DEF RowsOfRuns, BestKept, FromARun
  <2> QED
    BY <2>1, <2>2 DEF BestKept, FromARun, Matched
<1>2. \A m \in Media : EvidenceOfARun(m)'
  <2>1. \A m \in Media : EvidenceOfARun(m)
    BY DEF RowsOfRuns, EvidenceOfARun
  <2> QED
    BY <2>1 DEF EvidenceOfARun
<1> QED
  BY <1>1, <1>2 DEF RowsOfRuns, BestKept, FromARun, EvidenceOfARun, RunsSaved

LEMMA RowsStep == Typed /\ Forgotten /\ RowsOfRuns /\ [Next]_vars => RowsOfRuns'
<1> SUFFICES ASSUME Typed, Forgotten, RowsOfRuns, [Next]_vars PROVE RowsOfRuns'
  OBVIOUS
<1> USE DEF results, inbox, history
<1>1. RunsSaved /\ indexed' \subseteq indexed
  BY ErasureGoesOn DEF RowsOfRuns, RunsSaved
<1>2. ASSUME UNCHANGED <<matches, detections, ran, run>> PROVE RowsOfRuns'
  <2>1. RunsSaved'
    BY <1>1, <1>2 DEF RunsSaved
  <2> QED
    BY <1>1, <1>2, <2>1, RowsKeptOtherwise
<1>3. /\ run \in [Workers -> [photo : Media \cup {NoMedia}, scene : Scenes \cup {NoScene},
                              step : {"idle", "matches", "detections"}]] /\ NoRun.step = "idle"
      /\ erasing \in [Students -> {"no", "unindexed", "unmatched", "purged", "gone"}]
      /\ detections \in [Media -> SUBSET DetectionRows]
      /\ matches \in [Pairs -> MatchRows \cup {NoRow}]
  BY DEF Typed, RunsTyped, RowsTyped, NoRun
<1>4. CASE UNCHANGED vars
  BY <1>2, <1>4 DEF vars
<1>5. ASSUME NEW w \in Workers, WorkerStep(w) PROVE RowsOfRuns'
  <2>1. ASSUME NEW m \in Media, NEW sc \in Scenes, Recognise(w, m, sc) PROVE RowsOfRuns'
    <3>1. RunsSaved'
      BY <1>1, <1>3, <2>1 DEF Recognise, RunsSaved
    <3>2. UNCHANGED <<matches, detections, ran>>
      BY <2>1 DEF Recognise
    <3> QED
      BY <1>1, <3>1, <3>2, RowsKeptOtherwise
  <2>2. ASSUME SaveDetections(w) PROVE RowsOfRuns'
    <3>1. RunsSaved'
      BY <1>1, <1>3, <2>2 DEF SaveDetections, RunsSaved
    <3>2. /\ UNCHANGED <<matches, ran>>
          /\ detections' = [detections EXCEPT ![run[w].photo] = EvidenceOf[run[w].scene]]
          /\ run[w].scene \in ran[run[w].photo]
      BY <1>1, <2>2 DEF SaveDetections, RunsSaved
    <3>3. \A m \in Media : detections'[m] \subseteq detections[m]
                           \/ \E sc \in ran[m] : detections'[m] \subseteq EvidenceOf[sc]
      BY <1>3, <3>2
    <3> QED
      BY <1>1, <3>1, <3>2, <3>3, RowsKeptOtherwise
  <2>3. ASSUME WorkerDies(w) PROVE RowsOfRuns'
    <3>1. RunsSaved'
      BY <1>1, <1>3, <2>3 DEF WorkerDies, RunsSaved
    <3>2. UNCHANGED <<matches, detections, ran>>
      BY <2>3 DEF WorkerDies
    <3> QED
      BY <1>1, <3>1, <3>2, RowsKeptOtherwise
  <2> QED
    BY <1>5, <2>1, <2>2, <2>3, SaveMatchesKeepsRows DEF WorkerStep
<1>6. ASSUME NEW s \in Students, ErasureStep(s) PROVE RowsOfRuns'
  <2>1. ASSUME PurgeMatches(s) PROVE RowsOfRuns'
    <3>1. s \notin indexed
      BY <2>1 DEF PurgeMatches, Forgotten
    <3>2. UNCHANGED <<detections, run, ran>> /\ RunsSaved'
      BY <1>1, <2>1 DEF PurgeMatches, RunsSaved
    <3>3. \A p \in Pairs : matches'[p] = matches[p] \/ (matches'[p] = NoRow /\ p[1] \notin indexed)
      BY <2>1, <3>1 DEF PurgeMatches
    <3> QED
      BY <1>1, <3>2, <3>3, RowsKeptOtherwise
  <2>2. ASSUME PurgeCandidates(s) PROVE RowsOfRuns'
    <3>1. UNCHANGED <<matches, run, ran>> /\ RunsSaved'
      BY <1>1, <2>2 DEF PurgeCandidates, RunsSaved
    <3>2. \A m \in Media : detections'[m] \subseteq detections[m]
      BY <2>2 DEF PurgeCandidates
    <3> QED
      BY <1>1, <3>1, <3>2, RowsKeptOtherwise
  <2> QED
    BY <1>2, <1>6, <2>1, <2>2 DEF ErasureStep, Unindex, UnindexBreaks, DeleteRow, ErasureStops
<1>7. CASE Complete \/ SwitchEvent \/ \E s \in Students : MarkSeen(s)
  BY <1>2, <1>7 DEF Complete, SwitchEvent, MarkSeen
<1>8. CASE \E r \in Requests : RequestStep(r)
  <2>1. UNCHANGED <<matches, detections, ran, run>>
    BY <1>8, RequestCases DEF Begin, ReadMatches, ReadCorrections, ReadReads, ReadEvent, Write,
       Undo, Record, Stamp, End
  <2> QED
    BY <1>2, <2>1
<1> QED
  BY <1>4, <1>5, <1>6, <1>7, <1>8 DEF Next

LEMMA RowsAreSound == Typed /\ RowsOfRuns => MatchesAreSound
<1> SUFFICES ASSUME Typed, RowsOfRuns PROVE MatchesAreSound
  OBVIOUS
<1>1. ASSUME NEW p \in Pairs, p[1] \in indexed, Matched(p)
      PROVE  \E face \in FacesSeen(p[2]) : TakenFor(face, p[1], matches[p])
  <2>1. p[1] \in Students /\ p[2] \in Media /\ p = <<p[1], p[2]>>
    BY DEF Pairs
  <2>2. PICK sc \in ran[p[2]] : p[1] \in DOMAIN PeopleOf[sc] /\ matches[p] = PeopleOf[sc][p[1]]
    BY <1>1, <2>1 DEF RowsOfRuns
  <2>3. sc \in Scenes
    BY <2>1 DEF Typed
  <2>4. PICK i \in DOMAIN Views[sc] : TakenFor(Views[sc][i], p[1], PeopleOf[sc][p[1]])
    BY <2>2, <2>3, ScenePeople
  <2>5. Views[sc][i] \in FacesSeen(p[2])
    BY DEF FacesSeen
  <2> QED
    BY <2>2, <2>4, <2>5
<1>2. ASSUME NEW p \in Pairs, p[1] \in indexed, NEW face \in FacesSeen(p[2]),
             NEW j \in DOMAIN face, face[j].student = p[1], Stands1st(face, j)
      PROVE  Matched(p) /\ matches[p].score >= face[j].score
  <2>1. p[1] \in Students /\ p[2] \in Media /\ p = <<p[1], p[2]>>
    BY DEF Pairs
  <2>2. PICK sc \in ran[p[2]] : \E i \in DOMAIN Views[sc] : face = Views[sc][i]
    BY DEF FacesSeen
  <2>3. PICK i \in DOMAIN Views[sc] : face = Views[sc][i]
    BY <2>2
  <2>4. sc \in Scenes
    BY <2>1 DEF Typed
  <2>5. FaceOf(face)
    BY <2>3, <2>4, SceneTypes
  <2>6. p[1] \in Emitted(face) /\ p[1] \in Named(face)
    BY <1>2, <2>5, FirstIsEmitted, EmittedNamed
  <2>7. face[j].score <= BestScore(face, p[1]) /\ BestScore(face, p[1]) \in Nat
        /\ face[j].score \in Nat
    BY <1>2, <2>5, <2>6, BestHitIs, FaceTypes
  <2>8. p[1] \in DOMAIN PeopleOf[sc] /\ BestScore(face, p[1]) <= PeopleOf[sc][p[1]].score
    BY <2>3, <2>4, <2>6, ScenePeople
  <2>9. Matched(p) /\ matches[p].score >= PeopleOf[sc][p[1]].score
    BY <1>2, <2>1, <2>4, <2>8 DEF RowsOfRuns
  <2>10. PeopleOf[sc][p[1]].score \in Nat /\ matches[p].score \in Nat
    <3>1. PeopleOf[sc][p[1]] \in MatchRows /\ matches[p] \in MatchRows
      BY <2>4, <2>8, <2>9, ScenePeople DEF Typed, RowsTyped, Matched
    <3> QED
      BY <3>1 DEF MatchRows
  <2> QED
    BY <2>7, <2>8, <2>9, <2>10
<1>3. ASSUME NEW m \in Media, NEW d \in detections[m], d.student \in indexed
      PROVE  Matched(<<d.student, m>>) /\ matches[<<d.student, m>>].score >= d.score
  <2>1. PICK sc \in ran[m] : d \in EvidenceOf[sc]
    BY DEF RowsOfRuns
  <2>2. sc \in Scenes /\ d \in DetectionRows
    BY DEF Typed
  <2>3. d.student \in DOMAIN PeopleOf[sc] /\ d.score <= PeopleOf[sc][d.student].score
    BY <2>1, <2>2, SceneEvidence, ScenePeople
  <2>4. d.student \in Students /\ d.score \in Nat
    BY <2>2 DEF DetectionRows
  <2>5. Matched(<<d.student, m>>) /\ matches[<<d.student, m>>].score >= PeopleOf[sc][d.student].score
    BY <1>3, <2>1, <2>2, <2>3, <2>4 DEF RowsOfRuns
  <2>6. PeopleOf[sc][d.student].score \in Nat /\ matches[<<d.student, m>>].score \in Nat
    <3>1. PeopleOf[sc][d.student] \in MatchRows /\ matches[<<d.student, m>>] \in MatchRows
      BY <2>2, <2>3, <2>4, <2>5, ScenePeople DEF Typed, RowsTyped, Matched, Pairs
    <3> QED
      BY <3>1 DEF MatchRows
  <2> QED
    BY <2>3, <2>4, <2>5, <2>6
<1>4. MatchesGoBackToFaces
  BY <1>1, <1>2 DEF MatchesGoBackToFaces
<1>5. EvidenceHasMatches
  BY <1>3 DEF EvidenceHasMatches
<1> QED
  BY <1>4, <1>5 DEF MatchesAreSound

\* However often and in whatever order the deliveries of a photo are run, its match rows go
\* back to faces rightly taken for their students, whoever stood first in a face has one at
\* least as good, and no stored detection claims a student more surely than their match.
THEOREM MatchesStaySound == Spec => []MatchesAreSound
<1> DEFINE Inv == Typed /\ Forgotten /\ RowsOfRuns
<1>1. Init => Inv
  BY TypedInit, ForgottenInit, RowsInit
<1>2. Inv /\ [Next]_vars => Inv'
  BY TypedStep, ForgottenStep, RowsStep
<1>3. Inv => MatchesAreSound
  BY RowsAreSound
<1> QED
  BY <1>1, <1>2, <1>3, PTL DEF Spec

-----------------------------------------------------------------------------
\* The dashboard.

\* The two conjuncts of FlagsKnown for one pair.
RowKnows(p) == corrections[p] # NoRow => (corrections[p].resolves <=> Flagged(p))
RequestKnows(r, p) == Correcting(r, p) => (p \in req[r].flagged <=> Flagged(p))

LEMMA FlagsKnownIs ==
  FlagsKnown <=> (~ churned => \A p \in Pairs : RowKnows(p) /\ \A r \in Requests : RequestKnows(r, p))
BY DEF FlagsKnown, RowKnows, RequestKnows

\* The pairs a request is about to write are in its scope.
LEMMA CorrectingIs ==
  ASSUME Typed, NEW r \in Requests, NEW p \in Pairs, Correcting(r, p)
  PROVE  /\ req[r].kind = "batch" \/ p = <<req[r].who, req[r].photo>> \/ p \in req[r].pairs
         /\ req[r].kind = "batch" => p \in req[r].pairs
<1>1. req[r].kind = "batch" => req[r].who = NoStudent
  BY ReqTyped DEF Aimed
<1>2. req[r].who = NoStudent => p # <<req[r].who, req[r].photo>>
  BY NoneAssumption DEF Pairs
<1> QED
  BY <1>1, <1>2 DEF Correcting

\* A match that changes, unless that churns, has no correction, and none under way.
LEMMA ChurnKeeps ==
  ASSUME FlagsKnown, NEW P \in SUBSET Pairs, Churn(P), UNCHANGED <<req, corrections>>,
         \A p \in Pairs \ P : matches'[p] = matches[p]
  PROVE  FlagsKnown'
<1> SUFFICES ASSUME ~ churned', NEW p \in Pairs
             PROVE  /\ corrections[p] # NoRow => (corrections[p].resolves <=> Flagged(p)')
                    /\ \A r \in Requests :
                         Correcting(r, p)' => (p \in req[r].flagged <=> Flagged(p)')
  BY DEF FlagsKnown
<1>1. ~ churned /\ \A y \in P : corrections[y] = NoRow /\ \A r \in Requests : ~ Correcting(r, y)
  BY DEF Churn
<1>2. \A r \in Requests : Correcting(r, p)' <=> Correcting(r, p)
  BY DEF Correcting
<1>3. CASE p \in P
  BY <1>1, <1>2, <1>3
<1>4. CASE p \notin P
  BY <1>1, <1>2, <1>4, FlagsKnownIs DEF Flagged, Matched, RowKnows, RequestKnows
<1> QED
  BY <1>3, <1>4

\* The matches stay, and corrections go.
LEMMA FlagsStay ==
  ASSUME FlagsKnown, UNCHANGED <<req, matches, churned>>,
         \A p \in Pairs : corrections'[p] \in {corrections[p], NoRow}
  PROVE  FlagsKnown'
<1>1. \A r \in Requests, p \in Pairs : Correcting(r, p)' <=> Correcting(r, p)
  BY DEF Correcting
<1> QED
  BY <1>1 DEF FlagsKnown, Flagged, Matched

\* The matches stay, and one request goes on.
LEMMA RequestFlags ==
  ASSUME FlagsKnown, NEW r \in Requests, Others(r), UNCHANGED <<matches, churned>>,
         \A p \in Pairs : \/ corrections'[p] \in {corrections[p], NoRow}
                          \/ RowKnows(p)',
         \A p \in Pairs : Correcting(r, p)' =>
           \/ Correcting(r, p) /\ req'[r].flagged = req[r].flagged
           \/ (p \in req'[r].flagged <=> Flagged(p))
  PROVE  FlagsKnown'
<1> SUFFICES ASSUME ~ churned, NEW p \in Pairs
             PROVE  RowKnows(p)' /\ \A x \in Requests : RequestKnows(x, p)'
  BY DEF FlagsKnown, RowKnows, RequestKnows
<1>1. Flagged(p)' <=> Flagged(p)
  BY DEF Flagged, Matched
<1>2. RowKnows(p) /\ \A x \in Requests : RequestKnows(x, p)
  BY FlagsKnownIs
<1>3. RowKnows(p)'
  BY <1>1, <1>2 DEF RowKnows
<1>4. ASSUME NEW x \in Requests PROVE RequestKnows(x, p)'
  <2>1. CASE x = r
    BY <1>1, <1>2, <2>1 DEF RequestKnows
  <2>2. CASE x # r
    <3>1. req'[x] = req[x]
      BY <2>2 DEF Others
    <3> QED
      BY <1>1, <1>2, <3>1 DEF RequestKnows, Correcting
  <2> QED
    BY <2>1, <2>2
<1> QED
  BY <1>3, <1>4

LEMMA RequestFlagsStep ==
  ASSUME Typed, FlagsKnown, NEW r \in Requests, RequestStep(r)
  PROVE  FlagsKnown'
<1> USE DEF results, inbox, history
<1> DEFINE Keeps == \A p \in Pairs : Correcting(r, p)' =>
             \/ Correcting(r, p) /\ req'[r].flagged = req[r].flagged
             \/ (p \in req'[r].flagged <=> Flagged(p))
\* Before its first read and after its last a request writes no verdict.
<1>1. req'[r].step \notin {"corrections", "write"} => Keeps
  BY DEF Correcting
<1>2. ASSUME Keeps, Others(r), UNCHANGED <<matches, churned, corrections>> PROVE FlagsKnown'
  BY <1>2, RequestFlags
<1> HIDE DEF Keeps
<1>3. ASSUME NEW q \in RequestRecords, Fresh(q), Begin(r, q) PROVE FlagsKnown'
  <2>1. Others(r) /\ req'[r].step \notin {"corrections", "write"}
    BY <1>3, BeginDoes DEF Fresh
  <2> QED
    BY <1>1, <1>2, <1>3, <2>1 DEF Begin
<1>4. ASSUME ReadMatches(r) PROVE FlagsKnown'
  <2> DEFINE q == req[r]
  <2>1. /\ Others(r) /\ SameAim(q, req'[r]) /\ Aimed(req'[r]) /\ Aimed(q)
        /\ req'[r].flagged = InScope(q, AllFlagged)
        /\ req'[r].pairs = IF q.kind = "batch" THEN q.pairs \cap AllMatched
                           ELSE IF Writes(q) THEN {<<q.who, q.photo>>} ELSE {}
    BY <1>4, ReadMatchesDoes, ReqTyped
  <2>2. ASSUME NEW p \in Pairs, Correcting(r, p)'
        PROVE  p \in req'[r].flagged <=> Flagged(p)
    <3>1. /\ q.kind \in {"verdict", "add", "batch", "notme"}
          /\ p = <<q.who, q.photo>> \/ p \in req'[r].pairs
      BY <2>1, <2>2 DEF Correcting, SameAim
    <3>2. CASE q.kind = "batch"
      <4>1. q.who = NoStudent /\ q.photo = NoMedia
        BY <2>1, <3>2 DEF Aimed
      <4> QED
        BY <2>1, <4>1 DEF InScope, AllFlagged
    <3>3. CASE q.kind # "batch"
      <4>1. p = <<q.who, q.photo>>
        BY <2>1, <3>1, <3>3
      <4>2. p[1] = q.who /\ p[2] = q.photo
        BY <4>1
      <4> QED
        BY <2>1, <4>2 DEF InScope, AllFlagged
    <3> QED
      BY <3>2, <3>3
  <2>3. Keeps
    BY <2>2 DEF Keeps
  <2> QED
    BY <1>2, <1>4, <2>1, <2>3 DEF ReadMatches
<1>5. ASSUME ReadCorrections(r) PROVE FlagsKnown'
  <2> DEFINE q == req[r]
  <2>1. /\ Others(r) /\ q.step = "corrections"
        /\ \/ req'[r] = NoRequest
           \/ /\ SameAim(q, req'[r]) /\ req'[r].step = After(q.kind)
              /\ req'[r].pairs = Found(q)
              /\ q.kind = "notme" => req'[r].flagged = q.flagged
    BY <1>5, ReadCorrectionsDoes
  <2>2. CASE req'[r] = NoRequest
    BY <1>1, <1>2, <1>5, <2>1, <2>2, NothingTyped DEF ReadCorrections
  <2>3. CASE q.kind # "notme" /\ req'[r].step = After(q.kind)
    <3>1. req'[r].step \notin {"corrections", "write"}
      BY <2>3, AfterIs
    <3> QED
      BY <1>1, <1>2, <1>5, <2>1, <3>1 DEF ReadCorrections
  <2>4. CASE /\ q.kind = "notme" /\ SameAim(q, req'[r]) /\ req'[r].pairs = Found(q)
             /\ req'[r].flagged = q.flagged
    <3>1. Found(q) \subseteq {<<q.who, q.photo>>}
      BY <2>4, FoundTyped
    <3>2. \A p \in Pairs : Correcting(r, p)' => Correcting(r, p)
      BY <2>1, <2>4, <3>1 DEF Correcting, SameAim
    <3>3. Keeps
      BY <2>4, <3>2 DEF Keeps
    <3> QED
      BY <1>2, <1>5, <2>1, <3>3 DEF ReadCorrections
  <2> QED
    BY <2>1, <2>2, <2>3, <2>4
<1>6. ASSUME ReadReads(r) \/ ReadEvent(r) \/ Stamp(r) \/ End(r) \/ Record(r) PROVE FlagsKnown'
  <2>1. Others(r) /\ req'[r].step \notin {"corrections", "write"}
    BY <1>6, ReadReadsDoes, ReadEventDoes, StampDoes, DoneDoes, NothingTyped DEF End, Record
  <2>2. UNCHANGED <<matches, churned, corrections>>
    BY <1>6 DEF ReadReads, ReadEvent, Stamp, End, Record
  <2> QED
    BY <1>1, <1>2, <2>1, <2>2
<1>7. ASSUME Undo(r) PROVE FlagsKnown'
  <2>1. Others(r) /\ req'[r].step \notin {"corrections", "write"}
    BY <1>7, DoneDoes, NothingTyped DEF Undo
  <2>2. /\ UNCHANGED <<matches, churned>>
        /\ \A p \in Pairs : corrections'[p] \in {corrections[p], NoRow}
    BY <1>7 DEF Undo, Typed, RowsTyped
  <2>3. Keeps
    BY <1>1, <2>1
  <2> QED
    BY <2>1, <2>2, <2>3, RequestFlags DEF Keeps
<1>8. ASSUME NEW y \in Pairs, Write(r, y) PROVE FlagsKnown'
  <2> DEFINE q == req[r]
  <2>1. /\ Others(r) /\ q.step = "write" /\ y \in q.pairs /\ UNCHANGED <<matches, churned>>
        /\ \/ req'[r] = NoRequest
           \/ /\ SameAim(q, req'[r]) /\ req'[r].step = "write"
              /\ req'[r].pairs \subseteq q.pairs /\ req'[r].flagged = q.flagged
        /\ \/ UNCHANGED corrections
           \/ corrections' = [corrections EXCEPT ![y] =
                    [verdict |-> VerdictOf(req[r], y), resolves |-> Resolves(req[r], y)]]
    BY <1>8, WriteDoes DEF Write
  <2>2. Keeps
    <3>1. CASE req'[r] = NoRequest
      BY <1>1, <3>1, NothingTyped
    <3>2. CASE /\ SameAim(q, req'[r]) /\ req'[r].step = "write"
               /\ req'[r].pairs \subseteq q.pairs /\ req'[r].flagged = q.flagged
      <4>1. \A p \in Pairs : Correcting(r, p)' => Correcting(r, p)
        BY <2>1, <3>2 DEF Correcting, SameAim
      <4> QED
        BY <3>2, <4>1 DEF Keeps
    <3> QED
      BY <2>1, <3>1, <3>2
  <2>3. CASE UNCHANGED corrections
    BY <1>2, <2>1, <2>2, <2>3
  <2>4. CASE ~ churned /\ corrections' = [corrections EXCEPT ![y] =
                    [verdict |-> VerdictOf(req[r], y), resolves |-> Resolves(req[r], y)]]
    <3>1. corrections \in [Pairs -> CorrectionRows \cup {NoRow}]
      BY DEF Typed, RowsTyped
    <3>2. Correcting(r, y)
      <4>1. q.kind \in {"verdict", "add", "batch", "notme"}
        BY <2>1, ReqTyped DEF Aimed
      <4> QED
        BY <2>1, <4>1 DEF Correcting
    <3>3. y \in q.flagged <=> Flagged(y)
      BY <2>4, <3>2 DEF FlagsKnown
    <3>4. corrections'[y].resolves <=> Flagged(y)
      BY <2>4, <3>1, <3>3 DEF Resolves
    <3>5. Flagged(y)' <=> Flagged(y)
      BY <2>1 DEF Flagged, Matched
    <3>6. RowKnows(y)'
      BY <3>4, <3>5 DEF RowKnows
    <3>7. \A p \in Pairs : corrections'[p] \in {corrections[p], NoRow} \/ RowKnows(p)'
      <4>1. \A p \in Pairs \ {y} : corrections'[p] = corrections[p]
        BY <2>4, <3>1
      <4> QED
        BY <3>6, <4>1
    <3> QED
      BY <2>1, <2>2, <3>7, RequestFlags DEF Keeps
  <2>5. CASE churned
    BY <2>1, <2>5 DEF FlagsKnown
  <2> QED
    BY <2>1, <2>3, <2>4, <2>5
<1> QED
  BY <1>3, <1>4, <1>5, <1>6, <1>7, <1>8, RequestCases

LEMMA FlagsStep == Typed /\ FlagsKnown /\ [Next]_vars => FlagsKnown'
<1> SUFFICES ASSUME Typed, FlagsKnown, [Next]_vars PROVE FlagsKnown'
  OBVIOUS
<1> USE DEF results, inbox, history
<1>1. ASSUME UNCHANGED <<req, matches, churned, corrections>> PROVE FlagsKnown'
  BY <1>1, FlagsStay
<1>2. matches \in [Pairs -> MatchRows \cup {NoRow}] /\ corrections \in [Pairs -> CorrectionRows \cup {NoRow}]
  BY DEF Typed, RowsTyped
<1>3. CASE UNCHANGED vars
  BY <1>1, <1>3 DEF vars
<1>4. ASSUME NEW w \in Workers, SaveMatches(w) PROVE FlagsKnown'
  <2> DEFINE m == run[w].photo
             new == PeopleOf[run[w].scene]
             W == {p \in Pairs : /\ p[2] = m /\ p[1] \in DOMAIN new
                                 /\ Better(matches[p], new[p[1]])}
             P == {p \in W : matches[p] # new[p[1]]}
  <2>1. /\ matches' = [p \in Pairs |-> IF p \in W THEN new[p[1]] ELSE matches[p]]
        /\ Churn(P) /\ UNCHANGED <<req, corrections>>
    BY <1>4 DEF SaveMatches
  <2>2. P \in SUBSET Pairs /\ \A p \in Pairs \ P : matches'[p] = matches[p]
    BY <2>1
  <2> HIDE DEF P
  <2> QED
    BY <2>1, <2>2, ChurnKeeps
<1>5. ASSUME NEW w \in Workers, WorkerStep(w), ~ SaveMatches(w) PROVE FlagsKnown'
  BY <1>1, <1>5 DEF WorkerStep, Recognise, SaveDetections, WorkerDies
<1>6. ASSUME NEW s \in Students, PurgeMatches(s) PROVE FlagsKnown'
  <2> DEFINE P == {p \in AllMatched : p[1] = s}
  <2>1. /\ matches' = [p \in Pairs |-> IF p[1] = s THEN NoRow ELSE matches[p]]
        /\ Churn(P) /\ UNCHANGED <<req, corrections>>
    BY <1>6 DEF PurgeMatches
  <2>2. P \in SUBSET Pairs /\ \A p \in Pairs \ P : matches'[p] = matches[p]
    BY <2>1 DEF AllMatched, Matched
  <2> HIDE DEF P
  <2> QED
    BY <2>1, <2>2, ChurnKeeps
<1>7. ASSUME NEW s \in Students, ErasureStep(s), ~ PurgeMatches(s) PROVE FlagsKnown'
  <2>1. UNCHANGED <<req, matches, churned>>
    BY <1>7 DEF ErasureStep, Unindex, UnindexBreaks, PurgeCandidates, DeleteRow, ErasureStops
  <2>2. \A p \in Pairs : corrections'[p] \in {corrections[p], NoRow}
    BY <1>2, <1>7 DEF ErasureStep, Unindex, UnindexBreaks, PurgeCandidates, DeleteRow, ErasureStops
  <2> QED
    BY <2>1, <2>2, FlagsStay
<1>8. CASE Complete \/ SwitchEvent \/ \E s \in Students : MarkSeen(s)
  BY <1>1, <1>8 DEF Complete, SwitchEvent, MarkSeen
<1> QED
  BY <1>3, <1>4, <1>5, <1>6, <1>7, <1>8, RequestFlagsStep DEF Next

\* The dashboard subtracts two counts and says how many reviews are open; that is how many
\* the review lane shows, as long as no match changed under a correction and no erased
\* student was matched again: every correction knows whether its match is flagged, so the
\* resolved ones are flagged matches and their count can be subtracted.
THEOREM DashboardCountsTrue == Spec => []DashboardCountsTheLane
<1> DEFINE Inv == Typed /\ FlagsKnown
<1>1. Init => Inv
  <2>1. Init => FlagsKnown
    BY NothingTyped DEF Init, FlagsKnown, Correcting
  <2> QED
    BY <2>1, TypedInit
<1>2. Inv /\ [Next]_vars => Inv'
  BY TypedStep, FlagsStep
<1>3. Inv => DashboardCountsTheLane
  <2> SUFFICES ASSUME Typed, FlagsKnown, ~ churned
               PROVE  NeedsReview = Cardinality(InLane(AllFlagged, Verdicts))
    BY DEF DashboardCountsTheLane
  <2>1. corrections \in [Pairs -> CorrectionRows \cup {NoRow}]
    BY DEF Typed, RowsTyped
  <2>2. \A p \in Pairs : Verdict(p) = "none" <=> corrections[p] = NoRow
    BY <2>1 DEF Verdict, CorrectionRows
  <2>3. InLane(AllFlagged, Verdicts) = {p \in AllFlagged : corrections[p] = NoRow}
    BY <2>2 DEF InLane, Verdicts, AllFlagged
  <2>4. AllResolved = {p \in AllFlagged : corrections[p] # NoRow}
    BY DEF FlagsKnown, AllResolved, AllFlagged
  <2>5. InLane(AllFlagged, Verdicts) = AllFlagged \ AllResolved
        /\ AllFlagged \cap AllResolved = AllResolved
    BY <2>3, <2>4
  <2>6. IsFiniteSet(AllFlagged)
    <3>1. IsFiniteSet(Pairs)
      BY FiniteAssumption, FS_Product DEF Pairs
    <3>2. AllFlagged \subseteq Pairs
      BY DEF AllFlagged
    <3> QED
      BY <3>1, <3>2, FS_Subset
  <2>7. /\ Cardinality(AllFlagged \ AllResolved) =
             Cardinality(AllFlagged) - Cardinality(AllFlagged \cap AllResolved)
        /\ IsFiniteSet(AllFlagged \ AllResolved)
    BY <2>6, FS_Difference
  <2>8. Cardinality(AllFlagged) \in Nat /\ Cardinality(AllFlagged \ AllResolved) \in Nat
        /\ Cardinality(AllResolved) \in Nat
    <3>1. AllResolved \subseteq AllFlagged
      BY <2>4
    <3>2. IsFiniteSet(AllResolved)
      BY <2>6, <3>1, FS_Subset
    <3> QED
      BY <2>6, <2>7, <3>2, FS_CardinalityType
  <2>9. NeedsReview = IF Cardinality(AllFlagged) < Cardinality(AllResolved) THEN 0
                      ELSE Cardinality(AllFlagged) - Cardinality(AllResolved)
    BY DEF NeedsReview
  <2> QED
    BY <2>5, <2>7, <2>8, <2>9
<1> QED
  BY <1>1, <1>2, <1>3, PTL DEF Spec

-----------------------------------------------------------------------------
\* The inbox.

EffectiveAt == EffectiveAnnouncedAt(event)

\* How an event stands for a student, from the stamps and from what happened.
LEMMA StandsIs ==
  Typed /\ OpenedIsSeen => \A s \in Students : Stands(s) = Standing(seen[s], EffectiveAt)
<1> SUFFICES ASSUME Typed, OpenedIsSeen, NEW s \in Students
             PROVE  Stands(s) = Standing(seen[s], EffectiveAt)
  OBVIOUS
<1>1. /\ event.completed \in Nat /\ event.completed # 0 /\ event.notified \in Nat
      /\ seen[s] \in Nat /\ event.auto \in BOOLEAN
  BY DEF Typed, InboxTyped
<1>2. /\ event.notified # 0 =>
           ("notified" \in opened[s] <=> seen[s] # 0 /\ seen[s] >= event.notified)
      /\ "completed" \in opened[s] <=> seen[s] # 0 /\ seen[s] >= event.completed
  BY DEF OpenedIsSeen
<1>3. CASE event.notified # 0
  BY <1>1, <1>2, <1>3 DEF Stands, Standing, IsSeen, EffectiveAt, EffectiveAnnouncedAt
<1>4. CASE event.notified = 0 /\ event.auto
  BY <1>1, <1>2, <1>4 DEF Stands, Standing, IsSeen, EffectiveAt, EffectiveAnnouncedAt
<1>5. CASE event.notified = 0 /\ ~ event.auto
  BY <1>1, <1>2, <1>5 DEF Stands, Standing, IsSeen, EffectiveAt, EffectiveAnnouncedAt
<1> QED
  BY <1>3, <1>4, <1>5

LEMMA StandsThen ==
  (Typed /\ OpenedIsSeen => \A s \in Students : Stands(s) = Standing(seen[s], EffectiveAt))'
BY StandsIs, PTL

\* What a step does to the event and to who has opened it.
Announcing ==
  /\ now' = now + 1 /\ UNCHANGED seen
  /\ \/ /\ event' = [event EXCEPT !.completed = now']
        /\ opened' = [s \in Students |-> opened[s] \ {"completed"}]
     \/ /\ event' = [event EXCEPT !.notified = now']
        /\ opened' = [s \in Students |-> opened[s] \ {"notified"}]

Switching ==
  /\ UNCHANGED <<seen, now, opened>>
  /\ event' = [event EXCEPT !.auto = ~@] \/ event' = [event EXCEPT !.active = ~@]

Opening(s) ==
  /\ UNCHANGED event
  /\ \/ /\ now' = now + 1
        /\ seen' = [seen EXCEPT ![s] = now']
        /\ opened' = [opened EXCEPT ![s] = {"notified", "completed"}]
     \/ /\ now' = now
        /\ seen' = [seen EXCEPT ![s] = 0]
        /\ opened' = [opened EXCEPT ![s] = {}]

LEMMA InboxCases ==
  ASSUME Typed, Next
  PROVE  \/ UNCHANGED <<event, seen, now, opened>>
         \/ Announcing \/ Switching \/ \E s \in Students : Opening(s)
<1> USE DEF results, inbox, history
<1>1. CASE \E w \in Workers : WorkerStep(w)
  BY <1>1 DEF WorkerStep, Recognise, SaveMatches, SaveDetections, WorkerDies
<1>2. ASSUME NEW s \in Students, ErasureStep(s)
      PROVE  UNCHANGED <<event, seen, now, opened>> \/ Opening(s)
  BY <1>2 DEF ErasureStep, Unindex, UnindexBreaks, PurgeMatches, PurgeCandidates, DeleteRow,
       ErasureStops, Opening
<1>3. CASE Complete \/ SwitchEvent
  BY <1>3 DEF Complete, SwitchEvent, Announcing, Switching
<1>4. ASSUME NEW s \in Students, MarkSeen(s) PROVE Opening(s)
  BY <1>4 DEF MarkSeen, Opening
<1>5. CASE \E r \in Requests : RequestStep(r)
  <2>1. PICK r \in Requests : RequestStep(r)
    BY <1>5
  <2>2. CASE Stamp(r)
    BY <2>2 DEF Stamp, Announcing
  <2>3. CASE ~ Stamp(r)
    <3>1. UNCHANGED <<event, seen, now, opened>>
      BY <2>1, <2>3, RequestCases DEF Begin, ReadMatches, ReadCorrections, ReadReads, ReadEvent,
         Write, Undo, Record, End
    <3> QED
      BY <3>1
  <2> QED
    BY <2>2, <2>3
<1> QED
  BY <1>1, <1>2, <1>3, <1>4, <1>5 DEF Next

LEMMA OpenedStep ==
  ASSUME Typed, OpenedIsSeen, Next
  PROVE  OpenedIsSeen'
<1>1. /\ event \in [completed : Nat, notified : Nat, auto : BOOLEAN, active : BOOLEAN]
      /\ now \in Nat /\ seen \in [Students -> Nat]
      /\ event.completed \in 1..now /\ event.notified \in 0..now
      /\ \A s \in Students : seen[s] \in 0..now
      /\ opened \in [Students -> SUBSET {"notified", "completed"}]
  BY DEF Typed, InboxTyped
<1>2. CASE UNCHANGED <<event, seen, now, opened>> \/ Switching
  BY <1>1, <1>2 DEF OpenedIsSeen, Switching
<1>3. CASE Announcing
  <2>1. CASE /\ event' = [event EXCEPT !.completed = now']
             /\ opened' = [s \in Students |-> opened[s] \ {"completed"}]
    BY <1>1, <1>3, <2>1 DEF OpenedIsSeen, Announcing
  <2>2. CASE /\ event' = [event EXCEPT !.notified = now']
             /\ opened' = [s \in Students |-> opened[s] \ {"notified"}]
    BY <1>1, <1>3, <2>2 DEF OpenedIsSeen, Announcing
  <2> QED
    BY <1>3, <2>1, <2>2 DEF Announcing
<1>4. ASSUME NEW s \in Students, Opening(s) PROVE OpenedIsSeen'
  BY <1>1, <1>4 DEF OpenedIsSeen, Opening
<1> QED
  BY <1>2, <1>3, <1>4, InboxCases

\* What it does to the stamp that counts, and to what the students' stamps say.
LEMMA StampsGoOn ==
  ASSUME Typed, Typed', Next
  PROVE  /\ now <= now'
         /\ EffectiveAt \in 0..now /\ EffectiveAt' \in 0..now'
         /\ \A s \in Students : seen[s] \in 0..now /\ seen'[s] \in 0..now'
         /\ \/ event'.auto # event.auto
            \/ EffectiveAt' = EffectiveAt /\ event'.auto = event.auto
            \/ EffectiveAt' = now + 1 /\ seen' = seen /\ event'.auto = event.auto
         /\ \A s \in Students :
              \/ seen'[s] = seen[s]
              \/ /\ event' = event /\ EffectiveAt' = EffectiveAt
                 /\ seen'[s] = 0 \/ seen'[s] = now + 1
<1>1. /\ event \in [completed : Nat, notified : Nat, auto : BOOLEAN, active : BOOLEAN]
      /\ now \in Nat /\ seen \in [Students -> Nat]
      /\ event.completed \in 1..now /\ event.notified \in 0..now
      /\ \A s \in Students : seen[s] \in 0..now
  BY DEF Typed, InboxTyped
<1>2. /\ now' \in Nat /\ event'.completed \in 1..now' /\ event'.notified \in 0..now'
      /\ \A s \in Students : seen'[s] \in 0..now'
  BY DEF Typed, InboxTyped
<1>3. EffectiveAt \in 0..now /\ EffectiveAt' \in 0..now'
  BY <1>1, <1>2 DEF EffectiveAt, EffectiveAnnouncedAt
<1>4. CASE UNCHANGED <<event, seen, now, opened>>
  BY <1>1, <1>2, <1>3, <1>4 DEF EffectiveAt
<1>5. CASE Announcing
  <2>1. now' = now + 1 /\ seen' = seen /\ event'.auto = event.auto
    BY <1>1, <1>5 DEF Announcing
  <2>2. EffectiveAt' = EffectiveAt \/ EffectiveAt' = now + 1
    BY <1>1, <1>5 DEF Announcing, EffectiveAt, EffectiveAnnouncedAt
  <2> QED
    BY <1>1, <1>2, <1>3, <2>1, <2>2
<1>6. CASE Switching
  <2>1. event'.auto # event.auto \/ (EffectiveAt' = EffectiveAt /\ event'.auto = event.auto)
    BY <1>1, <1>6 DEF Switching, EffectiveAt, EffectiveAnnouncedAt
  <2> QED
    BY <1>1, <1>2, <1>3, <1>6, <2>1 DEF Switching
<1>7. ASSUME NEW x \in Students, Opening(x)
      PROVE  /\ now <= now' /\ event' = event /\ EffectiveAt' = EffectiveAt
             /\ \A s \in Students : seen'[s] = seen[s] \/ seen'[s] = 0 \/ seen'[s] = now + 1
  BY <1>1, <1>7 DEF Opening, EffectiveAt
<1> QED
  BY <1>1, <1>2, <1>3, <1>4, <1>5, <1>6, <1>7, InboxCases

LEMMA Witnessed ==
  ASSUME Typed, Next
  PROVE  Witness
BY RequestCases
   DEF Next, WorkerStep, Recognise, SaveMatches, SaveDetections, WorkerDies,
   ErasureStep, Unindex, UnindexBreaks, PurgeMatches, PurgeCandidates, DeleteRow, ErasureStops,
       Complete,
   SwitchEvent, MarkSeen, Begin, ReadMatches, ReadCorrections, ReadReads, ReadEvent, Write,
   Undo, Record, Stamp, End

\* What stood so since an inbox or a roster began still did after a step, and how things
\* stand after it is added.
LEMMA StoodGrows ==
  ASSUME Typed, Typed', OpenedIsSeen', Next, NEW r \in Requests, req'[r].kind \in {"inbox", "roster"}
  PROVE  /\ stoodSince[r] \subseteq stoodSince'[r]
         /\ event'.auto # event.auto => Standings \subseteq stoodSince'[r]
         /\ \A s \in Students : <<s, Standing(seen'[s], EffectiveAt')>> \in stoodSince'[r]
<1>1. stoodSince'[r] = IF event'.auto # event.auto THEN Standings
                       ELSE stoodSince[r] \cup {<<s, Stands(s)'>> : s \in Students}
  BY Witnessed DEF Witness
<1>2. stoodSince[r] \subseteq Standings
  BY DEF Typed
<1>3. \A s \in Students : Stands(s)' = Standing(seen'[s], EffectiveAt')
  BY StandsThen
<1>4. \A s \in Students : <<s, Standing(seen'[s], EffectiveAt')>> \in Standings
  BY DEF Standing, Standings
<1> QED
  BY <1>1, <1>2, <1>3, <1>4

LEMMA StandingKinds ==
  ASSUME NEW at \in Nat, NEW announced \in Nat
  PROVE  /\ Standing(at, announced) \in {"quiet", "new", "seen"}
         /\ announced = 0 => Standing(at, announced) = "quiet"
         /\ announced # 0 /\ (at = 0 \/ at < announced) => Standing(at, announced) = "new"
         /\ announced # 0 /\ at >= announced => Standing(at, announced) = "seen"
BY DEF Standing, IsSeen

\* An inbox or a roster that is not at a step meanwhile.
LEMMA StampsReadStay ==
  ASSUME Typed, Typed', OpenedIsSeen', Next,
         NEW r \in Requests, StampsRead(r), req'[r] = req[r]
  PROVE  StampsRead(r)'
<1> DEFINE q == req[r]
<1>1. /\ now \in Nat /\ now' \in Nat /\ now <= now'
      /\ EffectiveAt \in 0..now /\ EffectiveAt' \in 0..now'
      /\ \A s \in Students : seen[s] \in 0..now /\ seen'[s] \in 0..now'
      /\ \/ event'.auto # event.auto
         \/ EffectiveAt' = EffectiveAt /\ event'.auto = event.auto
         \/ EffectiveAt' = now + 1 /\ seen' = seen /\ event'.auto = event.auto
      /\ \A s \in Students :
           \/ seen'[s] = seen[s]
           \/ /\ event' = event /\ EffectiveAt' = EffectiveAt
              /\ seen'[s] = 0 \/ seen'[s] = now + 1
  BY StampsGoOn DEF Typed, InboxTyped
<1>2. /\ q.mark \in Nat /\ q.mark <= now
      /\ \A s \in Students : q.opens[s] \in Nat /\ q.opens[s] <= now
  BY ReqTyped DEF StampsRead
<1>3. q.mark <= now' /\ \A s \in Students : q.opens[s] <= now'
  BY <1>1, <1>2
<1>4. CASE q.kind \notin {"inbox", "roster"}
  BY <1>3, <1>4 DEF StampsRead
<1>5. CASE q.kind \in {"inbox", "roster"}
  <2>1. /\ stoodSince[r] \subseteq stoodSince'[r]
        /\ event'.auto # event.auto => Standings \subseteq stoodSince'[r]
        /\ \A s \in Students : <<s, Standing(seen'[s], EffectiveAt')>> \in stoodSince'[r]
    BY <1>5, StoodGrows
  <2>2. ASSUME NEW s \in Students, NEW at \in Nat, NEW announced \in Nat, event'.auto # event.auto
        PROVE  <<s, Standing(at, announced)>> \in stoodSince'[r]
    <3>1. Standing(at, announced) \in {"quiet", "new", "seen"}
      BY StandingKinds
    <3> QED
      BY <2>1, <2>2, <3>1 DEF Standings
  \* An announcement after the reads: whoever had not opened it before has not since.
  <2>3. ASSUME q.kind = "inbox", q.step = "event", NEW s \in Students
        PROVE  <<s, Standing(q.opens[s], EffectiveAt')>> \in stoodSince'[r]
    <3>1. <<s, Standing(q.opens[s], EffectiveAt)>> \in stoodSince[r]
      BY <2>3 DEF StampsRead, StoodSo, EffectiveAt
    <3>2. CASE event'.auto # event.auto
      BY <1>1, <1>2, <2>2, <3>2
    <3>3. CASE EffectiveAt' = EffectiveAt
      BY <2>1, <3>1, <3>3
    <3>4. CASE EffectiveAt' = now + 1 /\ seen' = seen
      <4>1. EffectiveAt' # 0 /\ q.opens[s] < EffectiveAt' /\ seen'[s] < EffectiveAt'
        BY <1>1, <1>2, <3>4
      <4>2. Standing(q.opens[s], EffectiveAt') = "new" /\ Standing(seen'[s], EffectiveAt') = "new"
        BY <1>1, <1>2, <4>1, StandingKinds
      <4> QED
        BY <2>1, <4>2
    <3> QED
      BY <1>1, <3>2, <3>3, <3>4
  \* A student opens the event, or is erased, between the event and the reads of a roster.
  <2>4. ASSUME q.kind = "roster", q.step = "reads", NEW s \in Students
        PROVE  <<s, Standing(seen'[s], q.mark)>> \in stoodSince'[r]
    <3>1. <<s, Standing(seen[s], q.mark)>> \in stoodSince[r]
      BY <2>4 DEF StampsRead, StoodSo
    <3>2. CASE seen'[s] = seen[s]
      BY <2>1, <3>1, <3>2
    <3>3. CASE q.mark = 0
      BY <1>1, <2>1, <3>1, <3>3, StandingKinds
    <3>4. CASE Standings \subseteq stoodSince[r]
      <4>1. Standing(seen'[s], q.mark) \in {"quiet", "new", "seen"}
        BY <1>1, <1>2, StandingKinds
      <4> QED
        BY <2>1, <3>4, <4>1 DEF Standings
    <3>5. CASE /\ q.mark # 0 /\ EffectiveAt # 0 /\ EffectiveAt' = EffectiveAt
               /\ seen'[s] = 0 \/ seen'[s] = now + 1
      <4>1. CASE seen'[s] = 0
        <5>1. Standing(seen'[s], q.mark) = "new" /\ Standing(seen'[s], EffectiveAt') = "new"
          BY <1>1, <1>2, <3>5, <4>1, StandingKinds
        <5> QED
          BY <2>1, <5>1
      <4>2. CASE seen'[s] = now + 1
        <5>1. seen'[s] >= q.mark /\ seen'[s] >= EffectiveAt'
          BY <1>1, <1>2, <3>5, <4>2
        <5>2. Standing(seen'[s], q.mark) = "seen" /\ Standing(seen'[s], EffectiveAt') = "seen"
          BY <1>1, <1>2, <3>5, <5>1, StandingKinds
        <5> QED
          BY <2>1, <5>2
      <4> QED
        BY <3>5, <4>1, <4>2
    <3>6. Standings \subseteq stoodSince[r] \/ (q.mark # 0 => EffectiveAt # 0)
      BY <2>4 DEF StampsRead, EffectiveAt
    <3> QED
      BY <1>1, <3>2, <3>3, <3>4, <3>5, <3>6
  <2>5. ASSUME q.kind = "roster", q.step = "reads"
        PROVE  Standings \subseteq stoodSince'[r] \/ (q.mark # 0 => EffectiveAt' # 0)
    <3>1. Standings \subseteq stoodSince[r] \/ (q.mark # 0 => EffectiveAt # 0)
      BY <2>5 DEF StampsRead, EffectiveAt
    <3> QED
      BY <1>1, <2>1, <3>1
  <2>6. \A s \in Students : \A x : <<s, x>> \in stoodSince[r] => <<s, x>> \in stoodSince'[r]
    BY <2>1
  <2> QED
    BY <1>3, <2>3, <2>4, <2>5, <2>6 DEF StampsRead, StoodSo, EffectiveAt
<1> QED
  BY <1>4, <1>5

LEMMA OthersStay ==
  ASSUME Typed, NEW r \in Requests, RequestStep(r)
  PROVE  Others(r)
BY RequestCases, BeginDoes, ReadMatchesDoes, ReadCorrectionsDoes, ReadReadsDoes, ReadEventDoes,
   WriteDoes, StampDoes, DoneDoes DEF Undo, Record, End

LEMMA RequestsGoOn ==
  ASSUME Typed, Next, NEW r \in Requests
  PROVE  req'[r] = req[r] \/ RequestStep(r)
<1> USE DEF results, inbox, history
<1>1. CASE UNCHANGED req
  BY <1>1
<1>2. ASSUME NEW x \in Requests, RequestStep(x) PROVE req'[r] = req[r] \/ RequestStep(r)
  BY <1>2, OthersStay DEF Others
<1> QED
  BY <1>1, <1>2 DEF Next, WorkerStep, Recognise, SaveMatches, SaveDetections, WorkerDies,
     ErasureStep, Unindex, UnindexBreaks, PurgeMatches, PurgeCandidates, DeleteRow, ErasureStops,
         Complete,
     SwitchEvent, MarkSeen

\* A request that stands at none of the steps between its reads and its answer.
LEMMA StampsReadElse ==
  ASSUME Typed, Typed', NEW r \in Requests,
         req'[r].mark <= now', \A s \in Students : req'[r].opens[s] <= now',
         req'[r].kind \notin {"inbox", "roster"}
           \/ (req'[r].kind = "inbox" /\ req'[r].step \notin {"event", "answer"})
  PROVE  StampsRead(r)'
BY DEF StampsRead

\* An inbox or a roster at a step of its own.
LEMMA StampsReadStep ==
  ASSUME Typed, Typed', OpenedIsSeen, OpenedIsSeen', Next,
         NEW r \in Requests, StampsRead(r), RequestStep(r)
  PROVE  StampsRead(r)'
<1> USE DEF results, inbox, history
<1> DEFINE q == req[r]
           n == req'[r]
<1>1. /\ now \in Nat /\ now' \in Nat /\ now <= now' /\ EffectiveAt \in 0..now
      /\ \A s \in Students : seen[s] \in 0..now
  BY StampsGoOn DEF Typed, InboxTyped
<1>2. /\ q.mark \in Nat /\ q.mark <= now
      /\ \A s \in Students : q.opens[s] \in Nat /\ q.opens[s] <= now
  BY ReqTyped DEF StampsRead
<1>3. ASSUME n.kind \in {"inbox", "roster"}
      PROVE  /\ \A s \in Students : \A x : <<s, x>> \in stoodSince[r] => <<s, x>> \in stoodSince'[r]
             /\ \A s \in Students : <<s, Standing(seen'[s], EffectiveAt')>> \in stoodSince'[r]
  BY <1>3, StoodGrows
\* It ends, or is one of the others.
<1>4. ASSUME n = NoRequest PROVE StampsRead(r)'
  <2>1. n.kind = "none" /\ n.mark = 0 /\ \A s \in Students : n.opens[s] = 0
    BY <1>4, NothingTyped
  <2> QED
    BY <1>1, <2>1, StampsReadElse
<1>5. ASSUME n.mark = q.mark, n.opens = q.opens,
             n.kind \notin {"inbox", "roster"}
               \/ (n.kind = "inbox" /\ n.step \notin {"event", "answer"})
      PROVE  StampsRead(r)'
  <2>1. n.mark <= now' /\ \A s \in Students : n.opens[s] <= now'
    BY <1>1, <1>2, <1>5
  <2> QED
    BY <1>5, <2>1, StampsReadElse
\* A roster goes on to its answer, with the stamps it has read.
<1>6. ASSUME SameAim(q, n), n.mark = q.mark, n.opens = q.opens, q.kind = "roster",
             q.step \in {"matches", "corrections"}, n.step \in {"corrections", "answer"}
      PROVE  StampsRead(r)'
  <2>1. n.mark <= now' /\ \A s \in Students : n.opens[s] <= now'
    BY <1>1, <1>2, <1>6
  <2>2. n.kind = "roster" /\ n.step # "reads"
    BY <1>6 DEF SameAim
  <2>3. \A s \in Students : <<s, Standing(q.opens[s], q.mark)>> \in stoodSince[r]
    BY <1>6 DEF StampsRead, StoodSo
  <2>4. \A s \in Students : <<s, Standing(n.opens[s], n.mark)>> \in stoodSince'[r]
    BY <1>3, <1>6, <2>2, <2>3
  <2> QED
    BY <2>1, <2>2, <2>4 DEF StampsRead, StoodSo
<1>7. ASSUME NEW b \in RequestRecords, Fresh(b), Begin(r, b) PROVE StampsRead(r)'
  <2>1. n = b /\ UNCHANGED <<event, seen, now>>
    BY <1>7, BeginDoes DEF Begin
  <2>2. /\ n.kind = "roster" <=> n.step = "reads"
        /\ n.mark = IF n.kind = "roster" THEN EffectiveAt ELSE 0
        /\ \A s \in Students : n.opens[s] = 0
        /\ n.step \in {"matches", "reads", "undo"}
    BY <1>7, <2>1 DEF Fresh, EffectiveAt
  <2>3. n.mark <= now' /\ \A s \in Students : n.opens[s] <= now'
    BY <1>1, <2>1, <2>2
  <2>4. CASE n.kind # "roster"
    BY <2>2, <2>3, <2>4, StampsReadElse
  <2>5. CASE n.kind = "roster"
    <3>1. n.step = "reads" /\ n.mark = EffectiveAt /\ EffectiveAt' = EffectiveAt
      BY <2>1, <2>2, <2>5 DEF EffectiveAt
    <3>2. \A s \in Students : <<s, Standing(seen'[s], n.mark)>> \in stoodSince'[r]
      BY <1>3, <2>5, <3>1
    <3> QED
      BY <2>3, <2>5, <3>1, <3>2 DEF StampsRead, StoodSo, EffectiveAt
  <2> QED
    BY <2>4, <2>5
<1>8. ASSUME ReadMatches(r) PROVE StampsRead(r)'
  <2>1. /\ SameAim(q, n) /\ n.mark = q.mark /\ n.opens = q.opens /\ q.step = "matches"
        /\ n.step = IF Writes(q) THEN "write" ELSE "corrections"
    BY <1>8, ReadMatchesDoes
  <2>2. CASE q.kind = "roster"
    BY <1>6, <2>1, <2>2 DEF Writes
  <2>3. CASE q.kind # "roster"
    BY <1>5, <2>1, <2>3 DEF SameAim
  <2> QED
    BY <2>2, <2>3
<1>9. ASSUME ReadCorrections(r) PROVE StampsRead(r)'
  <2>1. /\ q.step = "corrections"
        /\ \/ n = NoRequest
           \/ /\ SameAim(q, n) /\ n.mark = q.mark /\ n.opens = q.opens
              /\ n.step = After(q.kind)
    BY <1>9, ReadCorrectionsDoes
  <2>2. CASE SameAim(q, n) /\ n.mark = q.mark /\ n.opens = q.opens /\ n.step = After(q.kind)
    <3>1. /\ q.kind = "roster" => n.step = "answer"
          /\ q.kind = "inbox" => n.step = "reads"
      BY <2>2 DEF After
    <3>2. CASE q.kind = "roster"
      BY <1>6, <2>1, <2>2, <3>1, <3>2
    <3>3. CASE q.kind # "roster"
      BY <1>5, <2>2, <3>1, <3>3 DEF SameAim
    <3> QED
      BY <3>2, <3>3
  <2> QED
    BY <1>4, <2>1, <2>2
<1>10. ASSUME ReadReads(r) PROVE StampsRead(r)'
  <2>1. /\ SameAim(q, n) /\ q.step = "reads" /\ n.mark = q.mark /\ n.opens = seen
        /\ n.step = IF q.kind = "inbox" THEN "event" ELSE "matches"
        /\ UNCHANGED <<event, seen, now>> /\ q.kind \in {"inbox", "roster"}
    BY <1>10, ReadReadsDoes, ReqTyped DEF ReadReads, Aimed
  <2>2. n.mark <= now' /\ (\A s \in Students : n.opens[s] <= now') /\ n.kind = q.kind
        /\ EffectiveAt' = EffectiveAt
    BY <1>1, <1>2, <2>1 DEF SameAim, EffectiveAt
  <2>3. CASE q.kind = "inbox"
    <3>1. \A s \in Students : <<s, Standing(n.opens[s], EffectiveAt')>> \in stoodSince'[r]
      BY <1>3, <2>1, <2>2
    <3> QED
      BY <2>1, <2>2, <2>3, <3>1 DEF StampsRead, StoodSo, EffectiveAt
  <2>4. CASE q.kind = "roster"
    <3>1. \A s \in Students : <<s, Standing(seen[s], q.mark)>> \in stoodSince[r]
      BY <2>1, <2>4 DEF StampsRead, StoodSo
    <3>2. \A s \in Students : <<s, Standing(n.opens[s], n.mark)>> \in stoodSince'[r]
      BY <1>3, <2>1, <2>2, <2>4, <3>1
    <3> QED
      BY <2>1, <2>2, <2>4, <3>2 DEF StampsRead, StoodSo
  <2> QED
    BY <2>1, <2>3, <2>4
<1>11. ASSUME ReadEvent(r) PROVE StampsRead(r)'
  <2>1. /\ SameAim(q, n) /\ q.step = "event" /\ n.mark = EffectiveAt /\ n.opens = q.opens
        /\ n.step = "answer" /\ UNCHANGED <<event, seen, now>> /\ q.kind = "inbox"
    BY <1>11, ReadEventDoes, ReqTyped DEF ReadEvent, Aimed, EffectiveAt
  <2>2. n.mark <= now' /\ (\A s \in Students : n.opens[s] <= now') /\ n.kind = q.kind
    BY <1>1, <1>2, <2>1 DEF SameAim
  <2>3. \A s \in Students : <<s, Standing(q.opens[s], EffectiveAt)>> \in stoodSince[r]
    BY <2>1 DEF StampsRead, StoodSo, EffectiveAt
  <2>4. \A s \in Students : <<s, Standing(n.opens[s], n.mark)>> \in stoodSince'[r]
    BY <1>3, <2>1, <2>2, <2>3
  <2> QED
    BY <2>1, <2>2, <2>4 DEF StampsRead, StoodSo
<1>12. ASSUME Stamp(r) PROVE StampsRead(r)'
  <2>1. /\ SameAim(q, n) /\ q.step = "stamp" /\ n.mark = q.mark /\ n.opens = q.opens
    BY <1>12, StampDoes
  <2>2. n.kind = "notify"
    BY <2>1, ReqTyped DEF Aimed, SameAim
  <2> QED
    BY <1>5, <2>1, <2>2
<1>13. ASSUME NEW p \in Pairs, Write(r, p) PROVE StampsRead(r)'
  <2>1. /\ q.step = "write"
        /\ n = NoRequest \/ (SameAim(q, n) /\ n.mark = q.mark /\ n.opens = q.opens)
    BY <1>13, WriteDoes
  <2>2. q.kind \in {"verdict", "add", "batch", "notme"}
    BY <2>1, ReqTyped DEF Aimed
  <2> QED
    BY <1>4, <1>5, <2>1, <2>2 DEF SameAim
<1>14. ASSUME Undo(r) \/ Record(r) \/ End(r) PROVE StampsRead(r)'
  BY <1>4, <1>14, DoneDoes DEF Undo, Record, End
<1> QED
  BY <1>7, <1>8, <1>9, <1>10, <1>11, <1>12, <1>13, <1>14, RequestCases

LEMMA StampsStep == Typed /\ StampsTrue /\ [Next]_vars => StampsTrue'
<1> SUFFICES ASSUME Typed, StampsTrue, [Next]_vars PROVE StampsTrue'
  OBVIOUS
<1>1. CASE UNCHANGED vars
  BY <1>1 DEF vars, inbox, history, StampsTrue, OpenedIsSeen, StampsRead, StoodSo
<1>2. CASE Next
  <2>1. OpenedIsSeen' /\ Typed'
    BY <1>2, OpenedStep, TypedStep DEF StampsTrue
  <2>2. ASSUME NEW r \in Requests PROVE StampsRead(r)'
    <3>1. StampsRead(r) /\ OpenedIsSeen
      BY DEF StampsTrue
    <3>2. CASE req'[r] = req[r]
      BY <1>2, <2>1, <3>1, <3>2, StampsReadStay
    <3>3. CASE RequestStep(r)
      BY <1>2, <2>1, <3>1, <3>3, StampsReadStep
    <3> QED
      BY <1>2, <3>2, <3>3, RequestsGoOn
  <2> QED
    BY <2>1, <2>2 DEF StampsTrue
<1> QED
  BY <1>1, <1>2

\* An event is new to a student until they open it, and again after each announcement by
\* hand, or each completion if announced on its own: the stamps tell so at any time, and
\* the inbox and the roster, which read them one after the other, say what was so at some
\* moment of the request.
THEOREM InboxStaysTrue == Spec => []InboxIsTrue
<1> DEFINE Inv == Typed /\ StampsTrue
<1>1. Init => Inv
  <2>1. ASSUME Init PROVE StampsTrue
    <3>1. OpenedIsSeen
      BY <2>1 DEF Init, OpenedIsSeen
    <3>2. \A r \in Requests : StampsRead(r)
      BY <2>1, NothingTyped DEF Init, StampsRead
    <3> QED
      BY <3>1, <3>2 DEF StampsTrue
  <2> QED
    BY <2>1, TypedInit
<1>2. Inv /\ [Next]_vars => Inv'
  BY TypedStep, StampsStep
<1>3. Inv => InboxIsTrue
  <2> SUFFICES ASSUME Typed, StampsTrue PROVE InboxIsTrue
    OBVIOUS
  <2>1. \A s \in Students : Standing(seen[s], EffectiveAnnouncedAt(event)) = Stands(s)
    BY StandsIs DEF StampsTrue, EffectiveAt
  <2>2. ASSUME NEW r \in Requests, req[r].step = "answer", req[r].kind \in {"inbox", "roster"},
               NEW p \in req[r].pairs
        PROVE  <<p[1], Standing(req[r].opens[p[1]], req[r].mark)>> \in stoodSince[r]
    <3>1. p[1] \in Students
      BY ReqTyped DEF Pairs
    <3> QED
      BY <2>2, <3>1 DEF StampsTrue, StampsRead, StoodSo
  <2> QED
    BY <2>1, <2>2 DEF InboxIsTrue
<1> QED
  BY <1>1, <1>2, <1>3, PTL DEF Spec

-----------------------------------------------------------------------------
\* Who is shown.

\* A request that has put together what it shows, offers or announces.
InHand(q) ==
  \/ q.step \in {"answer", "record", "stamp", "event"}
  \/ q.step = "write" /\ q.kind = "notme"
  \/ q.step = "reads" /\ q.kind = "inbox"

EntitledSo(r) ==
  \/ {p \in req[r].pairs : p[1] \in indexed} \subseteq heldSince[r]
  \/ req[r].kind = "lane" /\ churned

ShownSo == \A r \in Requests : InHand(req[r]) => EntitledSo(r)

Reading(q) == q.step \notin {"idle", "undo"} /\ ~ Writes(q)

ReadSo(r) ==
  req[r].step = "corrections" =>
    /\ req[r].read \cup req[r].flagged \subseteq InScope(req[r], Pairs)
    /\ \A p \in req[r].read : p[1] \in indexed => Matched(p)
    /\ req[r].kind = "lane" =>
         \A p \in req[r].flagged : churned \/ Flagged(p) \/ p \in heldSince[r]

LEMMA ReadsHoldIs ==
  ReadsHold <=> \A r \in Requests : (Reading(req[r]) => Held(r) \subseteq heldSince[r]) /\ ReadSo(r)
BY DEF ReadsHold, Reading, ReadSo

\* What a request remembers only grows, by what holds now.
LEMMA HeldGrows ==
  ASSUME Typed, Next, NEW r \in Requests, Reading(req'[r])
  PROVE  heldSince[r] \subseteq heldSince'[r] /\ Held(r)' \subseteq heldSince'[r]
BY Witnessed DEF Witness, Reading

\* Whoever is in hand is being read for.
LEMMA InHandReads ==
  ASSUME NEW q, Aimed(q), InHand(q)
  PROVE  Reading(q)
BY DEF InHand, Reading, Aimed, Writes

\* While the index knows a student no match of theirs goes; and a match that loses its flag
\* had no correction, or the change is known.
LEMMA MatchesGoOn ==
  ASSUME Typed, Forgotten, Next, NEW p \in Pairs
  PROVE  /\ indexed' \subseteq indexed /\ (churned => churned')
         /\ p[1] \in indexed /\ Matched(p) => Matched(p)'
         /\ Flagged(p) => Flagged(p)' \/ churned' \/ corrections[p] = NoRow
<1> USE DEF results, inbox, history
<1>1. matches \in [Pairs -> MatchRows \cup {NoRow}]
  BY DEF Typed, RowsTyped
<1>2. indexed' \subseteq indexed
  BY ErasureGoesOn
<1>3. ASSUME UNCHANGED matches
      PROVE  /\ p[1] \in indexed /\ Matched(p) => Matched(p)'
             /\ Flagged(p) => Flagged(p)'
  BY <1>3 DEF Matched, Flagged
<1>4. ASSUME NEW w \in Workers, SaveMatches(w)
      PROVE  /\ churned => churned'
             /\ p[1] \in indexed /\ Matched(p) => Matched(p)'
             /\ Flagged(p) => Flagged(p)' \/ churned' \/ corrections[p] = NoRow
  <2> DEFINE m == run[w].photo
             new == PeopleOf[run[w].scene]
             W == {y \in Pairs : /\ y[2] = m /\ y[1] \in DOMAIN new
                                 /\ Better(matches[y], new[y[1]])}
             P == {y \in W : matches[y] # new[y[1]]}
  <2>1. /\ matches' = [y \in Pairs |-> IF y \in W THEN new[y[1]] ELSE matches[y]]
        /\ Churn(P)
    BY <1>4 DEF SaveMatches
  <2>2. p \in P \/ matches'[p] = matches[p]
    BY <2>1
  <2>3. p \in P => churned' \/ corrections[p] = NoRow
    <3> HIDE DEF P
    <3> QED
      BY <2>1 DEF Churn
  <2>4. Matched(p) => Matched(p)'
    <3>1. matches'[p] = matches[p] \/ (p[1] \in DOMAIN new /\ matches'[p] = new[p[1]])
      BY <1>4, SaveMatchesDoes
    <3>2. \A s \in DOMAIN new : new[s] \in MatchRows
      BY <1>4, SaveMatchesDoes, ScenePeople
    <3>3. NoRow \notin MatchRows
      BY NoRowAssumption DEF MatchRows
    <3> HIDE DEF new
    <3> QED
      BY <3>1, <3>2, <3>3 DEF Matched
  <2>5. churned => churned'
    BY <2>1 DEF Churn
  <2> HIDE DEF P, W, new
  <2> QED
    BY <2>2, <2>3, <2>4, <2>5 DEF Flagged, Matched
<1>5. ASSUME NEW s \in Students, PurgeMatches(s)
      PROVE  /\ churned => churned'
             /\ p[1] \in indexed /\ Matched(p) => Matched(p)'
             /\ Flagged(p) => Flagged(p)' \/ churned' \/ corrections[p] = NoRow
  <2> DEFINE P == {y \in AllMatched : y[1] = s}
  <2>1. /\ matches' = [y \in Pairs |-> IF y[1] = s THEN NoRow ELSE matches[y]]
        /\ Churn(P) /\ s \notin indexed
    BY <1>5 DEF PurgeMatches, Forgotten
  <2>2. p \in P => churned' \/ corrections[p] = NoRow
    <3> HIDE DEF P
    <3> QED
      BY <2>1 DEF Churn
  <2>3. Matched(p) => p \in P \/ matches'[p] = matches[p]
    BY <2>1 DEF AllMatched
  <2>4. churned => churned'
    BY <2>1 DEF Churn
  <2>5. p[1] \in indexed /\ Matched(p) => Matched(p)'
    BY <2>1 DEF Matched
  <2> HIDE DEF P
  <2> QED
    BY <2>2, <2>3, <2>4, <2>5 DEF Flagged, Matched
<1>6. ASSUME \A w \in Workers : ~ SaveMatches(w), \A s \in Students : ~ PurgeMatches(s)
      PROVE  UNCHANGED <<matches, churned>>
  <2>1. CASE \E w \in Workers : WorkerStep(w)
    BY <1>6, <2>1 DEF WorkerStep, Recognise, SaveDetections, WorkerDies
  <2>2. CASE \E s \in Students : ErasureStep(s)
    BY <1>6, <2>2 DEF ErasureStep, Unindex, UnindexBreaks, PurgeCandidates, DeleteRow, ErasureStops
  <2>3. CASE Complete \/ SwitchEvent \/ \E s \in Students : MarkSeen(s)
    BY <2>3 DEF Complete, SwitchEvent, MarkSeen
  <2>4. CASE \E r \in Requests : RequestStep(r)
    BY <2>4, RequestCases DEF Begin, ReadMatches, ReadCorrections, ReadReads, ReadEvent, Write,
       Undo, Record, Stamp, End
  <2> QED
    BY <2>1, <2>2, <2>3, <2>4 DEF Next
<1> QED
  BY <1>2, <1>3, <1>4, <1>5, <1>6

\* A request that is not at a step meanwhile.
LEMMA ReadSoStays ==
  ASSUME Typed, Forgotten, ReadsHold, Next, NEW r \in Requests, req'[r] = req[r]
  PROVE  ReadSo(r)'
<1> SUFFICES ASSUME req[r].step = "corrections"
             PROVE  /\ req[r].read \cup req[r].flagged \subseteq InScope(req[r], Pairs)
                    /\ \A p \in req[r].read : p[1] \in indexed' => Matched(p)'
                    /\ req[r].kind = "lane" =>
                         \A p \in req[r].flagged : churned' \/ Flagged(p)' \/ p \in heldSince'[r]
  BY DEF ReadSo
<1>1. Reading(req[r])
  BY ReqTyped DEF Reading, Aimed
<1>2. /\ Held(r) \subseteq heldSince[r] /\ heldSince[r] \subseteq heldSince'[r]
      /\ ReadSo(r)
  BY <1>1, HeldGrows, ReadsHoldIs
<1>3. req[r].read \subseteq Pairs /\ req[r].flagged \subseteq Pairs
  BY ReqTyped
<1>4. \A p \in req[r].read : p[1] \in indexed' => Matched(p)'
  BY <1>2, <1>3, MatchesGoOn DEF ReadSo
<1>5. ASSUME req[r].kind = "lane", NEW p \in req[r].flagged
      PROVE  churned' \/ Flagged(p)' \/ p \in heldSince'[r]
  <2>1. churned \/ Flagged(p) \/ p \in heldSince[r]
    BY <1>2, <1>5 DEF ReadSo
  <2>2. CASE Flagged(p) /\ corrections[p] = NoRow
    <3>1. p \in InScope(req[r], Pairs)
      BY <1>2 DEF ReadSo
    <3>2. Belongs("lane", p)
      BY <2>2 DEF Belongs, Verdict
    <3>3. p \in Held(r)
      BY <1>5, <3>1, <3>2 DEF Held
    <3> QED
      BY <1>2, <3>3
  <2> QED
    BY <1>2, <1>3, <2>1, <2>2, MatchesGoOn
<1> QED
  BY <1>2, <1>4, <1>5 DEF ReadSo

LEMMA ReadSoStep ==
  ASSUME Typed, NEW r \in Requests, RequestStep(r)
  PROVE  ReadSo(r)'
<1>1. CASE req'[r].step # "corrections"
  BY <1>1 DEF ReadSo
<1>2. CASE req'[r].step = "corrections"
  <2>1. ReadMatches(r)
    <3>1. ASSUME ReadCorrections(r) PROVE FALSE
      BY <1>2, <3>1, ReadCorrectionsDoes, AfterIs, NothingTyped
    <3> QED
      BY <1>2, <3>1, RequestCases, BeginDoes, ReadReadsDoes, ReadEventDoes, WriteDoes, StampDoes,
         DoneDoes, NothingTyped DEF Fresh, Undo, Record, End
  <2>2. /\ SameAim(req[r], req'[r]) /\ req'[r].read = InScope(req[r], AllMatched)
        /\ req'[r].flagged = InScope(req[r], AllFlagged) /\ UNCHANGED matches
    BY <2>1, ReadMatchesDoes DEF ReadMatches, results
  <2>3. InScope(req'[r], Pairs) = InScope(req[r], Pairs)
    BY <2>2 DEF SameAim, InScope
  <2>4. /\ req'[r].read \cup req'[r].flagged \subseteq InScope(req[r], Pairs)
        /\ \A p \in req'[r].read : Matched(p)
        /\ \A p \in req'[r].flagged : Flagged(p)
    BY <2>2 DEF InScope, AllMatched, AllFlagged
  <2>5. \A p : (Matched(p)' <=> Matched(p)) /\ (Flagged(p)' <=> Flagged(p))
    BY <2>2 DEF Matched, Flagged
  <2> QED
    BY <2>3, <2>4, <2>5 DEF ReadSo
<1> QED
  BY <1>1, <1>2

LEMMA ReadsStep == Typed /\ Forgotten /\ ReadsHold /\ [Next]_vars => ReadsHold'
<1> SUFFICES ASSUME Typed, Forgotten, ReadsHold, [Next]_vars PROVE ReadsHold'
  OBVIOUS
<1>1. CASE UNCHANGED vars
  BY <1>1 DEF vars, results, inbox, history, ReadsHold, Held, InScope, Belongs, Matched, Flagged,
     Verdict, Writes
<1>2. CASE Next
  <2>1. ASSUME NEW r \in Requests PROVE ReadSo(r)'
    BY <1>2, ReadSoStays, ReadSoStep, RequestsGoOn
  <2>2. ASSUME NEW r \in Requests, Reading(req'[r]) PROVE Held(r)' \subseteq heldSince'[r]
    BY <1>2, <2>2, HeldGrows
  <2> QED
    BY <2>1, <2>2 DEF ReadsHold, Reading, ReadSo
<1> QED
  BY <1>1, <1>2

LEMMA ChurnedStays ==
  ASSUME Typed, Next
  PROVE  churned => churned'
<1> USE DEF results, inbox, history
<1>1. CASE \E w \in Workers : WorkerStep(w)
  BY <1>1 DEF WorkerStep, Recognise, SaveMatches, SaveDetections, WorkerDies, Churn
<1>2. CASE \E s \in Students : ErasureStep(s)
  BY <1>2 DEF ErasureStep, Unindex, UnindexBreaks, PurgeMatches, PurgeCandidates, DeleteRow,
       ErasureStops, Churn
<1>3. CASE Complete \/ SwitchEvent \/ \E s \in Students : MarkSeen(s)
  BY <1>3 DEF Complete, SwitchEvent, MarkSeen
<1>4. CASE \E r \in Requests : RequestStep(r)
  BY <1>4, RequestCases DEF Begin, ReadMatches, ReadCorrections, ReadReads, ReadEvent, Write,
     Undo, Record, Stamp, End
<1> QED
  BY <1>1, <1>2, <1>3, <1>4 DEF Next

\* Pairs in hand stay rightly there.
LEMMA EntitledStays ==
  ASSUME Typed, Forgotten, Next, NEW r \in Requests, EntitledSo(r), Reading(req'[r]),
         req'[r].pairs \subseteq req[r].pairs, req'[r].kind = req[r].kind
  PROVE  EntitledSo(r)'
<1>1. heldSince[r] \subseteq heldSince'[r] /\ indexed' \subseteq indexed
  BY HeldGrows, ErasureGoesOn
<1>2. churned => churned'
  BY ChurnedStays
<1> QED
  BY <1>1, <1>2 DEF EntitledSo

\* The answer put together from the two reads: each pair of it belongs there now, for a
\* student whose matches cannot have gone since, or did since the request began.
LEMMA FoundIsHeld ==
  ASSUME Typed, Forgotten, ReadsHold, Next, NEW r \in Requests, ReadCorrections(r),
         req'[r] # NoRequest
  PROVE  EntitledSo(r)'
<1> DEFINE q == req[r]
           n == req'[r]
<1>1. /\ q.step = "corrections" /\ SameAim(q, n) /\ n.pairs = Found(q) /\ Aimed(n)
      /\ n.step = After(q.kind) /\ Aimed(q)
  BY ReadCorrectionsDoes, ReqTyped
<1>2. n.kind = q.kind /\ n.who = q.who /\ n.photo = q.photo
  BY <1>1 DEF SameAim
<1>3. Reading(q) /\ Reading(n)
  BY <1>1, <1>2, AfterIs DEF Reading, Aimed, Writes
<1>4. heldSince[r] \subseteq heldSince'[r] /\ Held(r)' \subseteq heldSince'[r]
  BY <1>3, HeldGrows
<1>5. ReadSo(r) /\ q.read \subseteq Pairs /\ q.flagged \subseteq Pairs
  BY ReadsHoldIs, ReqTyped
<1>6. UNCHANGED <<matches, corrections, indexed, churned>>
  BY DEF ReadCorrections, results, history
<1>7. Held(r)' = {p \in InScope(q, Pairs) : Belongs(q.kind, p)}
  <2>1. InScope(n, Pairs) = InScope(q, Pairs)
    BY <1>2 DEF InScope
  <2>2. ASSUME NEW p PROVE Belongs(q.kind, p)' <=> Belongs(q.kind, p)
    <3>1. Matched(p)' = Matched(p) /\ Flagged(p)' = Flagged(p) /\ Verdict(p)' = Verdict(p)
      BY <1>6 DEF Matched, Flagged, Verdict
    <3>2. q.kind' = n.kind
      OBVIOUS
    <3>3. CASE q.kind = "lane"
      BY <1>2, <3>1, <3>2, <3>3 DEF Belongs
    <3>4. CASE q.kind = "detail"
      BY <1>2, <3>1, <3>2, <3>4 DEF Belongs
    <3>5. CASE q.kind \in {"save", "notme"}
      BY <1>2, <3>1, <3>2, <3>5 DEF Belongs
    <3>6. CASE q.kind \notin {"lane", "detail", "save", "notme"}
      BY <1>2, <3>1, <3>2, <3>6 DEF Belongs
    <3> QED
      BY <3>3, <3>4, <3>5, <3>6
  <2> QED
    BY <1>2, <2>1, <2>2 DEF Held
<1>8. ASSUME NEW p \in Found(q), p[1] \in indexed, ~ (q.kind = "lane" /\ churned)
      PROVE  p \in heldSince'[r]
  <2> DEFINE O == Overlay(q.kind, q.read, q.flagged, Verdicts)
  <2>1. p \in InScope(q, O) /\ p \in O /\ O \subseteq Pairs
    BY <1>5, OverlayIs DEF Found, InScope
  <2>2. p \in Pairs /\ p \in InScope(q, Pairs) /\ Verdicts[p] = Verdict(p)
    BY <2>1 DEF InScope, Verdicts
  <2>3. p \in q.read => Matched(p)
    BY <1>1, <1>5, <1>8 DEF ReadSo
  <2>4. CASE q.kind = "lane"
    <3>1. p \in q.flagged /\ Verdict(p) = "none"
      BY <2>1, <2>2, <2>4, OverlayIs DEF InLane
    <3>2. Flagged(p) \/ p \in heldSince[r]
      BY <1>1, <1>5, <1>8, <2>4, <3>1 DEF ReadSo
    <3>3. Flagged(p) => Belongs(q.kind, p)
      BY <2>4, <3>1 DEF Belongs
    <3> QED
      BY <1>4, <1>7, <2>2, <3>2, <3>3
  <2>5. CASE q.kind = "detail"
    <3>1. p \in q.read \/ Verdict(p) = "added"
      BY <2>1, <2>2, <2>5, OverlayIs DEF OnDetail
    <3>2. Belongs(q.kind, p)
      BY <2>3, <2>5, <3>1 DEF Belongs
    <3> QED
      BY <1>4, <1>7, <2>2, <3>2
  <2>6. CASE q.kind \in {"save", "notme"}
    <3>1. (p \in q.read /\ Verdict(p) # "rejected") \/ Verdict(p) \in {"added", "confirmed"}
      BY <2>1, <2>2, <2>6, OverlayIs DEF OverMedia
    <3>2. Belongs(q.kind, p)
      BY <2>3, <2>6, <3>1 DEF Belongs
    <3> QED
      BY <1>4, <1>7, <2>2, <3>2
  <2>7. CASE q.kind \notin {"save", "notme", "detail", "lane"}
    <3>1. (p \in q.read /\ Verdict(p) # "rejected") \/ Verdict(p) = "added"
      BY <2>1, <2>2, <2>7, OverlayIs DEF OverPairs
    <3>2. Belongs(q.kind, p)
      BY <2>3, <2>7, <3>1 DEF Belongs
    <3> QED
      BY <1>4, <1>7, <2>2, <3>2
  <2> QED
    BY <2>4, <2>5, <2>6, <2>7
<1> QED
  BY <1>1, <1>2, <1>6, <1>8 DEF EntitledSo

LEMMA ShownStep ==
  ASSUME Typed, Forgotten, ReadsHold, ShownSo, Next, NEW r \in Requests, InHand(req'[r])
  PROVE  EntitledSo(r)'
<1> DEFINE q == req[r]
           n == req'[r]
<1>1. Typed'
  BY TypedStep
<1>2. Reading(n)
  <2>1. Aimed(n)
    BY <1>1 DEF Typed
  <2> QED
    BY <2>1, InHandReads
<1>3. ASSUME InHand(q), n.pairs \subseteq q.pairs, n.kind = q.kind PROVE EntitledSo(r)'
  BY <1>2, <1>3, EntitledStays DEF ShownSo
<1>4. n # NoRequest
  BY NothingTyped DEF InHand
<1>5. CASE n = q
  BY <1>3, <1>5
<1>6. ASSUME NEW b \in RequestRecords, Fresh(b), Begin(r, b) PROVE FALSE
  <2>1. n = b
    BY <1>6, BeginDoes
  <2>2. b.step \in {"matches", "reads", "undo"} /\ (b.kind = "roster" <=> b.step = "reads")
    BY <1>6 DEF Fresh
  <2> QED
    BY <2>1, <2>2 DEF InHand
<1>7. ASSUME ReadMatches(r) PROVE FALSE
  <2>1. /\ n.kind = q.kind
        /\ n.step = IF Writes(q) THEN "write" ELSE "corrections"
    BY <1>7, ReadMatchesDoes DEF SameAim
  <2> QED
    BY <2>1 DEF InHand, Writes
<1>8. ASSUME ReadCorrections(r) PROVE EntitledSo(r)'
  BY <1>4, <1>8, FoundIsHeld
<1>9. ASSUME ReadReads(r) PROVE EntitledSo(r)'
  <2>1. /\ n.kind = q.kind /\ q.step = "reads" /\ n.pairs = q.pairs
        /\ n.step = IF q.kind = "inbox" THEN "event" ELSE "matches"
    BY <1>9, ReadReadsDoes DEF SameAim
  <2>2. InHand(q)
    BY <2>1 DEF InHand
  <2> QED
    BY <1>3, <2>1, <2>2
<1>10. ASSUME ReadEvent(r) PROVE EntitledSo(r)'
  <2>1. n.kind = q.kind /\ q.step = "event" /\ n.pairs = q.pairs
    BY <1>10, ReadEventDoes DEF SameAim
  <2> QED
    BY <1>3, <2>1 DEF InHand
<1>11. ASSUME Stamp(r) PROVE EntitledSo(r)'
  <2>1. n.kind = q.kind /\ q.step = "stamp" /\ n.pairs = q.pairs
    BY <1>11, StampDoes DEF SameAim
  <2> QED
    BY <1>3, <2>1 DEF InHand
<1>12. ASSUME NEW p \in Pairs, Write(r, p) PROVE EntitledSo(r)'
  <2>1. n.kind = q.kind /\ q.step = "write" /\ n.step = "write" /\ n.pairs \subseteq q.pairs
    BY <1>4, <1>12, WriteDoes DEF SameAim
  <2> QED
    BY <1>3, <2>1 DEF InHand
<1>13. ASSUME Undo(r) \/ Record(r) \/ End(r) PROVE FALSE
  BY <1>4, <1>13, DoneDoes DEF Undo, Record, End
<1> QED
  BY <1>5, <1>6, <1>7, <1>8, <1>9, <1>10, <1>11, <1>12, <1>13, RequestsGoOn, RequestCases

\* What a request lists, offers for download, counts as open, or announces is held together
\* from two reads of two databases; each pair in it was rightly there at some moment of the
\* request: nobody is shown a photo that was theirs neither before nor after, whatever runs
\* and corrections fell between the reads, as long as the index knows the student.
THEOREM ShownStayEntitled == Spec => []ShownWereEntitled
<1> DEFINE Inv == Typed /\ Forgotten /\ ReadsHold /\ ShownSo
<1>1. Init => Inv
  <2>1. ASSUME Init PROVE ReadsHold /\ ShownSo
    <3>1. \A r \in Requests : req[r].step = "idle"
      BY <2>1, NothingTyped DEF Init
    <3> QED
      BY <3>1 DEF ReadsHold, ShownSo, InHand
  <2> QED
    BY <2>1, TypedInit, ForgottenInit
<1>2. Inv /\ [Next]_vars => Inv'
  <2> SUFFICES ASSUME Inv, [Next]_vars PROVE Inv'
    OBVIOUS
  <2>1. Typed' /\ Forgotten' /\ ReadsHold'
    BY TypedStep, ForgottenStep, ReadsStep
  <2>2. CASE UNCHANGED vars
    <3>1. ShownSo'
      BY <2>2 DEF vars, history, ShownSo, EntitledSo
    <3> QED
      BY <2>1, <3>1
  <2>3. CASE Next
    <3>1. ShownSo'
      BY <2>3, ShownStep DEF ShownSo
    <3> QED
      BY <2>1, <3>1
  <2> QED
    BY <2>2, <2>3
<1>3. Inv => ShownWereEntitled
  BY DEF ShownSo, InHand, EntitledSo, ShownWereEntitled
<1> QED
  BY <1>1, <1>2, <1>3, PTL DEF Spec

=============================================================================
