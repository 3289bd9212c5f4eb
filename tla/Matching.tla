------------------------------- MODULE Matching -------------------------------
(***************************************************************************)
(* Who is recognised on a photo: the decision for one face from the        *)
(* candidates of the index search, and the photo's people from the         *)
(* decisions for its faces.  Pure: no state.                               *)
(*                                                                         *)
(* A face is the sequence of its candidates [student, score] in the order  *)
(* of the search, a scene the sequence of the faces of a photo's frames.   *)
(***************************************************************************)
EXTENDS Integers, Sequences

CONSTANTS
  Confidence,  \* match_confidence: the score a candidate must reach
  GapLimit     \* gap: two students closer than this need a person's look

ASSUME ThresholdsAssumption == Confidence \in Nat /\ GapLimit \in Nat

Clears(c) == c.score >= Confidence

Clearing(face) == {i \in DOMAIN face : Clears(face[i])}

\* The students of a face, each once, however many embeddings the search found of them.
Named(face) == {face[i].student : i \in Clearing(face)}

HitsOf(face, s) == {i \in Clearing(face) : face[i].student = s}

\* The first of the student's hits with the highest score.
BestHit(face, s) ==
  CHOOSE i \in HitsOf(face, s) : \A j \in HitsOf(face, s) :
    face[j].score < face[i].score \/ (face[j].score = face[i].score /\ i <= j)

BestScore(face, s) == face[BestHit(face, s)].score

\* The dictionary of best hits keeps the order in which the students were first seen.
SeenBefore(face, s, t) == \E i \in HitsOf(face, s) : \A j \in HitsOf(face, t) : i < j

\* Sorted by score, highest first, equal scores in the order of the dictionary.
Outranks(face, s, t) ==
  \/ BestScore(face, s) > BestScore(face, t)
  \/ BestScore(face, s) = BestScore(face, t) /\ SeenBefore(face, s, t)

First(face) == {s \in Named(face) : \A t \in Named(face) \ {s} : Outranks(face, s, t)}

Second(face) ==
  LET others == Named(face) \ First(face)
  IN {s \in others : \A t \in others \ {s} : Outranks(face, s, t)}

\* A mutant: a gap of exactly the limit counts as clear.
ClearWinnerAtLimit(face) ==
  \A s \in First(face), t \in Second(face) :
    BestScore(face, s) - BestScore(face, t) >= GapLimit

\* The first student is clearly ahead of the second, or is alone.
ClearWinner(face) ==
  \A s \in First(face), t \in Second(face) :
    BestScore(face, s) - BestScore(face, t) > GapLimit

\* The students a face is taken for: a clear winner, or the two best, to be reviewed.
Emitted(face) == IF ClearWinner(face) THEN First(face) ELSE First(face) \cup Second(face)

\* The photo's people, each with their best hit over its faces, the first of equal ones.
People(scene) == UNION {Emitted(scene[i]) : i \in DOMAIN scene}

BestFace(scene, s) ==
  LET on == {i \in DOMAIN scene : s \in Emitted(scene[i])}
  IN CHOOSE i \in on : \A j \in on :
       \/ BestScore(scene[j], s) < BestScore(scene[i], s)
       \/ BestScore(scene[j], s) = BestScore(scene[i], s) /\ i <= j

\* The match record of one of the people.
Hit(scene, s) ==
  LET face == scene[BestFace(scene, s)]
  IN [score |-> BestScore(face, s), review |-> ~ClearWinner(face)]
=============================================================================
