----------------------------- MODULE FaceRoster -----------------------------
(***************************************************************************)
(* What the VectorIndex port promises of one school: a roster that says,   *)
(* for each student, which enrolment its faces come from (0: none). An     *)
(* upsert replaces all of one student's faces at once, a delete removes    *)
(* them all at once, and neither touches another student.                  *)
(***************************************************************************)
EXTENDS Naturals

CONSTANTS Students, Enrolments

VARIABLE roster

Init == roster = [s \in Students |-> 0]

Enrol(s, e) ==
  /\ \A t \in Students : roster[t] # e
  /\ roster' = [roster EXCEPT ![s] = e]

Erase(s) == roster' = [roster EXCEPT ![s] = 0]

Next == \E s \in Students : Erase(s) \/ \E e \in Enrolments : Enrol(s, e)

Spec == Init /\ [][Next]_roster

=============================================================================
