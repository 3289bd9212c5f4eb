------------------------- MODULE MCStudentLifecycle -------------------------
(* Instances of StudentLifecycle for model checking. *)
EXTENDS StudentLifecycle

CONSTANTS p1, p2

TwoPhotos == {p1, p2}
NoFace    == {p2}
AllFaces  == {}

=============================================================================
