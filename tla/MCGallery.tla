----------------------------- MODULE MCGallery -----------------------------
(* Instances of Gallery for model checking. *)
EXTENDS Gallery, TLC

CONSTANTS s, t

Seen(who, score) == [student |-> who, score |-> score]

\* With Confidence 2 and GapLimit 1: a gap of exactly the limit, and a second face, less
\* sure, beside a hit below the threshold; a clear winner with hits of theirs on both sides
\* of the other student's.
TwoViews ==
  <<<<<<Seen(s, 4), Seen(t, 3)>>, <<Seen(s, 2), Seen(t, 1)>>>>,
    <<<<Seen(t, 4), Seen(s, 2), Seen(t, 3), Seen(s, 1)>>>>>>

Symmetric == Permutations(Requests) \cup Permutations(Workers)

=============================================================================
