--------------------------- MODULE MCEventPipeline ---------------------------
(* Instances of EventPipeline for TLC. *)
EXTENDS EventPipeline, TLC
CONSTANTS e1, p1

OneEvent == {e1}
PhotosOfOne1 == [p \in {p1} |-> e1]

Symmetric == Permutations(Workers) \cup Permutations(Callers)

\* With every photo begun and every job of the bound in use, a request that has
\* not reached SetQueued changes nothing any more, and what only requests and
\* uploads read (active, enqueuedAt) decides nothing: such states are told apart
\* by the rest alone. Sound for what reads none of these.
AllInUse ==
  (\A m \in Photos : media[m] # "absent") /\ (\A i \in Jobs : entry[i] # "none")

WithoutIdleRequests ==
  <<evStatus, media, streamVars, dlq, loopVars, sweepVars, faults, histVars,
    IF AllInUse THEN {rEvent[c] : c \in {d \in Callers : rpc[d] = "flip"}}
    ELSE <<enqueuedAt, active, callVars, stales, flips>>>>
=============================================================================
