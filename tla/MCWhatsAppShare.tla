-------------------------- MODULE MCWhatsAppShare --------------------------
(* Instances of WhatsAppShare for model checking. *)
EXTENDS WhatsAppShare, TLC

\* Setting or clearing the interim number, everything else left alone.
InterimEdits == {[interim |-> i, ready |-> "keep"] : i \in {"set", "clear"}}

Symmetric == Permutations(Students) \cup Permutations(Media) \cup Permutations(Batches)

=============================================================================
