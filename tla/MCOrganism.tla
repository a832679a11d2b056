----------------------------- MODULE MCOrganism -----------------------------
(* Instances of an organism's container for TLC. *)
EXTENDS Organism

TwoInputs == {"base", "more"}
=============================================================================
