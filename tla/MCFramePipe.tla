----------------------------- MODULE MCFramePipe -----------------------------
(* Small instances of FramePipe for TLC.                                    *)
EXTENDS FramePipe, TLC

\* Clients and instances are interchangeable in every safety property.
Symmetry == Permutations(Clients) \cup Permutations(Instances)
=============================================================================
