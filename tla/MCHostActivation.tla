--------------------------- MODULE MCHostActivation ---------------------------
(* An instance of HostActivation for TLC.                                    *)
EXTENDS HostActivation, TLC

\* Nothing orders pids or instances.
MCSymmetry == Permutations(Pids) \cup Permutations(Instances)
=============================================================================
