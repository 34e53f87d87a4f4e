----------------------------- MODULE MCTransgate -----------------------------
(* Small instances of Transgate for TLC.                                    *)
EXTENDS Transgate, TLC

\* Connections and descriptors are interchangeable in the safety runs.
Symmetry == Permutations(Conn) \cup Permutations(Fd)
=============================================================================
