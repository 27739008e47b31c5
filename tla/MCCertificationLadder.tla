----------------------- MODULE MCCertificationLadder -----------------------
(* Printers, exports and jobs are interchangeable.                          *)
EXTENDS CertificationLadder, TLC

Symmetry == Permutations(Printers) \cup Permutations(Exports) \cup Permutations(Jobs)

=============================================================================
