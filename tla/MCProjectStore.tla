--------------------------- MODULE MCProjectStore ---------------------------
(* ProjectStore with the symmetry of its ids: handlers, projects and        *)
(* documents are only ever compared for equality.                           *)
EXTENDS ProjectStore, TLC

Symmetry ==
    Permutations(Handlers) \cup Permutations(Projects) \cup Permutations(Documents)
=============================================================================
