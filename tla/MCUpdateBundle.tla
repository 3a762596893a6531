--------------------------- MODULE MCUpdateBundle ---------------------------
(* Instances of UpdateBundle for TLC.                                      *)
EXTENDS UpdateBundle, TLC

\* Applications other than Omaha are interchangeable.  Used only where no
\* liveness property is checked.
Symmetry == Permutations(AppIds \ {Omaha})
=============================================================================
