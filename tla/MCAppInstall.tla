---------------------------- MODULE MCAppInstall ----------------------------
EXTENDS AppInstall, TLC

\* The bundles' threads are interchangeable.
Symmetry == Permutations(Workers)
=============================================================================
