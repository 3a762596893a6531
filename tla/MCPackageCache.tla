--------------------------- MODULE MCPackageCache ---------------------------
EXTENDS PackageCache, TLC

\* An honest server with crashes, and everything at once.
HonestOrNot == {{"crash"}, {"server", "copy", "crash", "delete"}}

\* Nothing goes wrong.
Perfect == {{}}

\* Bundles that download are interchangeable.
Symmetry == Permutations(Users)
=============================================================================
