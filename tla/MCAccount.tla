----------------------------- MODULE MCAccount -----------------------------
EXTENDS Account, TLC

CONSTANTS r1, r2

MCRequests == {r1, r2}
MCPoints == {"home", "sea"}
MCRegionOf == "home" :> "centre" @@ "sea" :> NoRegion
Symmetry == Permutations(MCRequests)
=============================================================================
