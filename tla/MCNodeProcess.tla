---------------------------- MODULE MCNodeProcess ----------------------------
(* Bounds for TLC: two requests at a time; texts of three lengths, so that *)
(* a shorter one is written over a longer one; one restart within a        *)
(* second and after it.                                                    *)
EXTENDS NodeProcess, TLC

CONSTANTS r1, r2, auto, long, dirs

MCValues == {Empty, NoNAT, auto, long, dirs}
MCValuesOf ==
    ("info" :> {Empty, long}) @@ ("nat" :> {auto}) @@ ("dir" :> {dirs})
        @@ ("auth" :> {}) @@ ("mfs" :> {dirs})
MCWidth == (Empty :> 0) @@ (NoNAT :> 1) @@ (auto :> 1) @@ (long :> 2) @@ (dirs :> 1)
MCSymmetry == Permutations(Reqs)

=============================================================================
