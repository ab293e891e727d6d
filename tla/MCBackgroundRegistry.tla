------------------------ MODULE MCBackgroundRegistry ------------------------
(***************************************************************************)
(* Instances of BackgroundRegistry for TLC.                                *)
(***************************************************************************)
EXTENDS BackgroundRegistry, TLC

CONSTANTS e1, e2, h1, h2, k1, k2, d1, d2

Symmetry ==
    UNION {Permutations(S) : S \in {Entries, Handlers, Keys, Dirs}}
=============================================================================
