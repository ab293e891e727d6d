------------------------ MODULE MCArtifactDelivery ------------------------
EXTENDS ArtifactDelivery

Git == <<".git">>
D == <<"d">>
C == <<"d", "c">>
E == <<"e">>
MCWalkOrder == <<<<>>, Git, D, C, E>>
MCPatterns == <<[group |-> "g", pattern |-> <<"**">>],
                [group |-> "g", pattern |-> <<"e">>],
                [group |-> "nul", pattern |-> <<"d", "*">>]>>
MCSensitive == {".git"}
MCReserved == {"nul"}

Leaf(path, trees, kinds) == {[t EXCEPT ![path] = k] : t \in trees, k \in kinds}
Empty == [p \in ToSet(MCWalkOrder) |-> IF p = <<>> THEN "dir" ELSE "absent"]
\* Linux has named pipes, Windows files that somebody holds.
Trees0 == Leaf(Git, {Empty}, {"absent", "dir"})
Grown(c, e) ==
    Leaf(E, Leaf(C, Leaf(D, Trees0, {"dir"}), c) \cup Leaf(D, Trees0, {"absent", "closed", "symlink"}), e)
    \cup {[Empty EXCEPT ![<<>>] = "closed"]}
MCLinuxTrees == Grown({"absent", "file", "linked", "fifo"}, {"file", "large"})
MCWindowsTrees == Grown({"file", "linked"}, {"absent", "file", "denied"})
=============================================================================
