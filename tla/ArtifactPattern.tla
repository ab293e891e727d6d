--------------------------- MODULE ArtifactPattern ---------------------------
(***************************************************************************)
(* src/internal/artifactpattern: the globs of an artifact selection.  A    *)
(* path and a pattern are sequences of segments; "**" stands for any       *)
(* number of segments, "*" (for every pattern path.Match knows) for one.   *)
(***************************************************************************)
EXTENDS Naturals, Sequences

SegmentMatch(segment, name) == segment = "*" \/ segment = name

Match(pattern, candidate) ==
    LET match[i \in 1..(Len(pattern) + 1), j \in 1..(Len(candidate) + 1)] ==
            IF i > Len(pattern) THEN j > Len(candidate)
            ELSE IF pattern[i] = "**"
            THEN match[i + 1, j] \/ (j <= Len(candidate) /\ match[i, j + 1])
            ELSE /\ j <= Len(candidate)
                 /\ SegmentMatch(pattern[i], candidate[j])
                 /\ match[i + 1, j + 1]
    IN match[1, 1]

\* Whether a path strictly below the prefix can match.
CouldMatchDescendant(pattern, prefix) ==
    LET possible[i \in 1..(Len(pattern) + 1), j \in 1..(Len(prefix) + 1)] ==
            IF j > Len(prefix) THEN i <= Len(pattern)
            ELSE IF i > Len(pattern) THEN FALSE
            ELSE IF pattern[i] = "**"
            THEN possible[i + 1, j] \/ possible[i, j + 1]
            ELSE /\ SegmentMatch(pattern[i], prefix[j])
                 /\ possible[i + 1, j + 1]
    IN possible[1, 1]

Parent(path) == SubSeq(path, 1, Len(path) - 1)
=============================================================================
