------------------------------ MODULE Matching ------------------------------
(***************************************************************************)
(* The descriptor matcher of goodix_sift.c.  A view is a sequence of       *)
(* points [x, y, desc]; a descriptor is a number and the distance of two   *)
(* descriptors their difference: what the matcher decides depends only on  *)
(* how distances compare.                                                  *)
(***************************************************************************)
EXTENDS Integers, Sequences, FiniteSets

CONSTANTS RatioNum, RatioDen,  \* RATIO * RATIO, as a fraction
          GeoTol,              \* GEO_TOL
          MinPairs             \* MIN_PAIRS

ASSUME MatchingAssumption ==
    /\ RatioNum \in Nat /\ RatioDen \in Nat /\ 0 < RatioNum /\ RatioNum < RatioDen
    /\ GeoTol \in Nat /\ MinPairs \in Nat \ {0}

Square(n) == n * n

\* Squared distance of two positions, or of two translations.
Dist2(p, q) == Square(p.x - q.x) + Square(p.y - q.y)

desc_dist2(p, q) == Square(p.desc - q.desc)

\* Nearest neighbours that pass the ratio test, from the points of A to those
\* of B.  The second nearest is at least as far as any other, so the test
\* against it is the test against all others; it makes the nearest unique.
\* Of a single point in B there is no second (1e300): the test passes.
Pairs(A, B) ==
    {p \in (DOMAIN A) \X (DOMAIN B) :
        \A k \in (DOMAIN B) \ {p[2]} :
            RatioDen * desc_dist2(A[p[1]], B[p[2]]) < RatioNum * desc_dist2(A[p[1]], B[k])}

\* The translation that a pair implies.
Vote(A, B, p) == [x |-> B[p[2]].x - A[p[1]].x, y |-> B[p[2]].y - A[p[1]].y]

\* The pairs that agree with pair c.
Cluster(A, B, pairs, c) ==
    {p \in pairs : Dist2(Vote(A, B, p), Vote(A, B, c)) <= Square(GeoTol)}

NoMatch == [score |-> 0, t |-> [x |-> 0, y |-> 0], mask |-> {}]

\* gx_sift_match_xform: the score, the translation (b - a) of the best cluster
\* and the points of B it flags.  The first pair that reaches the maximum wins.
MatchXform(A, B) ==
    LET pairs == Pairs(A, B)
        Votes(c) == Cardinality(Cluster(A, B, pairs, c))
    IN  IF Len(A) < MinPairs \/ Len(B) < MinPairs \/ Cardinality(pairs) < MinPairs
        THEN NoMatch
        ELSE LET best == CHOOSE c \in pairs : \A q \in pairs :
                            \/ Votes(q) < Votes(c)
                            \/ Votes(q) = Votes(c) /\ c[1] <= q[1]
             IN  [score |-> Votes(best),
                  t     |-> Vote(A, B, best),
                  mask  |-> IF Votes(best) >= MinPairs
                            THEN {p[2] : p \in Cluster(A, B, pairs, best)}
                            ELSE {}]

\* gx_sift_match: the score alone.
Match(A, B) == MatchXform(A, B).score

Fused_LastView(views, B) == Cardinality(MatchXform(views[Len(views)], B).mask)

\* The score of a verification (gx_capture_done): the points of B that at
\* least one of the views explains.
Fused(views, B) ==
    Cardinality(UNION {MatchXform(views[i], B).mask : i \in DOMAIN views})
=============================================================================
