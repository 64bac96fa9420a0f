------------------------------- MODULE Island -------------------------------
(***************************************************************************)
(* Incremental registration of the enrolment views (GxSiftIsland of        *)
(* goodix_sift.c, as gx_capture_done uses it), and the score of later      *)
(* presses against the views enrolled.                                     *)
(*                                                                         *)
(* The finger is a set of Features, each with a place and a descriptor.  A *)
(* press shows those in the sensor's window, in the window's frame; the    *)
(* detector may find one of them a little off.  `feat`, the feature that a *)
(* point shows, is known to the properties only.                           *)
(***************************************************************************)
EXTENDS Matching

CONSTANTS Features,      \* numbers: strongest first, the order of a view's points
          Place,         \* [Features -> [x, y]]
          Desc,          \* [Features -> Nat]
          Offsets,       \* where the sensor's window may lie on the finger
          Width, Height, \* the part of the window where points are detected
          Jitter,        \* by how much a point may be found off its place
          MinPoints,     \* usable press: f->n < 8 asks again
          MergeMinPairs, \* MERGE_MIN_PAIRS
          MergeDedup,    \* MERGE_DEDUP_PX
          Stages         \* GX_ENROLL_STAGES

ASSUME FingerAssumption ==
    /\ IsFiniteSet(Features) /\ Features \subseteq Nat
    /\ Place \in [Features -> [x : Int, y : Int]] /\ Desc \in [Features -> Int]
    /\ Offsets \subseteq [x : Int, y : Int] /\ Width \in Nat /\ Height \in Nat /\ Jitter \in Nat
ASSUME IslandAssumption ==
    /\ MinPoints \in Nat \ {0} /\ MergeMinPairs \in Nat /\ MergeMinPairs >= MinPairs
    /\ MergeDedup \in Nat /\ Stages \in Nat \ {0, 1}

VARIABLES
    pts,     \* isl->pts, in the island's frame
    empty,   \* isl->empty
    box,     \* isl->x0, y0, x1, y1
    views,   \* t->views: the usable presses
    placed,  \* what the last gx_sift_island_add reported: placed, dx, dy, score
    seen,    \* history: the windows placed, in order
    probe    \* history: the press last verified, and its score (t->best)

vars == <<pts, empty, box, views, placed, seen, probe>>

NoBox == [x0 |-> 0, y0 |-> 0, x1 |-> 0, y1 |-> 0]

Int16(n) == ((n + 32768) % 65536) - 32768

\* The features in the window at o.
Visible(o) ==
    {f \in Features : /\ Place[f].x - o.x \in 0 .. Width - 1
                      /\ Place[f].y - o.y \in 0 .. Height - 1}

\* The elements of a finite set of numbers, in their order.
InOrder(S) ==
    [i \in 1 .. Cardinality(S) |-> CHOOSE n \in S : Cardinality({m \in S : m <= n}) = i]

\* By how much feature f is found off its place.  In one press of two, the points
\* of odd features are found Jitter pixels too far right.
Off(f, off) == IF off /\ f % 2 = 1 THEN Jitter ELSE 0

\* What gx_sift_extract makes of a press at o.
View(o, off) ==
    LET fs == InOrder(Visible(o))
    IN  [i \in DOMAIN fs |-> [x |-> Place[fs[i]].x - o.x + Off(fs[i], off),
                              y |-> Place[fs[i]].y - o.y,
                              desc |-> Desc[fs[i]], feat |-> fs[i]]]

Shifted(p, t) == [p EXCEPT !.x = Int16(@ + t.x), !.y = Int16(@ + t.y)]

Merged_NoDedup(dst, src, t) == dst \o [i \in DOMAIN src |-> Shifted(src[i], t)]

Duplicates(p, q) == Dist2(p, q) <= Square(MergeDedup)

\* merge_points: the points of qs that duplicate none of dst, nor one of qs that
\* was appended to it before.
Fresh(dst, qs) ==
    LET fresh[i \in DOMAIN qs] ==
            /\ \A k \in DOMAIN dst : ~Duplicates(dst[k], qs[i])
            /\ \A j \in 1 .. i - 1 : fresh[j] => ~Duplicates(qs[j], qs[i])
    IN  {i \in DOMAIN qs : fresh[i]}

\* ... and dst with these points of src, shifted by t, appended.
Merged(dst, src, t) ==
    LET qs == [i \in DOMAIN src |-> Shifted(src[i], t)]
        new == InOrder(Fresh(dst, qs))
    IN  dst \o [i \in DOMAIN new |-> qs[new[i]]]

island_bounds(ps) ==
    LET Least(S) == CHOOSE a \in S : \A b \in S : a <= b
        Most(S) == CHOOSE a \in S : \A b \in S : a >= b
        xs == {ps[i].x : i \in DOMAIN ps}
        ys == {ps[i].y : i \in DOMAIN ps}
    IN  [x0 |-> Least(xs), y0 |-> Least(ys), x1 |-> Most(xs), y1 |-> Most(ys)]

Init ==
    /\ pts = <<>> /\ empty = TRUE /\ box = NoBox
    /\ views = <<>> /\ seen = <<>> /\ probe = [v |-> <<>>, score |-> 0]
    /\ placed = [ok |-> FALSE, dx |-> 0, dy |-> 0, score |-> 0]

\* gx_sift_island_add on an empty island: the first view is its frame.
FirstView(v) ==
    /\ empty
    /\ pts' = Merged(pts, v, [x |-> 0, y |-> 0])
    /\ empty' = FALSE
    /\ box' = island_bounds(pts')
    /\ placed' = [ok |-> TRUE, dx |-> 0, dy |-> 0, score |-> Len(v)]

NextView_LowGate(v) ==
    /\ ~empty
    /\ LET m == MatchXform(pts, v) IN
       /\ m.score >= MinPairs
       /\ pts' = Merged(pts, v, [x |-> -m.t.x, y |-> -m.t.y])
       /\ box' = island_bounds(pts')
       /\ placed' = [ok |-> TRUE, dx |-> -m.t.x, dy |-> -m.t.y, score |-> m.score]
    /\ UNCHANGED empty

\* ... on one that has points: the view goes where it overlaps them.
NextView(v) ==
    /\ ~empty
    /\ LET m == MatchXform(pts, v) IN
       /\ m.score >= MergeMinPairs
       /\ pts' = Merged(pts, v, [x |-> -m.t.x, y |-> -m.t.y])
       /\ box' = island_bounds(pts')
       /\ placed' = [ok |-> TRUE, dx |-> -m.t.x, dy |-> -m.t.y, score |-> m.score]
    /\ UNCHANGED empty

\* ... "no usable overlap": the view stays outside.
Disjoint(v) ==
    /\ ~empty
    /\ LET m == MatchXform(pts, v) IN
       /\ m.score < MergeMinPairs
       /\ placed' = [ok |-> FALSE, dx |-> 0, dy |-> 0, score |-> m.score]
    /\ UNCHANGED <<pts, empty, box>>

\* gx_capture_done: a usable press of an enrolment is a view of the template
\* and is registered against the island.
Press(o, off) ==
    LET v == View(o, off) IN
    /\ Len(views) < Stages
    /\ Len(v) >= MinPoints
    /\ views' = Append(views, v)
    /\ \/ /\ FirstView(v) \/ NextView(v)
          /\ seen' = Append(seen, o)
       \/ Disjoint(v) /\ UNCHANGED seen
    /\ UNCHANGED probe

\* gx_capture_done: a press with too few points is asked again.
Unusable(o, off) ==
    /\ Len(View(o, off)) < MinPoints
    /\ UNCHANGED vars

\* gx_capture_done, gx_verify_done: the first usable press of a verification
\* is scored.  Bound: one verification, since none changes the template.
Verify(o, off) ==
    LET v == View(o, off) IN
    /\ Len(views) = Stages /\ probe.v = <<>>
    /\ Len(v) >= MinPoints
    /\ probe' = [v |-> v, score |-> Fused(views, v)]
    /\ UNCHANGED <<pts, empty, box, views, placed, seen>>

Next ==
    \E o \in Offsets, off \in BOOLEAN :
        \/ Press(o, off)
        \/ Unusable(o, off)
        \/ Verify(o, off)

Spec == Init /\ [][Next]_vars

-----------------------------------------------------------------------------
Points(ps) == {ps[i] : i \in DOMAIN ps}

\* The features that the points of a view or of the island show.
Shown(ps) == {p.feat : p \in Points(ps)}

\* How far a point of the island may lie from its place: a press shows it up to
\* Jitter off, and the pair that places the press adds its own two errors.
Drift == Jitter * (2 * Len(seen) - 1)

\* Each point of the island lies, in the frame of the first view, where its
\* feature lies on the finger, up to the drift of the detections that led there.
PointsInPlace ==
    \A p \in Points(pts) :
        LET at == Place[p.feat] IN
        /\ p.x - (at.x - seen[1].x) \in -Drift .. Drift
        /\ p.y - (at.y - seen[1].y) \in -Drift .. Drift

\* The position reported for a placed view is where its window lies relative to
\* the first one's, and it shares with earlier ones as many features as reported.
ReportedWhereItIs ==
    placed.ok =>
        LET o == seen[Len(seen)] IN
        /\ placed.dx - (o.x - seen[1].x) \in -Drift .. Drift
        /\ placed.dy - (o.y - seen[1].y) \in -Drift .. Drift
        /\ Len(seen) > 1 => placed.score <=
              Cardinality(Visible(o) \cap UNION {Visible(seen[i]) : i \in 1 .. Len(seen) - 1})

\* No view is misplaced, neither in the island nor in what the guidance of the
\* enrolment is told of it.  "A misplacement would corrupt the whole island":
\* look-alike descriptors, a view that overlaps too little and one placed
\* the wrong way round would all break it (gx_sift_island_add).
WellPlaced == PointsInPlace /\ ReportedWhereItIs

\* Deduplication removes a feature's second sighting and nothing else, so that no
\* feature is in the island twice: it holds one point for each feature that the
\* placed views show (merge_points).  The extent reported is that of the points:
\* the box holds them and each of its sides touches one (island_bounds).
IslandIsUnion ==
    /\ empty <=> pts = <<>>
    /\ Shown(pts) = UNION {Visible(seen[i]) : i \in DOMAIN seen}
    /\ \A i, j \in DOMAIN pts : pts[i].feat = pts[j].feat => i = j
    /\ ~empty =>
        /\ \A p \in Points(pts) : p.x \in box.x0 .. box.x1 /\ p.y \in box.y0 .. box.y1
        /\ {box.x0, box.x1} \subseteq {p.x : p \in Points(pts)}
        /\ {box.y0, box.y1} \subseteq {p.y : p \in Points(pts)}

\* The features of T that nothing else in T looks like, as far as S shows them too:
\* the ratio test keeps their pairs.
Sure(S, T) == {f \in S \cap T : \A g \in T \ {f} : Desc[g] # Desc[f]}

\* The features of T that another feature of S looks like, and whether they are too
\* few for a cluster, or outnumbered.
LookAlikes(S, T) == {g \in T : \E f \in S : f # g /\ Desc[f] = Desc[g]}
Outvoted(S, T) ==
    \/ Cardinality(LookAlikes(S, T)) < MinPairs
    \/ Cardinality(LookAlikes(S, T)) < Cardinality(Sure(S, T))

\* The score of a press of the enrolled finger is evidence.  It counts every
\* feature of a view that shares enough unmistakable ones with the press, whatever
\* other views explain; and no look-alike, wherever these are too few for
\* a cluster or outnumbered (gx_sift_match_mask and its fusion in gx_capture_done).
EvidenceIsTrue ==
    LET Of(i) == Shown(views[i])
        Now == Shown(probe.v)
        Telling == {i \in DOMAIN views : Cardinality(Sure(Of(i), Now)) >= MinPairs}
    IN  /\ (\A i \in DOMAIN views : Outvoted(Of(i), Now)) =>
              probe.score <= Cardinality(UNION {Of(i) \cap Now : i \in DOMAIN views})
        /\ probe.score >= Cardinality(UNION {Sure(Of(i), Now) : i \in Telling})

\* "Deduplication is not a refinement, it is a requirement": no feature that two
\* views saw is in the island twice (merge_points).
OnePointPerFeature ==
    \A i, j \in DOMAIN pts : pts[i].feat = pts[j].feat => i = j

-----------------------------------------------------------------------------
\* What the finger must be like for the design to work, whatever its places and
\* descriptors.  First, the detections of all presses together drift by no more than
\* the deduplication forgives, which forgives no more than the vote does.
Slack == Stages * Jitter
Steady == Slack <= MergeDedup /\ MergeDedup <= GeoTol

\* The frame of any first view holds the finger in 16 bits.
InFrame ==
    \A o \in Offsets, f \in Features :
        /\ Slack - 32768 <= Place[f].x - o.x /\ Place[f].x - o.x <= 32767 - Slack
        /\ -32768 <= Place[f].y - o.y /\ Place[f].y - o.y <= 32767

\* No two features are so close that deduplication takes one for the other.
FeaturesApart ==
    \A f, g \in Features : f # g =>
        \/ Place[f].x - Place[g].x \notin -(MergeDedup + Slack) .. MergeDedup + Slack
        \/ Place[f].y - Place[g].y \notin -MergeDedup .. MergeDedup

\* The pairs of different features that the ratio test keeps, of one in S and the
\* one in T that it is taken for; how far apart they are; ...
Confused(S, T) ==
    {c \in S \X T :
        /\ c[1] # c[2]
        /\ \A h \in T \ {c[2]} : RatioDen * Square(Desc[c[1]] - Desc[c[2]])
                                   < RatioNum * Square(Desc[c[1]] - Desc[h])}
Apart(c) == [x |-> Place[c[2]].x - Place[c[1]].x, y |-> Place[c[2]].y - Place[c[1]].y]

\* ... and which of them may vote for one translation.
Alike(d, e) ==
    /\ d.x - e.x \in -(GeoTol + Slack) .. GeoTol + Slack
    /\ d.y - e.y \in -GeoTol .. GeoTol
Accomplices(C, c) == {e \in C : Alike(Apart(c), Apart(e))}

\* No confusion passes for a true pair, and fewer of them than the merging asks for
\* agree with each other.
MergeSafe ==
    \A o \in Offsets : \A c \in Confused(Features, Visible(o)) :
        /\ ~Alike(Apart(c), [x |-> 0, y |-> 0])
        /\ Cardinality(Accomplices(Confused(Features, Visible(o)), c)) < MergeMinPairs

Legible == Steady /\ InFrame /\ FeaturesApart /\ MergeSafe

\* Between two presses, confusions that agree are too few to be counted, or fewer
\* than what the presses surely share, unless look-alikes win for want of it.
ScoreSafe ==
    \A o1, o2 \in Offsets :
        LET S == Visible(o1)
            T == Visible(o2)
            sure == Cardinality(Sure(S, T))
        IN  \A c \in Confused(S, T) :
                LET n == Cardinality(Accomplices(Confused(S, T), c)) IN
                \/ n < MinPairs
                \/ n < sure
                \/ sure < MinPairs /\ ~Outvoted(S, T)

\* The inductive invariant.  The views are those of the presses, ...
Views == {View(o, off) : o \in Offsets, off \in BOOLEAN}
Point == [x : Int, y : Int, desc : Int, feat : Features]

TypeOK ==
    /\ views \in Seq(Views) /\ Len(views) <= Stages
    /\ seen \in Seq(Offsets) /\ Len(seen) <= Len(views)
    /\ empty \in BOOLEAN /\ (empty <=> seen = <<>>) /\ (empty => pts = <<>>)
    /\ pts \in Seq(Point) /\ \A p \in Points(pts) : p.desc = Desc[p.feat]
    /\ placed \in [ok : BOOLEAN, dx : Int, dy : Int, score : Nat] /\ (empty => ~placed.ok)

\* ... the errors of the points span no more than one detection for each view placed,
\* whatever it was placed by, and the first view is among them; ...
ErrorX(p) == p.x - (Place[p.feat].x - seen[1].x)
Registered ==
    ~empty => \E lo \in -((Len(seen) - 1) * Jitter) .. 0 :
        \A p \in Points(pts) :
            /\ ErrorX(p) \in lo .. lo + Len(seen) * Jitter
            /\ p.y = Place[p.feat].y - seen[1].y

\* ... and the score is that of a press against all of them.
Scored ==
    \/ probe = [v |-> <<>>, score |-> 0]
    \/ probe.v \in Views /\ Len(views) = Stages /\ probe.score = Fused(views, probe.v)

IInv == TypeOK /\ Registered /\ ReportedWhereItIs /\ IslandIsUnion /\ Scored
=============================================================================
