----------------------------- MODULE Keypoints -----------------------------
(***************************************************************************)
(* The choice of keypoints in gx_sift_extract (goodix_sift.c): the         *)
(* strongest point of what is left of the saliency map, one per step, each *)
(* blanking its surroundings.  How the map is computed is left out: any    *)
(* map is possible.                                                        *)
(***************************************************************************)
EXTENDS Integers, Sequences

CONSTANTS W, H,     \* the image
          Half,     \* GX_SIFT_PATCH / 2
          Border,   \* GX_SIFT_PATCH / 2 + 2
          Spacing,  \* 6
          MaxPts,   \* GX_SIFT_MAX_PTS
          Saliency  \* values of the map

ASSUME KeypointsAssumption ==
    /\ W \in Nat /\ H \in Nat /\ Half \in Nat /\ Border \in Nat /\ Spacing \in Nat /\ MaxPts \in Nat
    /\ Half <= Border
    /\ Saliency \subseteq Nat /\ 0 \in Saliency

VARIABLES
    map,       \* history: the saliency computed, borders blanked
    sal,       \* what is left of it
    keypoints, \* f->pts
    done       \* the loop is over

keypointVars == <<map, sal, keypoints, done>>

Pixels == (0 .. W - 1) \X (0 .. H - 1)

\* "The descriptor needs its full window": the pixels that are not blanked.
Inner(p) == /\ Border <= p[1] /\ p[1] < W - Border
            /\ Border <= p[2] /\ p[2] < H - Border

Near_Above(p, q) ==
    /\ q[1] \in p[1] - Spacing .. p[1] + Spacing
    /\ q[2] \in p[2] - Spacing .. p[2]

\* The pixels that the choice of p blanks.
Near(p, q) ==
    /\ q[1] \in p[1] - Spacing .. p[1] + Spacing
    /\ q[2] \in p[2] - Spacing .. p[2] + Spacing

\* The order in which the loop meets the pixels.
Before(p, q) == p[2] < q[2] \/ (p[2] = q[2] /\ p[1] < q[1])

KeypointsInit ==
    /\ \E m \in [{p \in Pixels : Inner(p)} -> Saliency] :
          map = [p \in Pixels |-> IF Inner(p) THEN m[p] ELSE 0]
    /\ sal = map /\ keypoints = <<>> /\ done = FALSE

\* The first of the strongest pixels left.
Pick ==
    /\ ~done /\ Len(keypoints) < MaxPts
    /\ \E p \in Pixels :
        /\ sal[p] > 0
        /\ \A q \in Pixels \ {p} : sal[q] < sal[p] \/ (sal[q] = sal[p] /\ Before(p, q))
        /\ keypoints' = Append(keypoints, p)
        /\ sal' = [q \in Pixels |-> IF Near(p, q) THEN 0 ELSE sal[q]]
    /\ UNCHANGED <<map, done>>

Finish_Early ==
    /\ ~done
    /\ Len(keypoints) = MaxPts \/ \A p \in Pixels : sal[p] < 2
    /\ done' = TRUE
    /\ UNCHANGED <<map, sal, keypoints>>

\* No point left, or as many as wanted.
Finish ==
    /\ ~done
    /\ Len(keypoints) = MaxPts \/ \A p \in Pixels : sal[p] = 0
    /\ done' = TRUE
    /\ UNCHANGED <<map, sal, keypoints>>

KeypointsNext == Pick \/ Finish

KeypointsSpec == KeypointsInit /\ [][KeypointsNext]_keypointVars

-----------------------------------------------------------------------------
\* The types of the variables.
KeypointsTypeOK ==
    /\ map \in [Pixels -> Saliency] /\ sal \in [Pixels -> Saliency]
    /\ keypoints \in Seq(Pixels) /\ Len(keypoints) <= MaxPts
    /\ done \in BOOLEAN

\* Two keypoints lie more than Spacing apart on one axis, whichever was chosen
\* first: what lets a place in the island stand for one feature (merge_points).
Spaced ==
    \A i, j \in DOMAIN keypoints : i # j =>
        \/ keypoints[i][1] - keypoints[j][1] \notin -Spacing .. Spacing
        \/ keypoints[i][2] - keypoints[j][2] \notin -Spacing .. Spacing

\* No keypoint's descriptor window, -Half to Half - 1, leaves the image: the
\* histogram would silently miss a part ("exclude the border").
WindowInside ==
    \A i \in DOMAIN keypoints :
        /\ keypoints[i][1] - Half >= 0 /\ keypoints[i][1] + Half - 1 < W
        /\ keypoints[i][2] - Half >= 0 /\ keypoints[i][2] + Half - 1 < H

\* The points come strongest first, so that cutting the list short keeps the
\* best of them: what the cap does, and TRUNC in test-sift.c.
StrongestFirst ==
    \A i, j \in DOMAIN keypoints : i <= j => map[keypoints[i]] >= map[keypoints[j]]

\* Nothing is overlooked: below the cap every salient pixel is near a keypoint
\* at least as salient.
Exhaustive ==
    done /\ Len(keypoints) < MaxPts =>
        \A p \in Pixels : map[p] > 0 =>
            \E i \in DOMAIN keypoints : Near(keypoints[i], p) /\ map[keypoints[i]] >= map[p]

\* The keypoints are well chosen: apart, inside, strongest first, and nothing
\* salient left out before the cap.
WellChosen == Spaced /\ WindowInside /\ StrongestFirst /\ Exhaustive

-----------------------------------------------------------------------------
\* The inductive invariant.  What is left of the map is the map, or was blanked
\* near a point as salient.
Left ==
    \A q \in Pixels :
        \/ sal[q] = map[q] /\ \A i \in DOMAIN keypoints : map[keypoints[i]] >= map[q]
        \/ sal[q] = 0 /\ \E i \in DOMAIN keypoints : Near(keypoints[i], q) /\ map[keypoints[i]] >= map[q]

\* Nothing is left near a point.
Blank == \A i \in DOMAIN keypoints : \A q \in Pixels : Near(keypoints[i], q) => sal[q] = 0

\* Points are salient, and only inner pixels are.
Salient == /\ \A q \in Pixels : map[q] > 0 => Inner(q)
           /\ \A i \in DOMAIN keypoints : map[keypoints[i]] > 0

\* Points taken of what is left are apart from those before, and no stronger.
KeypointsInv == KeypointsTypeOK /\ Left /\ Blank /\ Salient /\ Spaced /\ StrongestFirst /\ Exhaustive
=============================================================================
