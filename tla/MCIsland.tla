------------------------------ MODULE MCIsland ------------------------------
(***************************************************************************)
(* A finger of 24 features for TLC, 12 pixels or more apart, as the        *)
(* detector spaces them.  Features 17 to 20 look like features 1 to 4 and  *)
(* lie alike, too far away for one press to show both sets whole.          *)
(***************************************************************************)
EXTENDS Island

MCFeatures == 1 .. 24

MCPlace ==
    <<[x |-> 41, y |-> 36], [x |-> 49, y |-> 49], [x |-> 52, y |-> 71],
      [x |-> 3, y |-> 63], [x |-> 43, y |-> 10], [x |-> 59, y |-> 24],
      [x |-> 9, y |-> 51], [x |-> 90, y |-> 35], [x |-> 84, y |-> 73],
      [x |-> 66, y |-> 77], [x |-> 75, y |-> 5], [x |-> 73, y |-> 56],
      [x |-> 117, y |-> 27], [x |-> 158, y |-> 53], [x |-> 110, y |-> 13],
      [x |-> 112, y |-> 60], [x |-> 165, y |-> 36], [x |-> 173, y |-> 49],
      [x |-> 176, y |-> 71], [x |-> 127, y |-> 63], [x |-> 186, y |-> 12],
      [x |-> 192, y |-> 40], [x |-> 200, y |-> 66], [x |-> 122, y |-> 45]>>

MCDesc == [f \in MCFeatures |-> 100 * (IF f \in 17 .. 20 THEN f - 16 ELSE f)]

\* Windows that overlap much, little and not at all, and one with too few points.
MCOffsets ==
    {[x |-> 0, y |-> 0], [x |-> 30, y |-> 0], [x |-> 30, y |-> 20],
     [x |-> 60, y |-> 0], [x |-> 110, y |-> 0], [x |-> 180, y |-> 0]}

\* This finger is one that the theorems speak of, as long as its points are found
\* where they are: the look-alikes are four, which agree.
ASSUME LegibleAssumption == Steady => Legible /\ ScoreSafe
=============================================================================
