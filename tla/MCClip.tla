----------------------------- MODULE MCClip --------------------------------
(***************************************************************************)
(* Instances of Clip for TLC.  The clip of Brigade is one of the billing   *)
(* camera with the layout of store ST1008 (data/store_layout.json).        *)
(***************************************************************************)
EXTENDS Clip, TLC

CONSTANTS k1, k2, v1, v2, v3, red, blue, door, stock,
    cam1, cam2, cam3, cam4, cam5,
    floor, billing, korean, dermdoc, cash, foh, pmu, alps, swiss, faces,
    maybelline, entry, queue, haircare

MCVisitors == {v1, v2, v3}
MCSimilar == {<<l, l>> : l \in Looks}

\* Footage a little behind the wall clock, at twice its speed; and footage of
\* long ago, as fast as it goes.
MCWall == [t \in 1..LastFrame |-> 3 + (t - 1) \div 2]
MCWallRecorded == [t \in 1..LastFrame |-> 20]

\* Only the red look is the uniform's.
MCUniform == [l \in Looks |-> IF l = red THEN 10 ELSE 0]

ZoneOf(cam, id, left, top, right, bottom) ==
    [cam |-> cam, processed |-> cam \notin {stock, cam4}, id |-> id,
     box |-> [left |-> left, top |-> top, right |-> right, bottom |-> bottom]]

\* The zones of a door, one of which is listed twice, and of a stock room.
DoorLayout ==
    << ZoneOf(door, billing, 0, 0, 3, 3), ZoneOf(stock, floor, 0, 0, 9, 9),
       ZoneOf(door, floor, 2, 0, 6, 3), ZoneOf(door, billing, 0, 0, 4, 3) >>
DoorPoints == {<<3, 1>>, <<5, 1>>, <<8, 8>>}

BrigadeLayout ==
    << ZoneOf(cam1, korean, 0, 0, 820, 430), ZoneOf(cam1, dermdoc, 820, 0, 1300, 430),
       ZoneOf(cam1, cash, 1300, 0, 1920, 700), ZoneOf(cam1, foh, 0, 430, 1300, 1080),
       ZoneOf(cam2, pmu, 0, 0, 380, 680), ZoneOf(cam2, alps, 200, 0, 620, 580),
       ZoneOf(cam2, swiss, 620, 0, 950, 580), ZoneOf(cam2, faces, 950, 0, 1250, 580),
       ZoneOf(cam2, maybelline, 1250, 0, 1920, 580), ZoneOf(cam2, foh, 0, 580, 1920, 1080),
       ZoneOf(cam3, entry, 250, 150, 1050, 720), ZoneOf(cam5, cash, 0, 150, 550, 900),
       ZoneOf(cam5, queue, 550, 150, 1050, 900), ZoneOf(cam5, haircare, 0, 0, 900, 380) >>

\* The upper, the middle and the lower part of the queue, and the counter.
BrigadePoints == {<<800, 300>>, <<800, 500>>, <<800, 700>>, <<300, 500>>}

Symmetric == Permutations(Tracks) \cup Permutations(Visitors)

=============================================================================
