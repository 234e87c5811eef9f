---------------------------- MODULE MCLocationFeed -----------------------------
(***************************************************************************)
(* A small instance of LocationFeed: ann moves, and bob has a radar or a   *)
(* full map, in the same process or in another.                            *)
(***************************************************************************)
EXTENDS LocationFeed, TLC

CONSTANTS ann, bob, p, q

\* Two places on two sides of the origin, each on a border between cells.
Places == {<<-25, 25>>, <<25, -25>>}

\* A box from its south-western corner.
Box(south, west, side) ==
    [south |-> south, north |-> south + side, west |-> west, east |-> west + side]

\* A box around each of the places, a little larger than a cell and across that
\* border, at zooms of the lookups' class.
Around == {[box |-> Box(-26, 24, 27), zoom |-> 12], [box |-> Box(24, -26, 27), zoom |-> 13]}

\* A box of 0.096 to 0.154 degrees: the loop enters the cells of 0.096 and of 0.146,
\* and points beyond 0.15 are in the next cell.
OffGrid == {[box |-> Box(48, 48, 29), zoom |-> 12]}

\* ann has a radar in process p, bob a radar or a full map in p or q.
AnnAtP == [home : {ann :> p @@ bob :> here : here \in {p, q}}, maps : {{}, {bob}}]

TwoFixes == ann :> 2 @@ bob :> 0
NoFixes == ann :> 0 @@ bob :> 0
TwoAsks == ann :> 0 @@ bob :> 2
OneAsk == ann :> 0 @@ bob :> 1
================================================================================
