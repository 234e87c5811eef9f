------------------------------- MODULE Viewport --------------------------------
(***************************************************************************)
(* ViewportService of one session (services/viewport_service.py): the      *)
(* subscriptions by token and the index from grid cells to tokens.         *)
(*                                                                         *)
(* Degrees are counted in units of 0.002, which divide every cell size of  *)
(* the code.  The code adds and divides floats, whose rounding errors are  *)
(* far below a unit: they matter only where a coordinate is on a border    *)
(* between cells, and where the last step of a loop meets its bound.       *)
(* There the outcome is left open.  The index is kept here by token        *)
(* instead of by cell.                                                     *)
(***************************************************************************)
EXTENDS Integers

CONSTANTS
    Tokens,     \* users
    NoSub       \* "no subscription"

VARIABLES
    subs,       \* _sessions_tokens: the box and the zoom each token subscribed
    cells       \* _sessions_cells: the cells each token is found in

viewports == <<subs, cells>>

\* The size of a cell at a zoom: 5, 0.5, 0.05, 0.01 or 0.002 degrees.
CellSize(zoom) ==
    CASE zoom <= 5 -> 2500
      [] zoom \in 6..10 -> 250
      [] zoom \in 11..13 -> 25
      [] zoom \in 14..16 -> 5
      [] OTHER -> 1

\* The zoom a lookup falls back to; every caller leaves it to that.
LookupZoom == 12

\* int(x / size): towards zero, so the cell at the origin is twice as wide.
Truncated(x, size) == IF x >= 0 THEN x \div size ELSE -((-x) \div size)

\* The next coordinate towards the origin.
Inward(x) == IF x > 0 THEN x - 1 ELSE IF x < 0 THEN x + 1 ELSE 0

\* The cell of a coordinate.  On a border the float quotient may fall short of the
\* whole number, and then the cell is the one nearer to the origin.
Index(x, size, short) == Truncated(IF short /\ x % size = 0 THEN Inward(x) ELSE x, size)

\* A point is a pair of a latitude and a longitude; it may get any of these keys.
\* The size is not part of a key, so cells of different sizes share their names.
CellKeys(point, size) ==
    {Index(point[1], size, short) : short \in BOOLEAN}
        \X {Index(point[2], size, short) : short \in BOOLEAN}

\* A slip that InteriorHeard catches: the border the box starts from is left out.
SweepsAfter(low, high, size) ==
    LET last == (high - low) \div size
        ends == IF last > 0 /\ low + last * size = high THEN {last - 1, last} ELSE {last}
    IN  {{Index(low + k * size, size, k \in short) : k \in 1 .. end} :
            end \in ends, short \in SUBSET (0 .. last)}

\* The cells that a loop from low to high in steps of size enters, whatever the
\* rounding.  A step that should meet high exactly may be just beyond it.
Sweeps(low, high, size) ==
    LET last == (high - low) \div size
        ends == IF last > 0 /\ low + last * size = high THEN {last - 1, last} ELSE {last}
    IN  {{Index(low + k * size, size, k \in short) : k \in 0 .. end} :
            end \in ends, short \in SUBSET (0 .. last)}

ViewportInit ==
    /\ subs = [t \in Tokens |-> NoSub]
    /\ cells = [t \in Tokens |-> {}]

\* The new subscription replaces the old one, but its cells are only added: those of
\* a grid of points that starts in the south-western corner of the box.
Subscribe(t, box, zoom) ==
    /\ subs' = [subs EXCEPT ![t] = [box |-> box, zoom |-> zoom]]
    /\ \E lats \in Sweeps(box.south, box.north, CellSize(zoom)),
          lngs \in Sweeps(box.west, box.east, CellSize(zoom)) :
          cells' = [cells EXCEPT ![t] = @ \cup (lats \X lngs)]

\* The token is taken out of every cell.
Unsubscribe(t) ==
    /\ subs' = [subs EXCEPT ![t] = NoSub]
    /\ cells' = [cells EXCEPT ![t] = {}]

\* A point is always looked up at LookupZoom.
LookupKeys(point) == CellKeys(point, CellSize(LookupZoom))

\* Whom a point with this key is forwarded to.
SubscribersOf(key) == {t \in Tokens : subs[t] # NoSub /\ key \in cells[t]}

Inside(point, box) ==
    /\ box.south <= point[1] /\ point[1] <= box.north
    /\ box.west <= point[2] /\ point[2] <= box.east

--------------------------------------------------------------------------------
(* Properties.                                                             *)

\* The subscription is entered in cells of the size that lookups use, and the corner
\* the grid starts from is on no border: otherwise two steps of the grid, rounded
\* apart, can skip a cell.
Regular(t) ==
    /\ subs[t] # NoSub /\ CellSize(subs[t].zoom) = CellSize(LookupZoom)
    /\ subs[t].box.south % CellSize(LookupZoom) # 0
    /\ subs[t].box.west % CellSize(LookupZoom) # 0

\* A subscription at a zoom of 11 to 13, of a box whose south-western corner is on no
\* border of a cell, is found from every point of the box that is at least a cell away
\* from the box's northern and eastern borders: from points on a border of a cell and
\* around the origin too, however floats are rounded, and whatever the token
\* subscribed before.
InteriorHeard ==
    \A t \in Tokens : Regular(t) =>
        LET box == subs[t].box
            size == CellSize(LookupZoom)
        IN  \A lat \in box.south .. box.north - size, lng \in box.west .. box.east - size :
            \A key \in LookupKeys(<<lat, lng>>) : t \in SubscribersOf(key)

\* "Compute covered cells for this bbox and add token to each cell": a
\* subscription is found from every point of its box, if only by luck in rounding.
CoversBox ==
    \A t \in Tokens : subs[t] # NoSub =>
        LET box == subs[t].box
        IN  \A lat \in box.south .. box.north, lng \in box.west .. box.east :
            \E key \in LookupKeys(<<lat, lng>>) : t \in SubscribersOf(key)
================================================================================
