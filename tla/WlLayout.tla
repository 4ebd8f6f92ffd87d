------------------------------ MODULE WlLayout ------------------------------
(***************************************************************************)
(* How the Wayland display daemon (src/wl_display: rect.go, manager.go,    *)
(* manager_ifc.go, util.go) reads and corrects the places of monitors:     *)
(* pure operators on rectangles [x, y, w, h], used by WlDisplay.           *)
(***************************************************************************)
EXTENDS Integers, FiniteSets

\* Coordinates, sizes, and what a sum of coordinates is in the code.
Edge == 32768
Int16  == -Edge .. Edge - 1
Uint16 == 0 .. 2 * Edge - 1
Wrap16(n) == ((n + 32768) % 65536) - 32768

Square(p, size) == [x |-> p[1], y |-> p[2], w |-> size, h |-> size]
Zero == Square(<<0, 0>>, 0)

Abs(n) == IF n < 0 THEN -n ELSE n
Least(a, b) == IF a < b THEN a ELSE b

\* Go's division: towards zero, for the centre of x .. x + w.
Half(n) == IF n < 0 THEN -((-n) \div 2) ELSE n \div 2
Mid(x, w) == Half(Wrap16(2 * x + w))

\* Two sections overlap when their centres are closer than half of both lengths.
\* The centres are int16, the lengths uint16: a sum beyond them is taken for another.
Overlap(x, v, y, w) == Abs(Wrap16(Mid(x, v) - Mid(y, w))) < ((v + w) % 65536) \div 2
Intersects(a, b) == Overlap(a.x, a.w, b.x, b.w) /\ Overlap(a.y, a.h, b.y, b.h)

\* The corners in the order of rectPoint0 .. rectPoint3.
Corner(r, i) == <<r.x + (i % 2) * r.w, r.y + (i \div 2) * r.h>>
Pairs == (0 .. 3) \X (0 .. 3)

\* mutiMonitorsPos says which corners may be brought together.
Position == {"LeftRight", "UpDown", "Diagonal", "Unknow"}
Allowed(how, p) ==
    CASE how = "LeftRight" -> {p[1], p[2]} \in {{0, 1}, {2, 3}}
      [] how = "UpDown"    -> {p[1], p[2]} \in {{0, 2}, {1, 3}}
      [] how = "Diagonal"  -> {p[1], p[2]} \in {{1, 2}, {0, 3}}
      [] how = "Unknow"    -> TRUE

Offset(r, s, p) ==
    <<Corner(r, p[1])[1] - Corner(s, p[2])[1], Corner(r, p[1])[2] - Corner(s, p[2])[2]>>
Moved(r, o) == [r EXCEPT !.x = Wrap16(@ - o[1]), !.y = Wrap16(@ - o[2])]
Length(o) == o[1] * o[1] + o[2] * o[2]

\* The pairs of corners that may be joined without covering anything.
Joins(r, s, how) ==
    {p \in Pairs : Allowed(how, p) /\ ~Intersects(Moved(r, Offset(r, s, p)), s)}

\* bestMoveOffset: the shortest way to join r to s, the first of equals.
BestPair(r, s, how) ==
    CHOOSE p \in Joins(r, s, how) : \A q \in Joins(r, s, how) :
        LET d == Length(Offset(r, s, p))
            e == Length(Offset(r, s, q))
        IN  d < e \/ (d = e /\ 4 * p[1] + p[2] <= 4 * q[1] + q[2])

\* bestMovePosition: r is moved next to s, then both to the origin; with no
\* way to do it, two empty rectangles.
BestMove(r, s, how) ==
    IF Joins(r, s, how) = {} THEN <<Zero, Zero>>
    ELSE LET t == Moved(r, Offset(r, s, BestPair(r, s, how)))
             o == <<Least(t.x, s.x), Least(t.y, s.y)>>
         IN  <<Moved(t, o), Moved(s, o)>>

\* getMonitorsPosition, of two monitors.
PositionOf(a, b) ==
    LET level   == a.y = b.y \/ Wrap16(a.y + a.h) = Wrap16(b.y + b.h)
        stacked == a.x = b.x \/ Wrap16(a.x + a.w) = Wrap16(b.x + b.w)
    IN  CASE level              -> "LeftRight"
          [] ~level /\ stacked  -> "UpDown"
          [] ~level /\ ~stacked -> "Diagonal"

\* Two rectangles share no area, and a piece of border or a corner.
Beside(a, b) ==
    /\ a.x + a.w <= b.x \/ b.x + b.w <= a.x \/ a.y + a.h <= b.y \/ b.y + b.h <= a.y
    /\ a.x <= b.x + b.w /\ b.x <= a.x + a.w /\ a.y <= b.y + b.h /\ b.y <= a.y + a.h

\* No sum that tells whether two sections overlap wraps, wherever one of length w is
\* joined to x .. x + v so that it may: the corners, the lengths, twice the centres.
NoWrap(x, v, w) ==
    {x - w, x + v, v + w, 2 * x + v, 2 * x + w, 2 * (x + v) - w} \subseteq Int16
=============================================================================
