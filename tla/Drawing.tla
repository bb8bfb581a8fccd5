------------------------------- MODULE Drawing ------------------------------
(***************************************************************************)
(* Lines, rectangles, ellipses, polygons and fills on the window's         *)
(* surface, and the coordinates of contexts.  A colour is a small number.  *)
(***************************************************************************)
EXTENDS Integers, Sequences, FiniteSets, SequencesExt, FiniteSetsExt

CONSTANTS
  Width, Height,  \* of the surface
  Figures,        \* what guests draw: [op, at, pen, brush, arg]; at: a sequence of points
  StackSize,      \* spans kept while filling, 4096
  FillCap,        \* pixels painted in one fill, 1048576
  MaxFigures

VARIABLES
  canvas,         \* point -> colour
  plan,           \* history: point -> the colour the guest expects
  penAt,          \* g_pen_x, g_pen_y
  figures,
  origin,         \* [wo, vo]: the one store for all contexts
  own             \* history: context -> [wo, vo] that its guest has set

vars == <<canvas, plan, penAt, figures, origin, own>>
-----------------------------------------------------------------------------
Surface == (0 .. Width - 1) \X (0 .. Height - 1)
Abs(n) == IF n < 0 THEN - n ELSE n
Sign(n) == IF n < 0 THEN -1 ELSE 1
Lesser(x, y) == IF x < y THEN x ELSE y
Greater(x, y) == IF x > y THEN x ELSE y
Hollow == -1
Painted(c, cells, color) == [p \in Surface |-> IF p \in cells THEN color ELSE c[p]]
Box(l, t, r, b) == (l .. r - 1) \X (t .. b - 1)

(* A line: at each point, steps are taken in the directions in which the     *)
(* error says it lags.                                                       *)
RECURSIVE Steps(_, _, _, _, _, _)
Steps(p, q, dx, dy, err, done) ==
  LET on == done \union {p}
      across == 2 * err > - dy
      down == 2 * err < dx IN
  IF p = q THEN on
  ELSE Steps(<<IF across THEN p[1] + Sign(q[1] - p[1]) ELSE p[1], IF down THEN p[2] + Sign(q[2] - p[2]) ELSE p[2]>>, q, dx, dy,
             err - (IF across THEN dy ELSE 0) + (IF down THEN dx ELSE 0), on)
Line(p, q) == LET dx == Abs(q[1] - p[1])  dy == Abs(q[2] - p[2]) IN Steps(p, q, dx, dy, dx - dy, {})
(* The pixels of a line: one in each column, or row if it is steep, no       *)
(* farther than half a pixel from it.                                        *)
IsLine(cells, p, q) ==
  LET dx == q[1] - p[1]  dy == q[2] - p[2]
      off(c) == Abs((c[1] - p[1]) * dy - (c[2] - p[2]) * dx)
      n == Greater(Abs(dx), Abs(dy)) IN
  /\ {p, q} \subseteq cells /\ Cardinality(cells) = n + 1
  /\ \A c \in cells : 2 * off(c) <= n
  /\ \A c \in cells \ {p} : \E d \in cells \ {c} : Abs(c[1] - d[1]) <= 1 /\ Abs(c[2] - d[2]) <= 1

Frame(l, t, r, b) == Box(l, t, r, t + 1) \union Box(l, b - 1, r, b) \union Box(l, t, l + 1, b) \union Box(r - 1, t, r, b)
Rectangle(c, l, t, r, b, pen, brush) ==
  IF r <= l \/ b <= t THEN c
  ELSE Painted(IF brush = Hollow THEN c ELSE Painted(c, Box(l, t, r, b), brush), Frame(l, t, r, b), pen)
(* An ellipse adds what is left of two divisions.                            *)
InEllipse(l, t, r, b) ==
  LET cx == (l + r) \div 2  cy == (t + b) \div 2  rx == (r - l) \div 2  ry == (b - t) \div 2 IN
  IF r <= l \/ b <= t THEN {} ELSE IF rx < 1 \/ ry < 1 THEN Box(l, t, r, b)
  ELSE {p \in Box(l, t, r + 1, b + 1) :
          (4 * (p[1] - cx) * (p[1] - cx)) \div (rx * rx) + (4 * (p[2] - cy) * (p[2] - cy)) \div (ry * ry) <= 1}
-----------------------------------------------------------------------------
(* A polygon: the edges that cross the middle of a row, cut to whole pixels, *)
(* in order; from each second one to the next, both included.                *)
Edges(ps) == [i \in DOMAIN ps |-> <<ps[i], ps[(i % Len(ps)) + 1]>>]
Crosses(e, y) == (2 * e[1][2] <= 2 * y + 1) # (2 * e[2][2] <= 2 * y + 1)
(* Twice the height of an edge times the place where it crosses.             *)
Place(e, y) == LET h == 2 * (e[2][2] - e[1][2]) IN <<Sign(h) * (e[1][1] * h + (2 * y + 1 - 2 * e[1][2]) * (e[2][1] - e[1][1])), Abs(h)>>
Cut(e, y) == LET x == Place(e, y) IN Sign(x[1]) * (Abs(x[1]) \div x[2])
Cuts(ps, y) == LET es == SelectSeq(Edges(ps), LAMBDA e : Crosses(e, y)) IN SortSeq([i \in DOMAIN es |-> Cut(es[i], y)], LAMBDA a, b : a < b)
Filled(ps) ==
  IF Len(ps) < 3 THEN {}
  ELSE LET ys == {ps[i][2] : i \in DOMAIN ps}
           span(y) == LET xs == Cuts(ps, y) IN UNION {xs[2 * k - 1] .. xs[2 * k] : k \in 1 .. Len(xs) \div 2} IN
       {p \in Surface : p[2] \in Min(ys) .. Max(ys) /\ p[1] \in span(p[2])}
Polygon(c, ps, pen, brush) ==
  LET fill == IF brush = Hollow THEN c ELSE Painted(c, Filled(ps), brush) IN
  Painted(fill, UNION {Line(Edges(ps)[i][1], Edges(ps)[i][2]) : i \in DOMAIN ps}, pen)
(* The pixels whose middle is inside, and those with an inner neighbour.     *)
Inner(ps) ==
  {p \in Surface : Cardinality({i \in DOMAIN ps : LET e == Edges(ps)[i] IN
                     Crosses(e, p[2]) /\ 2 * Place(e, p[2])[1] < (2 * p[1] + 1) * Place(e, p[2])[2]}) % 2 = 1}
Around(cells) == cells \union {p \in Surface : \E d \in {-1, 1} : <<p[1] + d, p[2]>> \in cells}
-----------------------------------------------------------------------------
(* A fill: a stack of spans; each is made as long as it can be, painted, and *)
(* the spans above and below it put on the stack.  It goes on until the      *)
(* stack is empty or FillCap pixels have been painted, one pixel as often as *)
(* it is reached: where the colour painted is one to be filled, the spans    *)
(* are found again and again.                                                *)
Fillable(c, x, y, match, border) == (c[<<x, y>>] = match) # border
Extent(c, y, l, r, match, border) ==
  LET free(x) == Fillable(c, x, y, match, border)
      left == {x \in 0 .. l - 1 : ~ free(x)}  right == {x \in r + 1 .. Width - 1 : ~ free(x)} IN
  <<IF left = {} THEN 0 ELSE Max(left) + 1, IF right = {} THEN Width - 1 ELSE Min(right) - 1>>
Spans(c, y, l, r, match, border) ==
  IF y \notin 0 .. Height - 1 THEN <<>>
  ELSE LET free(x) == x \in l .. r /\ Fillable(c, x, y, match, border)
           starts == SetToSortSeq({x \in l .. r : free(x) /\ ~ free(x - 1)}, <) IN
       [i \in DOMAIN starts |-> [y |-> y, l |-> starts[i], r |-> Min({x \in starts[i] .. r : ~ free(x + 1)})]]
RECURSIVE Flood(_, _, _, _, _, _)
Flood(c, stack, count, color, match, border) ==
  IF stack = <<>> \/ count >= FillCap THEN c
  ELSE LET s == Last(stack)
           e == Extent(c, s.y, s.l, s.r, match, border)
           next == Painted(c, (e[1] .. e[2]) \X {s.y}, color)
           found == Spans(next, s.y - 1, e[1], e[2], match, border) \o Spans(next, s.y + 1, e[1], e[2], match, border)
           all == Front(stack) \o found IN
       Flood(next, SubSeq(all, 1, Lesser(Len(all), StackSize)), count + e[2] - e[1] + 1, color, match, border)
ExtFloodFill(c, p, color, match, border) ==
  IF color = Hollow \/ p \notin Surface \/ ~ Fillable(c, p[1], p[2], match, border) THEN c
  ELSE Flood(c, <<[y |-> p[2], l |-> p[1], r |-> p[1]]>>, 0, color, match, border)
(* The pixels that can be reached.                                           *)
RECURSIVE Reach(_, _, _, _)
Reach(c, cells, match, border) ==
  LET more == {p \in Surface \ cells : Fillable(c, p[1], p[2], match, border) /\
                 \E q \in cells : Abs(p[1] - q[1]) + Abs(p[2] - q[2]) = 1} IN
  IF more = {} THEN cells ELSE Reach(c, cells \union more, match, border)
-----------------------------------------------------------------------------
Draw(f) ==
  LET ps == f.at  p == ps[1]  q == Last(ps) IN
  CASE f.op = "line"    -> Painted(canvas, Line(penAt, q), f.pen)
    [] f.op = "chain"   -> Painted(canvas, UNION {Line(ps[i], ps[i + 1]) : i \in 1 .. Len(ps) - 1}, f.pen)
    [] f.op = "rect"    -> Rectangle(canvas, p[1], p[2], q[1], q[2], f.pen, f.brush)
    [] f.op = "ellipse" -> Painted(canvas, InEllipse(p[1], p[2], q[1], q[2]), f.brush)
    [] f.op = "polygon" -> Polygon(canvas, ps, f.pen, f.brush)
    [] f.op = "flood"   -> ExtFloodFill(canvas, p, f.brush, f.arg, FALSE)
    [] f.op = "border"  -> ExtFloodFill(canvas, p, f.brush, f.arg, TRUE)
(* What the guest expects, of figures for which that is exact.               *)
Expected(f, new) ==
  LET ps == f.at  p == ps[1]  q == Last(ps)
      reach == IF p \notin Surface \/ ~ Fillable(plan, p[1], p[2], f.arg, f.op = "border") THEN {} ELSE Reach(plan, {p}, f.arg, f.op = "border") IN
  CASE f.op = "rect" -> IF q[1] <= p[1] \/ q[2] <= p[2] THEN plan ELSE
         [c \in Surface |-> IF ~ (c[1] \in p[1] .. q[1] - 1 /\ c[2] \in p[2] .. q[2] - 1) THEN plan[c]
            ELSE IF c[1] \in {p[1], q[1] - 1} \/ c[2] \in {p[2], q[2] - 1} THEN f.pen ELSE IF f.brush = Hollow THEN plan[c] ELSE f.brush]
    [] f.op = "flood" /\ f.brush \notin {Hollow, f.arg} -> Painted(plan, reach, f.brush)
    [] OTHER -> new
DrawFigure(f) ==
  /\ figures < MaxFigures /\ figures' = figures + 1
  /\ canvas' = Draw(f) /\ plan' = Expected(f, Draw(f))
  /\ penAt' = IF f.op = "line" THEN Last(f.at) ELSE penAt
  /\ UNCHANGED <<origin, own>>

(* Which store a context has: a handle's top half is compared with a number  *)
(* that has a bottom half, so that all have the last.                        *)
SetWindowOrg(d, x) ==
  /\ figures < MaxFigures /\ figures' = figures + 1
  /\ origin' = [origin EXCEPT !.wo = x] /\ own' = [own EXCEPT ![d].wo = x] /\ UNCHANGED <<canvas, plan, penAt>>
OffsetViewportOrg(d, x) ==
  /\ figures < MaxFigures /\ figures' = figures + 1
  /\ origin' = [origin EXCEPT !.vo = @ + x] /\ own' = [own EXCEPT ![d].vo = @ + x] /\ UNCHANGED <<canvas, plan, penAt>>
(* The scale is that of a mode that no call sets.                            *)
LPtoDP(x) == x - origin.wo + origin.vo
DPtoLP(x) == x - origin.vo + origin.wo

Init ==
  /\ canvas = [p \in Surface |-> 0] /\ plan = canvas /\ penAt = <<0, 0>> /\ figures = 0
  /\ origin = [wo |-> 0, vo |-> 0] /\ own = [d \in 1 .. 2 |-> [wo |-> 0, vo |-> 0]]
Next ==
  \/ \E f \in Figures : DrawFigure(f)
  \/ \E d \in 1 .. 2 : SetWindowOrg(d, 2) \/ OffsetViewportOrg(d, 1)
Spec == Init /\ [][Next]_vars
-----------------------------------------------------------------------------
(* Rectangles, and fills of one colour with another, paint the pixels that   *)
(* they should and no other, whatever has been drawn before; any line, the   *)
(* one from the pen's place too, is one pixel wide and as near to the        *)
(* straight one as pixels can be; a polygon has the pixels whose middle is   *)
(* in it, and none that is not next to one; ellipses stay in their           *)
(* rectangles; coordinates come back from the device as they were, and are a *)
(* context's own if the other has set none.                                  *)
FiguresAreExact ==
  /\ canvas = plan
  /\ \A f \in Figures :
       /\ f.op = "line" => IsLine(Line(penAt, Last(f.at)), penAt, Last(f.at))
       /\ f.op = "polygon" => Inner(f.at) \subseteq Filled(f.at) /\ Filled(f.at) \subseteq Around(Inner(f.at))
       /\ f.op = "ellipse" => InEllipse(f.at[1][1], f.at[1][2], f.at[2][1], f.at[2][2]) \subseteq Box(f.at[1][1], f.at[1][2], f.at[2][1], f.at[2][2])
  /\ \A x \in -1 .. 1 : DPtoLP(LPtoDP(x)) = x
  /\ \A d \in 1 .. 2 : own[3 - d] = [wo |-> 0, vo |-> 0] => origin = own[d]
=============================================================================
