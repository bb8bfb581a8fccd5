------------------------------- MODULE Regions -------------------------------
(***************************************************************************)
(* Regions: lists of at most NRects rectangles in a table that is never    *)
(* freed.  A combination writes its target while it reads its operands,    *)
(* which may be the target; what is behind the end of a list is stale.     *)
(***************************************************************************)
EXTENDS Integers, Sequences, FiniteSets, SequencesExt, FiniteSetsExt

CONSTANTS
  Boxes,      \* rectangles guests make regions of: [l, t, r, b]
  BoxLists,   \* lists of rectangles, as data of a region
  Polygons,   \* sequences of corners <<x, y>>
  NRgn,       \* MW_RGN_MAX, 32
  NRects,     \* MW_RGN_RECTS, 16
  MaxRegionCalls

VARIABLES
  rgn,        \* slot -> [live, n, r]: n rectangles of the array r
  points,     \* history: slot -> the points the guest expects in it
  overdrawn,  \* history: slots a call has combined in a way the table cannot
  regionCalls

vars == <<rgn, points, overdrawn, regionCalls>>
-----------------------------------------------------------------------------
Regions == 1 .. NRgn
NoRect == [l |-> 0, t |-> 0, r |-> 0, b |-> 0]
Empty(q) == q.l >= q.r \/ q.t >= q.b
Points(q) == (q.l .. q.r - 1) \X (q.t .. q.b - 1)
Larger(x, y) == IF x > y THEN x ELSE y
Smaller(x, y) == IF x < y THEN x ELSE y
Meet(p, q) == [l |-> Larger(p.l, q.l), t |-> Larger(p.t, q.t), r |-> Smaller(p.r, q.r), b |-> Smaller(p.b, q.b)]

Rects(h) == [i \in 1 .. rgn[h].n |-> rgn[h].r[i]]
Area(h) == UNION {Points(rgn[h].r[i]) : i \in 1 .. rgn[h].n}
IsEmpty(h) == \A i \in 1 .. rgn[h].n : Empty(rgn[h].r[i])
Complexity(h) == IF IsEmpty(h) THEN "null" ELSE IF rgn[h].n > 1 THEN "complex" ELSE "simple"

(* What is left of a rectangle without another, in at most four pieces.      *)
Without(p, q) ==
  IF Empty(Meet(p, q)) THEN <<p>>
  ELSE LET l == Larger(p.l, q.l)  r == Smaller(p.r, q.r) IN
       SelectSeq(<<[p EXCEPT !.r = q.l], [p EXCEPT !.l = q.r],
                   [l |-> l, t |-> p.t, r |-> r, b |-> q.t], [l |-> l, t |-> q.b, r |-> r, b |-> p.b]>>,
                 LAMBDA piece : ~ Empty(piece))
-----------------------------------------------------------------------------
(* A list being written into slot d: [n, r], r the arrays of all slots.      *)

Writing(n) == [n |-> n, r |-> [h \in Regions |-> rgn[h].r]]
Put(w, d, q) == IF w.n = NRects THEN w ELSE [w EXCEPT !.n = @ + 1, !.r[d][w.n + 1] = q]
PutAll(w, d, list) == FoldLeft(LAMBDA v, q : Put(v, d, q), w, list)

(* OR goes on behind what the target holds.                                  *)
Union(d, a, b) ==
  LET from(w, s) == FoldLeftDomain(LAMBDA v, i : Put(v, d, v.r[s][i]), w, Rects(s)) IN
  from(from(Writing(rgn[d].n), a), b)
(* AND puts a meeting behind the other, row by row.                          *)
MeetRow(w, d, a, b, i) ==
  FoldLeftDomain(LAMBDA v, j : LET q == Meet(v.r[a][i], v.r[b][j]) IN IF Empty(q) THEN v ELSE Put(v, d, q), w, Rects(b))
Intersection(d, a, b) ==
  FoldLeftDomain(LAMBDA u, i : CHOOSE row \in {MeetRow(w, d, a, b, i) : w \in {u}} : TRUE, Writing(0), Rects(a))
(* The first rectangle of the other is all that is taken away.               *)
Remains(w, d, a, b) ==
  FoldLeftDomain(LAMBDA v, i : IF v.n = NRects THEN v ELSE PutAll(v, d, Without(v.r[a][i], v.r[b][1])), w, Rects(a))
Difference(d, a, b) == Remains(Writing(0), d, a, b)
SymmetricDifference(d, a, b) == Remains(Difference(d, a, b), d, b, a)

Combined(d, a, b, mode) ==
  CASE mode = "or"   -> Union(d, a, b)
    [] mode = "and"  -> Intersection(d, a, b)
    [] mode = "diff" -> Difference(d, a, b)
    [] mode = "xor"  -> SymmetricDifference(d, a, b)
    [] mode = "copy" -> [n |-> rgn[a].n, r |-> [h \in Regions |-> IF h = d THEN rgn[a].r ELSE rgn[h].r]]
Modes == {"or", "and", "diff", "xor", "copy"}

(* What the mode promises, and what operands the table can do it for.        *)
Promised(a, b, mode) ==
  CASE mode = "or"   -> Area(a) \union Area(b)
    [] mode = "and"  -> Area(a) \intersect Area(b)
    [] mode = "diff" -> Area(a) \ Area(b)
    [] mode = "xor"  -> (Area(a) \ Area(b)) \union (Area(b) \ Area(a))
    [] mode = "copy" -> Area(a)
Able(d, a, b, mode) ==
  LET na == rgn[a].n  nb == rgn[b].n IN
  CASE mode = "or"   -> Area(d) \subseteq Area(a) \union Area(b) /\ rgn[d].n + na + nb <= NRects
    [] mode = "and"  -> na * nb <= NRects /\ (d = a => nb <= 1) /\ (d = b => na <= 1)
    [] mode = "diff" -> nb = 1 /\ 4 * na <= NRects /\ (d \in {a, b} => na <= 1)
    [] mode = "xor"  -> na = 1 /\ nb = 1 /\ 8 <= NRects /\ d \notin {a, b}
    [] mode = "copy" -> TRUE
-----------------------------------------------------------------------------
Asking == regionCalls < MaxRegionCalls /\ regionCalls' = regionCalls + 1
FreeRegion == SelectInSeq([h \in Regions |-> rgn[h].live], LAMBDA l : ~ l)
Blank == [i \in 1 .. NRects |-> NoRect]
Listed(list) == [live |-> TRUE, n |-> Len(list), r |-> [i \in 1 .. NRects |-> IF i <= Len(list) THEN list[i] ELSE NoRect]]
(* The guest expects area; fits says whether the table could hold it.        *)
Create(list, area, fits) ==
  /\ Asking
  /\ IF FreeRegion = 0 THEN UNCHANGED <<rgn, points, overdrawn>>
     ELSE /\ rgn' = [rgn EXCEPT ![FreeRegion] = Listed(list)]
          /\ points' = [points EXCEPT ![FreeRegion] = area]
          /\ overdrawn' = IF fits THEN overdrawn ELSE overdrawn \union {FreeRegion}
CreateRectRgn(q) == Create(<<q>>, Points(q), TRUE)
ExtCreateRegion(boxes) ==
  /\ boxes # <<>>
  /\ Create(SelectSeq(SubSeq(boxes, 1, Smaller(Len(boxes), NRects)), LAMBDA q : ~ Empty(q)),
            UNION {Points(boxes[i]) : i \in DOMAIN boxes}, Len(boxes) <= NRects)

(* The crossings of the edges of a polygon with row y, from the left.  C     *)
(* divides towards zero.                                                     *)
Quotient(n, d) == LET s == IF (n < 0) = (d < 0) THEN 1 ELSE -1 IN s * ((IF n < 0 THEN - n ELSE n) \div (IF d < 0 THEN - d ELSE d))
Crossings(corners, y) ==
  LET edge(e) == <<corners[e], corners[(e % Len(corners)) + 1]>>
      cuts == SelectSeq([e \in DOMAIN corners |-> edge(e)],
                        LAMBDA k : Smaller(k[1][2], k[2][2]) <= y /\ y < Larger(k[1][2], k[2][2])) IN
  SortSeq([i \in DOMAIN cuts |-> cuts[i][1][1] + Quotient((y - cuts[i][1][2]) * (cuts[i][2][1] - cuts[i][1][1]),
                                                          cuts[i][2][2] - cuts[i][1][2])], LAMBDA x, z : x < z)
(* Mutant: a span is joined to one of its width wherever that ends.          *)
SpansJoined(list, spans, y) ==
  FoldLeft(LAMBDA l, s :
    LET above == {i \in DOMAIN l : l[i].l = s[1] /\ l[i].r = s[2]} IN
    IF above # {} THEN [l EXCEPT ![Min(above)].b = y + 1]
    ELSE IF Len(l) < NRects THEN Append(l, [l |-> s[1], t |-> y, r |-> s[2], b |-> y + 1]) ELSE l, list, spans)
(* The spans between a crossing and the next; one below a rectangle of its   *)
(* width makes that longer.                                                  *)
AddSpans(list, spans, y) ==
  FoldLeft(LAMBDA l, s :
    LET above == {i \in DOMAIN l : l[i].l = s[1] /\ l[i].r = s[2] /\ l[i].b = y} IN
    IF above # {} THEN [l EXCEPT ![Min(above)].b = y + 1]
    ELSE IF Len(l) < NRects THEN Append(l, [l |-> s[1], t |-> y, r |-> s[2], b |-> y + 1]) ELSE l, list, spans)
Rows(corners) == LET ys == {corners[i][2] : i \in DOMAIN corners} IN Min(ys) .. (Max(ys) - 1)
PolygonRects(corners) ==
  IF Len(corners) < 3 THEN <<>>
  ELSE LET first == Min(Rows(corners))
           rows == [k \in 1 .. Cardinality(Rows(corners)) |-> first + k - 1] IN
       FoldLeft(LAMBDA list, y :
         LET xs == Crossings(corners, y) IN
         AddSpans(list, SelectSeq([k \in 1 .. Len(xs) \div 2 |-> <<xs[2 * k - 1], xs[2 * k]>>], LAMBDA s : s[1] < s[2]), y), <<>>, rows)
CreatePolygonRgn(corners) ==
  LET xs == {corners[i][1] : i \in DOMAIN corners}
      inside == {p \in (Min(xs) .. Max(xs)) \X Rows(corners) :
                   LET cuts == Crossings(corners, p[2]) IN Cardinality({i \in DOMAIN cuts : cuts[i] <= p[1]}) % 2 = 1} IN
  Create(PolygonRects(corners), IF Len(corners) < 3 THEN {} ELSE inside, Len(PolygonRects(corners)) < NRects)

CombineRgn(d, a, b, mode) ==
  /\ Asking /\ \A h \in {d, a, b} : rgn[h].live
  /\ LET w == Combined(d, a, b, mode) IN
     rgn' = [rgn EXCEPT ![d].n = w.n, ![d].r = w.r[d]]
  /\ points' = [points EXCEPT ![d] = Promised(a, b, mode)]
  /\ overdrawn' = IF Able(d, a, b, mode) THEN overdrawn \ {d} ELSE overdrawn \union {d}

OffsetRgn(h, dx, dy) ==
  /\ Asking /\ rgn[h].live
  /\ rgn' = [rgn EXCEPT ![h].r = [i \in DOMAIN @ |-> LET q == @[i] IN
               IF i > rgn[h].n THEN q ELSE [l |-> q.l + dx, t |-> q.t + dy, r |-> q.r + dx, b |-> q.b + dy]]]
  /\ points' = [points EXCEPT ![h] = {<<p[1] + dx, p[2] + dy>> : p \in @}] /\ UNCHANGED overdrawn
(* There never is anything left to update.                                   *)
GetUpdateRgn(h) ==
  /\ Asking /\ rgn[h].live /\ rgn' = [rgn EXCEPT ![h].n = 0]
  /\ points' = [points EXCEPT ![h] = {}] /\ overdrawn' = overdrawn \ {h}
-----------------------------------------------------------------------------
PtInRegion(h, p) == \E i \in 1 .. rgn[h].n : p \in Points(rgn[h].r[i])
RectInRegion(h, q) == \E i \in 1 .. rgn[h].n : LET s == rgn[h].r[i] IN q.l < s.r /\ q.r > s.l /\ q.t < s.b /\ q.b > s.t
(* The box of all rectangles, those that are empty included.                 *)
GetRgnBox(h) ==
  IF IsEmpty(h) THEN NoRect
  ELSE LET all == {rgn[h].r[i] : i \in 1 .. rgn[h].n} IN
       [l |-> Min({q.l : q \in all}), t |-> Min({q.t : q \in all}), r |-> Max({q.r : q \in all}), b |-> Max({q.b : q \in all})]
(* Equal regions have the same rectangles, in any order.                     *)
EqualRgn(a, b) == rgn[a].n = rgn[b].n /\ \A i \in 1 .. rgn[a].n : \E j \in 1 .. rgn[b].n : rgn[a].r[i] = rgn[b].r[j]

Init ==
  /\ rgn = [h \in Regions |-> [live |-> FALSE, n |-> 0, r |-> Blank]]
  /\ points = [h \in Regions |-> {}] /\ overdrawn = {} /\ regionCalls = 0
Next ==
  \/ \E q \in Boxes : CreateRectRgn(q)
  \/ \E boxes \in BoxLists : ExtCreateRegion(boxes)
  \/ \E corners \in Polygons : CreatePolygonRgn(corners)
  \/ \E d, a, b \in Regions, mode \in Modes : CombineRgn(d, a, b, mode)
  \/ \E h \in Regions : OffsetRgn(h, 1, 0) \/ OffsetRgn(h, 0, -1) \/ GetUpdateRgn(h)
Spec == Init /\ [][Next]_vars
-----------------------------------------------------------------------------
(* A region holds the points that what made it promises, unless a call asked *)
(* for more than the table can do since it last was set; and what is told of *)
(* it is told of these points: a bounding box, if no rectangle is empty, and *)
(* two regions called equal, unless one of them has a rectangle twice.       *)
RegionsAreTheirPoints ==
  /\ \A h \in Regions \ overdrawn : rgn[h].live => Area(h) = points[h]
  /\ \A h \in Regions : rgn[h].live =>
       /\ Complexity(h) = "null" <=> Area(h) = {}
       /\ \A p \in Area(h) : PtInRegion(h, p) /\ p \in Points(GetRgnBox(h))
       /\ \A q \in Boxes : ~ Empty(q) /\ Points(q) \intersect Area(h) # {} => RectInRegion(h, q)
       /\ (\A i \in 1 .. rgn[h].n : ~ Empty(rgn[h].r[i])) =>
            \A q \in Boxes : RectInRegion(h, q) /\ ~ Empty(q) => Points(q) \intersect Area(h) # {}
  /\ \A a, b \in Regions : rgn[a].live /\ rgn[b].live /\ EqualRgn(a, b) /\ IsInjective(Rects(a)) => Area(a) = Area(b)
=============================================================================
