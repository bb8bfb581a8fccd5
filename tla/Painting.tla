------------------------------ MODULE Painting ------------------------------
(***************************************************************************)
(* Bitmaps, device contexts, brushes, and what is drawn with them.  A      *)
(* bitmap is memory with a format, by which pixels are found in it; in     *)
(* this module a byte of a colour is all ones, all zeros, or Odd, anything *)
(* else, and so is a colour.  Surface and context 0 are the window's.      *)
(***************************************************************************)
EXTENDS Integers, Sequences, FiniteSets, SequencesExt, FiniteSetsExt

CONSTANTS
  Sizes,      \* <<width, height>> of bitmaps
  Formats,    \* bits of a pixel in a section: 16, 24, 32
  Rops,       \* raster operations, by name
  Blits,      \* [x, y, w, h, xs, ys, ws, hs]: rectangles guests copy between
  Stretches,  \* the same, of different sizes
  Dibs,       \* pictures in the guest's memory: [bpp, top, table, pixels]
  DibRects,   \* rectangles guests draw of them
  NSlots,     \* MW_MEMDC_MAX, 256: bitmaps, and contexts
  NBrushes,   \* 32
  MaxPaintCalls

VARIABLES
  bitmap,     \* slot -> [live, w, h, bpp, top, stride, px, given]; given: the guest knows px
  dc,         \* context -> [live, sel]: the bitmap selected, or None
  brush,      \* slot -> [live, c]
  nextObject, \* g_obj_next
  current,    \* the colour all contexts draw with
  picture,    \* history: slot -> point -> the colour the guest expects there
  blurred,    \* history: slots drawn on in a way the loader does not do
  chosen,     \* history: context -> the colour of the brush its guest selected
  overrun,    \* history: drawing went past the memory of a bitmap
  confused,   \* history: the cause, a format in a slot that is not its bitmap's or a copy by the byte
  paintCalls

vars == <<bitmap, dc, brush, nextObject, current, picture, blurred, chosen, overrun, confused, paintCalls>>
-----------------------------------------------------------------------------
None == -1
Odd == 2
Gray == Odd  \* the stock brush
Slots == 1 .. NSlots
Surfaces == 0 .. NSlots
(* A handle ends in the slot's number modulo the size of the table.          *)
Reachable(i) == i # NSlots
Window == [live |-> TRUE, w |-> 3, h |-> 1, bpp |-> 0, top |-> FALSE, stride |-> 0, given |-> FALSE, px |-> [k \in 1 .. 9 |-> 0]]
NoBitmap == [live |-> FALSE, w |-> 0, h |-> 0, bpp |-> 0, top |-> FALSE, stride |-> 0, given |-> FALSE, px |-> <<>>]

(* Where a pixel is: 24 bits are laid out as if the rows were not padded.    *)
Wide(b) == CASE b.bpp = 32 -> 4 [] b.bpp = 16 -> 2 [] OTHER -> 3
Offset(b, x, y) == IF b.bpp \in {16, 32} THEN b.stride * y + Wide(b) * x ELSE 3 * (y * b.w + x)
Inside(b, x, y) == x \in 0 .. b.w - 1 /\ y \in 0 .. b.h - 1
Byte(b, k) == IF k \in DOMAIN b.px THEN b.px[k] ELSE Odd
Colored(bytes) == IF \A k \in DOMAIN bytes : bytes[k] = bytes[1] THEN bytes[1] ELSE Odd
GetPixel(b, x, y) ==
  IF ~ Inside(b, x, y) THEN 0
  ELSE Colored([k \in 1 .. (IF b.bpp = 16 THEN 2 ELSE 3) |-> Byte(b, Offset(b, x, y) + k)])
Store(b, at, bytes) == [b EXCEPT !.px = [k \in DOMAIN b.px |-> IF k - at \in DOMAIN bytes THEN bytes[k - at] ELSE b.px[k]]]
(* The fourth byte of a pixel is made opaque.                                *)
SetPixel(b, x, y, c) ==
  IF ~ Inside(b, x, y) THEN b
  ELSE Store(b, Offset(b, x, y), [k \in 1 .. Wide(b) |-> IF k = 4 THEN 1 ELSE c])
Fits(b, x, y) == Inside(b, x, y) => Offset(b, x, y) + Wide(b) <= Len(b.px)
-----------------------------------------------------------------------------
(* The colours a raster operation makes of a pattern, a source and a         *)
(* destination; those it does not know make the pattern.                     *)
Not(c) == IF c = Odd THEN Odd ELSE 1 - c
Both(c, d) == IF c = 0 \/ d = 0 THEN 0 ELSE IF c = 1 /\ d = 1 THEN 1 ELSE Odd
Either(c, d) == IF c = 1 \/ d = 1 THEN 1 ELSE IF c = 0 /\ d = 0 THEN 0 ELSE Odd
Differ(c, d) == IF Odd \in {c, d} THEN Odd ELSE IF c = d THEN 0 ELSE 1
Raster(rop, p, s, d) ==
  CASE rop = "SRCCOPY"    -> s
    [] rop = "PATINVERT"  -> Differ(d, p)
    [] rop = "SRCAND"     -> Both(s, p)
    [] rop = "SRCPAINT"   -> Either(s, p)
    [] rop = "NOTSRCCOPY" -> Not(s)
    [] rop = "MERGEPAINT" -> Either(Not(s), d)
    [] rop = "DSTINVERT"  -> Not(d)
    [] rop = "PATPAINT"   -> Either(d, Either(p, Not(s)))
    [] OTHER              -> p
(* The third byte of the operation is its table: bit 4p + 2s + d.            *)
Code(rop) == CASE rop = "SRCCOPY" -> 204 [] rop = "PATCOPY" -> 240 [] rop = "PATINVERT" -> 90 [] rop = "SRCAND" -> 136
               [] rop = "SRCPAINT" -> 238 [] rop = "NOTSRCCOPY" -> 51 [] rop = "MERGEPAINT" -> 187 [] rop = "DSTINVERT" -> 85
               [] rop = "PATPAINT" -> 251 [] rop = "SRCINVERT" -> 102 [] OTHER -> 240
Expected(rop, p, s, d) == (Code(rop) \div 2^(4 * p + 2 * s + d)) % 2
Sound == {"SRCCOPY", "PATCOPY", "PATINVERT", "NOTSRCCOPY", "MERGEPAINT", "DSTINVERT", "PATPAINT"}
-----------------------------------------------------------------------------
Painting == paintCalls < MaxPaintCalls /\ paintCalls' = paintCalls + 1
Canvas(w, h) == (0 .. w - 1) \X (0 .. h - 1)
Rows(w, h) == [k \in 1 .. w * h |-> <<(k - 1) % w, (k - 1) \div w>>]
Points(s) == Canvas(bitmap[s].w, bitmap[s].h)
(* The bitmap a context draws on.                                            *)
Target(d) == IF dc[d].live /\ dc[d].sel # None THEN dc[d].sel ELSE None
Clear(s) == [bitmap EXCEPT ![s].live = FALSE, ![s].w = 0, ![s].h = 0, ![s].px = <<>>]
FreeIn(table) == SelectInSeq([i \in Slots |-> table[i].live], LAMBDA l : ~ l)
MemoryKept == UNCHANGED <<overrun, confused>>
BrushesKept == UNCHANGED <<brush, nextObject>>

CreateCompatibleDC ==
  /\ Painting
  /\ LET d == FreeIn(dc) IN
     IF d = 0 THEN UNCHANGED <<dc, chosen>>
     ELSE dc' = [dc EXCEPT ![d] = [live |-> TRUE, sel |-> None]] /\ chosen' = [chosen EXCEPT ![d] = 1]
  /\ UNCHANGED <<bitmap, current, picture, blurred>> /\ MemoryKept /\ BrushesKept
DeleteDC(d) ==
  /\ Painting /\ d \in Slots /\ Reachable(d) /\ dc[d].live
  /\ dc' = [dc EXCEPT ![d] = [live |-> FALSE, sel |-> None]]
  /\ UNCHANGED <<bitmap, current, picture, blurred, chosen>> /\ MemoryKept /\ BrushesKept

(* The rows of a section are padded to four bytes.                           *)
Section(w, h, bpp, top) ==
  LET stride == ((w * bpp + 31) \div 32) * 4 IN
  [live |-> TRUE, w |-> w, h |-> h, bpp |-> bpp, top |-> top, stride |-> stride, given |-> TRUE,
   px |-> [k \in 1 .. stride * h |-> 0]]
CreateDIBSection(w, h, bpp, top) ==
  /\ Painting
  /\ LET s == FreeIn(bitmap) IN
     IF s = 0 THEN UNCHANGED <<bitmap, picture, blurred>>
     ELSE /\ bitmap' = [bitmap EXCEPT ![s] = Section(w, h, bpp, top)]
          /\ picture' = [picture EXCEPT ![s] = [p \in Canvas(w, h) |-> 0]] /\ blurred' = blurred \ {s}
  /\ UNCHANGED <<dc, current, chosen>> /\ MemoryKept /\ BrushesKept
(* The new bitmap has three bytes to a pixel and is white, but its format is *)
(* what the slot has from a section that was there.                          *)
CreateCompatibleBitmap(w, h) ==
  /\ Painting
  /\ LET s == FreeIn(bitmap)
         b == [bitmap[s] EXCEPT !.live = TRUE, !.w = w, !.h = h, !.given = FALSE, !.px = [k \in 1 .. 3 * w * h |-> 0]]
         cells == Rows(w, h) IN
     IF s = 0 THEN UNCHANGED <<bitmap, picture, blurred, overrun, confused>>
     ELSE /\ bitmap' = [bitmap EXCEPT ![s] = FoldLeft(LAMBDA a, p : SetPixel(a, p[1], p[2], 1), b, cells)]
          /\ picture' = [picture EXCEPT ![s] = [p \in Canvas(w, h) |-> 1]]
          /\ blurred' = IF b.bpp = 0 THEN blurred \ {s} ELSE blurred \union {s}
          /\ overrun' = (overrun \/ \E p \in Canvas(w, h) : ~ Fits(b, p[1], p[2]))
          /\ confused' = (confused \/ b.bpp # 0)
  /\ UNCHANGED <<dc, current, chosen>> /\ BrushesKept
(* A bitmap stays while a context that is alive has it selected.             *)
DeleteObject(s) ==
  /\ Painting /\ Reachable(s) /\ bitmap[s].live
  /\ bitmap' = IF \E d \in Slots : dc[d].live /\ dc[d].sel = s THEN bitmap ELSE Clear(s)
  /\ UNCHANGED <<dc, current, picture, blurred, chosen>> /\ MemoryKept /\ BrushesKept

(* Brushes are looked for from the one made last; when all are in use the    *)
(* next gives way.  Selecting one sets the colour of all contexts.           *)
CreateSolidBrush(c) ==
  /\ Painting
  /\ LET order == [i \in 1 .. NBrushes |-> (nextObject + i - 1) % NBrushes]
         i == SelectInSeq(order, LAMBDA b : ~ brush[b].live)
         b == IF i = 0 THEN nextObject % NBrushes ELSE order[i] IN
     /\ brush' = [brush EXCEPT ![b] = [live |-> TRUE, c |-> c]] /\ nextObject' = b + 1
  /\ UNCHANGED <<bitmap, dc, current, picture, blurred, chosen>> /\ MemoryKept
DeleteBrush(b) ==
  /\ Painting /\ brush[b].live /\ brush' = [brush EXCEPT ![b].live = FALSE]
  /\ UNCHANGED <<bitmap, dc, nextObject, current, picture, blurred, chosen>> /\ MemoryKept
SelectBrush(d, b) ==
  /\ Painting /\ dc[d].live /\ brush[b].live
  /\ current' = brush[b].c /\ chosen' = [chosen EXCEPT ![d] = brush[b].c]
  /\ UNCHANGED <<bitmap, dc, picture, blurred>> /\ MemoryKept /\ BrushesKept
(* A handle that leads nowhere leaves the context without a bitmap.          *)
SelectBitmap(d, s) ==
  /\ Painting /\ d \in Slots /\ Reachable(d) /\ dc[d].live
  /\ dc' = [dc EXCEPT ![d].sel = IF Reachable(s) /\ bitmap[s].live THEN s ELSE None]
  /\ UNCHANGED <<bitmap, current, picture, blurred, chosen>> /\ MemoryKept /\ BrushesKept
(* What SelectObject says was selected before the first bitmap is the stock  *)
(* gray brush; a guest that selects it again keeps its bitmap, and draws in  *)
(* gray.                                                                     *)
RestoreObject(d) ==
  /\ Painting /\ d \in Slots /\ dc[d].live /\ dc[d].sel # None
  /\ current' = Gray /\ UNCHANGED <<bitmap, dc, picture, blurred, chosen>> /\ MemoryKept /\ BrushesKept
-----------------------------------------------------------------------------
(* Drawing on surface s: the new bitmaps, what the guest expects of s, and   *)
(* whether the loader can do that.                                           *)
Drawn(s, mem, expected, able, fits, apart) ==
  /\ bitmap' = mem
  /\ picture' = [picture EXCEPT ![s] = expected]
  /\ blurred' = IF able THEN blurred ELSE blurred \union {s}
  /\ overrun' = (overrun \/ ~ fits) /\ confused' = (confused \/ ~ apart)
  /\ UNCHANGED <<dc, current, chosen>> /\ BrushesKept
Nothing == UNCHANGED <<bitmap, dc, current, picture, blurred, chosen>> /\ MemoryKept /\ BrushesKept
Paint(b, cells, Color(_)) == FoldLeft(LAMBDA a, p : SetPixel(a, p[1], p[2], Color(p)), b, cells)
Cells(s, Touched(_)) == SelectSeq(Rows(bitmap[s].w, bitmap[s].h), Touched)
InRect(p, q) == p[1] \in q.x .. q.x + q.w - 1 /\ p[2] \in q.y .. q.y + q.h - 1

(* SetPixel, FillRect, and drawing with the current brush.                   *)
Fill(d, q, c, able) ==
  LET s == Target(d) IN
  IF s = None THEN Nothing
  ELSE Drawn(s, [bitmap EXCEPT ![s] = Paint(@, Cells(s, LAMBDA p : InRect(p, q)), LAMBDA p : c)],
             [p \in Points(s) |-> IF InRect(p, q) THEN c ELSE picture[s][p]], able,
             \A p \in Points(s) : InRect(p, q) => Fits(bitmap[s], p[1], p[2]), TRUE)
SetPixelV(d, x, y, c) == Painting /\ dc[d].live /\ Fill(d, [x |-> x, y |-> y, w |-> 1, h |-> 1], c, TRUE)
FillRect(d, q, b) == Painting /\ dc[d].live /\ brush[b].live /\ Fill(d, q, brush[b].c, TRUE)
PatBlt(d, q) == Painting /\ dc[d].live /\ Fill(d, q, current, chosen[d] = current)
InvertRect(d, q) ==
  /\ Painting /\ dc[d].live
  /\ LET s == Target(d) IN
     IF s = None THEN Nothing
     ELSE Drawn(s, [bitmap EXCEPT ![s] = Paint(@, Cells(s, LAMBDA p : InRect(p, q)), LAMBDA p : Not(GetPixel(bitmap[s], p[1], p[2])))],
                [p \in Points(s) |-> IF InRect(p, q) THEN Not(picture[s][p]) ELSE picture[s][p]], TRUE,
                \A p \in Points(s) : InRect(p, q) => Fits(bitmap[s], p[1], p[2]), TRUE)

(* Copying goes from the top left on, pixel by pixel; a pixel of the target  *)
(* is made from one of the source, both inside.                              *)
Pairs(q) == [k \in 1 .. q.w * q.h |->
              LET row == (k - 1) \div q.w  col == (k - 1) % q.w IN
              [x |-> q.x + col, y |-> q.y + row, xs |-> q.xs + (q.ws * col) \div q.w, ys |-> q.ys + (q.hs * row) \div q.h]]
Clipped(q, s, t) == SelectSeq(Pairs(q), LAMBDA k : Inside(bitmap[t], k.xs, k.ys) /\ Inside(bitmap[s], k.x, k.y))
(* A plain copy of BitBlt takes all bitmaps for ones of three bytes.         *)
CopyBytes(mem, s, t, k) ==
  LET from == 3 * (k.ys * mem[t].w + k.xs)  to == 3 * (k.y * mem[s].w + k.x) IN
  [mem EXCEPT ![s] = Store(@, to, [i \in 1 .. 3 |-> Byte(mem[t], from + i)])]
Transfer(mem, s, t, k, rop) ==
  [mem EXCEPT ![s] = SetPixel(@, k.x, k.y, Raster(rop, current, GetPixel(mem[t], k.xs, k.ys), GetPixel(mem[s], k.x, k.y)))]
Blit(d, e, q, rop, raw) ==
  LET s == Target(d)  t == Target(e) IN
  IF None \in {s, t} THEN Nothing
  ELSE \E ks \in {Clipped(q, s, t)} :
       LET bytes == raw /\ rop = "SRCCOPY"
           plain == bitmap[s].bpp = 0 /\ bitmap[t].bpp = 0
           source(p) == SelectSeq(ks, LAMBDA k : <<k.x, k.y>> = p) IN
       \E from \in {[p \in {<<ks[i].x, ks[i].y>> : i \in DOMAIN ks} |-> LET k == source(p)[1] IN picture[t][<<k.xs, k.ys>>]]} :
       LET clear(p) == Odd \notin {current, from[p], picture[s][p]} IN
       Drawn(s, FoldLeft(LAMBDA mem, k : IF bytes THEN CopyBytes(mem, s, t, k) ELSE Transfer(mem, s, t, k, rop), bitmap, ks),
             [p \in Points(s) |-> IF p \in DOMAIN from /\ clear(p) THEN Expected(rop, current, from[p], picture[s][p]) ELSE picture[s][p]],
             /\ rop \in Sound /\ t \notin blurred /\ (bytes => plain)
             /\ rop \in {"PATCOPY", "PATINVERT", "PATPAINT"} => chosen[d] = current
             /\ \A p \in DOMAIN from : clear(p)
             /\ s = t => \A i, j \in DOMAIN ks : i < j => ~ (ks[i].x = ks[j].xs /\ ks[i].y = ks[j].ys),
             \A i \in DOMAIN ks :
               IF bytes THEN /\ 3 * (ks[i].ys * bitmap[t].w + ks[i].xs) + 3 <= Len(bitmap[t].px)
                             /\ 3 * (ks[i].y * bitmap[s].w + ks[i].x) + 3 <= Len(bitmap[s].px)
               ELSE Fits(bitmap[s], ks[i].x, ks[i].y) /\ Fits(bitmap[t], ks[i].xs, ks[i].ys),
             bytes => plain)
BitBlt(d, e, q, rop) == Painting /\ dc[d].live /\ dc[e].live /\ Blit(d, e, q, rop, TRUE)
(* Stretching knows one operation less, which makes the pattern too.         *)
StretchBlt(d, e, q, rop) ==
  /\ Painting /\ dc[d].live /\ dc[e].live
  /\ Blit(d, e, q, IF rop = "PATPAINT" THEN "UNKNOWN" ELSE rop, FALSE)
(* AlphaBlend, opaque, is refused under the number of its only operation.    *)
AlphaBlend(d, e, q, op) ==
  /\ Painting /\ dc[d].live /\ dc[e].live
  /\ IF op # 1 THEN Nothing ELSE Blit(d, e, q, "SRCCOPY", FALSE)

(* A picture of up to eight bits a pixel is rows of bytes, the first pixel   *)
(* in the highest bits, that number colours in a table; what the table does  *)
(* not give is black.  The rows lie from the bottom up unless it says so.    *)
Packed(row, bpp) ==
  [k \in 1 .. (Len(row) * bpp + 7) \div 8 |->
    MapThenSumSet(LAMBDA i : row[i] * 2^(8 - bpp - (((i - 1) * bpp) % 8)),
                  {i \in DOMAIN row : ((i - 1) * bpp) \div 8 = k - 1})]
Memory(b) ==
  LET rows == IF b.top THEN b.pixels ELSE Reverse(b.pixels) IN
  IF b.bpp > 8 THEN rows ELSE [y \in DOMAIN rows |-> Packed(rows[y], b.bpp)]
Ctab(b, i) == IF i < Len(b.table) THEN b.table[i + 1] ELSE 0
RowColor(b, row, x) ==
  IF b.bpp > 8 THEN row[x + 1]
  ELSE Ctab(b, (row[(x * b.bpp) \div 8 + 1] \div 2^(8 - b.bpp - ((x * b.bpp) % 8))) % 2^b.bpp)
Width(b) == Len(b.pixels[1])
Height(b) == Len(b.pixels)
Meant(b, x, y) == IF b.bpp > 8 THEN b.pixels[y + 1][x + 1] ELSE Ctab(b, b.pixels[y + 1][x + 1])

(* SetDIBitsToDevice of a whole picture, and StretchDIBits, which draws the  *)
(* left and, but from the top down, the first rows of what is in memory      *)
(* whatever part is asked for.                                               *)
DrawRows(d, cells, Color(_), Should(_), able) ==
  LET s == Target(d) IN
  IF s = None THEN Nothing
  ELSE Drawn(s, [bitmap EXCEPT ![s] = Paint(@, Cells(s, LAMBDA p : p \in cells), Color)],
             [p \in Points(s) |-> IF p \in cells THEN Should(p) ELSE picture[s][p]], able,
             \A p \in cells \cap Points(s) : Fits(bitmap[s], p[1], p[2]), TRUE)
SetDIBitsToDevice(d, x, y, b) ==
  /\ Painting /\ dc[d].live
  /\ \E rows \in {Memory(b)} :
     LET color(p) == RowColor(b, rows[IF b.top THEN p[2] - y + 1 ELSE Height(b) - (p[2] - y)], p[1] - x) IN
     DrawRows(d, (x .. x + Width(b) - 1) \X (y .. y + Height(b) - 1), color, LAMBDA p : Meant(b, p[1] - x, p[2] - y), TRUE)
StretchDIBits(d, q, b) ==
  /\ Painting /\ dc[d].live
  /\ \E rows \in {Memory(b)} :
     LET col(p) == (q.ws * (p[1] - q.x)) \div q.w
         row(p) == (q.hs * (p[2] - q.y)) \div q.h
         y(p) == IF b.top THEN q.ys + row(p) ELSE q.hs - 1 - row(p)
         cells == {p \in (q.x .. q.x + q.w - 1) \X (q.y .. q.y + q.h - 1) : y(p) < Height(b) /\ col(p) < Width(b)}
         should(p) == Meant(b, q.xs + col(p), IF b.top THEN q.ys + row(p) ELSE Height(b) - q.ys - q.hs + row(p)) IN
     IF q.xs = 0 /\ (b.top \/ q.ys = 0)
     THEN DrawRows(d, cells, LAMBDA p : RowColor(b, rows[y(p) + 1], col(p)), should, TRUE)
     ELSE DrawRows(d, cells, LAMBDA p : RowColor(b, rows[y(p) + 1], col(p)), LAMBDA p : Odd, FALSE)
(* The guest writes a pixel into the memory of its section: rows are padded, *)
(* and from the bottom up unless the section says otherwise; sixteen bits    *)
(* are five of each colour.                                                  *)
WriteBits(s, x, y, c) ==
  /\ Painting /\ bitmap[s].live /\ Reachable(s) /\ bitmap[s].given
  /\ <<x, y>> \in Points(s)
  /\ LET b == bitmap[s]
         row == IF b.top THEN y ELSE b.h - 1 - y
         bytes == IF b.bpp = 16 THEN <<c, IF c = 1 THEN Odd ELSE 0>> ELSE <<c, c, c>> IN
     Drawn(s, [bitmap EXCEPT ![s] = Store(b, b.stride * row + (b.bpp \div 8) * x, bytes)],
           [picture[s] EXCEPT ![<<x, y>>] = c], b.bpp = 32 /\ row = y, TRUE, TRUE)
-----------------------------------------------------------------------------
(* What leads from a bitmap's handle to its rows for GetDIBits, SetDIBits    *)
(* and the colour tables compares the top half of the handle with a number   *)
(* that has a bottom half: it leads nowhere.                                 *)
HandleOf(s) == 335872 + (s % NSlots)  \* 0x52000
BitmapByHandle(h) == IF (h \div 65536) * 65536 # 335872 THEN None ELSE h % NSlots
GetDIBits(s) == IF BitmapByHandle(HandleOf(s)) = None THEN 0 ELSE bitmap[s].h

(* Nothing made yet, or the guest has a context and has selected a new       *)
(* bitmap into it.                                                           *)
Ready(b) ==
  /\ bitmap = [s \in Surfaces |-> IF s = 0 THEN Window ELSE IF s = 1 THEN b ELSE NoBitmap]
  /\ dc = [d \in Surfaces |-> CASE d = 0 -> [live |-> TRUE, sel |-> 0] [] d = 1 -> [live |-> b.live, sel |-> IF b.live THEN 1 ELSE None]
                                [] OTHER -> [live |-> FALSE, sel |-> None]]
  /\ picture = [s \in Surfaces |-> [p \in (CASE s = 0 -> Canvas(3, 1) [] s = 1 -> Canvas(b.w, b.h) [] OTHER -> {}) |-> 0]]
Init ==
  /\ Ready(NoBitmap) \/ \E z \in Sizes, bpp \in Formats, top \in BOOLEAN : Ready(Section(z[1], z[2], bpp, top))
  /\ brush = [b \in 0 .. NBrushes - 1 |-> [live |-> FALSE, c |-> 0]]
  /\ nextObject = 0 /\ current = 1
  /\ blurred = {} /\ chosen = [d \in Surfaces |-> 1] /\ overrun = FALSE /\ confused = FALSE
  /\ paintCalls = 0
Next ==
  \/ CreateCompatibleDC \/ \E d \in Slots : DeleteDC(d) \/ RestoreObject(d)
  \/ \E z \in Sizes : CreateCompatibleBitmap(z[1], z[2]) \/ \E bpp \in Formats, top \in BOOLEAN : CreateDIBSection(z[1], z[2], bpp, top)
  \/ \E s \in Slots : DeleteObject(s) \/ \E d \in Slots : SelectBitmap(d, s)
  \/ \E c \in {0, 1} : CreateSolidBrush(c) \/ \E d \in Surfaces : SetPixelV(d, 0, 0, c)
  \/ \E b \in DOMAIN brush : DeleteBrush(b) \/ \E d \in Surfaces : SelectBrush(d, b) \/ \E q \in Blits : FillRect(d, q, b)
  \/ \E d \in Surfaces, q \in Blits : PatBlt(d, q) \/ InvertRect(d, q)
  \/ \E d, e \in Surfaces, q \in Blits : \E rop \in Rops : BitBlt(d, e, q, rop)
  \/ \E d, e \in Surfaces, q \in Stretches : (\E rop \in Rops : StretchBlt(d, e, q, rop)) \/ \E op \in {0, 1} : AlphaBlend(d, e, q, op)
  \/ \E d \in Surfaces, b \in Dibs : SetDIBitsToDevice(d, 0, 0, b) \/ \E q \in DibRects : StretchDIBits(d, q, b)
  \/ \E s \in Slots, c \in {0, 1} : WriteBits(s, 0, 0, c)
Spec == Init /\ [][Next]_vars
-----------------------------------------------------------------------------
(* What a guest has drawn on a bitmap is what is in it, unless it draws in   *)
(* ways that are not done: with a brush another context selected, with an    *)
(* operation that is not computed as its table says, from a part onto itself *)
(* that is behind it, by a plain copy from or to a section, into the memory  *)
(* of a section that is not of 32 bits from the top down, with a part of a   *)
(* picture that is not at its left or its bottom, or on a bitmap in a slot   *)
(* that was a section's.  No drawing leaves a bitmap's memory but through a  *)
(* format that is not the bitmap's; a context draws on nothing that has been *)
(* deleted.                                                                  *)
PicturesAreDrawn ==
  /\ \A s \in Surfaces \ blurred : bitmap[s].live => \A p \in Points(s) : GetPixel(bitmap[s], p[1], p[2]) = picture[s][p]
  /\ overrun => confused
  /\ \A d \in Surfaces : Target(d) # None => bitmap[Target(d)].live
=============================================================================
