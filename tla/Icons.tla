-------------------------------- MODULE Icons --------------------------------
(***************************************************************************)
(* Icons and image lists: choosing the member of an icon group, decoding   *)
(* pictures, the icon handles of a guest, the shell's cache of icons, and  *)
(* the image lists.  A picture is a sequence of rows of pixels [c, a]: a   *)
(* colour, and whether it is opaque.  subject is what a behaviour is       *)
(* about.                                                                  *)
(***************************************************************************)
EXTENDS Integers, Sequences, FiniteSets, SequencesExt, FiniteSetsExt

CONSTANTS
  Sides,      \* widths and heights of icons in a group
  Rooms,      \* depths of their colours, in bits
  MaxGroup,   \* bounds the members of a group
  Shapes,     \* pictures guests make icons of
  ShellFiles, \* what a guest asks the shell about: [drive, dir, ext]
  NIcons,     \* MW_ICONS_MAX, 256
  NCache,     \* g_sfi_cache, 8
  NLists,     \* MW_IMGL_MAX, 16
  ListMax,    \* MW_IMGL_IMGMAX, 512
  MaxIconCalls

VARIABLES
  subject,    \* "group", "picture", "icons" or "lists"
  shape,      \* the group or the picture asked about
  icon,       \* slot -> [live, pic]
  cache,      \* the shell's: sequence of [cls, h]
  held,       \* history: handle -> the picture its holder knows
  spoilt,     \* history: an icon of the shell's cache was destroyed, or a copy was refused
  list,       \* slot -> [live, px, count]: px has the list's capacity
  want,       \* history: list handle -> [live, cells]: what its holder has put in
  iconCalls

vars == <<subject, shape, icon, cache, held, spoilt, list, want, iconCalls>>
-----------------------------------------------------------------------------
(* Choosing a member of a group: a member has a width, a height, a depth.    *)

(* LoadIcon and LoadImage: the exact size, else the smallest that is not     *)
(* smaller, else what is left, by area.                                      *)
Score(e, w, h) ==
  LET dx == e.w - w  dy == e.h - h IN
  IF dx = 0 /\ dy = 0 THEN 0
  ELSE IF dx >= 0 /\ dy >= 0 THEN 100000 + dx * dy + dx + dy ELSE 200000 + dx * dy - dx - dy
FromGroup(group, cx, cy) ==
  LET w == IF cx <= 0 THEN 32 ELSE cx
      h == IF cy <= 0 THEN 32 ELSE cy
      least == Min({Score(group[i], w, h) : i \in DOMAIN group}) IN
  Min({i \in DOMAIN group : Score(group[i], w, h) = least})

(* ExtractIcon: the largest that is not larger, the deepest of those; when   *)
(* all are larger, the smallest; best is [i, w, h, bits].                    *)
Least == [i |-> 0, w |-> 0, h |-> 0, bits |-> 0]
Most == [i |-> 0, w |-> 256, h |-> 256, bits |-> 0]
Deeper(best, e) == ~ (e.w = best.w /\ e.h = best.h /\ e.bits <= best.bits)
As(i, e) == [i |-> i, w |-> e.w, h |-> e.h, bits |-> e.bits]
(* Mutant: the smallest is looked for from below.                            *)
GroupBestFromBelow(group, w, h) ==
  LET under == FoldLeftDomain(LAMBDA best, i : LET e == group[i] IN
                 IF e.w > w \/ e.h > h \/ e.w < best.w \/ e.h < best.h \/ ~ Deeper(best, e) THEN best ELSE As(i, e), Least, group)
      over == FoldLeftDomain(LAMBDA best, i : LET e == group[i] IN
                IF e.w < best.w \/ e.h < best.h \/ ~ Deeper(best, e) THEN best ELSE As(i, e), Least, group) IN
  IF w = 0 /\ h = 0 THEN 1 ELSE IF under.i # 0 THEN under.i ELSE IF over.i # 0 THEN over.i ELSE 1
GroupBest(group, w, h) ==
  LET under == FoldLeftDomain(LAMBDA best, i : LET e == group[i] IN
                 IF e.w > w \/ e.h > h \/ e.w < best.w \/ e.h < best.h \/ ~ Deeper(best, e) THEN best ELSE As(i, e), Least, group)
      over == FoldLeftDomain(LAMBDA best, i : LET e == group[i] IN
                IF e.w > best.w \/ e.h > best.h \/ ~ Deeper(best, e) THEN best ELSE As(i, e), Most, group) IN
  IF w = 0 /\ h = 0 THEN 1 ELSE IF under.i # 0 THEN under.i ELSE IF over.i # 0 THEN over.i ELSE 1

(* ExtractIcon reads the file itself: -1 counts its groups, of which 16 are  *)
(* seen.  A member is followed only if its data hangs at its number without  *)
(* a level for languages, flat; the program's own file gives none, because   *)
(* the entry that says where a group's data is is taken for the data.        *)
Extract(groups, flat, idx) ==
  LET seen == SubSeq(groups, 1, IF Len(groups) < 16 THEN Len(groups) ELSE 16)
      group == seen[idx + 1] IN
  IF idx = -1 THEN [count |-> Len(seen), member |-> 0]
  ELSE IF idx < 0 \/ idx >= Len(seen) THEN [count |-> 0, member |-> 0]
  ELSE LET i == GroupBest(group, 32, 32) IN
       IF i \in flat THEN [count |-> 1, member |-> i] ELSE [count |-> 0, member |-> 0]
ExtractFrom(own, groups, flat, idx) == IF own THEN [count |-> 0, member |-> 0] ELSE Extract(groups, flat, idx)
-----------------------------------------------------------------------------
(* Decoding.  A DIB has its rows from the bottom up, unless its height is    *)
(* negative, and an icon's has a mask after them if there is room for one.   *)

Dib(w, h, rows, mask) == [w |-> w, h |-> h, rows |-> rows, mask |-> mask]
NoPicture == <<>>
BitmapFromDib(dib) ==
  IF dib.w \notin 1 .. 4096 \/ dib.h = 0 \/ dib.h \notin -4096 .. 4096 THEN NoPicture
  ELSE IF dib.h < 0 THEN dib.rows ELSE Reverse(dib.rows)

Transparent(p) == [p EXCEPT !.a = FALSE]
(* The row of the mask that goes with a row of colours is counted from the   *)
(* other end.                                                                *)
IconFromDib(dib) ==
  LET h == dib.h \div 2 IN
  IF dib.w \notin 1 .. 256 \/ h \notin 1 .. 256 THEN NoPicture
  ELSE [r \in 1 .. h |-> [x \in 1 .. dib.w |->
          LET p == dib.rows[h + 1 - r][x] IN
          IF dib.mask # <<>> /\ dib.mask[r][x] = 1 THEN Transparent(p) ELSE p]]
(* A compressed picture becomes a DIB without a mask and is decoded again.   *)
IconFromPng(rows) == IconFromDib(Dib(Len(rows[1]), 2 * Len(rows), Reverse(rows), <<>>))
(* From colours and a mask in bitmaps, or in a guest's memory, where rows    *)
(* are taken for rows from the bottom up.                                    *)
IconFromBitmaps(rows, mask) ==
  [r \in DOMAIN rows |-> [x \in DOMAIN rows[r] |-> IF mask # <<>> /\ mask[r][x] = 0 THEN Transparent(rows[r][x]) ELSE rows[r][x]]]
CreateIcon(rows, mask) ==
  [r \in DOMAIN rows |-> [x \in DOMAIN rows[r] |->
     LET k == Len(rows) + 1 - r IN IF mask # <<>> /\ mask[k][x] = 1 THEN Transparent(rows[k][x]) ELSE rows[k][x]]]

(* In an image list a pixel is a colour only: what is transparent becomes    *)
(* white, and a colour with a full component, "bright", transparent when an  *)
(* icon is made of it again.                                                 *)
White == "white"
ToCell(pic) == [r \in DOMAIN pic |-> [x \in DOMAIN pic[r] |-> IF pic[r][x].a THEN pic[r][x].c ELSE White]]
FromCell(cell) == [r \in DOMAIN cell |-> [x \in DOMAIN cell[r] |-> [c |-> cell[r][x], a |-> cell[r][x] \notin {White, "bright"}]]]
-----------------------------------------------------------------------------
(* Icon handles: a slot in the first that is free.                           *)

Icons == 1 .. NIcons
NoIcon == 0
FreeIcon == SelectInSeq([i \in Icons |-> icon[i].live], LAMBDA l : ~ l)
Calling == iconCalls < MaxIconCalls /\ iconCalls' = iconCalls + 1
Stored(pic) == IF FreeIcon = NoIcon THEN icon ELSE [icon EXCEPT ![FreeIcon] = [live |-> TRUE, pic |-> pic]]
Knows(h, pic) == IF h = NoIcon THEN held ELSE [held EXCEPT ![h] = pic]

(* LoadIcon, LoadImage, CreateIcon, ImageList_GetIcon and their likes.       *)
MakeIcon(pic) ==
  /\ Calling /\ icon' = Stored(pic) /\ held' = Knows(FreeIcon, pic) /\ UNCHANGED <<cache, spoilt, list, want>>
(* When there is no room the copy is the icon itself.                        *)
CopyIcon(h) ==
  /\ Calling /\ icon[h].live /\ held[h] # NoPicture
  /\ icon' = Stored(icon[h].pic) /\ held' = Knows(FreeIcon, icon[h].pic)
  /\ spoilt' = (spoilt \/ FreeIcon = NoIcon) /\ UNCHANGED <<cache, list, want>>
DestroyIcon(h) ==
  /\ Calling /\ held[h] # NoPicture
  /\ icon' = [icon EXCEPT ![h] = [live |-> FALSE, pic |-> NoPicture]] /\ held' = [held EXCEPT ![h] = NoPicture]
  /\ spoilt' = (spoilt \/ \E k \in DOMAIN cache : cache[k].h = h) /\ UNCHANGED <<cache, list, want>>

(* The class of a file: by what it is, else by its extension.                *)
Class(f) == IF f.drive THEN "drive" ELSE IF f.dir THEN "folder" ELSE IF f.ext = "" THEN "file" ELSE
  CASE f.ext \in {"zip", "rar", "7z", "cab", "iso"} -> "archive"
    [] f.ext \in {"txt", "ini", "xml", "bat", "c"} -> "text"
    [] f.ext \in {"bmp", "png", "ico"}             -> "image"
    [] f.ext \in {"exe", "com", "scr", "dll", "ocx", "cpl"} -> "app"
    [] OTHER -> "file"
Glyph(cls) == <<<<[c |-> cls, a |-> TRUE]>>>>

(* Each class has one icon, made when it is first asked for and remembered   *)
(* while the cache has room, failures included; these are passed over.       *)
Cached(cls) == LET k == SelectInSeq(cache, LAMBDA e : e.cls = cls /\ e.h # NoIcon) IN IF k = 0 THEN NoIcon ELSE cache[k].h
SHGetFileInfo(f) ==
  /\ Calling
  /\ LET cls == Class(f)
         known == Cached(cls)
         h == IF known # NoIcon THEN known ELSE FreeIcon IN
     /\ held' = Knows(h, Glyph(cls))
     /\ IF known # NoIcon THEN UNCHANGED <<icon, cache>>
        ELSE /\ icon' = Stored(Glyph(cls))
             /\ cache' = IF Len(cache) < NCache THEN Append(cache, [cls |-> cls, h |-> FreeIcon]) ELSE cache
  /\ UNCHANGED <<spoilt, list, want>>
-----------------------------------------------------------------------------
(* Image lists.  px holds what the list has room for; what is past count     *)
(* stays there.                                                              *)

Lists == 1 .. NLists
Blank == "blank"
Unsaid == "any"
FreeList == SelectInSeq([l \in Lists |-> list[l].live], LAMBDA b : ~ b)
Room(px, n) == [i \in 1 .. n |-> IF i <= Len(px) THEN px[i] ELSE Blank]
RECURSIVE Doubled(_, _)
Doubled(cap, n) == IF cap >= n THEN cap ELSE Doubled(2 * cap, n)
Grown(px, n) == Room(px, Doubled(Len(px), n))
Put(px, at, pics) == [i \in DOMAIN px |-> IF i \in at + 1 .. at + Len(pics) THEN pics[i - at] ELSE px[i]]
NewList(n) == [live |-> TRUE, px |-> [i \in 1 .. (IF n > 0 THEN n ELSE 1) |-> Blank], count |-> 0]
Keeping == UNCHANGED <<icon, cache, held, spoilt>>

ImageListCreate(n) ==
  /\ Calling /\ Keeping /\ FreeList # 0
  /\ list' = [list EXCEPT ![FreeList] = NewList(n)] /\ want' = [want EXCEPT ![FreeList] = [live |-> TRUE, cells |-> <<>>]]
ImageListDestroy(l) ==
  /\ Calling /\ Keeping /\ want[l].live
  /\ list' = [list EXCEPT ![l] = [live |-> FALSE, px |-> <<>>, count |-> 0]]
  /\ want' = [want EXCEPT ![l] = [live |-> FALSE, cells |-> <<>>]]
(* As many of the pictures in a strip as there is room for.                  *)
ImageListAdd(l, pics) ==
  LET c == list[l].count
      new == SubSeq(pics, 1, IF c + Len(pics) > ListMax THEN ListMax - c ELSE Len(pics)) IN
  /\ Calling /\ Keeping /\ list[l].live /\ want[l].live
  /\ IF new = <<>> THEN UNCHANGED <<list, want>>
     ELSE /\ list' = [list EXCEPT ![l].px = Put(Grown(list[l].px, c + Len(new)), c, new), ![l].count = c + Len(new)]
          /\ want' = [want EXCEPT ![l].cells = @ \o new]
ImageListSetImageCount(l, n) ==
  LET k == IF n > ListMax THEN ListMax ELSE n IN
  /\ Calling /\ Keeping /\ list[l].live /\ want[l].live
  /\ list' = [list EXCEPT ![l].px = IF k > Len(list[l].px) THEN Room(list[l].px, k) ELSE list[l].px, ![l].count = k]
  /\ want' = [want EXCEPT ![l].cells = [i \in 1 .. k |-> IF i <= Len(want[l].cells) THEN want[l].cells[i] ELSE Unsaid]]
(* i is -1 to add one at the end, and may be past it.                        *)
ImageListReplaceIcon(l, i, pic) ==
  LET at == IF i < 0 THEN list[l].count ELSE i
      c == IF at >= list[l].count THEN at + 1 ELSE list[l].count IN
  /\ Calling /\ Keeping /\ list[l].live /\ want[l].live
  /\ IF at >= ListMax THEN UNCHANGED <<list, want>>
     ELSE /\ list' = [list EXCEPT ![l].px = Put(Grown(list[l].px, c), at, <<pic>>), ![l].count = c]
          /\ want' = [want EXCEPT ![l].cells =
                        [k \in 1 .. c |-> IF k = at + 1 THEN pic ELSE IF k <= Len(want[l].cells) THEN want[l].cells[k] ELSE Unsaid]]
(* Counted from 0; -1 removes all.                                           *)
ImageListRemove(l, i) ==
  LET c == list[l].count IN
  /\ Calling /\ Keeping /\ list[l].live /\ want[l].live
  /\ IF i = -1 THEN list' = [list EXCEPT ![l].count = 0] /\ want' = [want EXCEPT ![l].cells = <<>>]
     ELSE IF i >= c THEN UNCHANGED <<list, want>>
     ELSE /\ list' = [list EXCEPT ![l].count = c - 1,
                        ![l].px = [k \in DOMAIN list[l].px |-> IF k \in i + 1 .. c - 1 THEN list[l].px[k + 1] ELSE list[l].px[k]]]
          /\ want' = [want EXCEPT ![l].cells = RemoveAt(want[l].cells, i + 1)]
ImageListDuplicate(l) ==
  LET c == list[l].count IN
  /\ Calling /\ Keeping /\ list[l].live /\ want[l].live /\ FreeList # 0
  /\ list' = [list EXCEPT ![FreeList] =
                [live |-> TRUE, count |-> c, px |-> Put(Room(NewList(1).px, IF c > 1 THEN c ELSE 1), 0, SubSeq(list[l].px, 1, c))]]
  /\ want' = [want EXCEPT ![FreeList] = want[l]]
-----------------------------------------------------------------------------
Groups == UNION {[1 .. n -> [w : Sides, h : Sides, bits : Rooms]] : n \in 1 .. MaxGroup}

Init ==
  /\ icon = [i \in Icons |-> [live |-> FALSE, pic |-> NoPicture]] /\ cache = <<>>
  /\ held = [i \in Icons |-> NoPicture] /\ spoilt = FALSE
  /\ list = [l \in Lists |-> [live |-> FALSE, px |-> <<>>, count |-> 0]]
  /\ want = [l \in Lists |-> [live |-> FALSE, cells |-> <<>>]] /\ iconCalls = 0
  /\ \/ subject = "group" /\ shape \in Groups
     \/ subject = "picture" /\ shape \in Shapes
     \/ subject \in {"icons", "lists"} /\ shape = <<>>

Next ==
  /\ UNCHANGED <<subject, shape>>
  /\ \/ /\ subject = "icons"
        /\ \/ \E pic \in {Glyph("one"), Glyph("two")} : MakeIcon(pic)
           \/ \E h \in Icons : CopyIcon(h) \/ DestroyIcon(h)
           \/ \E f \in ShellFiles : SHGetFileInfo(f)
     \/ /\ subject = "lists"
        /\ \/ \E n \in 0 .. 1 : ImageListCreate(n)
           \/ \E l \in Lists :
                \/ ImageListDestroy(l) \/ ImageListDuplicate(l)
                \/ \E pics \in {<<"p">>, <<"q", "p">>} : ImageListAdd(l, pics)
                \/ \E n \in {0, 2, ListMax + 1} : ImageListSetImageCount(l, n)
                \/ \E i \in -1 .. ListMax : ImageListReplaceIcon(l, i, "r") \/ ImageListRemove(l, i)

Spec == Init /\ [][Next]_vars
-----------------------------------------------------------------------------
(* Of square icons the exact size is chosen if the group has it; otherwise   *)
(* to load, the smallest of the larger ones, or the largest there is; to     *)
(* extract, the largest of the smaller ones, or the smallest there is, and   *)
(* none of its size is deeper.                                               *)
Square(group) == \A i \in DOMAIN group : group[i].w = group[i].h
GroupsSuit ==
  subject = "group" /\ Square(shape) =>
    \A n \in Sides \ {0} :
      LET sizes == {shape[i].w : i \in DOMAIN shape}
          larger == {s \in sizes : s >= n}
          smaller == {s \in sizes : s <= n}
          loaded == shape[FromGroup(shape, n, n)]
          drawn == shape[GroupBest(shape, n, n)] IN
      /\ loaded.w = IF larger # {} THEN Min(larger) ELSE Max(sizes)
      /\ drawn.w = IF smaller # {} THEN Max(smaller) ELSE Min(sizes)
      /\ \A i \in DOMAIN shape : shape[i].w = drawn.w => shape[i].bits <= drawn.bits
      /\ \A flat \in SUBSET DOMAIN shape : \A idx \in -2 .. 1 :
           LET got == Extract(<<shape>>, flat, idx) IN
           got.member # 0 => idx = 0 /\ got.member \in flat /\ got.member = GroupBest(shape, 32, 32)

(* A picture is the same after it was decoded from what a PNG becomes, and   *)
(* after it went into an image list and out again, if it has no bright       *)
(* colour; a bitmap decoded to an icon has its top row at the top.           *)
Opaque(pic) == [r \in DOMAIN pic |-> [x \in DOMAIN pic[r] |-> [pic[r][x] EXCEPT !.a = TRUE]]]
PicturesAreKept ==
  subject = "picture" =>
    /\ IconFromPng(shape) = shape
    /\ LET back == FromCell(ToCell(shape)) IN
       \A r \in DOMAIN shape : \A x \in DOMAIN shape[r] :
         shape[r][x].c \notin {White, "bright"} => back[r][x].a = shape[r][x].a /\ (shape[r][x].a => back[r][x] = shape[r][x])
    /\ LET mask == [r \in DOMAIN shape |-> [x \in DOMAIN shape[r] |-> IF shape[r][x].a THEN 0 ELSE 1]]
           dib == Dib(Len(shape[1]), 2 * Len(shape), Reverse(Opaque(shape)), Reverse(mask)) IN
       /\ BitmapFromDib([dib EXCEPT !.h = Len(shape)]) = Opaque(shape)
       /\ mask = Reverse(mask) => IconFromDib(dib) = shape
       /\ CreateIcon(Reverse(Opaque(shape)), Reverse(mask)) = shape
       /\ IconFromBitmaps(Opaque(shape), [r \in DOMAIN mask |-> [x \in DOMAIN mask[r] |-> 1 - mask[r][x]]]) = shape

(* A handle shows the picture its holder got it for, and different icons     *)
(* have different handles, until someone destroys an icon the shell gave     *)
(* out or a copy had to share its original's handle.                         *)
IconsAreTheirs ==
  \/ subject # "icons" \/ spoilt
  \/ /\ \A h \in Icons : held[h] # NoPicture => icon[h].live /\ icon[h].pic = held[h]
     /\ \A k \in DOMAIN cache : cache[k].h # NoIcon => icon[cache[k].h] = [live |-> TRUE, pic |-> Glyph(cache[k].cls)]

(* An image list holds what was put in, in order, as far as there was room.  *)
ListsAreKept ==
  subject = "lists" =>
    \A l \in Lists :
      /\ list[l].live = want[l].live
      /\ list[l].live => /\ list[l].count = Len(want[l].cells) /\ list[l].count <= Len(list[l].px)
                         /\ \A i \in 1 .. list[l].count : want[l].cells[i] \in {Unsaid, list[l].px[i]}

IconsAreKept == GroupsSuit /\ PicturesAreKept /\ IconsAreTheirs /\ ListsAreKept
=============================================================================
