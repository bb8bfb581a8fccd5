------------------------------- MODULE Controls -------------------------------
(***************************************************************************)
(* Common controls (loader.c 18302-18404, 18463-18942, mw_commonctl_msg at   *)
(* 18943, mw_SendMessageW and A at 19931): the contents of list views and    *)
(* their columns, tree views, tabs, status bars, toolbars, combo boxes,      *)
(* rebars and rich edits.  Contents belong to the slot of a child window,    *)
(* not to the window: nothing clears them when a window is created in a slot *)
(* that had one.  Texts are numbers, each used once; where characters matter *)
(* Spelt gives them.  One slot is modelled.                                  *)
(***************************************************************************)
EXTENDS Integers, Sequences, FiniteSets, SequencesExt, FiniteSetsExt

CONSTANTS
  NItems,      \* MW_LV_MAXITEM, 512; MW_TV_MAX, 256; MW_TAB_MAXITEM, 32; characters of a text, 127
  NButtons,    \* toolbar buttons, 40; combo box items, 8; status parts, 4; MW_LV_MAXCOL, 16
  NLabels,     \* toolbar strings, 64
  NBands,      \* bands of a rebar, 16
  MaxTexts     \* bounds the texts used

VARIABLES
  cls,         \* class of the slot's window, "none" without one
  list,        \* g_lvstate: [n, txt, lp]; rows beyond n are blank
  heads,       \* g_lvstate: columns counted, [txt, w] of those there is room for
  tree,        \* g_tvstate, g_tree_items: [parent]
  tab,         \* g_tab_items, g_tabstate: [n, txt]
  bar,         \* toolbar of g_child: [btn, pool]
  combo,       \* combo box of g_child: [n, txt]
  status,      \* status bar of g_child: [parts, txt]
  rebar,       \* g_rebar: bands as [row, cx, h, text], and the bar's height
  edit,        \* text of g_child, cells with a NUL
  stream,      \* EM_STREAMIN in progress: [on, stored, given, mixed]
  used,        \* texts used so far
  made,        \* history: what the guest has put into its control
  inherited,   \* history: the slot has contents the guest does not know of
  capped       \* history: something did not fit, or is not kept the way it was given

typed == <<heads, edit, stream>>
contents == <<list, tree, tab, bar, combo, status, rebar, typed>>
vars == <<cls, contents, used, made, inherited, capped>>

(* A list view is looked at for its rows or for its columns, which share no  *)
(* state: as two classes.                                                    *)
Classes == {"list", "columns", "tree", "tab", "toolbar", "combo", "status", "rebar", "rich"}
Rows == 1 .. NItems
Blank == 0
Nul == <<>>
Junk == <<0, 0>>

Spelt(t) == [k \in 1 .. MaxTexts + 1 - t |-> <<t, k>>]
Copied(s, room) == SubSeq(s, 1, Min({Len(s), room - 1}))

(* A text in its cells: written with a NUL behind it, read up to the first.  *)
Written(buf, s) ==
  LET n == Min({Len(s), NItems}) IN [k \in DOMAIN buf |-> IF k <= n THEN s[k] ELSE IF k = n + 1 THEN Nul ELSE buf[k]]
Read(buf) == SubSeq(buf, 1, Min({k \in DOMAIN buf : buf[k] = Nul}) - 1)

Init ==
  /\ cls = "none" /\ used = 0 /\ made = <<>> /\ inherited = FALSE /\ capped = FALSE
  /\ list = [n |-> 0, txt |-> [r \in Rows |-> <<>>], lp |-> [r \in Rows |-> Blank]]
  /\ heads = [n |-> 0, col |-> [c \in 1 .. NButtons |-> [txt |-> <<>>, w |-> 0]]]
  /\ edit = [k \in 1 .. NItems + 1 |-> Nul] /\ stream = [on |-> FALSE, stored |-> 0, given |-> <<>>, mixed |-> FALSE]
  /\ tree = [parent |-> <<>>] /\ tab = [n |-> 0, txt |-> [r \in Rows |-> Blank]]
  /\ bar = [btn |-> <<>>, pool |-> <<>>]
  /\ combo = [n |-> 0, txt |-> [r \in 1 .. NButtons |-> Blank]]
  /\ status = [parts |-> 0, txt |-> [r \in 1 .. NButtons |-> <<>>]]
  /\ rebar = [bands |-> <<>>, height |-> 0]
-----------------------------------------------------------------------------
(* Windows                                                                   *)

Bare(c) ==
  CASE c = "list" -> list.n = 0
    [] c = "columns" -> heads.n = 0 /\ \A i \in DOMAIN heads.col : heads.col[i] = [txt |-> <<>>, w |-> 0]
    [] c = "tree" -> tree.parent = <<>>
    [] c = "tab" -> tab.n = 0
    [] c = "toolbar" -> bar = [btn |-> <<>>, pool |-> <<>>]
    [] c = "combo" -> \A i \in DOMAIN combo.txt : combo.txt[i] = Blank
    [] c = "status" -> status.parts = 0
    [] c = "rebar" -> rebar = [bands |-> <<>>, height |-> 0]
    [] c = "rich" -> \A k \in DOMAIN edit : edit[k] = Nul

Text(t) == used < MaxTexts /\ t = used + 1 /\ used' = t

(* The model reuses a slot for the class it had, which bounds it.  A window  *)
(* created with a text has that text; without one it has the slot's.         *)
CreateControl(c) ==
  /\ cls = "none" /\ (\A d \in Classes \ {c} : Bare(d)) /\ (stream.on => c = "rich")
  /\ cls' = c /\ made' = <<>> /\ capped' = stream.on
  /\ inherited' = ~ Bare(c)
  /\ UNCHANGED <<contents, used>>

CreateWithText ==
  /\ cls = "none" /\ \A d \in Classes \ {"rich"} : Bare(d)
  /\ cls' = "rich" /\ capped' = stream.on /\ inherited' = FALSE
  /\ \E t \in 1 .. MaxTexts : Text(t) /\ edit' = Written(edit, Spelt(t)) /\ made' = Spelt(t)
  /\ stream' = [stream EXCEPT !.mixed = stream.on]
  /\ UNCHANGED <<list, tree, tab, bar, combo, status, rebar, heads>>

(* A stream that its callback cut off from its window goes on in the slot.   *)
DestroyControl ==
  /\ cls # "none" /\ cls' = "none"
  /\ made' = <<>> /\ capped' = FALSE /\ inherited' = FALSE
  /\ stream' = [stream EXCEPT !.mixed = stream.on]
  /\ UNCHANGED <<list, tree, tab, bar, combo, status, rebar, heads, edit, used>>

(* SendMessage reaches mw_commonctl_msg, except that it answers WM_USER + 4  *)
(* itself: SB_SETPARTS, TB_HIDEBUTTON, CBEM_GETITEMA and whatever it is to a *)
(* class of the guest's.                                                     *)
To(c) == cls = c /\ UNCHANGED <<cls, inherited>>
Now(m) == made' = IF inherited THEN <<>> ELSE m
-----------------------------------------------------------------------------
(* List views: rows of a text and an LPARAM                                  *)

Item(t) == [txt |-> Spelt(t), lp |-> t]
NotList == <<tree, tab, bar, combo, status, rebar, typed>>

(* What LVM_GETITEM, GETITEMTEXT and GETNEXTITEM (of any state, from row 0   *)
(* for the first) answer.                                                    *)
GetItemText(r, room) == IF r <= list.n THEN Copied(list.txt[r], room) ELSE <<>>
GetItem(r, room) == [txt |-> GetItemText(r, room), lp |-> list.lp[r]]
GetNextItem(r) == IF r + 1 <= list.n THEN r + 1 ELSE 0
Shown == [r \in 1 .. list.n |-> GetItem(r, NItems + 1)]

Shifted(f, i, x) == [r \in Rows |-> IF r < i THEN f[r] ELSE IF r = i THEN x ELSE IF r <= list.n + 1 THEN f[r - 1] ELSE f[r]]
(* LVM_INSERTITEM at index i, or behind the last row.                        *)
Opened(f, i, x) == Shifted(f, i, x)
(* Mutant: rows from the index on are written over, not moved.               *)
OpenedOver(f, i, x) == [f EXCEPT ![i] = x]
InsertItem(i) ==
  /\ To("list")
  /\ IF list.n = NItems THEN UNCHANGED <<list, made, used>> /\ capped' = TRUE
     ELSE \E t \in 1 .. MaxTexts :
            LET at == IF i > list.n + 1 THEN list.n + 1 ELSE i IN
            /\ Text(t) /\ UNCHANGED capped
            /\ list' = [n |-> list.n + 1, txt |-> Opened(list.txt, at, Spelt(t)), lp |-> Shifted(list.lp, at, t)]
            /\ Now(InsertAt(made, at, Item(t)))
  /\ UNCHANGED NotList

Closed(f, i, empty) == [r \in Rows |-> IF r < i THEN f[r] ELSE IF r < NItems THEN f[r + 1] ELSE empty]
DeleteItem(i) ==
  /\ To("list") /\ i \in 1 .. list.n
  /\ list' = [n |-> list.n - 1, txt |-> Closed(list.txt, i, <<>>), lp |-> Closed(list.lp, i, Blank)]
  /\ Now(RemoveAt(made, i))
  /\ UNCHANGED <<NotList, used, capped>>

DeleteAllItems ==
  /\ To("list") /\ list.n > 0
  /\ list' = [n |-> 0, txt |-> [r \in Rows |-> <<>>], lp |-> [r \in Rows |-> Blank]]
  /\ made' = <<>>
  /\ UNCHANGED <<NotList, used, capped>>

(* LVM_SETITEMTEXTW and A, and LVM_SETITEM, which sets the LPARAM as well.    *)
(* The narrow form stores no NUL: a longer text keeps its end.               *)
Over(new, old) == new \o SubSeq(old, Len(new) + 1, Len(old))
SetItemText(i, how) ==
  /\ To("list") /\ i \in 1 .. list.n
  /\ \E t \in 1 .. MaxTexts :
       LET lp(old) == IF how = "item" THEN t ELSE old IN
       /\ Text(t)
       /\ list' = [list EXCEPT !.txt[i] = IF how = "narrow" THEN Over(Spelt(t), @) ELSE Spelt(t), !.lp[i] = lp(@)]
       /\ Now([made EXCEPT ![i] = [txt |-> Spelt(t), lp |-> lp(@.lp)]])
       /\ capped' = (capped \/ (how = "narrow" /\ Len(Spelt(t)) < Len(list.txt[i])))
  /\ UNCHANGED NotList

(* LVM_SORTITEMS: insertion sort of the row numbers by what the guest's      *)
(* comparison says of their LPARAMs; here it compares them to a pivot, so    *)
(* that some are equal.                                                      *)
SortKey(pivot, lp) == IF lp >= pivot THEN 0 ELSE 1
Place(pivot, order, r) ==
  LET before == {k \in DOMAIN order : SortKey(pivot, list.lp[order[k]]) <= SortKey(pivot, list.lp[r])}
      at == IF before = {} THEN 1 ELSE Max(before) + 1
  IN InsertAt(order, at, r)
Order(pivot) == FoldLeft(LAMBDA order, r : Place(pivot, order, r), <<>>, [r \in 1 .. list.n |-> r])
SortItems(pivot) ==
  /\ To("list") /\ list.n > 1
  /\ LET Row(f) == [r \in Rows |-> IF r <= list.n THEN f[Order(pivot)[r]] ELSE f[r]] IN
     list' = [list EXCEPT !.txt = Row(list.txt), !.lp = Row(list.lp)]
  /\ Now(SelectSeq(made, LAMBDA x : x.lp >= pivot) \o SelectSeq(made, LAMBDA x : x.lp < pivot))
  /\ UNCHANGED <<NotList, used, capped>>
-----------------------------------------------------------------------------
(* Columns of list views.  A column is put where the guest says, over the    *)
(* one that is there, or last when there is no such place; the count goes on *)
(* when there is no room.  One put in front of others, which should move, is *)
(* not kept as given, and neither is a change of one that is not there.      *)

HeadAt(i, last) == IF i \in 1 .. NButtons THEN i ELSE last
InsertColumn(i, texted) ==
  LET n == heads.n + 1 at == HeadAt(i, n) IN
  /\ To("columns") /\ heads.n <= NButtons
  /\ \E t \in 1 .. MaxTexts :
       LET new(old) == [txt |-> IF texted THEN Spelt(t) ELSE old, w |-> t] IN
       /\ Text(t)
       /\ heads' = [n |-> n, col |-> [c \in 1 .. NButtons |-> IF c = at THEN new(heads.col[c].txt) ELSE heads.col[c]]]
       /\ Now(InsertAt(made, IF i \in DOMAIN made THEN i ELSE Len(made) + 1, new(<<>>)))
  /\ capped' = (capped \/ n > NButtons \/ i \in 1 .. NButtons \ {n})
  /\ UNCHANGED <<list, tree, tab, bar, combo, status, rebar, edit, stream>>

SetColumn(i, what) ==
  LET at == HeadAt(i, heads.n) IN
  /\ To("columns") /\ at \in 1 .. NButtons
  /\ \E t \in 1 .. MaxTexts :
       LET new(old) == [txt |-> IF "text" \in what THEN Spelt(t) ELSE old.txt, w |-> IF "width" \in what THEN t ELSE old.w] IN
       /\ Text(t)
       /\ heads' = [heads EXCEPT !.col[at] = new(@)]
       /\ Now(IF at \in DOMAIN made THEN [made EXCEPT ![at] = new(@)] ELSE made)
  /\ capped' = (capped \/ i \notin 1 .. heads.n)
  /\ UNCHANGED <<list, tree, tab, bar, combo, status, rebar, edit, stream>>

GetColumnWidth(i) == IF i <= heads.n /\ i \in 1 .. NButtons THEN heads.col[i].w ELSE 0
GetColumn(i, room) ==
  [txt |-> Copied(heads.col[i].txt, room), w |-> IF heads.col[i].w = 0 THEN 80 ELSE heads.col[i].w]
-----------------------------------------------------------------------------
(* Tree views.  A node's handle is its number; nodes are never removed       *)
(* (TVM_DELETEITEM only answers).  Next and previous are the numbers beside. *)

TvParent(h) == IF h \in DOMAIN tree.parent THEN tree.parent[h] ELSE 0
TvChild(h) == LET c == {k \in DOMAIN tree.parent : tree.parent[k] = h} IN IF c = {} THEN 0 ELSE Min(c)
InsertNode(p) ==
  /\ To("tree") /\ p \in 0 .. Len(tree.parent)
  /\ IF Len(tree.parent) = NItems THEN UNCHANGED <<tree, made>> /\ capped' = TRUE
     ELSE /\ tree' = [tree EXCEPT !.parent = Append(@, p)] /\ UNCHANGED capped
          /\ Now(Append(made, [handle |-> Len(tree.parent) + 1, parent |-> p]))
  /\ UNCHANGED <<list, tab, bar, combo, status, rebar, typed, used>>

(* TVM_DELETEITEM of everything answers TRUE; the guest now has no nodes.    *)
DeleteNodes ==
  /\ cls = "tree" /\ made # <<>>
  /\ made' = <<>> /\ inherited' = TRUE
  /\ UNCHANGED <<cls, contents, used, capped>>
-----------------------------------------------------------------------------
(* Tabs, combo boxes and status bars.  The tab counts insertions beyond the  *)
(* labels it can hold; the eighth item of a combo box is written over.       *)

InsertTab ==
  /\ To("tab") /\ tab.n <= NItems
  /\ \E t \in 1 .. MaxTexts :
       /\ Text(t)
       /\ tab' = [n |-> tab.n + 1, txt |-> IF tab.n < NItems THEN [tab.txt EXCEPT ![tab.n + 1] = t] ELSE tab.txt]
       /\ Now(Append(made, [index |-> tab.n + 1, txt |-> t]))
       /\ capped' = (capped \/ tab.n >= NItems)
  /\ UNCHANGED <<list, tree, bar, combo, status, rebar, typed>>

(* CB_ADDSTRING (i = 0) and CB_INSERTSTRING put the item last and answer its *)
(* number or the one they were given; CBEM_INSERTITEM (ex) writes over the    *)
(* item of that number and counts one more.                                  *)
ComboSlot(i, ex) ==
  IF combo.n = NButtons THEN NButtons ELSE IF ex /\ i \in 1 .. combo.n THEN i ELSE combo.n + 1
AddString(i, ex) ==
  LET at == ComboSlot(i, ex) IN
  /\ To("combo")
  /\ \E t \in 1 .. MaxTexts :
       /\ Text(t)
       /\ combo' = [n |-> IF combo.n < NButtons THEN combo.n + 1 ELSE combo.n, txt |-> [combo.txt EXCEPT ![at] = t]]
       /\ Now(Append(made, [index |-> IF ex THEN at ELSE IF i = 0 THEN combo.n + 1 ELSE i, txt |-> t]))
  /\ capped' = (capped \/ combo.n = NButtons \/ i \notin {0, combo.n + 1})
  /\ UNCHANGED <<list, tree, tab, bar, status, rebar, typed>>

ResetContent ==
  /\ To("combo") /\ combo' = [combo EXCEPT !.n = 0] /\ made' = <<>>
  /\ UNCHANGED <<list, tree, tab, bar, status, rebar, typed, used, capped>>

(* CB_GETLBTEXT, CBEM_GETITEM, TCM_GETITEM and SB_GETTEXT.                    *)
GetLbText(i) == IF i <= combo.n THEN combo.txt[i] ELSE Blank
GetTabText(i) == IF i <= tab.n /\ i <= NItems THEN tab.txt[i] ELSE Blank
GetPartText(p) == status.txt[Min({p, NButtons})]

(* SB_SETTEXTA takes two bytes for one character, so it keeps every second   *)
(* one, and what lies behind the text until two NULs.                        *)
EverySecond(s) == [k \in 1 .. (Len(s) + 1) \div 2 |-> s[2 * k - 1]]
SetPartText(p, narrow) ==
  LET at == IF p > NButtons THEN NButtons ELSE p IN
  /\ To("status")
  /\ \E t \in 1 .. MaxTexts, behind \in {<<>>, <<Junk>>} :
       /\ Text(t)
       /\ status' = [parts |-> IF at > status.parts THEN at ELSE status.parts,
                     txt |-> [status.txt EXCEPT ![at] = IF narrow THEN EverySecond(Spelt(t)) \o behind ELSE Spelt(t)]]
       /\ Now(Append(SelectSeq(made, LAMBDA x : x.index # p), [index |-> p, txt |-> Spelt(t)]))
  /\ capped' = (capped \/ p > NButtons \/ narrow)
  /\ UNCHANGED <<list, tree, tab, bar, combo, rebar, typed>>

(* SB_SETPARTS does not arrive.                                              *)
SetParts == To("status") /\ UNCHANGED <<contents, used, made, capped>>
-----------------------------------------------------------------------------
(* Toolbars: TB_ADDSTRING answers the number of the string it adds, a button *)
(* names its label by that number or by a pointer, which is added as well.   *)
(* TB_INSERTBUTTON adds at the end.                                          *)

Pooled(t) == IF Len(bar.pool) < NLabels THEN Append(bar.pool, t) ELSE bar.pool
TbAddString ==
  /\ To("toolbar")
  /\ \E t \in 1 .. MaxTexts : Text(t) /\ bar' = [bar EXCEPT !.pool = Pooled(t)]
                              /\ Now(Append(made, [string |-> Len(bar.pool) + 1, txt |-> used']))
  /\ capped' = (capped \/ Len(bar.pool) = NLabels)
  /\ UNCHANGED <<list, tree, tab, combo, status, rebar, typed>>

AddButton(k) ==
  /\ To("toolbar") /\ Len(bar.btn) < NButtons /\ k \in 0 .. Len(bar.pool)
  /\ bar' = [bar EXCEPT !.btn = Append(@, k)]
  /\ Now(IF k = 0 THEN made ELSE Append(made, [button |-> Len(bar.btn) + 1, txt |-> bar.pool[k]]))
  /\ UNCHANGED <<list, tree, tab, combo, status, rebar, typed, used, capped>>

AddButtonWithText ==
  /\ To("toolbar") /\ Len(bar.btn) < NButtons
  /\ \E t \in 1 .. MaxTexts :
       /\ Text(t)
       /\ bar' = [btn |-> Append(bar.btn, IF Len(bar.pool) < NLabels THEN Len(bar.pool) + 1 ELSE 0), pool |-> Pooled(t)]
       /\ Now(Append(made, [button |-> Len(bar.btn) + 1, txt |-> t]))
  /\ capped' = (capped \/ Len(bar.pool) = NLabels)
  /\ UNCHANGED <<list, tree, tab, combo, status, rebar, typed>>

Label(b) == IF bar.btn[b] \in DOMAIN bar.pool THEN bar.pool[bar.btn[b]] ELSE Blank
-----------------------------------------------------------------------------
(* Rebars: bands in rows; a band that breaks starts a row, a row is as high  *)
(* as its highest band.                                                      *)

Breaks(bands, i) == i = 1 \/ bands[i].break
RowOf(bands, i) == Cardinality({j \in 1 .. i : Breaks(bands, j)})
RowHeight(bands, r) == Max({bands[i].h : i \in {j \in DOMAIN bands : RowOf(bands, j) = r}})
NRows(bands) == IF bands = <<>> THEN 0 ELSE RowOf(bands, Len(bands))
RowTop(bands, r) == FoldLeft(LAMBDA y, k : y + RowHeight(bands, k), 0, [k \in 1 .. r - 1 |-> k])
Height(bands) == RowTop(bands, NRows(bands) + 1)
Left(bands, i) ==
  FoldLeft(LAMBDA x, j : IF RowOf(bands, j) = RowOf(bands, i) THEN x + bands[j].cx ELSE x, 0, [j \in 1 .. i - 1 |-> j])
BandRect(bands, i) ==
  [left |-> Left(bands, i), right |-> Left(bands, i) + bands[i].cx,
   top |-> RowTop(bands, RowOf(bands, i)), bottom |-> RowTop(bands, RowOf(bands, i)) + RowHeight(bands, RowOf(bands, i))]

Sized(bands) == [bands |-> bands, height |-> IF Height(bands) > 0 THEN Height(bands) ELSE rebar.height]

InsertBand(i, band) ==
  /\ To("rebar") /\ i \in 1 .. Len(rebar.bands) + 1
  /\ IF Len(rebar.bands) = NBands THEN UNCHANGED <<rebar, made>> /\ capped' = TRUE
     ELSE rebar' = Sized(InsertAt(rebar.bands, i, band)) /\ Now(InsertAt(made, i, band)) /\ UNCHANGED capped
  /\ UNCHANGED <<list, tree, tab, bar, combo, status, typed, used>>

SetBandInfo(i, band) ==
  /\ To("rebar") /\ i \in DOMAIN rebar.bands
  /\ rebar' = Sized([rebar.bands EXCEPT ![i] = band])
  /\ Now([made EXCEPT ![i] = band])
  /\ UNCHANGED <<list, tree, tab, bar, combo, status, typed, used, capped>>

(* RB_DELETEBAND lays the others out again but leaves the bar's height.      *)
DeleteBand(i) ==
  /\ To("rebar") /\ i \in DOMAIN rebar.bands
  /\ rebar' = [rebar EXCEPT !.bands = RemoveAt(@, i)]
  /\ Now(RemoveAt(made, i))
  /\ UNCHANGED <<list, tree, tab, bar, combo, status, typed, used, capped>>

-----------------------------------------------------------------------------
(* Rich edits: WM_SETTEXT and EM_SETTEXTEX; WM_SETTEXT through SendMessageA   *)
(* widens the text where it lies and loses all but its first character.      *)

NotRich == <<list, tree, tab, bar, combo, status, rebar, heads>>
SetText(narrow) ==
  /\ cls = "rich" /\ cls' = cls /\ inherited' = FALSE
  /\ \E t \in 1 .. MaxTexts :
       /\ Text(t)
       /\ edit' = Written(edit, IF narrow THEN Copied(Spelt(t), 2) ELSE Spelt(t))
       /\ made' = Spelt(t)
       /\ capped' = (capped \/ (narrow /\ Len(Spelt(t)) > 1))
  /\ stream' = [stream EXCEPT !.mixed = stream.on]
  /\ UNCHANGED NotRich

(* EM_STREAMIN calls the guest for one piece after another (at most 64, more *)
(* than are met here) and stores what there is room for; the NUL comes last. *)
(* The guest may do anything from its callback but stream into it again.     *)
StreamIn ==
  /\ To("rich") /\ ~ stream.on
  /\ stream' = [on |-> TRUE, stored |-> 0, given |-> <<>>, mixed |-> FALSE]
  /\ UNCHANGED <<NotRich, edit, used, made, capped>>
Stored(cell, piece) ==
  [k \in DOMAIN cell |-> IF k > stream.stored /\ k <= Min({stream.stored + Len(piece), NItems}) THEN piece[k - stream.stored] ELSE cell[k]]
StreamPiece ==
  /\ stream.on
  /\ \E t \in 1 .. MaxTexts :
       /\ Text(t)
       /\ edit' = Stored(edit, Spelt(t))
       /\ stream' = [stream EXCEPT !.stored = Min({@ + Len(Spelt(t)), NItems}), !.given = @ \o Spelt(t)]
  /\ UNCHANGED <<NotRich, cls, made, inherited, capped>>
EndsText(cell) == [cell EXCEPT ![stream.stored + 1] = Nul]
StreamEnds ==
  /\ stream.on
  /\ edit' = EndsText(edit)
  /\ stream' = [stream EXCEPT !.on = FALSE, !.given = <<>>, !.stored = 0, !.mixed = FALSE]
  /\ made' = IF cls = "rich" /\ ~ stream.mixed THEN stream.given ELSE made
  /\ inherited' = (inherited /\ (cls # "rich" \/ stream.mixed))
  /\ capped' = (capped \/ stream.mixed \/ Len(stream.given) > NItems)
  /\ UNCHANGED <<NotRich, cls, used>>

(* WM_GETTEXT with room for so many; EM_GETTEXTEX and EM_STREAMOUT give all   *)
(* there is.                                                                 *)
GetText(room) == Copied(Read(edit), room)
StreamOut == Read(edit)

Bands == [break : BOOLEAN, cx : {1, 2}, h : {1, 2}]

Next ==
  \/ (\E c \in Classes : CreateControl(c)) \/ CreateWithText
  \/ DestroyControl
  \/ \E i \in 1 .. NItems + 1 : InsertItem(i) \/ DeleteItem(i) \/ \E how \in {"wide", "narrow", "item"} : SetItemText(i, how)
  \/ \E i \in 0 .. NButtons + 1 : (\E b \in BOOLEAN : InsertColumn(i, b)) \/ \E what \in {{"text"}, {"width"}, {"text", "width"}} : SetColumn(i, what)
  \/ DeleteAllItems \/ \E p \in 1 .. MaxTexts : SortItems(p)
  \/ (\E p \in 0 .. NItems : InsertNode(p)) \/ DeleteNodes
  \/ InsertTab \/ SetParts \/ ResetContent
  \/ \E i \in 0 .. NButtons, ex \in BOOLEAN : AddString(i, ex)
  \/ \E p \in 1 .. NButtons + 1, b \in BOOLEAN : SetPartText(p, b)
  \/ (\E b \in BOOLEAN : SetText(b)) \/ StreamIn \/ StreamPiece \/ StreamEnds
  \/ TbAddString \/ AddButtonWithText \/ \E k \in 0 .. NLabels : AddButton(k)
  \/ \E i \in 1 .. NBands + 1, b \in Bands : InsertBand(i, b) \/ SetBandInfo(i, b)
  \/ \E i \in 1 .. NBands : DeleteBand(i)

Spec == Init /\ [][Next]_vars
-----------------------------------------------------------------------------
(* A list shows the guest's rows in the order insertions, deletions and      *)
(* sorting give, each with its own LPARAM.                                   *)
ListShowsItsRows ==
  cls = "list" =>
    /\ Shown = made
    /\ \A r \in DOMAIN made :
         /\ GetNextItem(r - 1) = r /\ GetNextItem(Len(made)) = 0
         /\ \A room \in 1 .. NItems : Len(GetItemText(r, room)) = Min({room - 1, Len(made[r].txt)})

(* A list view has the columns it was given, each with its text and width.   *)
ColumnsKeepTheirHeads ==
  cls = "columns" =>
    /\ heads.n = Len(made)
    /\ \A i \in DOMAIN made : GetColumn(i, NItems + 1) = made[i] /\ GetColumnWidth(i) = made[i].w

(* A rich edit has the text it was given last, at once or piece by piece, and*)
(* nothing of an earlier one.                                                *)
EditsKeepTheirText ==
  cls = "rich" /\ ~ stream.on =>
    /\ StreamOut = made
    /\ \A room \in 1 .. NItems + 1 : GetText(room) = SubSeq(made, 1, Min({room - 1, Len(made)}))

(* A node's parent is the one it was inserted under, a parent's first child  *)
(* the first one inserted.                                                   *)
TreeIsAsBuilt ==
  cls = "tree" =>
    \A k \in DOMAIN made :
      LET h == made[k].handle IN
      /\ TvParent(h) = made[k].parent
      /\ TvChild(made[k].parent) \in {made[j].handle : j \in {i \in 1 .. k : made[i].parent = made[k].parent}}

(* The number an insertion answered finds its text.                          *)
IndexesFindTheirText ==
  \A k \in DOMAIN made :
    CASE cls = "tab"     -> GetTabText(made[k].index) = made[k].txt
      [] cls = "combo"   -> GetLbText(made[k].index) = made[k].txt
      [] cls = "status"  -> GetPartText(made[k].index) = made[k].txt
      [] cls = "toolbar" -> IF "button" \in DOMAIN made[k] THEN Label(made[k].button) = made[k].txt
                            ELSE bar.pool[made[k].string] = made[k].txt
      [] OTHER           -> TRUE

(* Bands do not overlap and the bar is never lower than its rows.            *)
BandsFitTheBar ==
  cls = "rebar" =>
    /\ rebar.bands = made /\ rebar.height >= Height(rebar.bands)
    /\ \A i, j \in DOMAIN rebar.bands :
         LET a == BandRect(rebar.bands, i) b == BandRect(rebar.bands, j) IN
         i < j => a.right <= b.left \/ b.right <= a.left \/ a.bottom <= b.top

(* What a control holds is what the guest put there, unless its window was   *)
(* created in a slot with contents or something did not fit or is not kept.  *)
ControlsHoldWhatTheyWereGiven ==
  inherited \/ capped \/
  (ListShowsItsRows /\ ColumnsKeepTheirHeads /\ EditsKeepTheirText /\ TreeIsAsBuilt /\ IndexesFindTheirText /\ BandsFitTheBar)
=============================================================================
