-------------------------------- MODULE Menus --------------------------------
(***************************************************************************)
(* Menus (loader.c 27067-27625, 32142-32192): 24 slots of items, a slot's  *)
(* number as handle, templates parsed from resources into slots, and the   *)
(* bar of the main window.  A popup item names the slot of its menu, and   *)
(* nothing keeps the two alive together: destroying a menu leaves its      *)
(* popups, deleting an item destroys the popup.  Check marks, kept by the  *)
(* low byte of an item's id for all menus together, are not modelled.      *)
(***************************************************************************)
EXTENDS Integers, Sequences, FiniteSets, SequencesExt, FiniteSetsExt

CONSTANTS
  Trees,       \* templates: sequences of [id] and [id, sub], at most three deep
  Ids,         \* ids of items made by calls
  NMenus,      \* MW_MENU_NSLOT, 24
  NEntries,    \* MW_MENU_NITEM, 64
  MaxMade      \* bounds the menus made

VARIABLES
  menu,        \* g_menus: [of, n, item], of: the number of the menu in the slot; Vacant
  bar,         \* g_main_menu, 0 for none
  made,        \* number of menus made
  rows,        \* history: menu number -> the items the guest has given it
  onBar,       \* history: number of the menu the guest has put on the bar
  loose,       \* history: a menu was destroyed that an item names
  loaded       \* history: what the last call loaded, [slot, tree]; slot 0 otherwise

vars == <<menu, bar, made, rows, onBar, loose, loaded>>

Entry(id, sub, of) == [id |-> id, sub |-> sub, of |-> of]
Zeroed == Entry(0, 0, 0)
Blank(of) == [of |-> of, n |-> 0, item |-> [k \in 1 .. NEntries |-> Zeroed]]
Vacant == Blank(0)
Nothing == [slot |-> 0, tree |-> <<>>]
Slots == 1 .. NMenus

Init ==
  /\ menu = [s \in Slots |-> Vacant] /\ bar = 0 /\ made = 0
  /\ rows = <<>> /\ onBar = 0 /\ loose = FALSE /\ loaded = Nothing

LiveMenus == {s \in Slots : menu[s].of # 0}
FirstFree(tab) == LET free == {s \in Slots : tab[s].of = 0} IN IF free = {} THEN 0 ELSE Min(free)
Items(m) == [k \in 1 .. m.n |-> m.item[k]]
Unloaded == loaded' = Nothing
Added(m, e) == [m EXCEPT !.n = @ + 1, !.item[m.n + 1] = e]
-----------------------------------------------------------------------------
(* Templates.  In a resource a menu is a list of items, each with an id or   *)
(* with the items of its popup behind it; the last one of a list has a mark. *)

Token(item, last) == [popup |-> "sub" \in DOMAIN item, id |-> item.id, last |-> last]
Listed(items, Inner(_)) ==
  FlattenSeq([k \in DOMAIN items |->
    <<Token(items[k], k = Len(items))>> \o (IF "sub" \in DOMAIN items[k] THEN Inner(items[k].sub) ELSE <<>>)])
Encoded(tree) == Listed(tree, LAMBDA a : Listed(a, LAMBDA b : Listed(b, LAMBDA c : <<>>)))

(* Mutant: only the innermost list ends.                                     *)
EndedListOnly(open) == Front(open)

(* mw_menu_parse_items, which calls itself for a popup: the open lists are a *)
(* stack of slots, each with whether the list that holds it ends with it.    *)
(* A list ends at its mark; the lists that end with it end as well.          *)
EndedList(open) ==
  LET same == {k \in 1 .. Len(open) : \A j \in k .. Len(open) : open[j].ends}
      keep == IF same = {} THEN Len(open) - 1 ELSE Min(same) - 2
  IN SubSeq(open, 1, IF keep < 0 THEN 0 ELSE keep)

Parsed(p, t) ==
  LET top == p.open[Len(p.open)].slot
      sub == FirstFree(p.menu)
      To(e) == [p.menu EXCEPT ![top] = Added(@, e)]
  IN CASE p.open = <<>> \/ p.lost -> p
       [] p.open # <<>> /\ ~ p.lost /\ (p.menu[top].n = NEntries \/ (t.popup /\ sub = 0)) -> [p EXCEPT !.lost = TRUE]
       [] OTHER ->
            IF t.popup
            THEN [p EXCEPT !.menu = [To(Entry(0, sub, p.made + 1)) EXCEPT ![sub] = Blank(p.made + 1)],
                           !.made = @ + 1, !.open = Append(@, [slot |-> sub, ends |-> t.last])]
            ELSE [p EXCEPT !.menu = To(Entry(t.id, 0, 0)), !.open = IF t.last THEN EndedList(@) ELSE @]

(* LoadMenu.  A menu there is no slot for is written in front of the table,  *)
(* an item there is no room for is dropped: the model stops short of both.   *)
LoadMenu(tree) ==
  LET s     == FirstFree(menu)
      start == [menu |-> [menu EXCEPT ![s] = Blank(made + 1)], made |-> made + 1,
                open |-> <<[slot |-> s, ends |-> FALSE]>>, lost |-> FALSE]
      done  == FoldLeft(Parsed, start, Encoded(tree))
      Slot(n) == CHOOSE m \in Slots : done.menu[m].of = n
  IN /\ s # 0 /\ ~ done.lost /\ done.made <= MaxMade
     /\ menu' = done.menu /\ made' = done.made
     /\ rows' = rows \o [k \in 1 .. done.made - made |-> Items(done.menu[Slot(made + k)])]
     /\ loaded' = [slot |-> s, tree |-> tree]
     /\ UNCHANGED <<bar, onBar, loose>>

(* The menu read back by GetMenuItemCount, GetMenuItemID and GetSubMenu.     *)
ReadItems(s, Inner(_)) ==
  [k \in 1 .. menu[s].n |->
    LET e == menu[s].item[k] IN IF e.sub = 0 THEN [id |-> e.id] ELSE [id |-> e.id, sub |-> Inner(e.sub)]]
ReadBack(s) == ReadItems(s, LAMBDA a : ReadItems(a, LAMBDA b : ReadItems(b, LAMBDA c : <<>>)))
-----------------------------------------------------------------------------
(* Menus made by calls                                                       *)

CreateMenu ==
  LET s == FirstFree(menu) IN
  /\ s # 0 /\ made < MaxMade
  /\ made' = made + 1 /\ menu' = [menu EXCEPT ![s] = Blank(made')]
  /\ rows' = Append(rows, <<>>)
  /\ Unloaded /\ UNCHANGED <<bar, onBar, loose>>

NamedBy(tab, n) == \E s \in Slots : \E e \in Range(Items(tab[s])) : e.of = n
(* DestroyMenu takes the menu off the bar; its popups stay.                  *)
BarWithout(s) == IF bar = s THEN 0 ELSE bar
Destroyed(tab, s, lists) ==
  /\ menu' = [tab EXCEPT ![s] = Vacant]
  /\ bar' = BarWithout(s)
  /\ onBar' = IF onBar = tab[s].of THEN 0 ELSE onBar
  /\ rows' = [lists EXCEPT ![tab[s].of] = <<>>]
  /\ loose' = (loose \/ NamedBy(tab, tab[s].of))
DestroyMenu(s) ==
  /\ s \in LiveMenus /\ Destroyed(menu, s, rows)
  /\ Unloaded /\ UNCHANGED made

SetMenu(s) ==
  /\ s \in LiveMenus /\ bar' = s /\ onBar' = menu[s].of
  /\ Unloaded /\ UNCHANGED <<menu, made, rows, loose>>

(* What a call does to the array, and what the guest takes it for.           *)
Given(s, array, list) ==
  /\ menu' = [menu EXCEPT ![s] = array] /\ rows' = [rows EXCEPT ![menu[s].of] = list]
  /\ Unloaded /\ UNCHANGED <<bar, made, onBar, loose>>
Rows(s) == rows[menu[s].of]
Roomy(s) == s \in LiveMenus /\ menu[s].n < NEntries

AppendMenu(s, e) == Roomy(s) /\ Given(s, Added(menu[s], e), Append(Rows(s), e))

(* A popup that is in no other menu yet.                                     *)
AppendPopup(s, sub) ==
  /\ sub \in LiveMenus \ {s} /\ ~ NamedBy(menu, menu[sub].of)
  /\ AppendMenu(s, Entry(0, sub, menu[sub].of))

(* InsertMenu and InsertMenuItem: the items from the position on move up.    *)
(* Before an id, InsertMenu inserts before the first item that has it, or    *)
(* at the end; InsertMenuItem always at the end.                             *)
Inserted(m, pos, e) ==
  [m EXCEPT !.n = @ + 1,
            !.item = [k \in 1 .. NEntries |-> IF k < pos \/ k > m.n + 1 THEN @[k] ELSE IF k = pos THEN e ELSE @[k - 1]]]
InsertMenu(s, pos, e) ==
  /\ Roomy(s) /\ pos \in 1 .. menu[s].n
  /\ Given(s, Inserted(menu[s], pos, e), InsertAt(Rows(s), pos, e))

Find(m, id) == LET at == {k \in 1 .. m.n : m.item[k].id = id} IN IF at = {} THEN m.n + 1 ELSE Min(at)
InsertBefore(s, id, e) ==
  /\ Roomy(s)
  /\ Given(s, Inserted(menu[s], Find(menu[s], id), e),
              LET before == SelectInSeq(Rows(s), LAMBDA x : x.id = id) IN
              IF before = 0 THEN Append(Rows(s), e) ELSE InsertAt(Rows(s), before, e))

(* ModifyMenu, SetMenuItemInfo: another id; a popup the item had stays.      *)
ModifyMenu(s, pos, id) ==
  /\ s \in LiveMenus /\ pos \in 1 .. menu[s].n
  /\ Given(s, [menu[s] EXCEPT !.item[pos].id = id], [Rows(s) EXCEPT ![pos].id = id])

Removed(m, pos) ==
  [m EXCEPT !.n = @ - 1,
            !.item = [k \in 1 .. NEntries |-> IF k < pos \/ k > m.n THEN @[k] ELSE IF k = m.n THEN Zeroed ELSE @[k + 1]]]
RemoveMenu(s, pos) ==
  /\ s \in LiveMenus /\ pos \in 1 .. menu[s].n
  /\ Given(s, Removed(menu[s], pos), RemoveAt(Rows(s), pos))

(* DeleteMenu: the item is removed, then its popup destroyed.                *)
DeleteMenu(s, pos) ==
  LET sub  == menu[s].item[pos].sub
      list == [rows EXCEPT ![menu[s].of] = RemoveAt(@, pos)]
  IN /\ s \in LiveMenus /\ pos \in 1 .. menu[s].n
     /\ IF sub \in LiveMenus THEN Destroyed([menu EXCEPT ![s] = Removed(@, pos)], sub, list)
        ELSE menu' = [menu EXCEPT ![s] = Removed(@, pos)] /\ rows' = list /\ UNCHANGED <<bar, onBar, loose>>
     /\ Unloaded /\ UNCHANGED made

Next ==
  \/ \E t \in Trees : LoadMenu(t)
  \/ CreateMenu
  \/ \E s \in Slots :
       \/ DestroyMenu(s) \/ SetMenu(s)
       \/ \E sub \in Slots : AppendPopup(s, sub)
       \/ \E id \in Ids : AppendMenu(s, Entry(id, 0, 0)) \/ \E cmd \in Ids : InsertBefore(s, cmd, Entry(id, 0, 0))
       \/ \E pos \in 1 .. NEntries : \/ RemoveMenu(s, pos) \/ DeleteMenu(s, pos)
                                     \/ \E id \in Ids : InsertMenu(s, pos, Entry(id, 0, 0)) \/ ModifyMenu(s, pos, id)

Spec == Init /\ [][Next]_vars
-----------------------------------------------------------------------------
(* A menu loaded from a template is that template, popups included.          *)
MenusLoadAsTheirTemplate == loaded.slot # 0 => ReadBack(loaded.slot) = loaded.tree

(* A menu has the items the calls gave it, in their order, through every     *)
(* reuse of slots, and a popup item names the menu it was given, unless a    *)
(* menu was destroyed that an item named.                                    *)
MenusKeepTheirItems ==
  \A s \in LiveMenus :
    /\ Items(menu[s]) = Rows(s)
    /\ loose \/ \A e \in Range(Items(menu[s])) : e.sub # 0 => menu[e.sub].of = e.of

(* The bar is the menu the guest has set, or none once that is destroyed.    *)
BarIsTheMenuSet == IF bar = 0 THEN onBar = 0 ELSE menu[bar].of = onBar

MenusAreAsBuilt == MenusLoadAsTheirTemplate /\ MenusKeepTheirItems /\ BarIsTheMenuSet
=============================================================================
