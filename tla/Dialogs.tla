------------------------------- MODULE Dialogs -------------------------------
(***************************************************************************)
(* Dialogs (loader.c 25190-25345, 26859-27066, 29597-29925): modal dialogs *)
(* that run two callbacks and return, modeless ones that stay, and the     *)
(* controls of both in the table of child windows.  All modal dialogs have *)
(* one window, Gui (the main window), and one result, g_dialog_result;     *)
(* their controls are never destroyed.  The procedures nest: each callback *)
(* may end its dialog, check buttons, and show further dialogs.            *)
(***************************************************************************)
EXTENDS Integers, Sequences, FiniteSets, SequencesExt, FiniteSetsExt

CONSTANTS
  Templates,   \* dialog templates: [ex, font, cut, items], items [id, class, title, data]
  NChild,      \* MW_CHILD_MAX, the child windows
  NProcs,      \* g_dlg_procs, 32
  MaxShown,    \* bounds the dialogs shown
  MaxNest      \* bounds the nesting

VARIABLES
  child,       \* g_child: [parent, id, checked, of], of: the dialog it was made for; Unused
  running,     \* the callbacks on the stack: [phase, dlg, of, ended, late]
  result,      \* g_dialog_result
  procs,       \* g_dlg_procs: the windows with a procedure, in order
  shown,       \* history: of each dialog its window and its controls' ids
  set,         \* history: the buttons the guest has checked, as <<dialog, id>>
  shared,      \* history: <<dialog, id>> of controls that are not the dialog's own
  answered     \* history: what the last modal dialog returned and was to return

vars == <<child, running, result, procs, shown, set, shared, answered>>

Gui == 0
IdOk == 1
Unused == [parent |-> -1, id |-> 0, checked |-> FALSE, of |-> 0]

Init ==
  /\ child = [c \in 1 .. NChild |-> Unused] /\ running = <<>> /\ result = 0 /\ procs = <<>>
  /\ shown = <<>> /\ set = {} /\ shared = {} /\ answered = [got |-> 0, meant |-> 0, late |-> FALSE]
-----------------------------------------------------------------------------
(* Controls                                                                  *)

Live(tab) == {c \in DOMAIN tab : tab[c] # Unused}
At(tab, dlg, id) == {c \in Live(tab) : tab[c].parent = dlg /\ tab[c].id = id}

(* The lowest slot with that id and parent.                                  *)
GetDlgItem(dlg, id) == IF At(child, dlg, id) = {} THEN 0 ELSE Min(At(child, dlg, id))

(* A template of the extended form leaves out an id its window has already,  *)
(* one of the old form makes a second control; without a slot there is none. *)
NewItem(dlg, id, of) == [parent |-> dlg, id |-> id, checked |-> FALSE, of |-> of]
RegisterItem(tab, dlg, id, of, ex) ==
  LET free == DOMAIN tab \ Live(tab) IN
  IF (ex /\ At(tab, dlg, id) # {}) \/ free = {} THEN tab
  ELSE [tab EXCEPT ![Min(free)] = NewItem(dlg, id, of)]

-----------------------------------------------------------------------------
(* Templates: the words a resource compiler lays out for one, and what the   *)
(* two walkers read in them.  A class or title is a string or an ordinal.    *)

Ordinal == 65535
FontBit == 64
KnownName == <<1>>
Known == {KnownName} \cup {<<Ordinal, o>> : o \in 128 .. 142}
Zeros(n) == [i \in 1 .. n |-> 0]
Text(f) == IF f # <<>> /\ f[1] = Ordinal THEN f ELSE Append(f, 0)
Laid(ex, ws, it) ==
  ws \o Zeros(Len(ws) % 2) \o (IF ex THEN Zeros(10) \o <<it.id, 0>> ELSE Append(Zeros(8), it.id))
     \o Text(it.class) \o Text(it.title) \o <<it.data>> \o Zeros((it.data + 1) \div 2)
Layout(t, n) ==
  LET style == IF t.font THEN FontBit ELSE 0
      head == IF t.ex THEN <<1, Ordinal>> \o Zeros(4) \o <<style, 0, Len(t.items)>> \o Zeros(4)
              ELSE <<style, 0, 0, 0, Len(t.items)>> \o Zeros(4)
      font == IF t.font THEN Zeros(IF t.ex THEN 3 ELSE 1) \o Text(KnownName) ELSE <<>> IN
  FoldLeft(LAMBDA ws, it : Laid(t.ex, ws, it), head \o <<Ordinal, 5>> \o Text(<<>>) \o Text(KnownName) \o font, SubSeq(t.items, 1, n))
Words(t) == LET ws == Layout(t, Len(t.items)) IN SubSeq(ws, 1, Len(ws) - t.cut)

(* What follows a template is taken to be zeros; only the extended form is   *)
(* checked against its end.                                                  *)
Word(ws, at) == IF at <= Len(ws) THEN ws[at] ELSE 0
Aligned(at) == at + ((at + 1) % 2)
Skip(ws, at) ==
  LET z == SelectInSubSeq(ws, at, Len(ws), LAMBDA w : w = 0) IN
  IF Word(ws, at) = Ordinal THEN at + 2 ELSE IF z = 0 THEN Max({at, Len(ws) + 1}) + 1 ELSE z + 1
FirstItem(ws, ex) ==
  LET title == Skip(ws, Skip(ws, IF ex THEN 14 ELSE 10)) IN
  IF Word(ws, IF ex THEN 7 ELSE 1) # FontBit THEN Skip(ws, title)
  ELSE Skip(ws, Skip(ws, title) + (IF ex THEN 3 ELSE 1))

(* An item of the extended form: its id is registered with any class but an  *)
(* empty one, and at the first that does not fit the walk ends.              *)
ExItem(ws, st) ==
  LET p == Aligned(st.at)
      extra == Skip(ws, Skip(ws, p + 12))
      end == extra + 1 + (Word(ws, extra) + 1) \div 2 IN
  IF st.cut \/ end > Len(ws) + 1 THEN [st EXCEPT !.cut = TRUE]
  ELSE [st EXCEPT !.at = end, !.ids = IF Word(ws, p + 12) = 0 THEN @ ELSE Append(@, ws[p + 10])]

(* One of the old form: only with a known class, and the bytes of creation   *)
(* data behind it are skipped as words.                                      *)
StdItem(ws, st) ==
  LET p == Aligned(st.at)
      title == Skip(ws, p + 9)
      class == IF Word(ws, p + 9) = Ordinal THEN <<Ordinal, Word(ws, p + 10)>> ELSE SubSeq(ws, p + 9, title - 2)
      extra == Skip(ws, title) IN
  [st EXCEPT !.at = extra + 1 + Word(ws, extra), !.ids = IF class \in Known THEN Append(@, Word(ws, p + 8)) ELSE @]

ReadIds(t) ==
  LET ws == Words(t)
      Read(st, i) == IF t.ex THEN ExItem(ws, st) ELSE StdItem(ws, st) IN
  FoldLeftDomain(Read, [at |-> FirstItem(ws, t.ex), ids |-> <<>>, cut |-> FALSE], Zeros(Word(ws, IF t.ex THEN 9 ELSE 5))).ids

(* The controls a template is to make, but for what neither walker reads: of *)
(* the extended form an item without a class or behind the end, of the old   *)
(* one an item whose class is not known, or behind one with creation data.   *)
Intended(t) ==
  {t.items[k].id : k \in {i \in DOMAIN t.items :
     IF t.ex THEN t.items[i].class # <<>> /\ Len(Layout(t, i)) <= Len(Words(t))
     ELSE t.items[i].class \in Known /\ \A e \in 1 .. i - 1 : t.items[e].data = 0}}
-----------------------------------------------------------------------------
Shown(dlg) == UNION {{s} \X shown[s].ids : s \in {e \in DOMAIN shown : shown[e].dlg = dlg}}
CreateChildren(dlg, t, of) ==
  LET ids == Intended(t) IN
  /\ child' = FoldLeft(LAMBDA tab, id : RegisterItem(tab, dlg, id, of, t.ex), child, ReadIds(t))
  /\ shared' = shared \cup UNION {{<<s, id>>, <<of, id>>} : <<s, id>> \in {e \in Shown(dlg) : e[2] \in ids}}
                      \cup {<<of, id>> : id \in {i \in ids : At(child, dlg, i) # {}}}
                      \cup {<<of, id>> : id \in {i \in ids : At(child', dlg, i) = {} /\ Live(child') = DOMAIN child'}}
  /\ shown' = Append(shown, [dlg |-> dlg, ids |-> ids, all |-> {t.items[k].id : k \in DOMAIN t.items}])

(* DestroyWindow of a control.                                               *)
DestroyItem(c) ==
  /\ c \in Live(child)
  /\ child' = [child EXCEPT ![c] = Unused]
  /\ shared' = shared \cup {<<child[c].of, child[c].id>>}
  /\ UNCHANGED <<running, result, procs, shown, set, answered>>
-----------------------------------------------------------------------------
(* Showing                                                                   *)

Frame(phase, dlg, of) == [phase |-> phase, dlg |-> dlg, of |-> of, ended |-> 0, late |-> FALSE]
Overrun == [k \in DOMAIN running |-> [running[k] EXCEPT !.late = TRUE]]
May == Len(shown) < MaxShown /\ Len(running) < MaxNest

DialogBox(t) ==
  /\ May /\ CreateChildren(Gui, t, Len(shown) + 1)
  /\ result' = 0
  /\ running' = Append(Overrun, Frame("init", Gui, Len(shown) + 1))
  /\ UNCHANGED <<procs, set, answered>>

(* CreateDialogParam, CreateDialogIndirectParam: a window of its own, number *)
(* Len(shown) + 1 of g_dlg_id_next.                                          *)
CreateDialog(t) ==
  LET dlg == Len(shown) + 1 IN
  /\ May /\ CreateChildren(dlg, t, dlg)
  /\ running' = Append(running, Frame("create", dlg, dlg))
  /\ UNCHANGED <<result, procs, set, answered>>

TopFrame == running[Len(running)]
EndDialog(r) ==
  /\ running # <<>>
  /\ result' = r
  /\ running' = IF TopFrame.phase = "create" THEN Overrun
                ELSE [running EXCEPT ![Len(running)].ended = r, ![Len(running)].late = FALSE]
  /\ UNCHANGED <<child, procs, shown, set, shared, answered>>

(* A callback returns.  The procedure of a modeless dialog is stored after   *)
(* its WM_INITDIALOG; a modal one gets WM_COMMAND IDOK next and then returns *)
(* the result, IDOK if it is 0.                                              *)
Stored(dlg) == IF Len(procs) < NProcs THEN Append(procs, dlg) ELSE procs
Returned == IF result # 0 THEN result ELSE IdOk
CallbackReturns ==
  /\ running # <<>>
  /\ \/ /\ TopFrame.phase = "init"
        /\ running' = [running EXCEPT ![Len(running)].phase = "command"]
        /\ UNCHANGED <<procs, answered>>
     \/ /\ TopFrame.phase = "command"
        /\ running' = Front(running)
        /\ answered' = [got |-> Returned, meant |-> IF TopFrame.ended # 0 THEN TopFrame.ended ELSE IdOk, late |-> TopFrame.late]
        /\ UNCHANGED procs
     \/ /\ TopFrame.phase = "create"
        /\ running' = Front(running) /\ procs' = Stored(TopFrame.dlg)
        /\ UNCHANGED answered
  /\ UNCHANGED <<child, result, shown, set, shared>>
-----------------------------------------------------------------------------
(* Buttons, by the procedure on top of the stack, or of a modeless dialog    *)

Acting(s) == IF running = <<>> THEN shown[s].dlg # Gui ELSE TopFrame.of = s

Marked(c, v) == [child EXCEPT ![c].checked = v]
CheckDlgButton(s, id, v) ==
  LET c == GetDlgItem(shown[s].dlg, id) IN
  /\ Acting(s) /\ id \in shown[s].ids /\ c # 0
  /\ child' = Marked(c, v)
  /\ set' = IF v THEN set \cup {<<s, id>>} ELSE set \ {<<s, id>>}
  /\ UNCHANGED <<running, result, procs, shown, shared, answered>>

(* CheckRadioButton: of the dialog's buttons in the range, the one.          *)
CheckRadioButton(s, id) ==
  LET group == shown[s].ids
      own == {c \in Live(child) : \E i \in group : c = GetDlgItem(shown[s].dlg, i)} IN
  /\ Acting(s) /\ id \in group
  /\ child' = [c \in DOMAIN child |-> IF c \in own THEN [child[c] EXCEPT !.checked = (child[c].id = id)] ELSE child[c]]
  /\ set' = (set \ {<<s, i>> : i \in group}) \cup {<<s, id>>}
  /\ UNCHANGED <<running, result, procs, shown, shared, answered>>

IsDlgButtonChecked(dlg, id) == GetDlgItem(dlg, id) # 0 /\ child[GetDlgItem(dlg, id)].checked

AllIds == UNION {Intended(t) : t \in Templates}
Next ==
  \/ \E t \in Templates : DialogBox(t) \/ CreateDialog(t)
  \/ \E r \in 0 .. 2 : EndDialog(r)
  \/ CallbackReturns
  \/ \E c \in 1 .. NChild : DestroyItem(c)
  \/ \E s \in DOMAIN shown, i \in AllIds :
       (\E v \in BOOLEAN : CheckDlgButton(s, i, v)) \/ CheckRadioButton(s, i)

Spec == Init /\ [][Next]_vars
-----------------------------------------------------------------------------
(* A modal dialog returns what its procedure ended it with last, unless a    *)
(* dialog shown meanwhile has reset or set the one result there is.          *)
DialogsAnswerTheirResult == answered.late \/ answered.got = answered.meant

(* Each control of a dialog's template is there and no other, and            *)
(* IsDlgButtonChecked answers for it what the dialog's own procedure made of *)
(* it, in whatever slots controls come and go: unless the control found no   *)
(* slot or was destroyed, or its window had one with its id.                 *)
ButtonsAreTheirDialogs ==
  /\ \A s \in DOMAIN shown : \A id \in shown[s].ids :
    \/ <<s, id>> \in shared
    \/ /\ GetDlgItem(shown[s].dlg, id) # 0
       /\ IsDlgButtonChecked(shown[s].dlg, id) <=> <<s, id>> \in set
  /\ \A c \in Live(child) : child[c].id \in shown[child[c].of].all

(* Messages for a modeless dialog reach its procedure once it is created, as *)
(* long as there are no more of them than entries.                           *)
Created == {s \in DOMAIN shown : shown[s].dlg # Gui /\ \A k \in DOMAIN running : running[k].of # s}
DialogsHaveTheirProcedure ==
  /\ Cardinality(Created) <= NProcs => Range(procs) = Created
  /\ Cardinality(Range(procs)) = Len(procs)

DialogsAreTheirOwn == DialogsAnswerTheirResult /\ ButtonsAreTheirDialogs /\ DialogsHaveTheirProcedure
=============================================================================
