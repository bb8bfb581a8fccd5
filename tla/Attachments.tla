----------------------------- MODULE Attachments -----------------------------
(***************************************************************************)
(* What is attached to windows (loader.c 26636-26766, 30215-30401,         *)
(* 32086-32122): properties, window longs and scroll positions, three      *)
(* tables that are searched by window handle and name, and the hooks.      *)
(* Nothing leaves a table when its window is destroyed, and the handle of  *)
(* a child comes back with the next window in its slot.  The tables do not *)
(* touch each other: kind is the one a behaviour is about.                 *)
(***************************************************************************)
EXTENDS Integers, Sequences, FiniteSets, SequencesExt, FiniteSetsExt

CONSTANTS
  Handles, Tags,   \* window handles; names, indexes and scroll bars
  NAttached,       \* MW_PROP_MAX 96, MW_WNDLONG_MAX, MW_SCROLL_MAX 32
  NHooks,          \* MW_HOOK_MAX, 16
  MaxHooks,        \* bounds the hooks installed
  MaxFiring        \* bounds the nesting of firings

VARIABLES
  kind,        \* "prop", "long", "scroll" or "hook"
  table,       \* g_prop, g_wndlong or g_scroll: [h, tag, value]; Empty
  left,        \* history: <<handle, tag>> of entries their window has left behind
  given,       \* history: <<handle, tag>> -> what the guest has set, 0 for nothing
  hook,        \* g_hook: number of the hook in the slot, 0 for none
  minted,      \* number of hooks installed
  held,        \* history: hooks installed and not unhooked, as handle and number
  misused,     \* history: a handle was unhooked twice
  firing,      \* mw_hook_fire on the stack: [at, called, stayed, busy]
  fired        \* history: the last firing that ended, [whole, called, stayed]

vars == <<kind, table, left, given, hook, minted, held, misused, firing, fired>>
tableVars == <<table, left, given>>
hookVars == <<hook, minted, held, misused, firing, fired>>

Empty == [h |-> 0, tag |-> 0, value |-> 0]
Keys == Handles \X Tags
Kinds == {"prop", "long", "scroll", "hook"}

Init ==
  /\ kind \in Kinds
  /\ table = [e \in 1 .. NAttached |-> Empty] /\ left = {} /\ given = [k \in Keys |-> 0]
  /\ hook = [e \in 1 .. NHooks |-> 0] /\ minted = 0 /\ held = {} /\ misused = FALSE
  /\ firing = <<>> /\ fired = [whole |-> FALSE, called |-> <<>>, stayed |-> {}]
-----------------------------------------------------------------------------
(* mw_prop_slot, mw_wndlong_slot, mw_scroll_slot: the entry of the handle    *)
(* and name, or a free one for it, or none.                                  *)

First(set) == IF set = {} THEN 0 ELSE Min(set)
Entries(k) == {e \in DOMAIN table : table[e].h = k[1] /\ table[e].tag = k[2]}
Unused == {e \in DOMAIN table : table[e] = Empty}
(* Mutant: a free entry below the one there is goes first.                   *)
SlotForFirst(k) == First(Unused \cup Entries(k))
SlotFor(k) == IF Entries(k) # {} THEN Min(Entries(k)) ELSE First(Unused)

(* SetProp, SetWindowLong, SetScrollPos: without an entry nothing is kept.   *)
SetEntry(k, v) ==
  LET e == SlotFor(k) IN
  /\ kind # "hook" /\ e # 0
  /\ table' = [table EXCEPT ![e] = [h |-> k[1], tag |-> k[2], value |-> v]]
  /\ given' = [given EXCEPT ![k] = v] /\ left' = left \ {k}
  /\ UNCHANGED <<kind, hookVars>>

GetEntry(k) == IF Entries(k) = {} THEN 0 ELSE table[Min(Entries(k))].value

(* RemoveProp; longs and scroll positions are never removed.                 *)
RemoveEntry(k) ==
  /\ kind = "prop" /\ Entries(k) # {}
  /\ table' = [table EXCEPT ![Min(Entries(k))] = Empty]
  /\ given' = [given EXCEPT ![k] = 0] /\ left' = left \ {k}
  /\ UNCHANGED <<kind, hookVars>>

(* The window goes, another one gets its handle.                             *)
Reuse(h) ==
  /\ kind # "hook" /\ \E t \in Tags : given[<<h, t>>] # 0
  /\ left' = left \cup {k \in Keys : k[1] = h /\ Entries(k) # {}}
  /\ given' = [k \in Keys |-> IF k[1] = h THEN 0 ELSE given[k]]
  /\ UNCHANGED <<kind, table, hookVars>>
-----------------------------------------------------------------------------
(* Hooks, of one type: the others pass each other by                         *)

Live == {e \in 1 .. NHooks : hook[e] # 0}
SetWindowsHookEx ==
  LET e == First((1 .. NHooks) \ Live) IN
  /\ kind = "hook" /\ minted < MaxHooks /\ e # 0
  /\ minted' = minted + 1 /\ hook' = [hook EXCEPT ![e] = minted'] /\ held' = held \cup {<<e, minted'>>}
  /\ UNCHANGED <<kind, tableVars, misused, firing, fired>>

Leave(frames, n) == [f \in DOMAIN frames |-> [frames[f] EXCEPT !.stayed = @ \ {n}]]
(* By handle, which is the slot.                                             *)
UnhookWindowsHookEx(e, n) ==
  /\ kind = "hook" /\ n \in 1 .. minted /\ hook[e] # 0
  /\ <<e, n>> \in held \/ n # hook[e]
  /\ misused' = (misused \/ <<e, n>> \notin held)
  /\ hook' = [hook EXCEPT ![e] = 0] /\ held' = held \ {<<e, n>>}
  /\ firing' = Leave(firing, hook[e])
  /\ UNCHANGED <<kind, tableVars, minted, fired>>

(* mw_hook_fire: from the first slot on, each hook in turn, until one        *)
(* answers other than 0; mw_hook_fire_create stops after the first.          *)
Fire ==
  /\ kind = "hook" /\ Len(firing) < MaxFiring
  /\ firing # <<>> => Last(firing).busy
  /\ firing' = Append(firing, [at |-> 1, called |-> <<>>, stayed |-> {hook[e] : e \in Live}, busy |-> FALSE])
  /\ UNCHANGED <<kind, tableVars, hook, minted, held, misused, fired>>

Frame == firing[Len(firing)]
NextHook == First({e \in Live : e >= Frame.at})
CallHook ==
  /\ firing # <<>> /\ ~ Frame.busy /\ NextHook # 0
  /\ firing' = [firing EXCEPT ![Len(firing)] =
                  [@ EXCEPT !.at = NextHook + 1, !.called = Append(@, hook[NextHook]), !.busy = TRUE]]
  /\ UNCHANGED <<kind, tableVars, hook, minted, held, misused, fired>>

HookAnswers(stop) ==
  /\ firing # <<>> /\ Frame.busy
  /\ IF stop THEN firing' = Front(firing) /\ fired' = [whole |-> FALSE, called |-> Frame.called, stayed |-> Frame.stayed]
     ELSE firing' = [firing EXCEPT ![Len(firing)].busy = FALSE] /\ UNCHANGED fired
  /\ UNCHANGED <<kind, tableVars, hook, minted, held, misused>>

FireEnds ==
  /\ firing # <<>> /\ ~ Frame.busy /\ NextHook = 0
  /\ firing' = Front(firing) /\ fired' = [whole |-> TRUE, called |-> Frame.called, stayed |-> Frame.stayed]
  /\ UNCHANGED <<kind, tableVars, hook, minted, held, misused>>

Next ==
  \/ \E k \in Keys : RemoveEntry(k) \/ \E v \in {1, 2} : SetEntry(k, v)
  \/ \E h \in Handles : Reuse(h)
  \/ SetWindowsHookEx \/ Fire \/ CallHook \/ FireEnds \/ \E stop \in BOOLEAN : HookAnswers(stop)
  \/ \E e \in 1 .. NHooks, n \in 1 .. MaxHooks : UnhookWindowsHookEx(e, n)

Spec == Init /\ [][Next]_vars
-----------------------------------------------------------------------------
(* A window has the value set for it last and no other, whatever is removed  *)
(* and set anew around it; what a handle's former window has left is the     *)
(* one exception.                                                            *)
WindowsHaveWhatWasSet == \A k \in Keys : k \in left \/ GetEntry(k) = given[k]

(* A hook is installed until its own handle is unhooked, as long as nobody   *)
(* unhooks a handle twice.                                                   *)
HooksStayInstalled == misused \/ {<<e, hook[e]>> : e \in Live} = held

(* A firing that runs to its end calls each hook that was there all the time *)
(* exactly once, whatever hooks come and go, and whatever is fired, in the   *)
(* callbacks.                                                                *)
FiringsReachTheHooks ==
  /\ fired.whole => fired.stayed \subseteq Range(fired.called)
  /\ IsInjective(fired.called)

AttachmentsAreKept == WindowsHaveWhatWasSet /\ HooksStayInstalled /\ FiringsReachTheHooks
=============================================================================
