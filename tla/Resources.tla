------------------------------ MODULE Resources ------------------------------
(***************************************************************************)
(* Resources of a module: finding one by type and name, the version block, *)
(* and the accelerator tables made from resources or by hand.              *)
(* A resource directory is three levels of entries, kept in order; what a  *)
(* guest asks for is a number, or a text whose characters are given.       *)
(***************************************************************************)
EXTENDS Integers, Sequences, FiniteSets, SequencesExt, FiniteSetsExt, TLC

CONSTANTS
  Directories,   \* type level: sequence of [id, names : Seq([id, data : Seq])]
  Wanted,        \* names and types guests ask for: [n, s, wide]
  VersionBlocks, \* trees of [key, vlen, kids]
  VersionPaths,  \* what guests ask of them: up to three names
  Tables,        \* accelerator tables: sequences of six bytes
  NAccel,        \* accelerator slots, 8
  MaxAccels,     \* MW_ACCEL_MAX
  MaxTables      \* bounds the tables a guest makes

VARIABLES
  topic,         \* "find", "version" or "keys"
  asked,         \* the question, in the first two
  accel,         \* slot -> [live, ent]
  gave,          \* history: handle -> the table behind it, as the guest knows it
  tables         \* history: tables made

vars == <<topic, asked, accel, gave, tables>>

NoData == [lang |-> 0, size |-> 0]
-----------------------------------------------------------------------------
(* Finding a resource.                                                       *)

Lower(s) == [i \in DOMAIN s |-> IF s[i] = "A" THEN "a" ELSE s[i]]
Digit == "1" :> 1 @@ "5" :> 5
Digits(s) == \A i \in DOMAIN s : s[i] \in DOMAIN Digit
Number(s) == FoldLeft(LAMBDA acc, c : 10 * acc + Digit[c], 0, s)
Hash(s) == s # <<>> /\ s[1] = "#" /\ Digits(Tail(s))

(* An entry has a text or, when that is missing, a number.  A text never     *)
(* equals a number but for "#5" in narrow characters; wide characters are    *)
(* read four bytes at a time here, which makes a digit of a text of one, if  *)
(* the bytes after its end are 0.                                            *)
Matches(q, e, zeros) ==
  IF e.n = 0 THEN q.n = 0 /\ Lower(q.s) = Lower(e.s)
  ELSE \/ q.n # 0 /\ q.n = e.n
       \/ q.n = 0 /\ q.wide /\ Len(q.s) = 1 /\ Digits(q.s) /\ zeros /\ Number(q.s) = e.n
       \/ q.n = 0 /\ ~ q.wide /\ Hash(q.s) /\ Number(Tail(q.s)) = e.n

(* Mutant: the language level is compared with the name, too.                *)
FindNamed(dir, type, name, zeros) ==
  LET t == SelectInSeq(dir, LAMBDA e : Matches(type, e.id, zeros))
      names == dir[t].names
      i == SelectInSeq(names, LAMBDA e : Matches(name, e.id, zeros))
      k == SelectInSeq(names[i].data, LAMBDA l : name.n = l.lang) IN
  IF t = 0 THEN NoData ELSE IF i = 0 THEN NoData ELSE IF k = 0 THEN NoData ELSE names[i].data[k]
(* Any language will do at the third level: the first.                       *)
Find(dir, type, name, zeros) ==
  LET t == SelectInSeq(dir, LAMBDA e : Matches(type, e.id, zeros))
      names == dir[t].names
      i == SelectInSeq(names, LAMBDA e : Matches(name, e.id, zeros)) IN
  IF t = 0 THEN NoData ELSE IF i = 0 THEN NoData
  ELSE IF names[i].data = <<>> THEN NoData ELSE Head(names[i].data)

(* The module a resource comes from: the one named, if it is an image, else  *)
(* the program.                                                              *)
Base(module, images, program) == IF module \in images THEN module ELSE program
FindResource(dirs, program, module, type, name, zeros) ==
  Find(dirs[Base(module, DOMAIN dirs, program)], type, name, zeros)
(* FindResourceEx does not look at the language it is given.                 *)
FindResourceEx(dirs, program, module, type, name, lang, zeros) ==
  FindResource(dirs, program, module, type, name, zeros)
SizeofResource(data) == data.size
-----------------------------------------------------------------------------
(* Version information.                                                      *)

None == <<>>
Child(node, key) == SelectInSeq(node.kids, LAMBDA c : c.key = key)

(* The version block of a file; in a PE32 file the directory is looked for   *)
(* where that of a PE32+ file is, and not found.                             *)
ReadVersion(plus, dir, cap) ==
  LET number(n) == [n |-> n, s |-> <<>>, wide |-> TRUE]
      d == Find(dir, number(16), number(1), TRUE) IN
  IF ~ plus THEN 0 ELSE IF d.size < cap THEN d.size ELSE cap

(* The place of what is asked for, as indices from the root: first the kind  *)
(* of information, where an empty name means any; translations whatever the  *)
(* second name is; of strings the table, an empty name meaning the first,    *)
(* and in it the first string of that name that has a value.                 *)
Kind(root, l1) ==
  SelectInSeq(root.kids, LAMBDA c : c.key \in {"VarFileInfo", "StringFileInfo"} /\ l1 \in {c.key, ""})
Table(node, l2) == IF l2 = "" THEN IF node.kids = <<>> THEN 0 ELSE 1 ELSE Child(node, l2)
VerQueryValue(root, path) ==
  LET k == Kind(root, path[1])
      info == root.kids[k]
      t == Table(info, path[2])
      s == SelectInSeq(info.kids[t].kids, LAMBDA c : c.key = path[3] /\ c.vlen > 0) IN
  IF path = <<"", "", "">> THEN IF root.vlen < 52 THEN None ELSE <<0>>
  ELSE IF k = 0 THEN None
  ELSE IF info.key = "VarFileInfo"
  THEN IF Child(info, "Translation") = 0 THEN None ELSE <<k, Child(info, "Translation")>>
  ELSE IF t = 0 THEN None ELSE IF s = 0 THEN None ELSE <<k, t, s>>
-----------------------------------------------------------------------------
(* Accelerators.                                                             *)

Slots == 1 .. NAccel
Nothing == [keys |-> <<>>, bytes |-> <<>>]
Free == SelectInSeq([i \in Slots |-> accel[i].live], LAMBDA l : ~ l)

(* A key of a table in memory: flags, a byte of padding, key and command,    *)
(* each a low and a high byte.  A resource has the flags in two bytes.       *)
Flags(b) == [virt |-> b[1] % 2, mods |-> b[1] \div 2]
Read(b) == [flags |-> Flags(b), key |-> <<b[3], b[4]>>, cmd |-> <<b[5], b[6]>>]
(* CreateAcceleratorTable takes the padding for the key's first byte, and    *)
(* CopyAcceleratorTable writes keys the same way.                            *)
ReadPacked(b) == [flags |-> Flags(b), key |-> <<b[2], b[3]>>, cmd |-> <<b[4], b[5]>>]
WritePacked(e) == <<e.flags.virt + 2 * e.flags.mods, e.key[1], e.key[2], e.cmd[1], e.cmd[2], 0>>

(* Mutant: the slot is the first, live or not.                               *)
MakeInFirst(table, ent) ==
  /\ tables < MaxTables /\ tables' = tables + 1
  /\ accel' = [accel EXCEPT ![1] = [live |-> TRUE, ent |-> ent]]
  /\ gave' = [gave EXCEPT ![1] = table]
(* The ninth table is refused.                                               *)
Make(table, ent) ==
  /\ tables < MaxTables /\ tables' = tables + 1
  /\ IF Free = 0 THEN UNCHANGED <<accel, gave>>
     ELSE /\ accel' = [accel EXCEPT ![Free] = [live |-> TRUE, ent |-> ent]]
          /\ gave' = [gave EXCEPT ![Free] = table]

(* A resource's table is cut to what a slot holds, a guest's refused.        *)
LoadAccelerators(table) ==
  LET n == IF Len(table) > MaxAccels THEN MaxAccels ELSE Len(table) IN
  table # <<>> /\ Make([keys |-> [i \in 1 .. n |-> Read(table[i])], bytes |-> <<>>], [i \in 1 .. n |-> Read(table[i])])
CreateAcceleratorTable(table) ==
  /\ table # <<>> /\ Len(table) <= MaxAccels
  /\ LET ent == [i \in DOMAIN table |-> ReadPacked(table[i])] IN Make([keys |-> ent, bytes |-> table], ent)
CopyAcceleratorTable(h, n) ==
  IF h \notin Slots THEN <<>> ELSE IF ~ accel[h].live THEN <<>>
  ELSE [i \in 1 .. (IF Len(accel[h].ent) < n THEN Len(accel[h].ent) ELSE n) |-> WritePacked(accel[h].ent[i])]
DestroyAcceleratorTable(h) ==
  /\ accel' = [accel EXCEPT ![h].live = FALSE] /\ gave' = [gave EXCEPT ![h] = Nothing] /\ UNCHANGED tables

(* What TranslateAccelerator sends for a key or a character with these       *)
(* modifiers held: the command of the first entry that is about it.          *)
About(e, msg) ==
  /\ e.flags.mods = msg.mods
  /\ IF msg.char THEN e.flags.virt = 0 /\ e.key = <<msg.wp[1], 0>> ELSE e.flags.virt = 1 /\ e.key = msg.wp
TranslateAccelerator(h, msg) ==
  LET i == SelectInSeq(accel[h].ent, LAMBDA e : About(e, msg)) IN
  IF ~ accel[h].live THEN None ELSE IF i = 0 THEN None ELSE accel[h].ent[i].cmd
-----------------------------------------------------------------------------
Init ==
  /\ accel = [h \in Slots |-> [live |-> FALSE, ent |-> <<>>]]
  /\ gave = [h \in Slots |-> Nothing] /\ tables = 0
  /\ \/ topic = "find" /\ asked \in [dir : Directories, type : Wanted, name : Wanted]
     \/ topic = "version" /\ asked \in [block : VersionBlocks, path : VersionPaths]
     \/ topic = "keys" /\ asked = <<>>

Next ==
  /\ topic = "keys" /\ UNCHANGED <<topic, asked>>
  /\ \/ \E t \in Tables : LoadAccelerators(t) \/ CreateAcceleratorTable(t)
     \/ \E h \in Slots : DestroyAcceleratorTable(h)

Spec == Init /\ [][Next]_vars
-----------------------------------------------------------------------------
(* What a guest names is what it finds: an entry of that number, or of that  *)
(* text in any case, or of the number "#5" spells, whatever bytes follow the *)
(* text in memory; a wide text that spells a number is not one of these.     *)
Spelt(q, e) == IF q.n # 0 THEN e.n = q.n
               ELSE IF Hash(q.s) THEN e.n = Number(Tail(q.s)) ELSE e.n = 0 /\ Lower(q.s) = Lower(e.s)
Plain(q) == q.n # 0 \/ ~ q.wide \/ ~ (Digits(q.s) \/ Hash(q.s))
FindsTheNamed ==
  topic = "find" =>
    \A zeros \in BOOLEAN :
      LET found == Find(asked.dir, asked.type, asked.name, zeros)
          there == {n.data : n \in {m \in UNION {ToSet(t.names) : t \in {u \in ToSet(asked.dir) : Spelt(asked.type, u.id)}} :
                                       Spelt(asked.name, m.id)}} \ {<<>>} IN
      Plain(asked.type) /\ Plain(asked.name) =>
        IF there = {} THEN found = NoData ELSE \E d \in there : found = d[1]

(* A version string is found by its full path when it has a value, and what  *)
(* a path with all its names does not lead to is not found.                  *)
Exact(root, path) ==
  {p \in {<<k, t, s>> : k, t, s \in 1 .. 3} :
     /\ p[1] \in DOMAIN root.kids /\ root.kids[p[1]].key = path[1]
     /\ p[2] \in DOMAIN root.kids[p[1]].kids /\ root.kids[p[1]].kids[p[2]].key = path[2]
     /\ p[3] \in DOMAIN root.kids[p[1]].kids[p[2]].kids
     /\ root.kids[p[1]].kids[p[2]].kids[p[3]].key = path[3] /\ root.kids[p[1]].kids[p[2]].kids[p[3]].vlen > 0}
VersionsAreFound ==
  topic = "version" /\ "" \notin ToSet(asked.path) /\ asked.path[1] = "StringFileInfo" =>
    LET there == Exact(asked.block, asked.path)
        found == VerQueryValue(asked.block, asked.path) IN
    IF there = {} THEN found = None ELSE found \in there

(* The handle of a table that was not destroyed sends the command of its     *)
(* first fitting entry, whatever other tables came and went; and a table     *)
(* made by hand comes back as it was, but for each command's high byte.      *)
Messages == [char : BOOLEAN, wp : [1 .. 2 -> 0 .. 1], mods : 0 .. 1]
TablesAnswer ==
  topic = "keys" =>
    \A h \in {g \in Slots : gave[g] # Nothing} :
      /\ \A msg \in Messages :
           LET fit == {i \in DOMAIN gave[h].keys : About(gave[h].keys[i], msg)} IN
           TranslateAccelerator(h, msg) = IF fit = {} THEN None ELSE gave[h].keys[Min(fit)].cmd
      /\ LET back == CopyAcceleratorTable(h, MaxAccels) IN
         \A i \in DOMAIN gave[h].bytes : \A j \in 1 .. 5 : back[i][j] = gave[h].bytes[i][j]

ResourcesAreFound == FindsTheNamed /\ VersionsAreFound /\ TablesAnswer
=============================================================================
