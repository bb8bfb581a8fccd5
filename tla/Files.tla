-------------------------------- MODULE Files --------------------------------
(***************************************************************************)
(* Files by handle (loader.c 10985-11430, 16907-16961, 17415-17490):     *)
(* the table g_w3files of open files, the handle table g_handle_table of   *)
(* kernel objects, file mappings and their views.  A handle is a table     *)
(* index plus 4 in both tables, and CloseHandle asks the kernel objects    *)
(* first; here a handle is the index, counted from 1.  A file has a        *)
(* number, like an inode, and a size; a description is what an open(2)     *)
(* makes and a dup shares.                                                 *)
(***************************************************************************)
EXTENDS Integers, Sequences, FiniteSets, SequencesExt, FiniteSetsExt

CONSTANTS
  Users,       \* guest threads
  Paths,       \* normalised paths
  NSlots,      \* MAX_HANDLES as far as g_w3files goes, 8192
  NObjects,    \* bounds the objects created; the code has 32 events
  NSections,   \* MAX_FILEMAPS, 64
  NViews,      \* MAX_MAPVIEWS, 64
  MaxFiles, MaxOpens, MaxSize   \* bounds of the model

VARIABLES
  dir,         \* path -> the file it names, 0 for none
  size,        \* sizes of the files made so far
  desc,        \* open file descriptions: file, whether writable, position
  w3,          \* g_w3files: slot -> description, 0 when free
  kobj,        \* g_handle_table: what alloc_handle put there, in order
  section,     \* g_filemaps
  views,       \* the mapped views
  creating,    \* user -> the slot its CreateFile has found
  held,        \* history: the handles the guest has and what they were for
  overlapped,  \* history: two threads were in the slot scan together
  crossed,     \* history: a close reached the other table's entry
  shrunk       \* history: files truncated since a section was made of them

fileVars == <<dir, size>>
openVars == <<desc, w3, creating, overlapped>>
objVars  == <<kobj, section, views>>
history  == <<held, crossed>>
vars == <<fileVars, openVars, objVars, history, shrunk>>

Slots == 1 .. NSlots
None == 0
Files == 1 .. Len(size)

Init ==
  /\ dir = [p \in Paths |-> None] /\ size = <<>>
  /\ desc = <<>> /\ w3 = [s \in Slots |-> None]
  /\ kobj = <<>> /\ section = <<>> /\ views = {}
  /\ creating = [u \in Users |-> None]
  /\ held = {} /\ overlapped = FALSE /\ crossed = FALSE /\ shrunk = {}
-----------------------------------------------------------------------------
(* Files by name                                                             *)

(* open(2) with O_CREAT, or fopen "wb": the file at p, made if need be.      *)
NewFile == Len(size) + 1
CanMake(p) == dir[p] # None \/ Len(size) < MaxFiles
FileAt(p) == IF dir[p] # None THEN dir[p] ELSE NewFile
Made(p) == dir' = [dir EXCEPT ![p] = FileAt(p)]
Truncated(p) == size' = IF dir[p] = None THEN Append(size, 0) ELSE [size EXCEPT ![dir[p]] = 0]
Kept(p)      == size' = IF dir[p] = None THEN Append(size, 0) ELSE size
Shrinks(f) ==
  shrunk' = IF (\E v \in views : v.file = f) \/
               (\E i \in DOMAIN section : section[i].for # None /\ desc[section[i].for].file = f)
            THEN shrunk \cup {f} ELSE shrunk

(* CopyFile2's target, GetTempFileName and fopen "w": the file is made or    *)
(* emptied under no handle.  GetTempFileName's fopen succeeds for a file     *)
(* that exists, so its first number is the answer every time.                *)
Overwrite(p) ==
  /\ CanMake(p) /\ Made(p) /\ Truncated(p) /\ Shrinks(FileAt(p))
  /\ UNCHANGED <<openVars, objVars, history>>

DeleteFile(p) ==
  /\ dir[p] # None
  /\ dir' = [dir EXCEPT ![p] = None]
  /\ UNCHANGED <<size, openVars, objVars, history, shrunk>>
-----------------------------------------------------------------------------
(* Files by handle                                                           *)

FreeSlots == {s \in Slots : w3[s] = None}

(* w3_create_file looks for a slot, opens the file and only then takes the   *)
(* slot, without a lock.                                                     *)
CreateFile(u) ==
  /\ creating[u] = None /\ FreeSlots # {} /\ Len(desc) < MaxOpens
  /\ overlapped' = (overlapped \/ \E t \in Users : creating[t] # None)
  /\ creating' = [creating EXCEPT ![u] = Min(FreeSlots)]
  /\ UNCHANGED <<fileVars, desc, w3, objVars, history, shrunk>>

(* open(2) with the flags of the disposition.                                *)
Opens(p, disp) ==
  CASE disp = "CREATE_NEW"        -> dir[p] = None /\ CanMake(p) /\ Made(p) /\ Kept(p) /\ UNCHANGED shrunk
    [] disp = "CREATE_ALWAYS"     -> CanMake(p) /\ Made(p) /\ Truncated(p) /\ Shrinks(FileAt(p))
    [] disp = "OPEN_EXISTING"     -> dir[p] # None /\ UNCHANGED <<fileVars, shrunk>>
    [] disp = "OPEN_ALWAYS"       -> CanMake(p) /\ Made(p) /\ Kept(p) /\ UNCHANGED shrunk
    [] disp = "TRUNCATE_EXISTING" -> dir[p] # None /\ Truncated(p) /\ Shrinks(dir[p]) /\ UNCHANGED dir
Fails(p, disp) ==
  \/ disp = "CREATE_NEW" /\ dir[p] # None
  \/ disp \in {"OPEN_EXISTING", "TRUNCATE_EXISTING"} /\ dir[p] = None

CreateFileOpens(u, p, disp, wr) ==
  LET d == Len(desc) + 1 IN
  /\ creating[u] # None
  /\ creating' = [creating EXCEPT ![u] = None]
  /\ \/ /\ Len(desc) < MaxOpens /\ Opens(p, disp)
        /\ desc' = Append(desc, [file |-> FileAt(p), wr |-> wr, pos |-> 0])
        /\ w3' = [w3 EXCEPT ![creating[u]] = d]
        /\ held' = held \cup {[h |-> creating[u], kind |-> "file", what |-> d]}
     \/ /\ Fails(p, disp) \/ Len(desc) = MaxOpens
        /\ UNCHANGED <<fileVars, desc, w3, held, shrunk>>
  /\ UNCHANGED <<objVars, overlapped, crossed>>

(* w3fd_from_handle.                                                         *)
Of(h) == IF h \in Slots THEN w3[h] ELSE None

WriteFile(h) ==
  LET d == Of(h) IN
  /\ d # None /\ desc[d].wr /\ desc[d].pos < MaxSize
  /\ desc' = [desc EXCEPT ![d].pos = @ + 1]
  /\ size' = [size EXCEPT ![desc[d].file] = IF @ > desc[d].pos THEN @ ELSE desc[d].pos + 1]
  /\ UNCHANGED <<dir, w3, creating, overlapped, objVars, history, shrunk>>

SetFilePointer(h) ==
  LET d == Of(h) IN
  /\ d # None /\ desc' = [desc EXCEPT ![d].pos = 0]
  /\ UNCHANGED <<fileVars, w3, creating, overlapped, objVars, history, shrunk>>

SetEndOfFile(h) ==
  LET d == Of(h) IN
  /\ d # None /\ desc[d].wr
  /\ size' = [size EXCEPT ![desc[d].file] = desc[d].pos]
  /\ Shrinks(desc[d].file)
  /\ UNCHANGED <<dir, openVars, objVars, history>>
-----------------------------------------------------------------------------
(* Kernel objects, sections and views                                        *)

Object(h) == IF h <= Len(kobj) THEN kobj[h] ELSE [kind |-> "none"]
Holds(kind) == {x \in held : x.kind = kind}

CreateEvent ==
  /\ Len(kobj) < NObjects
  /\ kobj' = Append(kobj, [kind |-> "event", used |-> TRUE])
  /\ held' = held \cup {[h |-> Len(kobj) + 1, kind |-> "event", what |-> Len(kobj) + 1]}
  /\ UNCHANGED <<fileVars, openVars, section, views, crossed, shrunk>>

(* The section owns a dup of the file's descriptor; a size beyond the end    *)
(* extends the file if it may be written, and moves its position.            *)
SectionOf(h, n) == [desc |-> Of(h), hfile |-> h, size |-> n, for |-> Of(h)]
(* Mutant: the section resolves the file's handle when it is mapped.         *)
SectionOfHandle(h, n) == [desc |-> None, hfile |-> h, size |-> n, for |-> Of(h)]

CreateFileMapping(h, n) ==
  LET d == Of(h) IN
  /\ Len(section) < NSections /\ Len(kobj) < NObjects
  /\ section' = Append(section, SectionOf(h, n))
  /\ kobj' = Append(kobj, [kind |-> "section", used |-> TRUE])
  /\ held' = held \cup {[h |-> Len(kobj) + 1, kind |-> "section", what |-> Len(section) + 1]}
  /\ IF d # None /\ n > 0
     THEN /\ desc' = [desc EXCEPT ![d].pos = size[desc[d].file]]
          /\ size' = IF desc[d].wr /\ n > size[desc[d].file] THEN [size EXCEPT ![desc[d].file] = n] ELSE size
     ELSE UNCHANGED <<desc, size>>
  /\ UNCHANGED <<dir, w3, creating, overlapped, views, crossed, shrunk>>

(* MapViewOfFile of the whole section: by its own descriptor, else by the    *)
(* handle it was made from; NViews keeps to views the table remembers.       *)
Backing(s) == IF section[s].desc # None THEN section[s].desc ELSE Of(section[s].hfile)

MapViewOfFile(s) ==
  LET d == Backing(s)
      n == IF section[s].size = 0 THEN size[desc[d].file] ELSE section[s].size
  IN
  /\ d # None /\ n > 0 /\ Cardinality(views) < NViews
  /\ desc' = [desc EXCEPT ![d].pos = size[desc[d].file]]
  /\ views' = views \cup {[sec |-> s, file |-> desc[d].file, to |-> n, wr |-> desc[d].wr]}
  /\ UNCHANGED <<fileVars, w3, creating, overlapped, kobj, section, history, shrunk>>

UnmapViewOfFile(v) ==
  /\ views' = views \ {v}
  /\ UNCHANGED <<fileVars, openVars, kobj, section, history, shrunk>>

(* CloseHandle: mw_kobj_release frees an event of that handle; any other     *)
(* object, and no object, leaves it to w3_release_handle.                    *)
KobjReleases(h) == Object(h).kind = "event" /\ Object(h).used

CloseHandle(x) ==
  /\ x \in held /\ held' = held \ {x}
  /\ IF KobjReleases(x.h)
     THEN /\ kobj' = [kobj EXCEPT ![x.h].used = FALSE]
          /\ crossed' = (crossed \/ x.kind # "event")
          /\ UNCHANGED w3
     ELSE /\ w3' = [s \in Slots |-> IF s = x.h THEN None ELSE w3[s]]
          /\ crossed' = (crossed \/ (x.kind # "file" /\ Of(x.h) # None))
          /\ UNCHANGED kobj
  /\ UNCHANGED <<fileVars, desc, creating, overlapped, section, views, shrunk>>
-----------------------------------------------------------------------------
Dispositions == {"CREATE_NEW", "CREATE_ALWAYS", "OPEN_EXISTING", "OPEN_ALWAYS", "TRUNCATE_EXISTING"}

ByHandle(x) ==
  \/ x.kind = "file" /\ (WriteFile(x.h) \/ SetFilePointer(x.h) \/ SetEndOfFile(x.h))
  \/ x.kind = "file" /\ \E n \in 0 .. MaxSize : CreateFileMapping(x.h, n)
  \/ x.kind = "section" /\ MapViewOfFile(x.what)
  \/ CloseHandle(x)

Next ==
  \/ \E u \in Users : CreateFile(u)
  \/ \E u \in Users, p \in Paths, disp \in Dispositions, wr \in BOOLEAN : CreateFileOpens(u, p, disp, wr)
  \/ \E p \in Paths : Overwrite(p) \/ DeleteFile(p)
  \/ \E x \in held : ByHandle(x)
  \/ CreateEvent
  \/ \E v \in views : UnmapViewOfFile(v)

Spec == Init /\ [][Next]_vars
-----------------------------------------------------------------------------
(* A file handle the guest has not closed is the slot of the description it  *)
(* was opened with, and an event's is a live event, whatever else is opened  *)
(* and closed: unless two threads looked for a slot together, or a close     *)
(* with a number that both tables use has reached the wrong one.             *)
HandlesReachTheirObject ==
  overlapped \/ crossed \/
  \A x \in held : CASE x.kind = "file"  -> Of(x.h) = x.what
                    [] x.kind = "event" -> KobjReleases(x.h)
                    [] OTHER            -> x.what \in DOMAIN section

(* "dup() at creation holds the section alive": a view shows the file whose  *)
(* handle the section was made from, though that was closed and reused.      *)
ViewsShowTheirFile ==
  \A v \in views : section[v.sec].for # None => v.file = desc[section[v.sec].for].file

(* "those writes land exactly like on NTFS": no part of a view lies beyond   *)
(* the end of the file, where a touch is a SIGBUS, unless the file could not *)
(* be extended or was cut since.                                             *)
ViewsInsideTheFile ==
  \A v \in views : v.wr /\ v.file \notin shrunk => v.to <= size[v.file]

FilesKeepTheirHandles ==
  HandlesReachTheirObject /\ ViewsShowTheirFile /\ ViewsInsideTheFile
=============================================================================
