-------------------------------- MODULE Names --------------------------------
(***************************************************************************)
(* Files by name (loader.c 6545-6614, 11434-11892, 17043-17063,            *)
(* 31796-31827): the host file a guest path means, and the attributes the  *)
(* loader keeps by normalised host path.  There is one file name, in three *)
(* host directories: the drive's root (the directory the process started   *)
(* in), a directory the guest may change to, and "/".  The guest spells it *)
(* with the drive, C:\n, or without, n.  A file has a number.              *)
(***************************************************************************)
EXTENDS Integers, FiniteSets

CONSTANTS NAttrs,      \* MW_ATTR_OV_MAX, 256
          MaxNamed     \* bounds the files made

VARIABLES
  at,        \* host directory -> the file n there, 0 for none
  named,     \* number of files made
  cwd,       \* the process's current directory
  attr,      \* g_attr_ov: normalised path -> the file it was set for, 0 for no entry
  strayed    \* history: a file left a path, or the path moved, behind the table

vars == <<at, named, cwd, attr, strayed>>

None == 0
HostDirs == {"root", "sub", "slash"}
Spellings == {"drive", "bare"}

Init ==
  /\ at \in [HostDirs -> {None, 1}] /\ Cardinality({d \in HostDirs : at[d] # None}) <= 1
  /\ named = 1 /\ cwd = "root"
  /\ attr = [k \in {"root", "slash", "bare"} |-> None]
  /\ strayed = FALSE

(* w3_normalize_path: a drive path is below the drive's root, unless it only *)
(* exists below "/"; any other path is left to the current directory.        *)
DrivePath == IF at["root"] = None /\ at["slash"] # None THEN "slash" ELSE "root"
Normalized(s) == IF s = "drive" THEN DrivePath ELSE "bare"
Home(s) == IF s = "drive" THEN DrivePath ELSE cwd
File(s) == at[Home(s)]

(* CreateFile, CopyFile2's target, GetTempFileName: the file is made if need *)
(* be.  Only the host makes one below "/".                                   *)
MakeFile(s) ==
  /\ File(s) = None /\ named < MaxNamed
  /\ named' = named + 1 /\ at' = [at EXCEPT ![Home(s)] = named']
  /\ UNCHANGED <<cwd, attr, strayed>>

(* SetFileAttributesW: the entry of the normalised path, or a new one.       *)
SetFileAttributes(s) ==
  LET k == Normalized(s) IN
  /\ File(s) # None
  /\ attr[k] # None \/ Cardinality({j \in DOMAIN attr : attr[j] # None}) < NAttrs
  /\ attr' = [attr EXCEPT ![k] = File(s)]
  /\ UNCHANGED <<at, named, cwd, strayed>>

(* DeleteFileW drops the entry of the path it was given, and of no other     *)
(* path the file had.                                                        *)
Elsewhere(f, k) == \E j \in DOMAIN attr \ {k} : attr[j] = f
DeleteFile(s) ==
  /\ File(s) # None
  /\ at' = [at EXCEPT ![Home(s)] = None]
  /\ attr' = [attr EXCEPT ![Normalized(s)] = None]
  /\ strayed' = (strayed \/ Elsewhere(File(s), Normalized(s)))
  /\ UNCHANGED <<named, cwd>>

(* Mutant: the entry stays.                                                  *)
DeleteFileKeeps(s) ==
  /\ File(s) # None
  /\ at' = [at EXCEPT ![Home(s)] = None]
  /\ strayed' = (strayed \/ Elsewhere(File(s), Normalized(s)))
  /\ UNCHANGED <<named, cwd, attr>>

(* The CRT's remove does not know the table.                                 *)
Remove(s) ==
  /\ File(s) # None
  /\ at' = [at EXCEPT ![Home(s)] = None]
  /\ strayed' = TRUE
  /\ UNCHANGED <<named, cwd, attr>>

(* MoveFileExW and ReplaceFileW: rename(2), over a file that is there;       *)
(* MoveFileW does not normalise and leaves a file that is there.             *)
MoveFileEx(s, t) ==
  /\ Home(s) # Home(t) /\ File(s) # None
  /\ at' = [at EXCEPT ![Home(t)] = File(s), ![Home(s)] = None]
  /\ strayed' = TRUE
  /\ UNCHANGED <<named, cwd, attr>>

(* SetCurrentDirectoryW; SetCurrentDirectoryA only notes the name.           *)
SetCurrentDirectory(d) ==
  /\ d \in {"root", "sub"} \ {cwd} /\ cwd' = d
  /\ strayed' = (strayed \/ attr["bare"] # None)
  /\ UNCHANGED <<at, named, attr>>

Next ==
  \/ \E s \in Spellings : MakeFile(s) \/ SetFileAttributes(s) \/ DeleteFile(s) \/ Remove(s)
  \/ \E s, t \in Spellings : MoveFileEx(s, t)
  \/ \E d \in HostDirs : SetCurrentDirectory(d)

Spec == Init /\ [][Next]_vars
-----------------------------------------------------------------------------
(* GetFileAttributes answers what was set for the file the path means, never *)
(* what was set for one that is gone: unless a file left its path by a way   *)
(* that does not tell the table, or by another spelling of the path.         *)
AttributesAreTheFiles ==
  ~ strayed => \A s \in Spellings :
                 File(s) # None => attr[Normalized(s)] \in {None, File(s)}

=============================================================================
