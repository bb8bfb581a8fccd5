--------------------------- MODULE RegistryStore ---------------------------
(***************************************************************************)
(* What the registry promises its guest: a map from paths, spelling        *)
(* ignored, to named values, and a file holding what the map held when the *)
(* process was told to exit.  It is no tree: a key exists without its      *)
(* ancestors and survives their deletion; an ancestor is there once it is  *)
(* opened.                                                                 *)
(***************************************************************************)
EXTENDS Integers, Sequences

CONSTANTS Names, Datas,        \* of values
          SeedPath, SeedValues \* a key every process finds

VARIABLES
  keys,    \* the process's keys: a function from some paths to values
  file,    \* the snapshot: another one
  lost     \* nothing is promised any more

vars == <<keys, file, lost>>

Nil  == [p \in {} |-> <<>>]
Values == UNION {[ns -> Datas] : ns \in SUBSET Names}
With(f, x, y) == [z \in DOMAIN f \cup {x} |-> IF z = x THEN y ELSE f[z]]
Without(f, x) == [z \in DOMAIN f \ {x} |-> f[z]]

(* p ends in q, or with a component in place of one of q's, or before q does.*)
BeginsAs(p, q) == \A i \in 1 .. Len(p) - 1 : i <= Len(q) /\ p[i] = q[i]

Init == keys = Nil /\ file = Nil /\ lost = FALSE

(* Also how an ancestor appears when it is opened.                           *)
Create(p) == p \notin DOMAIN keys /\ keys' = With(keys, p, Nil) /\ UNCHANGED file

SetValue(p, n, d) ==
  p \in DOMAIN keys /\ keys' = [keys EXCEPT ![p] = With(@, n, d)] /\ UNCHANGED file

DeleteValue(p, n) ==
  p \in DOMAIN keys /\ keys' = [keys EXCEPT ![p] = Without(@, n)] /\ UNCHANGED file

DeleteKey(p) == p \in DOMAIN keys /\ keys' = Without(keys, p) /\ UNCHANGED file

(* The first call: the file is read and the standard key provided.           *)
Load ==
  /\ keys = Nil
  /\ \/ keys' = file
     \/ keys' = With(file, SeedPath, Nil)
     \/ keys' = With(file, SeedPath, SeedValues)
  /\ UNCHANGED file

Save == file' = keys /\ UNCHANGED keys

(* The process dies, or dies writing the file: that has some keys, the last  *)
(* of them, or one whose path begins as its does, with whatever values.      *)
Dies == keys' = Nil /\ UNCHANGED file
SaveDies ==
  /\ keys' = Nil
  /\ \E ps \in SUBSET DOMAIN keys :
       \/ file' = [p \in ps |-> keys[p]]
       \/ \E q \in DOMAIN keys, p \in DOMAIN file' \ ps :
            /\ BeginsAs(p, q)
            /\ DOMAIN file' = ps \cup {p} /\ file'[p] \in Values
            /\ \A z \in ps : file'[z] = keys[z]

(* A file cut short may come to hold one key, or one value of a key, twice;  *)
(* nothing is promised of a store that reads such a file.                    *)
Abandon == lost' = TRUE /\ keys' = Nil /\ file' = Nil

Next ==
  \/ /\ ~ lost /\ UNCHANGED lost
     /\ \/ \E p \in DOMAIN keys' : Create(p)
        \/ \E p \in DOMAIN keys, n \in Names :
             DeleteValue(p, n) \/ DeleteKey(p) \/ \E d \in Datas : SetValue(p, n, d)
        \/ Load \/ Save \/ Dies \/ SaveDies
  \/ Abandon

Spec == Init /\ [][Next]_vars
=============================================================================
