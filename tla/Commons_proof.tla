--------------------------- MODULE Commons_proof ---------------------------
(***************************************************************************)
(* What threads have in common is kept: atoms have the references that     *)
(* were taken, task memory is freed once and is nobody else's, exit        *)
(* functions run backwards, a number of the clipboard is one content and   *)
(* an instance of a pipe has one client, wherever no two threads were at   *)
(* one thing at once.                                                      *)
(***************************************************************************)
EXTENDS Commons, SequenceTheorems, WellFoundedInduction, TLAPS

(* Limits are numbers, and NULL is no name of an atom.                       *)
Limits == NAtoms \in Nat /\ MaxRefs \in Nat /\ FirstExits \in Nat /\ "NULL" \notin AtomNames
-----------------------------------------------------------------------------
(* Numbers                                                                   *)

(* A set of numbers that is not empty has a least one, Min.                  *)
LEMMA MinIsIn ==
  ASSUME NEW T \in SUBSET Nat, T # {}
  PROVE  Min(T) \in T
<1>1. IsWellFoundedOn(OpToRel(<, Nat), Nat)
  BY NatLessThanWellFounded
<1>2. PICK x \in T : \A y \in T : ~ (<<y, x>> \in OpToRel(<, Nat))
  BY <1>1, WFMin
<1>3. \A y \in T : ~ (y < x)
  <2> TAKE y \in T
  <2>1. y < x => <<y, x>> \in OpToRel(<, Nat)
    BY DEF OpToRel
  <2> QED BY <1>2, <2>1
<1>4. \A y \in T : x \in Nat /\ y \in Nat
  BY <1>2
<1>5. \A y \in T : x <= y
  BY <1>3, <1>4
<1> QED BY <1>2, <1>5 DEF Min

(* The smaller of two numbers is one of them.                                *)
LEMMA MinOfTwo ==
  ASSUME NEW m \in Int, NEW n \in Int
  PROVE  Min({m, n}) \in {m, n}
<1>1. \E x \in {m, n} : \A y \in {m, n} : x <= y
  OBVIOUS
<1> QED BY <1>1 DEF Min
-----------------------------------------------------------------------------
(* Atoms                                                                     *)

Shut == AtomNames \cup {"NULL"}
AtomJobs == [op : {"ref", "name", "grow"}, slot : 1 .. NAtoms, name : AtomNames, refs : Int, by : {1, -1}]

AtomTypes ==
  /\ atom \in [1 .. NAtoms -> [name : Shut, refs : Int]] /\ atomCount \in 0 .. NAtoms
  /\ atomHeld \in [AtomNames -> [n : Int, at : Int]]
  /\ job \in [Users -> {Idle} \cup AtomJobs] /\ clouded \subseteq Shut

(* Behind the end, and in the entry another name's job is about, there is    *)
(* no name that is not confused.                                             *)
Past == \A i \in 1 .. NAtoms : i > atomCount => atom[i].name \in clouded \cup {"NULL"}
Apart ==
  \A u \in Users : job[u] # Idle =>
    LET j == job[u] IN
    IF j.slot <= atomCount THEN atom[j.slot].name \in clouded \cup {"NULL", j.name}
    ELSE j.op # "grow" => j.name \in clouded

(* What a thread has read of a name that is not confused is still so.        *)
Read(j) ==
  /\ j.op = "ref" => /\ j.slot \in Named(j.name)
                     /\ j.refs = MaxRefs \/ j.refs = atomHeld[j.name].n + j.by
  /\ j.op = "name" => /\ j.slot <= atomCount /\ atom[j.slot].name = "NULL" /\ Named(j.name) = {}
                      /\ j.refs = 1 /\ j.by = 1
  /\ j.op = "grow" => /\ j.slot <= atomCount \/ (j.slot = atomCount + 1 /\ Named(j.name) = {})
                      /\ j.refs = 1 /\ j.by = 1
ReadOK == \A u \in Users : job[u] # Idle /\ job[u].name \notin clouded => Read(job[u])

AtomInv == AtomTypes /\ Past /\ Apart /\ ReadOK /\ AtomsAreHeld

(* What a thread has found of a name to add is so as it stores it, unless    *)
(* another thread is at the same name or entry.                              *)
LEMMA AtomAdds ==
  ASSUME Limits, AtomInv, NEW u \in Users, NEW w \in AtomNames, AddAtom(u, w)
  PROVE  AtomInv'
<1> DEFINE i == SlotOf(w)
<1>1. UNCHANGED <<atom, atomCount, atomHeld, clouded>>
  BY DEF AddAtom, atomVars
<1>0. atomCount \in Nat /\ NAtoms \in Nat /\ atomCount <= NAtoms
  BY DEF AtomInv, AtomTypes, Limits
<1>2. Named(w) # {} => i \in Named(w)
  BY <1>1, MinIsIn DEF SlotOf, Named
<1>3. Named(w) = {} /\ Named("NULL") # {} => i \in Named("NULL")
  BY <1>1, MinIsIn DEF SlotOf, Named
<1>4. Named(w) = {} /\ Named("NULL") = {} => i = atomCount + 1
  BY DEF SlotOf
<1>5. CASE job' = job
  BY <1>1, <1>5 DEF AtomInv, AtomTypes, Past, Apart, ReadOK, Read, AtomsAreHeld, Named
<1>6. CASE job' # job
  <2>1. PICK j : /\ job' = [job EXCEPT ![u] = j]
                 /\ \/ /\ Named(w) # {} /\ j = [op |-> "ref", slot |-> i, name |-> w, refs |-> Min({atom[i].refs + 1, MaxRefs}), by |-> 1]
                    \/ /\ Named(w) = {} /\ i <= NAtoms
                       /\ j = [op |-> IF i > atomCount THEN "grow" ELSE "name", slot |-> i, name |-> w, refs |-> 1, by |-> 1]
    BY <1>6 DEF AddAtom, Goes
  <2>2. Named(w) # {} => Min({atom[i].refs + 1, MaxRefs}) \in {atom[i].refs + 1, MaxRefs}
    BY <1>1, <1>2, MinOfTwo DEF AtomInv, AtomTypes, Named, Limits
  <2>3. j \in AtomJobs /\ j # Idle /\ j.name = w /\ j.slot = i
    <3>1. i \in 1 .. NAtoms
      <4>1. CASE Named(w) # {}
        BY <1>0, <1>2, <4>1 DEF Named
      <4>2. CASE Named(w) = {} /\ Named("NULL") # {}
        BY <1>0, <1>3, <4>2 DEF Named
      <4>3. CASE Named(w) = {} /\ Named("NULL") = {}
        BY <1>0, <1>4, <2>1, <4>3
      <4> QED BY <4>1, <4>2, <4>3
    <3>2. atom[i].refs \in Int /\ MaxRefs \in Int
      BY <3>1 DEF AtomInv, AtomTypes, Limits
    <3>3. CASE Named(w) # {}
      <4>1. Min({atom[i].refs + 1, MaxRefs}) \in Int
        BY <2>2, <3>2, <3>3
      <4> QED BY <2>1, <3>1, <3>3, <4>1 DEF AtomJobs, Idle
    <3>4. CASE Named(w) = {}
      BY <2>1, <3>1, <3>4 DEF AtomJobs, Idle
    <3> QED BY <3>3, <3>4
  <2>4. AtomTypes'
    BY <1>1, <2>1, <2>3 DEF AtomInv, AtomTypes
  <2>5. w \notin clouded => Read(j)
    BY <1>1, <1>2, <1>3, <1>4, <2>1, <2>2 DEF Read, AtomInv, AtomsAreHeld, AtomTypes, Named
  <2>6. /\ j.slot <= atomCount => atom[j.slot].name \in clouded \cup {"NULL", j.name}
        /\ j.slot > atomCount => j.op = "grow"
    <3>1. CASE Named(w) # {}
      BY <1>0, <1>2, <2>1, <3>1 DEF Named
    <3>2. CASE Named(w) = {} /\ Named("NULL") # {}
      BY <1>0, <1>3, <2>1, <3>2 DEF Named
    <3>3. CASE Named(w) = {} /\ Named("NULL") = {}
      BY <1>0, <1>4, <2>1, <3>3
    <3> QED BY <3>1, <3>2, <3>3
  <2>7. \A v \in Users : job'[v] = IF v = u THEN j ELSE job[v]
    BY <2>1 DEF AtomInv, AtomTypes
  <2>8. Apart'
    BY <1>1, <2>3, <2>6, <2>7 DEF AtomInv, Apart, AtomTypes, AtomJobs
  <2>9. ReadOK'
    BY <1>1, <2>3, <2>5, <2>7 DEF AtomInv, ReadOK, Read, Named
  <2> QED BY <1>1, <2>4, <2>8, <2>9 DEF AtomInv, Past, AtomsAreHeld, Named
<1> QED BY <1>5, <1>6

(* So is what it has found of an atom to delete.                             *)
LEMMA AtomDeletes ==
  ASSUME Limits, AtomInv, NEW u \in Users, NEW i \in 1 .. NAtoms, DeleteAtom(u, i)
  PROVE  AtomInv'
<1> DEFINE j == [op |-> "ref", slot |-> i, name |-> atom[i].name, refs |-> atom[i].refs - 1, by |-> -1]
<1>1. /\ UNCHANGED <<atom, atomCount, atomHeld, clouded>> /\ job' = [job EXCEPT ![u] = j]
      /\ i <= atomCount /\ atom[i].name # "NULL" /\ atomHeld[atom[i].name].n > 0
  BY DEF DeleteAtom, Calls, Goes, atomVars
<1>2. j \in AtomJobs /\ j # Idle /\ atom[i].name \in AtomNames /\ i \in Named(atom[i].name)
  BY <1>1 DEF AtomJobs, AtomInv, AtomTypes, Shut, Idle, Named
<1>3. \A v \in Users : job'[v] = IF v = u THEN j ELSE job[v]
  BY <1>1 DEF AtomInv, AtomTypes
<1>4. AtomTypes'
  BY <1>1, <1>2 DEF AtomInv, AtomTypes
<1>5. j.name \notin clouded => Read(j)
  BY <1>1, <1>2 DEF Read, AtomInv, AtomsAreHeld, AtomTypes
<1>6. Apart'
  BY <1>1, <1>2, <1>3 DEF AtomInv, Apart
<1>7. ReadOK'
  BY <1>1, <1>2, <1>3, <1>5 DEF AtomInv, ReadOK, Read, Named
<1> QED BY <1>1, <1>4, <1>6, <1>7 DEF AtomInv, Past, AtomsAreHeld, Named

(* Storing changes one entry, and the end if the thread makes its entry the  *)
(* last.                                                                     *)
LEMMA AtomStores ==
  ASSUME Limits, AtomInv, NEW u \in Users, StoreAtom(u)
  PROVE  AtomInv'
<1> DEFINE j == job[u]
           i == j.slot
<1>1. j \in AtomJobs /\ i \in 1 .. NAtoms /\ j.name \in AtomNames /\ j.refs \in Int /\ j.by \in Int /\ j # Idle
  BY DEF StoreAtom, AtomInv, AtomTypes, AtomJobs
<1>2. /\ atom' = [atom EXCEPT ![i] = IF j.op # "ref" \/ j.refs = 0 THEN Entry(j) ELSE [@ EXCEPT !.refs = j.refs]]
      /\ atomCount' = IF j.op = "grow" THEN i ELSE atomCount
      /\ atomHeld' = [atomHeld EXCEPT ![j.name] = [n |-> @.n + j.by, at |-> IF j.by = 1 THEN i ELSE @.at]]
      /\ clouded' = clouded \cup Confused(u) /\ job' = [job EXCEPT ![u] = Idle]
  BY DEF StoreAtom, Goes
<1>3. NAtoms \in Nat /\ atomCount \in Nat /\ atomCount <= NAtoms /\ atomCount' \in Nat /\ atomCount' <= NAtoms
  BY <1>1, <1>2 DEF Limits, AtomInv, AtomTypes
<1>4. Entry(j) \in [name : Shut, refs : Int] /\ Entry(j).name \in {"NULL", j.name}
  BY <1>1 DEF Entry, Hole, Shut
<1>5. /\ \A k \in 1 .. NAtoms : atom[k] \in [name : Shut, refs : Int]
      /\ \A k \in 1 .. NAtoms : atom'[k] \in [name : Shut, refs : Int]
      /\ \A k \in 1 .. NAtoms : k # i => atom'[k] = atom[k]
      /\ atom'[i].name \in {"NULL", j.name, atom[i].name}
      /\ j.op # "ref" => atom'[i] = Entry(j)
  BY <1>1, <1>2, <1>4 DEF AtomInv, AtomTypes
<1>6. /\ \A v \in Users \ {u} : job'[v] = job[v]
      /\ job'[u] = Idle
  BY <1>2 DEF AtomInv, AtomTypes
<1>7. /\ clouded \subseteq clouded'
      /\ \A v \in Users \ {u} : job[v] # Idle /\ (job[v].slot = i \/ job[v].name = j.name \/ (j.op = "grow" /\ job[v].slot > i))
           => job[v].name \in clouded' /\ j.name \in clouded'
      /\ j.op = "grow" => \A k \in i .. atomCount : atom[k].name \in clouded' /\ j.name \in clouded'
      /\ j.refs = MaxRefs => j.name \in clouded'
  BY <1>2 DEF Confused, Others
<1>8. AtomTypes'
  <2>1. Confused(u) \subseteq Shut
    <3>1. \A v \in Others(u) : job[v].name \in Shut
      BY DEF Others, AtomInv, AtomTypes, AtomJobs, Shut
    <3>2. j.op = "grow" => \A k \in i .. atomCount : atom[k].name \in Shut
      BY <1>1, <1>3, <1>5
    <3> QED BY <1>1, <3>1, <3>2 DEF Confused, Shut
  <2>2. atom' \in [1 .. NAtoms -> [name : Shut, refs : Int]]
    BY <1>1, <1>2, <1>4 DEF AtomInv, AtomTypes
  <2>3. atomHeld' \in [AtomNames -> [n : Int, at : Int]]
    BY <1>1, <1>2 DEF AtomInv, AtomTypes
  <2> QED BY <1>2, <1>3, <2>1, <2>2, <2>3 DEF AtomInv, AtomTypes
<1>9. Past'
  <2> SUFFICES ASSUME NEW k \in 1 .. NAtoms, k > atomCount'
               PROVE  atom'[k].name \in clouded' \cup {"NULL"}
    BY DEF Past
  <2>1. CASE j.op = "grow"
    <3>1. k # i /\ k > i
      BY <1>1, <1>2, <2>1
    <3> QED BY <1>1, <1>3, <1>5, <1>7, <2>1, <3>1 DEF AtomInv, Past
  <2>2. CASE j.op # "grow"
    <3>1. k > atomCount
      BY <1>2, <2>2
    <3>2. i = k => j.name \in clouded
      BY <1>1, <1>3, <2>2, <3>1 DEF AtomInv, Apart
    <3> QED BY <1>1, <1>5, <1>7, <3>1, <3>2 DEF AtomInv, Past
  <2> QED BY <2>1, <2>2
(* Entries change only to the name that is stored; names that come within    *)
(* the end, or are cut off, are confused.                                    *)
<1>10. \A k \in 1 .. NAtoms : k <= atomCount' => atom'[k].name \in clouded' \cup {"NULL", j.name} \/ (k <= atomCount /\ k # i /\ atom'[k] = atom[k])
  <2> SUFFICES ASSUME NEW k \in 1 .. NAtoms, k <= atomCount'
               PROVE  atom'[k].name \in clouded' \cup {"NULL", j.name} \/ (k <= atomCount /\ k # i /\ atom'[k] = atom[k])
    OBVIOUS
  <2>1. CASE k = i
    <3>1. i <= atomCount => atom[i].name \in clouded \cup {"NULL", j.name}
      BY <1>1 DEF AtomInv, Apart
    <3>2. i > atomCount => atom[i].name \in clouded \cup {"NULL"}
      BY <1>1 DEF AtomInv, Past
    <3> QED BY <1>1, <1>3, <1>5, <1>7, <2>1, <3>1, <3>2
  <2>2. CASE k # i /\ k > atomCount
    BY <1>5, <1>7, <2>2 DEF AtomInv, Past
  <2> QED BY <1>3, <1>5, <2>1, <2>2
<1>11. \A w \in AtomNames \ clouded' : w # j.name => Named(w)' = Named(w)
  <2> SUFFICES ASSUME NEW w \in AtomNames \ clouded', w # j.name
               PROVE  Named(w)' = Named(w)
    OBVIOUS
  <2>1. w # "NULL"
    BY DEF Limits
  <2>2. ASSUME NEW k \in Named(w)'
        PROVE  k \in Named(w)
    <3>1. k \in 1 .. NAtoms /\ k <= atomCount' /\ atom'[k].name = w
      BY <1>3 DEF Named
    <3> QED BY <1>3, <1>10, <2>1, <3>1 DEF Named
  <2>3. ASSUME NEW k \in Named(w)
        PROVE  k \in Named(w)'
    <3>1. k \in 1 .. NAtoms /\ k <= atomCount /\ atom[k].name = w
      BY <1>3 DEF Named
    <3>2. k # i
      BY <1>1, <1>7, <2>1, <3>1 DEF AtomInv, Apart
    <3>3. k <= atomCount'
      BY <1>1, <1>2, <1>3, <1>7, <3>1, <3>2
    <3> QED BY <1>3, <1>5, <3>1, <3>2, <3>3 DEF Named
  <2> QED BY <2>2, <2>3
<1>12. Apart'
  <2> SUFFICES ASSUME NEW v \in Users, job'[v] # Idle
               PROVE  IF job'[v].slot <= atomCount' THEN atom'[job'[v].slot].name \in clouded' \cup {"NULL", job'[v].name}
                      ELSE job'[v].op # "grow" => job'[v].name \in clouded'
    BY DEF Apart
  <2>1. v # u /\ job'[v] = job[v] /\ job[v] # Idle
    BY <1>6
  <2> DEFINE k == job[v].slot
  <2>2. k \in 1 .. NAtoms
    BY <2>1 DEF AtomInv, AtomTypes, AtomJobs
  <2>3. CASE k = i
    BY <1>5, <1>7, <2>1, <2>2, <2>3, <1>10, <1>1 
  <2>4. CASE k # i /\ k <= atomCount'
    <3>1. k <= atomCount => atom[k].name \in clouded \cup {"NULL", job[v].name}
      BY <2>1 DEF AtomInv, Apart
    <3>2. k > atomCount => atom[k].name \in clouded \cup {"NULL"}
      BY <2>2 DEF AtomInv, Past
    <3> QED BY <1>3, <1>5, <1>7, <2>1, <2>2, <2>4, <3>1, <3>2
  <2>5. CASE k # i /\ k > atomCount'
    <3>1. CASE j.op = "grow"
      BY <1>1, <1>2, <1>7, <2>1, <2>2, <2>5, <3>1
    <3>2. CASE j.op # "grow"
      BY <1>1, <1>2, <1>3, <1>7, <2>1, <2>2, <2>5, <3>2 DEF AtomInv, Apart
    <3> QED BY <2>1, <2>5, <3>1, <3>2
  <2> QED BY <1>3, <2>2, <2>3, <2>4, <2>5
<1>13. ReadOK'
  <2> SUFFICES ASSUME NEW v \in Users, job'[v] # Idle, job'[v].name \notin clouded'
               PROVE  Read(job[v])'
    BY <1>6 DEF ReadOK
  <2>1. v # u /\ job'[v] = job[v] /\ job[v] # Idle /\ job[v] \in AtomJobs
    BY <1>6 DEF AtomInv, AtomTypes
  <2> DEFINE k == job[v].slot
             w == job[v].name
  <2>2. w \in AtomNames \ clouded' /\ w # j.name /\ k # i /\ ~ (j.op = "grow" /\ k > i) /\ k \in 1 .. NAtoms
    BY <1>7, <2>1 DEF AtomJobs
  <2>3. Named(w)' = Named(w) /\ atom'[k] = atom[k] /\ atomHeld'[w] = atomHeld[w]
    BY <1>1, <1>2, <1>5, <1>11, <2>2 DEF AtomInv, AtomTypes
  <2>4. Read(job[v])
    BY <1>7, <2>1, <2>2 DEF AtomInv, ReadOK
  <2>5. k <= atomCount => k <= atomCount'
    BY <1>1, <1>2, <1>3, <2>2
  <2>6. k = atomCount + 1 => k <= atomCount' \/ k = atomCount' + 1
    BY <1>1, <1>2, <1>3, <2>2
  <2> QED BY <1>3, <2>1, <2>2, <2>3, <2>4, <2>5, <2>6 DEF Read
<1>14. AtomsAreHeld'
  <2> SUFFICES ASSUME NEW w \in AtomNames \ clouded'
               PROVE  (IF atomHeld[w].n = 0 THEN Named(w) = {}
                       ELSE Named(w) = {atomHeld[w].at} /\ atom[atomHeld[w].at].refs = atomHeld[w].n)'
    BY DEF AtomsAreHeld
  <2>0. IF atomHeld[w].n = 0 THEN Named(w) = {}
        ELSE Named(w) = {atomHeld[w].at} /\ atom[atomHeld[w].at].refs = atomHeld[w].n
    BY <1>7 DEF AtomInv, AtomsAreHeld
  <2>1. CASE w # j.name
    <3>1. Named(w)' = Named(w) /\ atomHeld'[w] = atomHeld[w]
      BY <1>1, <1>2, <1>11, <2>1 DEF AtomInv, AtomTypes
    <3>2. i \notin Named(w)'
      BY <1>5, <1>1, <1>7, <1>10, <2>1, <1>3 DEF Named, Limits
    <3>3. \A k \in Named(w) : k \in 1 .. NAtoms
      BY <1>3 DEF Named
    <3> QED BY <1>5, <2>0, <3>1, <3>2, <3>3
  <2>2. CASE w = j.name
    <3>1. Read(j) /\ j.refs # MaxRefs
      BY <1>1, <1>7, <2>2 DEF AtomInv, ReadOK
    <3>2. atomHeld'[w].n = atomHeld[w].n + j.by /\ atomHeld'[w].at = IF j.by = 1 THEN i ELSE atomHeld[w].at
      BY <1>1, <1>2, <2>2 DEF AtomInv, AtomTypes
    <3>3. atomHeld[w].n \in Int
      BY <1>1, <2>2 DEF AtomInv, AtomTypes
    <3>4. CASE j.op = "ref"
      <4>1. Named(w) = {i} /\ atomHeld[w].at = i /\ j.refs = atomHeld'[w].n
        BY <2>0, <2>2, <3>1, <3>2, <3>4 DEF Read
      <4>2. \A k \in 1 .. NAtoms : k # i => atom'[k] = atom[k] 
        BY <1>5
      <4>3. atomCount' = atomCount
        BY <1>2, <3>4
      <4>4. CASE j.refs = 0
        <5>1. atom'[i].name = "NULL"
          BY <1>1, <1>2, <3>4, <4>4 DEF AtomInv, AtomTypes, Entry, Hole
        <5>2. Named(w)' = {}
          BY <1>3, <1>5, <4>1, <4>3, <5>1 DEF Named, Limits
        <5> QED BY <4>1, <4>4, <5>2
      <4>5. CASE j.refs # 0
        <5>1. atom'[i].name = atom[i].name /\ atom'[i].refs = j.refs
          BY <1>1, <1>2, <1>5, <3>4, <4>5 DEF AtomInv, AtomTypes
        <5>2. Named(w)' = {i}
          BY <1>3, <1>5, <4>1, <4>3, <5>1 DEF Named
        <5> QED BY <3>2, <4>1, <4>5, <5>1, <5>2
      <4> QED BY <4>4, <4>5
    <3>5. CASE j.op # "ref"
      <4>1. j.op \in {"name", "grow"} /\ j.refs = 1 /\ j.by = 1 /\ Named(w) = {}
        <5>1. j.op \in {"name", "grow"}
          BY <1>1, <3>5 DEF AtomJobs
        <5>2. j.op = "grow" => ~ (i <= atomCount)
          BY <1>1, <1>3, <1>7, <2>2
        <5> QED BY <2>2, <3>1, <5>1, <5>2 DEF Read
      <4>2. atomHeld[w].n = 0 /\ atomHeld'[w].n = 1 /\ atomHeld'[w].at = i
        BY <2>0, <3>2, <3>3, <4>1
      <4>3. atom'[i] = [name |-> w, refs |-> 1] /\ i <= atomCount'
        BY <1>1, <1>2, <1>3, <1>5, <2>2, <3>1, <3>5, <4>1 DEF Entry, Read
      <4>4. ASSUME NEW k \in 1 .. atomCount', k # i
            PROVE  atom'[k].name # w
        <5>1. k \in 1 .. NAtoms
          BY <1>3
        <5>2. k <= atomCount => atom[k].name # w
          BY <1>3, <4>1, <5>1 DEF Named
        <5>3. k > atomCount => atom[k].name # w
          BY <1>7, <5>1 DEF AtomInv, Past, Limits
        <5> QED BY <1>3, <1>5, <4>4, <5>1, <5>2, <5>3
      <4>5. Named(w)' = {i}
        BY <1>1, <4>3, <4>4 DEF Named
      <4> QED BY <4>2, <4>3, <4>5
    <3> QED BY <3>4, <3>5
  <2> QED BY <2>1, <2>2
<1> QED BY <1>8, <1>9, <1>12, <1>13, <1>14 DEF AtomInv
-----------------------------------------------------------------------------
(* Task memory                                                               *)

MemoryTypes ==
  /\ block \in [Address -> {"free", "task", "foreign"}]
  /\ tracked \subseteq Address /\ untold \subseteq Address /\ broken \subseteq Address /\ clouded \subseteq Address
  /\ job \in [Users -> {Idle} \cup [op : {"move"}, from : Address, to : Address]]

(* What realloc has done for u and u has not tracked yet: the new address is *)
(* u's alone, and the old one is nobody's.                                   *)
Moved(u) ==
  LET j == job[u] IN
  /\ j.to \notin clouded => block[j.to] = "task" /\ (j.to \in tracked => j.to = j.from)
  /\ j.from \notin clouded /\ j.from # j.to => block[j.from] = "free"
  /\ \A v \in Users \ {u} : job[v] # Idle /\ job[v].to = j.to => j.to \in clouded
MovesOK == \A u \in Users : job[u] # Idle => Moved(u)

MemoryInv == MemoryTypes /\ MovesOK /\ TaskMemoryIsOwned

(* Jobs are moves, and Leaving is where they are from.                       *)
LEMMA MovesAreJobs ==
  ASSUME MemoryTypes
  PROVE  /\ \A u \in Users : job[u] # Idle <=> job[u].op = "move"
         /\ \A u \in Users : job[u] # Idle => job[u].from \in Address /\ job[u].to \in Address
         /\ \A a : a \in Leaving <=> \E u \in Users : job[u] # Idle /\ job[u].from = a
<1>1. \A u \in Users : job[u] # Idle <=> job[u].op = "move"
  BY DEF MemoryTypes, Idle
<1>2. \A u \in Users : job[u] # Idle => job[u].from \in Address /\ job[u].to \in Address
  BY DEF MemoryTypes
<1> QED BY <1>1, <1>2 DEF Leaving

(* What malloc and free do to one address that no job is about, or that is   *)
(* confused, is no job's concern.                                            *)
LEMMA MemoryChanges ==
  ASSUME MemoryInv, NEW u \in Users, NEW a \in Address,
         \/ \E n \in BOOLEAN : TaskAlloc(u, a, n)
         \/ ForeignMemory(u, a)
         \/ TaskFree(u, a)
  PROVE  MemoryInv'
<1>1. /\ job' = job /\ clouded' = clouded \cup ({a} \cap Leaving)
      /\ block' \in [Address -> {"free", "task", "foreign"}] /\ \A x \in Address \ {a} : block'[x] = block[x]
      /\ tracked' \subseteq tracked \cup {a} /\ tracked \subseteq tracked' \cup {a}
      /\ untold' \subseteq untold \cup {a} /\ untold \subseteq untold' \cup {a}
  BY DEF MemoryInv, MemoryTypes, TaskAlloc, ForeignMemory, TaskFree, Track, Untold, Free
<1>2. /\ a \in clouded' \/ a \notin Leaving
      /\ \A x \in clouded' : x \in clouded \/ x = a
      /\ clouded \subseteq clouded'
  BY <1>1
<1>3. ASSUME NEW v \in Users, job[v] # Idle, job[v].to = a
      PROVE  a \in clouded'
  <2>1. Moved(v)
    BY <1>3 DEF MemoryInv, MovesOK
  <2>2. a \notin clouded => block[a] = "task" /\ (a \in tracked => a = job[v].from)
    BY <1>3, <2>1 DEF Moved
  <2>3. job[v].from = a => a \in Leaving
    BY <1>3, MovesAreJobs DEF MemoryInv
  <2>4. block[a] \in {"free", "foreign"} \/ a \in tracked
    BY DEF TaskAlloc, ForeignMemory, TaskFree, Free
  <2> QED BY <1>2, <2>2, <2>3, <2>4
<1>4. broken' \subseteq clouded' /\ broken' \subseteq Address
  <2>1. CASE broken' = broken
    BY <1>2, <2>1 DEF MemoryInv, MemoryTypes, TaskMemoryIsOwned
  <2>2. CASE broken' # broken
    <3>1. a \in tracked /\ block[a] # "task" /\ broken' = broken \cup {a}
      BY <2>2 DEF TaskAlloc, ForeignMemory, TaskFree
    <3> QED BY <1>2, <3>1 DEF MemoryInv, MemoryTypes, TaskMemoryIsOwned
  <2> QED BY <2>1, <2>2
<1>5. MemoryTypes'
  BY <1>1, <1>2, <1>4 DEF MemoryInv, MemoryTypes
<1>6. MovesOK'
  <2> SUFFICES ASSUME NEW v \in Users, job[v] # Idle
               PROVE  Moved(v)'
    BY <1>1 DEF MovesOK
  <2>1. Moved(v) /\ job[v].from \in Leaving /\ job[v].from \in Address /\ job[v].to \in Address
    BY MovesAreJobs DEF MemoryInv, MovesOK
  <2> QED BY <1>1, <1>2, <1>3, <2>1 DEF Moved
<1>7. TaskMemoryIsOwned'
  <2>1. Leaving' = Leaving
    BY <1>1 DEF Leaving
  <2>2. a \in tracked' \ clouded' => block'[a] = "task"
    <3>1. CASE a \in tracked /\ block'[a] = block[a]
      BY <1>2, <3>1 DEF MemoryInv, TaskMemoryIsOwned
    <3>2. CASE ForeignMemory(u, a) /\ a \in tracked
      BY <1>2, <3>2 DEF MemoryInv, TaskMemoryIsOwned, ForeignMemory
    <3> QED BY <3>1, <3>2 DEF MemoryInv, MemoryTypes, TaskAlloc, ForeignMemory, TaskFree, Track
  <2>3. block'[a] = "task" => a \in tracked' \cup untold'
    BY DEF MemoryInv, MemoryTypes, TaskAlloc, ForeignMemory, TaskFree, Track, Untold
  <2>4. \A x \in tracked' \ (clouded' \cup Leaving') : block'[x] = "task"
    BY <1>1, <1>2, <2>1, <2>2 DEF MemoryInv, MemoryTypes, TaskMemoryIsOwned
  <2>5. ASSUME NEW x \in Address \ (clouded' \cup untold' \cup tracked'), block'[x] = "task"
        PROVE  \E v \in Users : job'[v].op = "move" /\ job'[v].to = x
    BY <1>1, <1>2, <2>3, <2>5 DEF MemoryInv, TaskMemoryIsOwned
  <2> QED BY <1>4, <2>4, <2>5 DEF TaskMemoryIsOwned
<1> QED BY <1>5, <1>6, <1>7 DEF MemoryInv

(* realloc takes an address that nobody has moved to.                        *)
LEMMA MemoryMoves ==
  ASSUME MemoryInv, NEW u \in Users, NEW a \in Address, NEW b \in Address, TaskRealloc(u, a, b)
  PROVE  MemoryInv'
<1> DEFINE j == [op |-> "move", from |-> a, to |-> b]
<1>1. /\ a \in tracked /\ block[a] = "task" /\ (block[b] = "free" \/ b = a) /\ job[u] = Idle
      /\ block' = [[block EXCEPT ![a] = "free"] EXCEPT ![b] = "task"]
      /\ clouded' = clouded \cup ({a, b} \cap Leaving) /\ job' = [job EXCEPT ![u] = j]
      /\ UNCHANGED <<tracked, untold, broken>>
  BY DEF TaskRealloc, Calls, Goes, Free
<1>2. /\ \A v \in Users : job'[v] = IF v = u THEN j ELSE job[v]
      /\ j # Idle /\ j.op = "move"
  BY <1>1 DEF MemoryInv, MemoryTypes, Idle
<1>3. \A x \in Address : block'[x] = IF x = b THEN "task" ELSE IF x = a THEN "free" ELSE block[x]
  BY <1>1 DEF MemoryInv, MemoryTypes
<1>4. MemoryTypes'
  BY <1>1 DEF MemoryInv, MemoryTypes, Idle
(* Neither address is one another thread has moved to.                       *)
<1>5. ASSUME NEW v \in Users, job[v] # Idle, job[v].to \in {a, b}
      PROVE  job[v].to \in clouded'
  <2>1. Moved(v)
    BY <1>5 DEF MemoryInv, MovesOK
  <2>2. job[v].from = job[v].to => job[v].to \in Leaving
    BY <1>5, MovesAreJobs DEF MemoryInv
  <2> QED BY <1>1, <1>5, <2>1, <2>2 DEF Moved
<1>6. b \in tracked /\ b \notin clouded' => b = a
  BY <1>1 DEF MemoryInv, TaskMemoryIsOwned
<1>7. MovesOK'
  <2> SUFFICES ASSUME NEW v \in Users, job'[v] # Idle
               PROVE  Moved(v)'
    BY DEF MovesOK
  <2>1. CASE v = u
    <3>1. job'[v].to = b /\ job'[v].from = a
      BY <1>2, <2>1
    <3>2. \A w \in Users \ {v} : job'[w] # Idle /\ job'[w].to = b => b \in clouded'
      BY <1>2, <1>5, <2>1
    <3>3. b \notin clouded' => block'[b] = "task" /\ (b \in tracked' => b = a)
      BY <1>1, <1>3, <1>6
    <3>4. a # b => block'[a] = "free"
      BY <1>3
    <3> QED BY <3>1, <3>2, <3>3, <3>4 DEF Moved
  <2>2. CASE v # u
    <3> DEFINE f == job[v].from
               t == job[v].to
    <3>1. Moved(v) /\ f \in Leaving /\ f \in Address /\ t \in Address /\ job'[v] = job[v] /\ job[v] # Idle
      BY <1>2, <2>2, MovesAreJobs DEF MemoryInv, MovesOK
    <3>2. t \notin clouded' => t \notin {a, b} /\ block'[t] = "task" /\ (t \in tracked' => t = f)
      BY <1>1, <1>3, <1>5, <3>1 DEF Moved
    <3>3. f \notin clouded' /\ f # t => block'[f] = "free"
      BY <1>1, <1>3, <3>1 DEF Moved
    <3>4. \A w \in Users \ {v} : job'[w] # Idle /\ job'[w].to = t => t \in clouded'
      BY <1>1, <1>2, <1>5, <3>1, <3>2 DEF Moved
    <3> QED BY <3>1, <3>2, <3>3, <3>4 DEF Moved
  <2> QED BY <2>1, <2>2
<1>8. \A x : x \in Leaving => x \in Leaving'
  BY <1>1, <1>2 DEF Leaving, Idle
<1>9. TaskMemoryIsOwned'
  <2>0. a \in Leaving'
    BY <1>2 DEF Leaving
  <2>1. \A x \in tracked' \ (clouded' \cup Leaving') : block'[x] = "task"
    BY <1>1, <1>3, <1>8, <2>0 DEF MemoryInv, MemoryTypes, TaskMemoryIsOwned
  <2>2. ASSUME NEW x \in Address \ (clouded' \cup untold' \cup tracked'), block'[x] = "task"
        PROVE  \E v \in Users : job'[v].op = "move" /\ job'[v].to = x
    <3>1. CASE x = b
      BY <1>2, <3>1
    <3>2. CASE x # b
      <4>1. PICK v \in Users : job[v].op = "move" /\ job[v].to = x
        BY <1>1, <1>3, <2>2, <3>2 DEF MemoryInv, TaskMemoryIsOwned
      <4> QED BY <1>1, <1>2, <4>1 DEF Idle
    <3> QED BY <3>1, <3>2
  <2>3. broken' \subseteq clouded'
    BY <1>1 DEF MemoryInv, TaskMemoryIsOwned
  <2> QED BY <2>1, <2>2, <2>3 DEF TaskMemoryIsOwned
<1> QED BY <1>4, <1>7, <1>9 DEF MemoryInv

(* Tracking the new address ends what the thread alone knew.                 *)
LEMMA MemoryRetracks ==
  ASSUME MemoryInv, NEW u \in Users, NEW node \in BOOLEAN, TaskRetrack(u, node)
  PROVE  MemoryInv'
<1> DEFINE f == job[u].from
           t == job[u].to
<1>1. /\ job[u] # Idle /\ job' = [job EXCEPT ![u] = Idle] /\ UNCHANGED <<block, broken, clouded>>
      /\ tracked' = IF node THEN (tracked \ {f}) \cup {t} ELSE tracked \ {f}
      /\ untold' = IF node \/ t \in tracked \ {f} THEN untold \ {f, t} ELSE (untold \ {f}) \cup {t}
  BY DEF TaskRetrack, Goes, Track
<1>2. \A v \in Users : job'[v] = IF v = u THEN Idle ELSE job[v]
  BY <1>1 DEF MemoryInv, MemoryTypes
<1>3. Moved(u) /\ f \in Address /\ t \in Address
  BY <1>1, MovesAreJobs DEF MemoryInv, MovesOK
<1>4. MemoryTypes'
  BY <1>1, <1>3 DEF MemoryInv, MemoryTypes
<1>5. MovesOK'
  <2> SUFFICES ASSUME NEW v \in Users \ {u}, job[v] # Idle
               PROVE  Moved(v)'
    BY <1>2 DEF MovesOK
  <2>1. Moved(v)
    BY DEF MemoryInv, MovesOK
  <2>2. job[v].to = t => t \in clouded
    BY <1>3 DEF Moved
  <2> QED BY <1>1, <1>2, <2>1, <2>2 DEF Moved
<1>6. \A x : x \in Leaving /\ x # f => x \in Leaving'
  BY <1>2, <1>4, MovesAreJobs DEF MemoryInv, Leaving
<1>7. TaskMemoryIsOwned'
  <2>1. \A x \in tracked' \ (clouded' \cup Leaving') : block'[x] = "task"
    <3> SUFFICES ASSUME NEW x \in tracked' \ (clouded' \cup Leaving')
                 PROVE  block'[x] = "task"
      OBVIOUS
    <3>1. CASE x = t
      BY <1>1, <1>3, <3>1 DEF Moved
    <3>2. CASE x # t
      BY <1>1, <1>6, <3>2 DEF MemoryInv, TaskMemoryIsOwned
    <3> QED BY <3>1, <3>2
  <2>2. ASSUME NEW x \in Address \ (clouded' \cup untold' \cup tracked'), block'[x] = "task"
        PROVE  \E v \in Users : job'[v].op = "move" /\ job'[v].to = x
    <3>1. x # t
      BY <1>1
    <3>2. x # f
      BY <1>1, <1>3, <2>2, <3>1 DEF Moved
    <3>3. PICK v \in Users : job[v].op = "move" /\ job[v].to = x
      BY <1>1, <2>2, <3>1, <3>2 DEF MemoryInv, TaskMemoryIsOwned
    <3> QED BY <1>2, <3>1, <3>3
  <2> QED BY <1>1, <2>1, <2>2 DEF MemoryInv, TaskMemoryIsOwned
<1> QED BY <1>4, <1>5, <1>7 DEF MemoryInv
-----------------------------------------------------------------------------
(* Exit functions                                                            *)

ExitTypes ==
  /\ exit \in [fns : Seq(Nat), cap : Nat] /\ due \in Seq(Nat) /\ ran \in Seq(Nat) /\ commonCalls \in Nat
  /\ job \in [Users -> {Idle} \cup [op : {"run"}, at : Nat]]

(* One thread at most runs the table, which does not shrink meanwhile; and   *)
(* what it has still to call are the functions there were, unless the table  *)
(* has moved.                                                                *)
Ahead(u) ==
  /\ job[u].at <= Len(exit.fns) /\ \A v \in Users : job[v] # Idle => v = u
  /\ "exits" \notin clouded => /\ job[u].at = Len(due) - Len(ran) /\ Len(due) <= Len(exit.fns)
                               /\ \A k \in 1 .. Len(due) : exit.fns[k] = due[k]
Called == /\ Len(ran) <= Len(due)
          /\ \A k \in 1 .. Len(ran) : ran[k] = due[Len(due) - k + 1]

ExitInv ==
  /\ ExitTypes
  /\ \A u \in Users : job[u] # Idle => Ahead(u)
  /\ "exits" \notin clouded => Called

(* The invariant is stronger than the property.                              *)
LEMMA CalledIsBackwards ==
  ASSUME ExitInv
  PROVE  ExitsRunBackwards
<1> SUFFICES ASSUME "exits" \notin clouded
             PROVE  IsPrefix(ran, Reverse(due))
  BY DEF ExitsRunBackwards
<1> DEFINE rev == [k \in 1 .. Len(due) |-> due[(Len(due) - k) + 1]]
<1>1. Called /\ ran \in Seq(Nat) /\ due \in Seq(Nat)
  BY DEF ExitInv, ExitTypes
<1>2. rev \in Seq(Nat) /\ Len(rev) = Len(due)
  BY <1>1
<1>3. \A k \in 1 .. Len(ran) : ran[k] = rev[k]
  BY <1>1, <1>2 DEF Called
<1>4. SubSeq(ran, 1, Len(ran)) = SubSeq(rev, 1, Len(ran))
  BY <1>1, <1>2, <1>3 DEF Called
<1>5. Reverse(due) = rev
  BY DEF Reverse
<1> HIDE DEF rev
<1> QED BY <1>1, <1>2, <1>4, <1>5 DEF IsPrefix, Called

(* Registering while the table runs adds behind what is still to be called.  *)
LEMMA ExitsKept ==
  ASSUME Limits, ExitInv, NEW u \in Users,
         (\E m \in BOOLEAN : RegisterExit(u, m)) \/ RunExits(u) \/ CallExit(u) \/ ExitsRan(u)
  PROVE  ExitInv'
<1>0. /\ \A v \in Users : job[v] # Idle <=> job[v].op = "run"
      /\ \A v \in Users : job[v] # Idle => job[v].at \in Nat
      /\ Running <=> \E v \in Users : job[v] # Idle
      /\ exit.fns \in Seq(Nat) /\ due \in Seq(Nat) /\ ran \in Seq(Nat)
      /\ Len(exit.fns) \in Nat /\ Len(due) \in Nat /\ Len(ran) \in Nat
  <2>1. \A v \in Users : job[v] # Idle <=> job[v].op = "run"
    BY DEF ExitInv, ExitTypes, Idle
  <2>2. exit.fns \in Seq(Nat) /\ due \in Seq(Nat) /\ ran \in Seq(Nat)
    BY DEF ExitInv, ExitTypes
  <2> QED BY <2>1, <2>2 DEF ExitInv, ExitTypes, Running
<1>1. ASSUME NEW m \in BOOLEAN, RegisterExit(u, m)
      PROVE  ExitInv'
  <2>1. /\ UNCHANGED <<due, ran, job>> /\ exit'.fns = Append(exit.fns, commonCalls') /\ commonCalls' \in Nat
        /\ exit' \in [fns : Seq(Nat), cap : Nat]
        /\ "exits" \notin clouded' => "exits" \notin clouded
    BY <1>0, <1>1 DEF RegisterExit, ExitInv, ExitTypes, Limits
  <2>2. /\ Len(exit'.fns) = Len(exit.fns) + 1
        /\ \A k \in 1 .. Len(exit.fns) : exit'.fns[k] = exit.fns[k]
    BY <1>0, <2>1
  <2>3. ASSUME NEW v \in Users, job[v] # Idle
        PROVE  Ahead(v)'
    <3>1. Ahead(v) /\ job[v].at \in Nat /\ job' = job /\ due' = due /\ ran' = ran
      BY <1>0, <2>1, <2>3 DEF ExitInv
    <3>2. job[v].at <= Len(exit.fns) /\ \A w \in Users : job[w] # Idle => w = v
      BY <3>1 DEF Ahead
    <3>3. job[v].at <= Len(exit'.fns)
      BY <1>0, <2>2, <3>1, <3>2
    <3>4. ASSUME "exits" \notin clouded'
          PROVE  /\ job[v].at = Len(due) - Len(ran) /\ Len(due) <= Len(exit'.fns)
                 /\ \A k \in 1 .. Len(due) : exit'.fns[k] = due[k]
      <4>1. /\ job[v].at = Len(due) - Len(ran) /\ Len(due) <= Len(exit.fns)
            /\ \A k \in 1 .. Len(due) : exit.fns[k] = due[k]
        BY <2>1, <3>1, <3>4 DEF Ahead
      <4>2. \A k \in 1 .. Len(due) : k \in 1 .. Len(exit.fns)
        BY <1>0, <4>1
      <4>3. Len(due) <= Len(exit'.fns)
        BY <1>0, <2>2, <4>1
      <4> QED BY <2>2, <4>1, <4>2, <4>3
    <3> QED BY <3>1, <3>2, <3>3, <3>4 DEF Ahead
  <2> QED BY <2>1, <2>3 DEF ExitInv, ExitTypes, Called
<1>2. CASE RunExits(u)
  <2>1. /\ \A v \in Users : job[v] = Idle
        /\ due' = exit.fns /\ ran' = <<>> /\ UNCHANGED <<exit, clouded>> /\ commonCalls' = commonCalls + 1
        /\ job' = [job EXCEPT ![u] = [op |-> "run", at |-> Len(exit.fns)]]
    BY <1>0, <1>2 DEF RunExits, Calls, Goes
  <2>2. job'[u].at = Len(exit.fns) /\ \A v \in Users : job'[v] # Idle => v = u
    BY <2>1 DEF ExitInv, ExitTypes
  <2>3. ExitTypes'
    BY <1>0, <2>1 DEF ExitInv, ExitTypes
  <2>4. Ahead(u)'
    BY <1>0, <2>1, <2>2 DEF Ahead
  <2>5. Called'
    BY <1>0, <2>1 DEF Called
  <2> QED BY <2>2, <2>3, <2>4, <2>5 DEF ExitInv
<1>3. CASE CallExit(u)
  <2>1. /\ job[u] # Idle /\ job[u].at > 0 /\ ran' = Append(ran, exit.fns[job[u].at])
        /\ job' = [job EXCEPT ![u] = [job[u] EXCEPT !.at = @ - 1]] /\ UNCHANGED <<exit, due, clouded, commonCalls>>
    BY <1>0, <1>3 DEF CallExit, Goes
  <2>2. Ahead(u) /\ job[u].at \in Nat /\ job[u] \in [op : {"run"}, at : Nat]
    BY <1>0, <2>1 DEF ExitInv, ExitTypes
  <2>3. exit.fns[job[u].at] \in Nat
    BY <1>0, <2>1, <2>2 DEF Ahead
  <2>4. job'[u].at = job[u].at - 1 /\ \A v \in Users : job'[v] # Idle => v = u
    BY <2>1, <2>2 DEF ExitInv, ExitTypes, Ahead
  <2>5. Len(ran') = Len(ran) + 1 /\ ran' \in Seq(Nat) /\ ran'[Len(ran) + 1] = exit.fns[job[u].at]
        /\ \A k \in 1 .. Len(ran) : ran'[k] = ran[k]
    BY <1>0, <2>1, <2>3
  <2>6. [job[u] EXCEPT !.at = @ - 1] \in [op : {"run"}, at : Nat]
    BY <2>1, <2>2
  <2>7. ExitTypes'
    BY <2>1, <2>5, <2>6 DEF ExitInv, ExitTypes
  <2>8. Ahead(u)'
    <3>1. job'[u].at <= Len(exit'.fns) /\ exit' = exit /\ due' = due /\ clouded' = clouded
      BY <1>0, <2>1, <2>2, <2>4 DEF Ahead
    <3>2. "exits" \notin clouded => job'[u].at = Len(due) - Len(ran')
      BY <1>0, <2>2, <2>4, <2>5 DEF Ahead
    <3>3. "exits" \notin clouded => /\ Len(due) <= Len(exit.fns)
                                   /\ \A k \in 1 .. Len(due) : exit.fns[k] = due[k]
      BY <2>2 DEF Ahead
    <3> QED BY <2>4, <3>1, <3>2, <3>3 DEF Ahead
  <2>9. ASSUME "exits" \notin clouded
        PROVE  Called'
    <3>1. Called /\ Len(ran) + 1 <= Len(due) /\ job[u].at = Len(due) - (Len(ran) + 1) + 1
      BY <1>0, <2>1, <2>2, <2>9 DEF Ahead, ExitInv
    <3>2. ran'[Len(ran) + 1] = due[Len(due) - (Len(ran) + 1) + 1]
      <4>1. /\ job[u].at = Len(due) - Len(ran)
            /\ \A k \in 1 .. Len(due) : exit.fns[k] = due[k]
        BY <2>2, <2>9 DEF Ahead
      <4>2. job[u].at \in 1 .. Len(due)
        BY <1>0, <2>1, <2>2, <4>1
      <4> QED BY <2>5, <3>1, <4>1, <4>2
    <3>3. \A k \in 1 .. Len(ran) : ran'[k] = due[Len(due) - k + 1]
      BY <2>5, <3>1 DEF Called
    <3>4. \A k \in 1 .. Len(ran') : k \in 1 .. Len(ran) \/ k = Len(ran) + 1
      BY <1>0, <2>5
    <3>5. \A k \in 1 .. Len(ran') : ran'[k] = due[Len(due) - k + 1]
      BY <3>2, <3>3, <3>4
    <3> QED BY <2>1, <2>5, <3>1, <3>5 DEF Called
  <2> QED BY <2>1, <2>4, <2>7, <2>8, <2>9 DEF ExitInv
<1>4. CASE ExitsRan(u)
  <2>1. /\ job[u] # Idle /\ exit' = [exit EXCEPT !.fns = <<>>] /\ job' = [job EXCEPT ![u] = Idle]
        /\ UNCHANGED <<due, ran, clouded, commonCalls>>
    BY <1>0, <1>4 DEF ExitsRan, Goes
  <2>2. \A v \in Users : job'[v] = Idle
    BY <2>1 DEF ExitInv, ExitTypes, Ahead
  <2>3. ExitTypes'
    <3>1. exit \in [fns : Seq(Nat), cap : Nat] /\ <<>> \in Seq(Nat)
      BY DEF ExitInv, ExitTypes
    <3>2. exit' \in [fns : Seq(Nat), cap : Nat]
      BY <2>1, <3>1
    <3> QED BY <2>1, <3>2 DEF ExitInv, ExitTypes
  <2> QED BY <2>1, <2>2, <2>3 DEF ExitInv, Called
<1> QED BY <1>1, <1>2, <1>3, <1>4
-----------------------------------------------------------------------------
(* The clipboard                                                             *)

Content == [seq : Nat, fmt : ClipFormats \cup {0}, data : Nat]
ClipTypes ==
  /\ clip \in [open : BOOLEAN, fmt : ClipFormats \cup {0}, data : Nat, seq : Nat]
  /\ seen \in Seq(Content) /\ commonCalls \in Nat
  /\ job \in [Users -> {Idle} \cup [op : {"set"}, data : Nat, fmt : ClipFormats]]

(* Every reading is of a number there has been, and of the content there is  *)
(* if it is of this number and nobody is setting another.                    *)
SeenOK ==
  /\ \A u, v \in Users : job[u] # Idle /\ job[v] # Idle => u = v
  /\ \A k \in 1 .. Len(seen) :
       /\ seen[k].seq <= clip.seq
       /\ seen[k].seq = clip.seq /\ (\A u \in Users : job[u] = Idle)
            => seen[k] = [seq |-> clip.seq, fmt |-> clip.fmt, data |-> clip.data]
  /\ \A k, l \in 1 .. Len(seen) : seen[k].seq = seen[l].seq => seen[k] = seen[l]

ClipInv == ClipTypes /\ ("clipboard" \notin clouded => SeenOK)

(* The invariant is stronger than the property.                              *)
LEMMA SeenIsNumbered ==
  ASSUME ClipInv
  PROVE  ClipboardIsNumbered
<1>1. \A r \in Range(seen) : \E k \in 1 .. Len(seen) : r = seen[k]
  BY DEF ClipInv, ClipTypes, Range
<1> QED BY <1>1 DEF ClipInv, SeenOK, ClipboardIsNumbered

(* The number moves on with every new content.                               *)
LEMMA ClipboardKept ==
  ASSUME ClipInv, NEW u \in Users,
         \/ \E b \in BOOLEAN : OpenOrCloseClipboard(u, b)
         \/ \E f \in ClipFormats : SetClipboardData(u, f)
         \/ EmptyClipboard(u) \/ StoreClipboardData(u) \/ GetClipboardData(u)
  PROVE  ClipInv'
<1>0. /\ \A v \in Users : job[v] # Idle <=> job[v].op = "set"
      /\ Setting = {} <=> \A v \in Users : job[v] = Idle
      /\ seen \in Seq(Content) /\ Len(seen) \in Nat /\ \A k \in 1 .. Len(seen) : seen[k] \in Content
      /\ clip.seq \in Nat /\ clip.fmt \in ClipFormats \cup {0} /\ clip.data \in Nat /\ commonCalls \in Nat
  <2>1. \A v \in Users : job[v] # Idle <=> job[v].op = "set"
    BY DEF ClipInv, ClipTypes, Idle
  <2>2. seen \in Seq(Content)
    BY DEF ClipInv, ClipTypes
  <2> QED BY <2>1, <2>2 DEF ClipInv, ClipTypes, Setting
<1>1. CASE \E b \in BOOLEAN : OpenOrCloseClipboard(u, b)
  <2>1. PICK b \in BOOLEAN : clip' = [clip EXCEPT !.open = b] /\ UNCHANGED <<seen, job, clouded>> /\ commonCalls' = commonCalls + 1
    BY <1>1 DEF OpenOrCloseClipboard, Calls
  <2>2. clip'.seq = clip.seq /\ clip'.fmt = clip.fmt /\ clip'.data = clip.data
    BY <2>1 DEF ClipInv, ClipTypes
  <2>3. ClipTypes'
    BY <2>1 DEF ClipInv, ClipTypes
  <2> QED BY <2>1, <2>2, <2>3 DEF ClipInv, SeenOK
<1>2. CASE EmptyClipboard(u)
  <2>1. /\ clip' = [clip EXCEPT !.fmt = 0, !.data = 0, !.seq = @ + 1] /\ UNCHANGED <<seen, job>>
        /\ commonCalls' = commonCalls + 1 /\ job[u] = Idle
        /\ clouded' = IF Setting = {} THEN clouded ELSE clouded \cup {"clipboard"}
    BY <1>2 DEF EmptyClipboard, Calls
  <2>2. clip'.seq = clip.seq + 1
    BY <2>1 DEF ClipInv, ClipTypes
  <2>3. ClipTypes'
    <3>1. clip.seq + 1 \in Nat /\ commonCalls' \in Nat
      BY <1>0, <2>1
    <3>2. clip' \in [open : BOOLEAN, fmt : ClipFormats \cup {0}, data : Nat, seq : Nat]
      BY <2>1, <3>1 DEF ClipInv, ClipTypes
    <3> QED BY <2>1, <3>1, <3>2 DEF ClipInv, ClipTypes
  <2>4. "clipboard" \notin clouded' => SeenOK'
    BY <1>0, <2>1, <2>2 DEF ClipInv, SeenOK, Content
  <2> QED BY <2>3, <2>4 DEF ClipInv
<1>3. CASE \E f \in ClipFormats : SetClipboardData(u, f)
  <2>1. PICK f \in ClipFormats :
          /\ clip' = [clip EXCEPT !.fmt = f] /\ UNCHANGED seen /\ job[u] = Idle
          /\ job' = [job EXCEPT ![u] = [op |-> "set", data |-> commonCalls', fmt |-> f]] /\ commonCalls' = commonCalls + 1
          /\ clouded' = IF Setting = {} THEN clouded ELSE clouded \cup {"clipboard"}
    BY <1>3 DEF SetClipboardData, Calls, Goes
  <2>2. clip'.seq = clip.seq /\ job'[u] # Idle /\ \A v \in Users \ {u} : job'[v] = job[v]
    BY <2>1 DEF ClipInv, ClipTypes, Idle
  <2>3. ClipTypes'
    <3>1. job' \in [Users -> {Idle} \cup [op : {"set"}, data : Nat, fmt : ClipFormats]]
      BY <1>0, <2>1 DEF ClipInv, ClipTypes
    <3>2. clip' \in [open : BOOLEAN, fmt : ClipFormats \cup {0}, data : Nat, seq : Nat]
      BY <2>1 DEF ClipInv, ClipTypes
    <3> QED BY <1>0, <2>1, <3>1, <3>2 DEF ClipTypes
  <2>4. "clipboard" \notin clouded' => SeenOK'
    BY <1>0, <2>1, <2>2 DEF ClipInv, SeenOK
  <2> QED BY <2>3, <2>4 DEF ClipInv
<1>4. CASE StoreClipboardData(u)
  <2>1. /\ clip' = [clip EXCEPT !.data = job[u].data, !.seq = @ + 1] /\ UNCHANGED <<seen, clouded, commonCalls>>
        /\ job[u] # Idle /\ job' = [job EXCEPT ![u] = Idle]
    BY <1>0, <1>4 DEF StoreClipboardData, Goes
  <2>2. clip'.seq = clip.seq + 1 /\ job'[u] = Idle /\ \A v \in Users \ {u} : job'[v] = job[v]
    BY <2>1 DEF ClipInv, ClipTypes
  <2>3. ClipTypes'
    <3>1. job[u].data \in Nat /\ clip.seq + 1 \in Nat
      BY <1>0, <2>1 DEF ClipInv, ClipTypes
    <3>2. clip' \in [open : BOOLEAN, fmt : ClipFormats \cup {0}, data : Nat, seq : Nat]
      BY <2>1, <3>1 DEF ClipInv, ClipTypes
    <3> QED BY <2>1, <3>2 DEF ClipInv, ClipTypes
  <2>4. "clipboard" \notin clouded' => SeenOK'
    <3>1. \A v \in Users : "clipboard" \notin clouded => job'[v] = Idle
      BY <2>1, <2>2 DEF ClipInv, SeenOK
    <3>2. "clipboard" \notin clouded => \A k \in 1 .. Len(seen) : seen[k].seq <= clip.seq /\ seen[k].seq \in Nat
      BY <1>0 DEF ClipInv, SeenOK, Content
    <3>3. \A k \in 1 .. Len(seen) : "clipboard" \notin clouded => seen[k].seq <= clip'.seq /\ seen[k].seq # clip'.seq
      BY <1>0, <2>2, <3>2
    <3> QED BY <2>1, <3>1, <3>3 DEF ClipInv, SeenOK
  <2> QED BY <2>3, <2>4 DEF ClipInv
<1>5. CASE GetClipboardData(u)
  <2> DEFINE r == [seq |-> clip.seq, fmt |-> clip.fmt, data |-> clip.data]
  <2>1. /\ seen' = Append(seen, r) /\ UNCHANGED <<clip, job>> /\ commonCalls' = commonCalls + 1
        /\ clouded' = IF Setting = {} THEN clouded ELSE clouded \cup {"clipboard"}
    BY <1>5 DEF GetClipboardData, Calls
  <2>2. r \in Content
    BY <1>0 DEF Content
  <2>3. /\ seen' \in Seq(Content) /\ Len(seen') = Len(seen) + 1 /\ seen'[Len(seen) + 1] = r
        /\ \A k \in 1 .. Len(seen) : seen'[k] = seen[k]
    BY <1>0, <2>1, <2>2
  <2>4. \A k \in 1 .. Len(seen') : k \in 1 .. Len(seen) \/ k = Len(seen) + 1
    BY <1>0, <2>3
  <2>5. ClipTypes'
    BY <2>1, <2>3 DEF ClipInv, ClipTypes
  <2>6. ASSUME "clipboard" \notin clouded'
        PROVE  SeenOK'
    <3>1. SeenOK /\ \A v \in Users : job[v] = Idle
      BY <1>0, <2>1, <2>6 DEF ClipInv
    <3>2. \A k \in 1 .. Len(seen') : seen'[k].seq <= clip.seq /\ (seen'[k].seq = clip.seq => seen'[k] = r)
      BY <1>0, <2>3, <2>4, <3>1 DEF SeenOK
    <3>3. \A k, l \in 1 .. Len(seen') : seen'[k].seq = seen'[l].seq => seen'[k] = seen'[l]
      BY <1>0, <2>3, <2>4, <3>1, <3>2 DEF SeenOK
    <3> QED BY <2>1, <3>1, <3>2, <3>3 DEF SeenOK
  <2> QED BY <2>5, <2>6 DEF ClipInv
<1> QED BY <1>1, <1>2, <1>3, <1>4, <1>5
-----------------------------------------------------------------------------
(* Named pipes                                                               *)

Instances == [name : PipeNames, state : {"listening", "connected", "disconnected"}, clients : Nat, shut : BOOLEAN]
PipeTypes ==
  /\ pipe \in Seq(Instances)
  /\ job \in [Users -> {Idle} \cup [op : {"attach", "park"}, to : Nat]]
  /\ \A u \in Users : job[u] # Idle => job[u].to \in 1 .. Len(pipe)

(* An instance that a thread has found listening has no client yet.          *)
AttachOK ==
  \A u \in Users : job[u].op = "attach" /\ job[u].to \notin clouded => pipe[job[u].to].shut \/ pipe[job[u].to].clients = 0

PipeInv == PipeTypes /\ AttachOK /\ PipesHaveOneClient

(* An instance is attached to only if it has no client, or if it is shut.    *)
LEMMA PipesKept ==
  ASSUME PipeInv, NEW u \in Users,
         \/ \E n \in PipeNames : CreateNamedPipe(u, n) \/ OpenPipe(u, n)
         \/ AttachPipe(u) \/ PipeConnects(u) \/ PostQuit(u)
         \/ \E i \in 1 .. NPipes : ConnectNamedPipe(u, i) \/ DisconnectNamedPipe(u, i)
  PROVE  PipeInv'
<1>0. /\ pipe \in Seq(Instances) /\ Len(pipe) \in Nat /\ DOMAIN pipe = 1 .. Len(pipe)
      /\ \A i \in 1 .. Len(pipe) : pipe[i] \in Instances
      /\ Idle.op # "attach" /\ Idle.op # "park"
  BY DEF PipeInv, PipeTypes, Idle
<1>1. CASE \E n \in PipeNames : CreateNamedPipe(u, n)
  <2>1. PICK n \in PipeNames : pipe' = Append(pipe, [name |-> n, state |-> "listening", clients |-> 0, shut |-> FALSE]) /\ UNCHANGED <<job, clouded>>
    BY <1>1 DEF CreateNamedPipe
  <2> DEFINE p == [name |-> n, state |-> "listening", clients |-> 0, shut |-> FALSE]
  <2>2. p \in Instances
    BY DEF Instances
  <2>3. /\ pipe' \in Seq(Instances) /\ Len(pipe') = Len(pipe) + 1 /\ pipe'[Len(pipe) + 1] = p
        /\ \A i \in 1 .. Len(pipe) : pipe'[i] = pipe[i]
    BY <1>0, <2>1, <2>2
  <2>4. \A i \in DOMAIN pipe' : i \in 1 .. Len(pipe) \/ pipe'[i] = p
    BY <1>0, <2>3
  <2>5. PipeTypes'
    BY <1>0, <2>1, <2>3 DEF PipeInv, PipeTypes
  <2>6. AttachOK'
    BY <1>0, <2>1, <2>3 DEF PipeInv, PipeTypes, AttachOK
  <2>7. PipesHaveOneClient'
    BY <1>0, <2>1, <2>3, <2>4 DEF PipeInv, PipesHaveOneClient
  <2> QED BY <2>5, <2>6, <2>7 DEF PipeInv
<1>2. CASE job' = job /\ pipe' = pipe /\ clouded' = clouded
  BY <1>2 DEF PipeInv, PipeTypes, AttachOK, PipesHaveOneClient
<1>3. CASE /\ UNCHANGED <<pipe, clouded>>
           /\ \/ job' = [job EXCEPT ![u] = Idle]
              \/ \E i \in 1 .. Len(pipe) : job' = [job EXCEPT ![u] = [op |-> "park", to |-> i]]
  <2>1. /\ \A v \in Users \ {u} : job'[v] = job[v]
        /\ job'[u].op # "attach"
    BY <1>0, <1>3 DEF PipeInv, PipeTypes
  <2>2. PipeTypes'
    BY <1>0, <1>3, <2>1 DEF PipeInv, PipeTypes
  <2> QED BY <1>3, <2>1, <2>2 DEF PipeInv, AttachOK, PipesHaveOneClient
<1>4. CASE \E n \in PipeNames : OpenPipe(u, n) /\ Listening(n) # {}
  <2>1. PICK i : i \in 1 .. Len(pipe) /\ pipe[i].state = "listening" /\ job' = [job EXCEPT ![u] = [op |-> "attach", to |-> i]] /\ UNCHANGED <<pipe, clouded>>
    <3>1. PICK n \in PipeNames : OpenPipe(u, n) /\ Listening(n) # {}
      BY <1>4
    <3> DEFINE T == Listening(n)
    <3>0. T \in SUBSET Nat
      BY <1>0 DEF Listening
    <3> HIDE DEF T
    <3>2. Min(T) \in T
      BY <3>0, <3>1, MinIsIn DEF T
    <3> USE DEF T
    <3> QED BY <1>0, <3>1, <3>2 DEF OpenPipe, Goes, pipeVars, Listening
  <2>2. i \notin clouded => pipe[i].shut \/ pipe[i].clients = 0
    BY <1>0, <2>1 DEF PipeInv, PipesHaveOneClient, Instances
  <2>3. job'[u] = [op |-> "attach", to |-> i] /\ \A v \in Users \ {u} : job'[v] = job[v]
    BY <2>1 DEF PipeInv, PipeTypes
  <2>4. PipeTypes'
    BY <1>0, <2>1, <2>3 DEF PipeInv, PipeTypes
  <2> QED BY <2>1, <2>2, <2>3, <2>4 DEF PipeInv, AttachOK, PipesHaveOneClient
<1>5. CASE AttachPipe(u)
  <2> DEFINE i == job[u].to
  <2>1. /\ pipe' = [pipe EXCEPT ![i].state = "connected", ![i].clients = @ + 1] /\ job' = [job EXCEPT ![u] = Idle]
        /\ clouded' = IF pipe[i].shut \/ \E v \in Others(u) : job[v].op = "attach" /\ job[v].to = i THEN clouded \cup {i} ELSE clouded
        /\ job[u].op = "attach" /\ job[u] # Idle
    BY <1>0, <1>5 DEF AttachPipe, Goes
  <2>2. i \in 1 .. Len(pipe) /\ pipe[i] \in Instances
    BY <1>0, <2>1 DEF PipeInv, PipeTypes
  <2>3. /\ pipe' \in Seq(Instances) /\ Len(pipe') = Len(pipe) /\ DOMAIN pipe' = DOMAIN pipe
        /\ \A k \in 1 .. Len(pipe) : k # i => pipe'[k] = pipe[k]
        /\ pipe'[i].state = "connected" /\ pipe'[i].clients = pipe[i].clients + 1 /\ pipe'[i].shut = pipe[i].shut
    <3> DEFINE p == [pipe[i] EXCEPT !.state = "connected", !.clients = @ + 1]
    <3>1. pipe' = [pipe EXCEPT ![i] = p]
      BY <1>0, <2>1, <2>2 DEF Instances
    <3>2. pipe[i].clients + 1 \in Nat
      BY <2>2 DEF Instances
    <3>3. p \in Instances /\ p.state = "connected" /\ p.clients = pipe[i].clients + 1 /\ p.shut = pipe[i].shut
      BY <2>2, <3>2 DEF Instances
    <3> HIDE DEF p
    <3> QED BY <1>0, <2>2, <3>1, <3>3
  <2>4. job'[u] = Idle /\ \A v \in Users \ {u} : job'[v] = job[v]
    BY <2>1 DEF PipeInv, PipeTypes
  <2>5. PipeTypes'
    BY <2>1, <2>3, <2>4 DEF PipeInv, PipeTypes
  <2>6. AttachOK'
    <3> SUFFICES ASSUME NEW v \in Users, job'[v].op = "attach", job'[v].to \notin clouded'
                 PROVE  pipe'[job'[v].to].shut \/ pipe'[job'[v].to].clients = 0
      BY DEF AttachOK
    <3>1. v # u /\ job'[v] = job[v] /\ job[v] # Idle
      BY <1>0, <2>4
    <3>2. job[v].to # i /\ job[v].to \in 1 .. Len(pipe) /\ job[v].to \notin clouded
      BY <2>1, <3>1 DEF Others, PipeInv, PipeTypes
    <3> QED BY <2>3, <3>1, <3>2 DEF PipeInv, AttachOK
  <2>7. PipesHaveOneClient'
    <3>1. i \notin clouded' => ~ pipe[i].shut /\ pipe[i].clients = 0
      BY <2>1 DEF PipeInv, AttachOK
    <3> SUFFICES ASSUME NEW k \in 1 .. Len(pipe), k \notin clouded'
                 PROVE  /\ pipe'[k].clients <= 1
                        /\ pipe'[k].state = (IF pipe'[k].shut THEN "disconnected" ELSE IF pipe'[k].clients = 1 THEN "connected" ELSE "listening")
      BY <1>0, <2>3 DEF PipesHaveOneClient
    <3>2. CASE k = i
      BY <2>3, <3>1, <3>2
    <3>3. CASE k # i
      <4>1. k \in DOMAIN pipe \ clouded
        BY <1>0, <2>1
      <4> QED BY <2>3, <3>3, <4>1 DEF PipeInv, PipesHaveOneClient
    <3> QED BY <3>2, <3>3
  <2> QED BY <2>5, <2>6, <2>7 DEF PipeInv
<1>6. CASE \E i \in 1 .. NPipes : DisconnectNamedPipe(u, i)
  <2>1. PICK i \in 1 .. Len(pipe) : pipe' = [pipe EXCEPT ![i].state = "disconnected", ![i].shut = TRUE] /\ UNCHANGED <<job, clouded>>
    BY <1>0, <1>6 DEF DisconnectNamedPipe
  <2>2. /\ pipe' \in Seq(Instances) /\ Len(pipe') = Len(pipe) /\ DOMAIN pipe' = DOMAIN pipe
        /\ \A k \in 1 .. Len(pipe) : k # i => pipe'[k] = pipe[k]
        /\ pipe'[i].state = "disconnected" /\ pipe'[i].shut /\ pipe'[i].clients = pipe[i].clients
    <3> DEFINE p == [pipe[i] EXCEPT !.state = "disconnected", !.shut = TRUE]
    <3>1. pipe' = [pipe EXCEPT ![i] = p] /\ pipe[i] \in Instances
      BY <1>0, <2>1 DEF Instances
    <3>2. p \in Instances /\ p.state = "disconnected" /\ p.shut /\ p.clients = pipe[i].clients
      BY <3>1 DEF Instances
    <3> HIDE DEF p
    <3> QED BY <1>0, <3>1, <3>2
  <2>3. PipeTypes'
    BY <2>1, <2>2 DEF PipeInv, PipeTypes
  <2>4. AttachOK'
    BY <1>0, <2>1, <2>2 DEF PipeInv, PipeTypes, AttachOK
  <2>5. PipesHaveOneClient'
    BY <1>0, <2>1, <2>2 DEF PipeInv, PipesHaveOneClient
  <2> QED BY <2>3, <2>4, <2>5 DEF PipeInv
<1>7. PostQuit(u) => job' = job /\ pipe' = pipe /\ clouded' = clouded
  BY DEF PostQuit
<1>8. PipeConnects(u) => job' = [job EXCEPT ![u] = Idle] /\ pipe' = pipe /\ clouded' = clouded
  BY DEF PipeConnects, pipeVars, Goes
<1>9. ASSUME NEW n \in PipeNames, OpenPipe(u, n)
      PROVE  Listening(n) # {} \/ (job' = job /\ pipe' = pipe /\ clouded' = clouded)
  BY <1>9 DEF OpenPipe, pipeVars
<1>10. ASSUME NEW i \in 1 .. NPipes, ConnectNamedPipe(u, i)
       PROVE  /\ pipe' = pipe /\ clouded' = clouded
              /\ job' = job \/ (i \in 1 .. Len(pipe) /\ job' = [job EXCEPT ![u] = [op |-> "park", to |-> i]])
  BY <1>0, <1>10 DEF ConnectNamedPipe, pipeVars, Goes
<1> QED BY <1>1, <1>2, <1>3, <1>4, <1>5, <1>6, <1>7, <1>8, <1>9, <1>10
-----------------------------------------------------------------------------
(* The theorem                                                               *)

IInv ==
  /\ common \in Commons
  /\ common = "atoms" => AtomInv
  /\ common = "memory" => MemoryInv
  /\ common = "exits" => ExitInv
  /\ common = "clipboard" => ClipInv
  /\ common = "pipes" => PipeInv

(* Everything starts empty.                                                  *)
LEMMA CommonsStart ==
  ASSUME Limits, Init
  PROVE  IInv
<1>1. AtomInv
  BY DEF Init, Limits, AtomInv, AtomTypes, Past, Apart, ReadOK, AtomsAreHeld, Named, Hole, Shut
<1>2. MemoryInv
  BY DEF Init, MemoryInv, MemoryTypes, MovesOK, TaskMemoryIsOwned
<1>3. ExitInv
  BY DEF Init, ExitInv, ExitTypes, Called
<1>4. ClipInv
  BY DEF Init, ClipInv, ClipTypes, SeenOK
<1>5. PipeInv
  BY DEF Init, PipeInv, PipeTypes, AttachOK, PipesHaveOneClient, Idle
<1> QED BY <1>1, <1>2, <1>3, <1>4, <1>5 DEF Init, IInv

AtomStep(u) == (\E w \in AtomNames : AddAtom(u, w)) \/ (\E i \in 1 .. NAtoms : DeleteAtom(u, i)) \/ StoreAtom(u)
MemoryStep(u) ==
  \/ \E a \in Address : ForeignMemory(u, a) \/ TaskFree(u, a) \/ (\E n \in BOOLEAN : TaskAlloc(u, a, n)) \/ (\E b \in Address : TaskRealloc(u, a, b))
  \/ \E b \in BOOLEAN : TaskRetrack(u, b)
ExitStep(u) == (\E m \in BOOLEAN : RegisterExit(u, m)) \/ RunExits(u) \/ CallExit(u) \/ ExitsRan(u)
ClipStep(u) ==
  \/ \E b \in BOOLEAN : OpenOrCloseClipboard(u, b)
  \/ \E f \in ClipFormats : SetClipboardData(u, f)
  \/ EmptyClipboard(u) \/ StoreClipboardData(u) \/ GetClipboardData(u)
PipeStep(u) ==
  \/ \E n \in PipeNames : CreateNamedPipe(u, n) \/ OpenPipe(u, n)
  \/ AttachPipe(u) \/ PipeConnects(u) \/ PostQuit(u)
  \/ \E i \in 1 .. NPipes : ConnectNamedPipe(u, i) \/ DisconnectNamedPipe(u, i)

(* A step is about one of the things, which common or the thread's job says. *)
LEMMA StepsHaveKinds ==
  ASSUME NEW u \in Users
  PROVE  /\ AtomStep(u) => common = "atoms" /\ common' = common
         /\ MemoryStep(u) => common = "memory" /\ common' = common
         /\ ExitStep(u) => (common = "exits" \/ job[u].op = "run") /\ common' = common
         /\ ClipStep(u) => (common = "clipboard" \/ job[u].op = "set") /\ common' = common
         /\ PipeStep(u) => (common = "pipes" \/ job[u].op \in {"attach", "park"}) /\ common' = common
<1>1. AtomStep(u) => common = "atoms" /\ common' = common
  BY DEF AtomStep, AddAtom, DeleteAtom, StoreAtom, Calls
<1>2. MemoryStep(u) => common = "memory" /\ common' = common
  BY DEF MemoryStep, ForeignMemory, TaskFree, TaskAlloc, TaskRealloc, TaskRetrack, Calls
<1>3. ExitStep(u) => (common = "exits" \/ job[u].op = "run") /\ common' = common
  BY DEF ExitStep, RegisterExit, RunExits, CallExit, ExitsRan, Calls
<1>4. ClipStep(u) => (common = "clipboard" \/ job[u].op = "set") /\ common' = common
  BY DEF ClipStep, OpenOrCloseClipboard, SetClipboardData, EmptyClipboard, StoreClipboardData, GetClipboardData, Calls
<1>5. PipeStep(u) => (common = "pipes" \/ job[u].op \in {"attach", "park"}) /\ common' = common
  BY DEF PipeStep, CreateNamedPipe, OpenPipe, AttachPipe, PipeConnects, PostQuit, ConnectNamedPipe, DisconnectNamedPipe, Calls
<1> QED BY <1>1, <1>2, <1>3, <1>4, <1>5

(* A behaviour stays with what it is about, whose invariant it keeps.        *)
LEMMA CommonsStep ==
  ASSUME Limits, IInv, [Next]_vars
  PROVE  IInv'
<1>1. CASE UNCHANGED vars
  <2>1. AtomInv => AtomInv'
    BY <1>1 DEF vars, AtomInv, AtomTypes, Past, Apart, ReadOK, Read, Named, AtomsAreHeld
  <2>2. MemoryInv => MemoryInv'
    BY <1>1 DEF vars, MemoryInv, MemoryTypes, MovesOK, Moved, TaskMemoryIsOwned, Leaving
  <2>3. ExitInv => ExitInv'
    BY <1>1 DEF vars, ExitInv, ExitTypes, Ahead, Called
  <2>4. ClipInv => ClipInv'
    BY <1>1 DEF vars, ClipInv, ClipTypes, SeenOK
  <2>5. PipeInv => PipeInv'
    BY <1>1 DEF vars, PipeInv, PipeTypes, AttachOK, PipesHaveOneClient
  <2>6. common' = common
    BY <1>1 DEF vars
  <2> QED BY <2>1, <2>2, <2>3, <2>4, <2>5, <2>6 DEF IInv
<1>2. CASE Next
  <2>1. PICK u \in Users : AtomStep(u) \/ MemoryStep(u) \/ ExitStep(u) \/ ClipStep(u) \/ PipeStep(u)
    BY <1>2 DEF Next, AtomStep, MemoryStep, ExitStep, ClipStep, PipeStep
  <2>2. common' = common
    BY <2>1, StepsHaveKinds
  <2>3. CASE common = "atoms"
    <3>1. AtomInv /\ job[u].op \notin {"run", "set", "attach", "park"}
      <4>1. AtomInv
        BY <2>3 DEF IInv
      <4> QED BY <4>1 DEF AtomInv, AtomTypes, AtomJobs, Idle
    <3>2. AtomStep(u)
      BY <2>1, <2>3, <3>1, StepsHaveKinds
    <3>3. AtomInv'
      BY <3>1, <3>2, AtomAdds, AtomDeletes, AtomStores DEF AtomStep
    <3> QED BY <2>2, <2>3, <3>3 DEF IInv
  <2>4. CASE common = "memory"
    <3>1. MemoryInv /\ job[u].op \notin {"run", "set", "attach", "park"}
      <4>1. MemoryInv
        BY <2>4 DEF IInv
      <4> QED BY <4>1 DEF MemoryInv, MemoryTypes, Idle
    <3>2. MemoryStep(u)
      BY <2>1, <2>4, <3>1, StepsHaveKinds
    <3>3. MemoryInv'
      <4>1. ASSUME NEW a \in Address, ForeignMemory(u, a) \/ TaskFree(u, a) \/ (\E n \in BOOLEAN : TaskAlloc(u, a, n))
            PROVE  MemoryInv'
        BY <3>1, <4>1, MemoryChanges
      <4>2. ASSUME NEW a \in Address, NEW b \in Address, TaskRealloc(u, a, b)
            PROVE  MemoryInv'
        BY <3>1, <4>2, MemoryMoves
      <4>3. ASSUME NEW b \in BOOLEAN, TaskRetrack(u, b)
            PROVE  MemoryInv'
        BY <3>1, <4>3, MemoryRetracks
      <4> QED BY <3>2, <4>1, <4>2, <4>3 DEF MemoryStep
    <3> QED BY <2>2, <2>4, <3>3 DEF IInv
  <2>5. CASE common = "exits"
    <3>1. ExitInv /\ job[u].op \notin {"set", "attach", "park"}
      <4>1. ExitInv
        BY <2>5 DEF IInv
      <4>2. job[u] \in {Idle} \cup [op : {"run"}, at : Nat]
        BY <4>1 DEF ExitInv, ExitTypes
      <4>3. job[u].op \in {"idle", "run"}
        BY <4>2 DEF Idle
      <4> QED BY <4>1, <4>3
    <3>2. ExitStep(u)
      BY <2>1, <2>5, <3>1, StepsHaveKinds
    <3>3. ExitInv'
      BY <3>1, <3>2, ExitsKept DEF ExitStep
    <3> QED BY <2>2, <2>5, <3>3 DEF IInv
  <2>6. CASE common = "clipboard"
    <3>1. ClipInv /\ job[u].op \notin {"run", "attach", "park"}
      <4>1. ClipInv
        BY <2>6 DEF IInv
      <4> QED BY <4>1 DEF ClipInv, ClipTypes, Idle
    <3>2. ClipStep(u)
      BY <2>1, <2>6, <3>1, StepsHaveKinds
    <3>3. ClipInv'
      BY <3>1, <3>2, ClipboardKept DEF ClipStep
    <3> QED BY <2>2, <2>6, <3>3 DEF IInv
  <2>7. CASE common = "pipes"
    <3>1. PipeInv /\ job[u].op \notin {"run", "set"}
      <4>1. PipeInv
        BY <2>7 DEF IInv
      <4> QED BY <4>1 DEF PipeInv, PipeTypes, Idle
    <3>2. PipeStep(u)
      BY <2>1, <2>7, <3>1, StepsHaveKinds
    <3>3. PipeInv'
      BY <3>1, <3>2, PipesKept DEF PipeStep
    <3> QED BY <2>2, <2>7, <3>3 DEF IInv
  <2> QED BY <2>3, <2>4, <2>5, <2>6, <2>7 DEF IInv, Commons
<1> QED BY <1>1, <1>2

(* Whatever the threads do, in whatever order their steps come, what they    *)
(* have in common is kept.                                                   *)
THEOREM WhatIsSharedIsKept ==
  ASSUME Limits
  PROVE  Spec => []CommonsAreKept
<1>1. Init => IInv
  BY CommonsStart
<1>2. IInv /\ [Next]_vars => IInv'
  BY CommonsStep
<1>3. IInv => CommonsAreKept
  BY CalledIsBackwards, SeenIsNumbered DEF IInv, CommonsAreKept, AtomInv, MemoryInv, PipeInv
<1> QED BY <1>1, <1>2, <1>3, PTL DEF Spec
=============================================================================
