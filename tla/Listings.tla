------------------------------- MODULE Listings -------------------------------
(***************************************************************************)
(* What a guest goes through one by one (loader.c): files that match a     *)
(* pattern (11917-12086, 16999-17011), the records of a volume's index     *)
(* (14937-15035), the variables of the environment (9044-9268) and the     *)
(* entries of an access control list (5597-5686, 31580-31667,              *)
(* 33922-34049).  listing is the one a behaviour is about.                 *)
(***************************************************************************)
EXTENDS Integers, Sequences, FiniteSets, SequencesExt, FiniteSetsExt

CONSTANTS
  Users,           \* threads
  Folder,          \* names in the order readdir has them
  Patterns,        \* [wild, names]: the names it matches, or one name
  NFinds,          \* g_finds, 64
  Index,           \* g_usn_fix: records [frn, size] by frn
  IndexRooms,      \* sizes of buffers
  Variables,       \* names of variables <<name, spelling>>
  BaseVariables,   \* the ones of g_win_base_env
  OwnVariables,    \* NUMBER_OF_PROCESSORS and the like, as they are spelled
  Masks,           \* sets of rights a guest asks for
  AceEntries,      \* [deny, sid, mask]
  AclRooms,        \* sizes for InitializeAcl
  MaxListingCalls  \* bounds the calls

VARIABLES
  listing,     \* "finds", "index", "environment" or "acls"
  find,        \* g_finds: [open, pattern, at, first]
  findCount,   \* g_find_count
  finding,     \* FindFirst under way: thread -> slot, 0
  listed,      \* history: handle -> [names, over, pattern]
  crossing,    \* history: handles got while another thread was getting one
  cursor,      \* what FSCTL_ENUM_USN_DATA has put first
  records,     \* history: the records a guest has got
  scant,       \* history: a buffer had no room for the next record
  environ,     \* the host's environment: [name, value]
  wished,      \* history: name as spelled -> what it was set to last, None
  acl,         \* [room, size, count, aces]; ACEs are [at, size, deny, sid, mask]
  order,       \* history: the ACEs as they were asked for
  reserved,    \* history: the list is from SetEntriesInAcl
  dacl,        \* g_mw_sd_dacl is the list
  listingCalls

vars == <<listing, find, findCount, finding, listed, crossing, cursor, records, scant, environ, wished, acl, order, reserved, dacl, listingCalls>>
findVars == <<find, findCount, finding, listed, crossing>>
indexVars == <<cursor, records, scant>>
environVars == <<environ, wished>>
aclVars == <<acl, order, reserved, dacl>>

None == "none"
Done == 4096   \* USN_NEXT_MAX
Unused == [open |-> FALSE, pattern |-> [wild |-> TRUE, names |-> {}], at |-> 0]
Blank == [room |-> 0, size |-> 0, count |-> 0, aces |-> {}]

Init ==
  /\ listing \in {"finds", "index", "environment", "acls"}
  /\ find = [s \in 1 .. NFinds |-> Unused] /\ findCount = 0 /\ finding = [u \in Users |-> 0]
  /\ listed = <<>> /\ crossing = {}
  /\ cursor = 0 /\ records = <<>> /\ scant = FALSE
  /\ environ = <<>> /\ wished = [n \in Variables |-> None]
  /\ acl = Blank /\ order = <<>> /\ reserved = FALSE /\ dacl = FALSE
  /\ listingCalls = 0

Calls(kind) == listing = kind /\ listingCalls < MaxListingCalls /\ listingCalls' = listingCalls + 1 /\ UNCHANGED listing
-----------------------------------------------------------------------------
(* Files that match a pattern                                                *)

(* find_next_match: the next entry of the directory that matches, or the end *)
(* of it.                                                                    *)
NextMatch(f) ==
  LET later == {i \in DOMAIN Folder : i > f.at /\ Folder[i] \in f.pattern.names} IN
  IF later = {} THEN Len(Folder) + 1 ELSE Min(later)

(* FindFirstFile, _findfirst: the slot after those in use is filled; a name  *)
(* without wildcards is looked up and takes a slot only if it is there.      *)
FindFirst(u, p) ==
  /\ Calls("finds") /\ finding[u] = 0 /\ findCount < NFinds
  /\ p.wild \/ p.names \subseteq Range(Folder)
  /\ find' = [find EXCEPT ![findCount + 1] = [open |-> TRUE, pattern |-> p, at |-> 0]]
  /\ finding' = [finding EXCEPT ![u] = findCount + 1]
  /\ UNCHANGED <<findCount, listed, crossing, indexVars, environVars, aclVars>>

(* The handle is the count as it is by now.  The first match of a pattern is *)
(* read from the directory, and where there is none the slot is closed but   *)
(* stays counted; the one of a name is the file looked up.  A handle past    *)
(* the slots, which two threads can get at the last one, is not followed.    *)
FindFirstGets(u) ==
  LET s == finding[u]
      f == find[s]
      i == NextMatch(f)
      hit == ~ f.pattern.wild \/ i <= Len(Folder)
      name == IF f.pattern.wild THEN Folder[i] ELSE CHOOSE n \in f.pattern.names : TRUE
  IN
  /\ s # 0
  /\ findCount' = findCount + 1 /\ finding' = [finding EXCEPT ![u] = 0]
  /\ find' = [find EXCEPT ![s] = IF f.pattern.wild THEN [f EXCEPT !.at = i, !.open = hit] ELSE f]
  /\ listed' = Append(listed, [pattern |-> f.pattern, names |-> IF hit THEN <<name>> ELSE <<>>, over |-> ~ hit])
  /\ crossing' = IF s # findCount' \/ \E v \in Users \ {u} : finding[v] # 0 THEN crossing \cup {s, findCount'} ELSE crossing
  /\ UNCHANGED <<listing, indexVars, environVars, aclVars, listingCalls>>

(* FindNextFile of a handle that is open: the next match, or no more files.  *)
FindNext(h) ==
  LET i == NextMatch(find[h]) IN
  /\ Calls("finds") /\ h <= findCount /\ find[h].open
  /\ find' = [find EXCEPT ![h].at = i]
  /\ listed' = [listed EXCEPT ![h] = IF i <= Len(Folder) THEN [@ EXCEPT !.names = Append(@, Folder[i])] ELSE [@ EXCEPT !.over = TRUE]]
  /\ UNCHANGED <<findCount, finding, crossing, indexVars, environVars, aclVars>>

(* FindClose: the slot is not used again.                                    *)
FindClose(h) ==
  /\ Calls("finds") /\ h <= findCount /\ find[h].open
  /\ find' = [find EXCEPT ![h].open = FALSE]
  /\ UNCHANGED <<findCount, finding, listed, crossing, indexVars, environVars, aclVars>>
-----------------------------------------------------------------------------
(* The index of a volume                                                     *)

(* usn_pack_record, FSCTL_ENUM_USN_DATA: after 8 bytes for the cursor, as    *)
(* many records from the cursor on as there is room for.                     *)
Ahead == SelectSeq(Index, LAMBDA r : r.frn >= cursor)
Bytes(rs) == FoldSeq(LAMBDA r, n : r.size + n, 8, rs)
Packed(room) == Max({k \in 0 .. Len(Ahead) : k = 0 \/ Bytes(SubSeq(Ahead, 1, k)) <= room})
EnumUsnData(room) ==
  LET k == Packed(room) IN
  /\ Calls("index") /\ room >= 8 /\ cursor # Done
  /\ records' = records \o SubSeq(Ahead, 1, k)
  /\ cursor' = IF k = 0 THEN Done ELSE Ahead[k].frn + 1
  /\ scant' = (scant \/ (k = 0 /\ Ahead # <<>>))
  /\ UNCHANGED <<findVars, environVars, aclVars>>
-----------------------------------------------------------------------------
(* The environment                                                           *)

Same(n, m) == n[1] = m[1]
First(seq, Test(_)) == LET hits == {i \in DOMAIN seq : Test(seq[i].name)} IN IF hits = {} THEN None ELSE seq[Min(hits)].value

(* SetEnvironmentVariable, _wputenv_s: setenv, by the spelling, to "" where  *)
(* the guest means to delete.                                                *)
SetEnvironmentVariable(n, v) ==
  LET at == {i \in DOMAIN environ : environ[i].name = n} IN
  /\ Calls("environment")
  /\ environ' = IF at = {} THEN Append(environ, [name |-> n, value |-> v])
                ELSE [environ EXCEPT ![Min(at)].value = v]
  /\ wished' = [wished EXCEPT ![n] = v]
  /\ UNCHANGED <<findVars, indexVars, aclVars>>

(* getenv, _wgetenv and ExpandEnvironmentStringsW                            *)
Getenv(n) == First(environ, LAMBDA m : m = n)

(* mw_env_lookup_a: the base table and then the host's in any spelling, the  *)
(* loader's own between them as spelled.                                     *)
IsBase(n) == \E b \in BaseVariables : Same(b, n)
Lookup(n) == IF IsBase(n) THEN "base" ELSE IF n \in OwnVariables THEN "own" ELSE First(environ, LAMBDA m : Same(m, n))

(* GetEnvironmentStringsW: the base table, the loader's own, and the host's  *)
(* that are neither.                                                         *)
Constant(set, v) == [i \in 1 .. Cardinality(set) |-> [name |-> SetToSeq(set)[i], value |-> v]]
Strings == Constant(BaseVariables, "base") \o Constant(OwnVariables, "own")
           \o SelectSeq(environ, LAMBDA e : ~ IsBase(e.name) /\ e.name \notin OwnVariables)
-----------------------------------------------------------------------------
(* Access control lists                                                      *)

SidLength == [user |-> 28, admins |-> 16, other |-> 12]
Session == {"user", "admins"}
AceSize(e) == 8 + SidLength[e.sid]
Ace(e, at) == [at |-> at, size |-> AceSize(e), deny |-> e.deny, sid |-> e.sid, mask |-> e.mask]
Reserve == 4 * 96   \* MW_ACL_RESERVE

(* SetEntriesInAcl: a list of the entries, with room for more after it.  A   *)
(* guest takes its last list back from SetSecurityInfo before it makes one.  *)
SetEntriesInAcl(es) ==
  LET end == [k \in 0 .. Len(es) |-> FoldSeq(LAMBDA e, n : AceSize(e) + n, 8, SubSeq(es, 1, k))] IN
  /\ Calls("acls") /\ ~ dacl
  /\ acl' = [room |-> end[Len(es)] + Reserve, size |-> end[Len(es)], count |-> Len(es), aces |-> {Ace(es[k], end[k - 1]) : k \in DOMAIN es}]
  /\ order' = es /\ reserved' = TRUE
  /\ UNCHANGED <<findVars, indexVars, environVars, dacl>>

(* InitializeAcl: the size is all of the room.                               *)
InitializeAcl(cb) ==
  /\ Calls("acls") /\ ~ dacl /\ cb \in 8 .. 65528 /\ cb % 2 = 0
  /\ acl' = [room |-> cb, size |-> cb, count |-> 0, aces |-> {}] /\ order' = <<>> /\ reserved' = FALSE
  /\ UNCHANGED <<findVars, indexVars, environVars, dacl>>

(* AddAccessAllowedAce: after the size, without a look at the room.          *)
AddAccessAllowedAce(e) ==
  /\ Calls("acls") /\ acl # Blank /\ ~ e.deny /\ acl.size + AceSize(e) <= 65528
  /\ acl' = [acl EXCEPT !.size = @ + AceSize(e), !.count = @ + 1, !.aces = @ \cup {Ace(e, acl.size)}]
  /\ order' = Append(order, e)
  /\ UNCHANGED <<findVars, indexVars, environVars, reserved, dacl>>

(* SetSecurityInfo keeps the list, or none, for GetSecurityInfo to give.     *)
SetSecurityInfo ==
  /\ Calls("acls") /\ acl # Blank /\ dacl' = ~ dacl
  /\ UNCHANGED <<findVars, indexVars, environVars, acl, order, reserved>>

(* GetAce, IsValidAcl and AccessCheck go from ACE to ACE by their sizes; 0   *)
(* stands for an offset where there is none.                                 *)
At(offset) == {a \in acl.aces : a.at = offset}
Offset[k \in Nat] == IF k = 0 THEN 8
                     ELSE IF At(Offset[k - 1]) = {} THEN 0 ELSE LET a == CHOOSE a \in At(Offset[k - 1]) : TRUE IN a.at + a.size
GetAce(k) == CHOOSE a \in At(Offset[k]) : TRUE
IsValidAcl ==
  /\ acl.size % 2 = 0 /\ acl.size \in 8 .. 65528
  /\ \A k \in 0 .. acl.count - 1 : At(Offset[k]) # {} /\ Offset[k] + GetAce(k).size <= acl.size

(* mw_file_generic_map: where there is a generic right, rights other than    *)
(* the specific ones are left out.                                           *)
Meant == [generic_read |-> {"read", "control"}, generic_write |-> {"write", "control"}]
Specific == {"read", "write"}
Requested(desired) ==
  LET generic == desired \cap DOMAIN Meant IN
  IF generic = {} THEN desired ELSE UNION {Meant[g] : g \in generic} \cup (desired \cap Specific)

(* AccessCheck: without a list everything; or up to the first ACE of the     *)
(* session that denies some of it or allows all of it.                       *)
Decides(a, want) == a.sid \in Session /\ IF a.deny THEN a.mask \cap want # {} ELSE want \subseteq a.mask
AccessCheck(desired) ==
  LET deciding == {k \in 0 .. acl.count - 1 : At(Offset[k]) # {} /\ Decides(GetAce(k), Requested(desired))} IN
  ~ dacl \/ (deciding # {} /\ ~ GetAce(Min(deciding)).deny)

Next ==
  \/ \E u \in Users : FindFirstGets(u) \/ \E p \in Patterns : FindFirst(u, p)
  \/ \E h \in 1 .. NFinds : FindNext(h) \/ FindClose(h)
  \/ \E room \in IndexRooms : EnumUsnData(room)
  \/ \E n \in Variables, v \in {"", "x"} : SetEnvironmentVariable(n, v)
  \/ (\E n \in 0 .. 2 : \E es \in [1 .. n -> AceEntries] : SetEntriesInAcl(es)) \/ (\E cb \in AclRooms : InitializeAcl(cb))
  \/ (\E e \in AceEntries : AddAccessAllowedAce(e)) \/ SetSecurityInfo

Spec == Init /\ [][Next]_vars
-----------------------------------------------------------------------------
(* A handle lists the files of the pattern it was opened with, each once and *)
(* all of them by the time there are no more, unless two threads opened      *)
(* handles at once.  A pattern without wildcards gives its file twice.       *)
HandlesListTheirFiles ==
  \A h \in DOMAIN listed :
    LET l == listed[h]
        there == SelectSeq(Folder, LAMBDA n : n \in l.pattern.names)
        whole == IF l.pattern.wild THEN there ELSE there \o there
    IN h \in crossing \/ (IsPrefix(l.names, whole) /\ (l.over => l.names = whole))

(* A guest that goes on from the cursor gets each record once, all of them   *)
(* before it is told to stop, if each of its buffers has room for one.       *)
IndexIsListed == scant \/ (IsPrefix(records, Index) /\ (cursor = Done => records = Index))

(* A variable is what it was set to last, as spelled, and in any spelling if *)
(* it was set in no other; the block and the single answers agree, but for   *)
(* other spellings of the loader's own; and what is the machine's stays.     *)
EnvironmentIsOne ==
  \A n \in Variables :
    /\ Getenv(n) = wished[n]
    /\ IsBase(n) => Lookup(n) = "base" /\ Cardinality({i \in DOMAIN Strings : Same(Strings[i].name, n)}) = 1
    /\ ~ IsBase(n) /\ n \notin OwnVariables /\ (\A m \in Variables : Same(m, n) /\ wished[m] # None => m = n) => Lookup(n) = wished[n]
    /\ (~ \E m \in OwnVariables \ {n} : Same(m, n)) => Lookup(n) = First(Strings, LAMBDA m : Same(m, n))

(* The list a guest has built entry by entry is valid, has its entries in    *)
(* order and stays within its room; a check grants what one entry for the    *)
(* session allows and none before it denies.                                 *)
ListsAreWalked ==
  reserved =>
    /\ IsValidAcl /\ acl.size <= acl.room
    /\ acl.count = Len(order) /\ \A k \in DOMAIN order : GetAce(k - 1) = Ace(order[k], GetAce(k - 1).at)
    /\ dacl => \A desired \in Masks :
         AccessCheck(desired) <=> \E k \in DOMAIN order :
           /\ ~ order[k].deny /\ order[k].sid \in Session /\ Requested(desired) \subseteq order[k].mask
           /\ \A j \in 1 .. k - 1 : order[j].deny /\ order[j].sid \in Session => order[j].mask \cap Requested(desired) = {}

ListingsAreWhole ==
  /\ listing = "finds" => HandlesListTheirFiles
  /\ listing = "index" => IndexIsListed
  /\ listing = "environment" => EnvironmentIsOne
  /\ listing = "acls" => ListsAreWalked
=============================================================================
