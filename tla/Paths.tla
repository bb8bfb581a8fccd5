-------------------------------- MODULE Paths --------------------------------
(***************************************************************************)
(* The path functions of shlwapi as a guest uses them: a path is built and *)
(* taken apart by a sequence of calls, each working on the characters the  *)
(* one before has left, while the guest thinks of directories.  A path is  *)
(* a sequence of characters; a letter stands for any that is not special.  *)
(* Beside the path the model keeps where it ought to lead, and which way   *)
(* of the code's has led it astray.                                        *)
(***************************************************************************)
EXTENDS Integers, Sequences, FiniteSets, SequencesExt, FiniteSetsExt

CONSTANTS
  Starts,     \* the paths a guest starts with
  Pieces,     \* what it appends
  Exts,       \* the extensions it gives
  Texts,      \* strings and patterns
  Urls,       \* their parts: [scheme, user, pass, host, port, path, extra]
  UrlRooms,   \* the room of each buffer for a part
  MaxChars,   \* bounds the length of a path
  MaxCalls    \* bounds the calls on it

VARIABLES
  path,       \* its characters
  leads,      \* history: where it ought to lead
  strayed,    \* history: a call met a form it does not get right
  calls,      \* how many there were
  text, pattern

vars == <<path, leads, strayed, calls, text, pattern>>

Sep == "\\"
Ends(p, c) == p # <<>> /\ p[Len(p)] = c
Begins(p, c) == p # <<>> /\ p[1] = c
Unc(p) == Len(p) >= 2 /\ p[1] = Sep /\ p[2] = Sep
Drive(p) == Len(p) >= 2 /\ p[2] = ":"
Cut(p, n) == SubSeq(p, 1, n)
From(p, n) == SubSeq(p, n, Len(p))
-----------------------------------------------------------------------------
(* What a path means: its directories from the root, or from wherever one    *)
(* is, with "." and ".." carried out.                                        *)

Components(p) ==
  LET Add(parts, c) == IF c = Sep THEN Append(parts, <<>>) ELSE [parts EXCEPT ![Len(parts)] = Append(@, c)] IN
  SelectSeq(FoldLeft(Add, << <<>> >>, p), LAMBDA d : d # <<>>)

Up == <<".", ".">>
Root(p) == IF Unc(p) THEN "unc" ELSE IF Drive(p) THEN "drive" ELSE IF Begins(p, Sep) THEN "root" ELSE "none"
Walk(root, dirs, parts) ==
  LET Enter(d, c) ==
        IF c = <<".">> THEN d
        ELSE IF c # Up THEN Append(d, c)
        ELSE IF d # <<>> /\ d[Len(d)] # Up THEN Front(d)
        ELSE IF root = "none" THEN Append(d, Up) ELSE d IN
  FoldLeft(Enter, dirs, parts)
Body(p) == IF Drive(p) THEN From(p, 3) ELSE p
Meaning(p) == [root |-> Root(p), dirs |-> Walk(Root(p), <<>>, Components(Body(p)))]
-----------------------------------------------------------------------------
(* PathCanonicalizeW: one pass over the characters.                          *)

(* Mutant: a directory is left, and its name stays.                          *)
PoppedName(out, unc) == IF Ends(out, Sep) THEN Front(out) ELSE out
Popped(out, unc) ==
  LET name == SelectLastInSubSeq(out, 1, Len(out), LAMBDA c : c # Sep)
      sep  == SelectLastInSubSeq(out, 1, name, LAMBDA c : c = Sep) IN
  Cut(out, IF sep > 0 /\ ~ unc THEN sep - 1 ELSE sep)

Canonical(p) ==
  LET unc == Unc(p)
      At(i, c) == i <= Len(p) /\ p[i] = c
      SepOrEnd(i) == i > Len(p) \/ p[i] = Sep
      Step(st, i) ==
        IF i < st.q THEN st
        ELSE IF p[i] = "." /\ SepOrEnd(i + 1) THEN [st EXCEPT !.q = i + 2]
        ELSE IF p[i] = "." /\ At(i + 1, ".") /\ SepOrEnd(i + 2) THEN [q |-> i + 3, out |-> Popped(st.out, unc)]
        ELSE IF p[i] = Sep /\ Ends(st.out, Sep) THEN st
        ELSE [st EXCEPT !.out = Append(@, p[i])]
      start == IF unc THEN [q |-> 3, out |-> <<Sep, Sep>>] ELSE [q |-> 1, out |-> <<>>]
      out == FoldLeftDomain(LAMBDA st, i : Step(st, i), start, p).out
      last == SelectLastInSubSeq(out, 1, Len(out), LAMBDA c : c # Sep)
      kept == Cut(out, IF unc /\ last = 0 THEN Len(out) ELSE last) IN
  IF kept = <<>> THEN <<Sep>> ELSE kept

Joined(p, more) ==
  LET m == SelectInSeq(more, LAMBDA c : c # Sep) IN
  p \o (IF p # <<>> /\ ~ Ends(p, Sep) THEN <<Sep>> ELSE <<>>) \o (IF m = 0 THEN <<>> ELSE From(more, m))
PathAppend(p, more) == Canonical(Joined(p, more))

PathCombine(p, file) ==
  IF p = <<>> THEN file
  ELSE IF Begins(file, Sep) THEN p \o (IF Ends(p, Sep) THEN Tail(file) ELSE file)
  ELSE p \o (IF Ends(p, Sep) THEN file ELSE <<Sep>> \o file)

(* The last component and what comes before it.                              *)
LastSep(p) == SelectLastInSubSeq(p, 1, Len(p), LAMBDA c : c = Sep)
FileName(p) == From(p, LastSep(p) + 1)
RemoveFileSpec(p) ==
  LET k == LastSep(p)
      colon == SelectLastInSubSeq(p, 1, Len(p), LAMBDA c : c = ":") IN
  IF colon > k \/ k = 0 THEN p ELSE IF k = 3 /\ Drive(p) THEN Cut(p, 3) ELSE Cut(p, k - 1)
StripToRoot(p) ==
  LET k == {i \in 3 .. Len(p) : p[i] = Sep} IN IF k = {} THEN p ELSE Cut(p, Min(k))
IsRoot(p) ==
  IF Unc(p) THEN Cardinality({i \in DOMAIN p : p[i] = Sep}) <= 2
  ELSE p = <<Sep>> \/ (Len(p) = 3 /\ p[2] = ":" /\ p[3] = Sep)

(* Extensions.                                                               *)
LastDot(p) == SelectLastInSubSeq(p, LastSep(p) + 1, Len(p), LAMBDA c : c = ".")
FindExtension(p) == IF LastDot(p) = 0 THEN p ELSE From(p, LastDot(p))
AddExtension(p, e) == IF LastDot(p) > 0 THEN p ELSE p \o e
RemoveExtension(p) == IF LastDot(p) > 0 THEN Cut(p, LastDot(p) - 1) ELSE p
RenameExtension(p, e) == RemoveExtension(p) \o e
-----------------------------------------------------------------------------
(* What goes astray: ".." below the first directory takes the separator      *)
(* with it, a directory whose name ends in a dot swallows it, and nothing    *)
(* left over is the root.                                                    *)

IsName(c) == c # <<".">> /\ c # Up
Misread(p) ==
  LET parts == Components(Body(p)) IN
  \/ \E i \in DOMAIN parts :
       \/ IsName(parts[i]) /\ Ends(parts[i], ".")
       \/ parts[i] = Up /\ (i = 1 \/ (i < Len(parts) /\ ~ Unc(p) /\ (i > 2 \/ p[1] = Sep \/ Drive(p))) \/ i > 2 \/ ~ IsName(parts[1]))
  \/ ~ Unc(p) /\ Meaning(p) = [root |-> "none", dirs |-> <<>>]

Does(p, to, astray) ==
  /\ calls < MaxCalls /\ Len(p) <= MaxChars
  /\ path' = p /\ leads' = to /\ strayed' = (strayed \/ astray) /\ calls' = calls + 1
  /\ UNCHANGED <<text, pattern>>

Below(parts) == [leads EXCEPT !.dirs = Walk(leads.root, @, parts)]
Named == Components(path) # <<>> /\ IsName(FileName(path)) /\ FileName(path) # <<>>
Renamed(name) == [leads EXCEPT ![ "dirs" ] = IF @ = <<>> THEN @ ELSE Append(Front(@), name)]

CallCanonicalize == Does(Canonical(path), leads, Misread(path))
CallAppend(more) == Does(PathAppend(path, more), Below(Components(more)), Misread(Joined(path, more)))
CallCombine(file) ==
  Does(PathCombine(path, file), IF path = <<>> THEN Meaning(file) ELSE Below(Components(file)), FALSE)
CallRemoveFileSpec ==
  /\ Named
  /\ LET p == RemoveFileSpec(path) IN
     Does(p, IF p = path THEN leads ELSE [leads EXCEPT !.dirs = IF @ = <<>> THEN @ ELSE Front(@)],
          Root(path) # "none" /\ LastSep(path) <= 2)
CallStripPath ==
  /\ Named /\ LastSep(path) > 0
  /\ Does(FileName(path), [root |-> "none", dirs |-> <<FileName(path)>>], FALSE)
CallStripToRoot ==
  Does(StripToRoot(path), [leads EXCEPT !.dirs = <<>>], ~ (Drive(path) /\ Len(path) >= 3 /\ path[3] = Sep))
CallAddExtension(e) ==
  /\ Named
  /\ LET p == AddExtension(path, e) IN Does(p, IF p = path THEN leads ELSE Renamed(FileName(path) \o e), Ends(path, ":"))
CallRemoveExtension ==
  /\ Named /\ Does(RemoveExtension(path), Renamed(RemoveExtension(FileName(path))), FileName(path)[1] = "." \/ Ends(path, ":"))
CallRenameExtension(e) ==
  /\ Named /\ Does(RenameExtension(path, e), Renamed(RenameExtension(FileName(path), e)), Ends(path, ":"))
-----------------------------------------------------------------------------
(* Functions of two strings.                                                 *)

(* PathMatchSpecW: the patterns of a list one by one, recursively.           *)
Glob(s, p) ==
  LET m[i \in 1 .. Len(s) + 1, j \in 1 .. Len(p) + 1] ==
        IF j > Len(p) THEN i > Len(s)
        ELSE IF p[j] = "*" THEN \E t \in i .. Len(s) + 1 : m[t, j + 1]
        ELSE i <= Len(s) /\ p[j] \in {"?", s[i]} /\ m[i + 1, j + 1] IN
  m[1, 1]
PatternsOf(spec) ==
  LET Add(ps, c) == IF c = ";" THEN Append(ps, <<>>) ELSE [ps EXCEPT ![Len(ps)] = Append(@, c)] IN
  ToSet(FoldLeft(Add, << <<>> >>, spec))
MatchSpec(s, spec) == spec = <<>> \/ \E p \in PatternsOf(spec) : Glob(s, p)

IsPrefixPath(p, q) == p # <<>> /\ IsPrefix(p, q) /\ (Len(q) = Len(p) \/ q[Len(p) + 1] = Sep)
CommonPrefix(p, q) ==
  LET same == Max({n \in 0 .. Min({Len(p), Len(q)}) : Cut(p, n) = Cut(q, n)})
      back == {n \in 1 .. same : p[n + 1] \in {Sep, ":"}} IN
  IF same = Len(p) \/ same = Len(q) \/ p[same + 1] = Sep THEN same
  ELSE IF back = {} THEN 0 ELSE Max(back)

(* PathRelativePathToW; a path said to be a directory loses its last part.   *)
Base(p, dir) == LET c == Components(p) IN IF dir /\ c # <<>> THEN Front(c) ELSE c
RelativePathTo(p, pdir, q, qdir) ==
  LET f == Base(p, pdir)
      t == Base(q, qdir)
      common == Max({n \in 0 .. Min({Len(f), Len(t)}) : Cut(f, n) = Cut(t, n)})
      ups == FlattenSeq([i \in 1 .. Len(f) - common |-> <<".", ".", Sep>>])
      downs == FlattenSeq([i \in 1 .. Len(t) - common |-> Append(t[common + i], Sep)])
      rel == ups \o downs IN
  IF Ends(rel, Sep) THEN Front(rel) ELSE rel

Quote(p) == IF " " \in ToSet(p) THEN <<"\"">> \o p \o <<"\"">> ELSE p
Unquote(p) ==
  LET q == "\""
      r == IF Len(p) >= 2 /\ p[1] = q /\ Ends(p, q) THEN SubSeq(p, 2, Len(p) - 1) ELSE p
      Step(st, i) == IF i < st.at THEN st
                     ELSE IF r[i] = q /\ i < Len(r) /\ r[i + 1] = q THEN [at |-> i + 2, out |-> Append(st.out, q)]
                     ELSE [at |-> i + 1, out |-> Append(st.out, r[i])] IN
  FoldLeftDomain(Step, [at |-> 1, out |-> <<>>], r).out

(* StrTrim: from the end, then from the start.                               *)
StrTrim(s, set) ==
  LET e == SelectLastInSubSeq(s, 1, Len(s), LAMBDA c : c \notin ToSet(set))
      b == SelectInSubSeq(s, 1, e, LAMBDA c : c \notin ToSet(set)) IN
  IF e = 0 THEN <<>> ELSE SubSeq(s, b, e)
StrSpn(s, set) == Max({n \in 0 .. Len(s) : \A i \in 1 .. n : s[i] \in ToSet(set)})
StrCSpn(s, set) == Max({n \in 0 .. Len(s) : \A i \in 1 .. n : s[i] \notin ToSet(set)})
Occurs(s, t, i) == i + Len(t) <= Len(s) + 1 /\ SubSeq(s, i, i + Len(t) - 1) = t
StrStr(s, t) == LET at == {i \in DOMAIN s : Occurs(s, t, i)} IN IF at = {} THEN 0 ELSE Min(at)
StrRStr(s, t) == LET at == {i \in DOMAIN s : Occurs(s, t, i)} IN IF t = <<>> THEN 1 ELSE IF at = {} THEN 0 ELSE Max(at)

(* _splitpath, _wsplitpath: drive, directory, name, extension; _makepath and *)
(* _wmakepath put them together.                                             *)
IsSep(c) == c \in {Sep, "/"}
SplitPath(p) ==
  LET drive == IF Drive(p) THEN 2 ELSE 0
      dir == Max({drive, SelectLastInSubSeq(p, drive + 1, Len(p), IsSep)})
      dot == SelectLastInSubSeq(p, dir + 1, Len(p), LAMBDA c : c = ".")
      ext == IF dot = 0 THEN Len(p) + 1 ELSE dot IN
  [drive |-> Cut(p, drive), dir |-> SubSeq(p, drive + 1, dir), name |-> SubSeq(p, dir + 1, ext - 1), ext |-> From(p, ext)]
MakePath(s, wide) ==
  (IF s.drive = <<>> THEN <<>> ELSE <<s.drive[1], ":">>)
  \o (IF s.dir # <<>> /\ wide /\ ~ IsSep(s.dir[1]) THEN <<Sep>> ELSE <<>>) \o s.dir
  \o (IF s.dir # <<>> /\ ~ IsSep(s.dir[Len(s.dir)]) THEN <<Sep>> ELSE <<>>) \o s.name
  \o (IF s.ext # <<>> /\ s.ext[1] # "." THEN <<".">> ELSE <<>>) \o s.ext

(* InternetCrackUrlW.  Names of schemes are single characters here; a part   *)
(* goes into the guest's buffer as far as its room goes, and how long it is  *)
(* is told.  The host has no room of its own to keep to.                     *)
FirstOf(s, from, set) ==
  LET i == SelectInSubSeq(s, from, Len(s), LAMBDA c : c \in set) IN IF i = 0 THEN Len(s) + 1 ELSE i
DigitChars == <<"0", "1", "2", "3", "4", "5", "6", "7", "8", "9">>
NumberOf(ds) == FoldLeft(LAMBDA v, d : v * 10 + SelectInSeq(DigitChars, LAMBDA c : c = d) - 1, 0, ds)
DefaultPort(scheme) ==
  IF scheme = <<"http">> THEN 80 ELSE IF scheme = <<"https">> THEN 443 ELSE IF scheme = <<"ftp">> THEN 21 ELSE 0

Before == <<"before">>
Given(part, room) == IF room = 0 THEN Before ELSE Cut(part, Min({Len(part), room - 1}))
(* Where the port's colon is in the authority, or its end.                   *)
PortAt(s, host, end) ==
  LET mark == SelectLastInSubSeq(s, host, end - 1, LAMBDA c : c \in {":", "]"})
      digits == ToSet(SubSeq(s, mark + 1, end - 1)) IN
  IF mark # 0 /\ s[mark] = ":" /\ digits # {} /\ digits \subseteq ToSet(DigitChars) THEN mark ELSE end
(* User and password, in front of the last "@".                              *)
Login(s, p, at, room) ==
  LET secret == SelectInSubSeq(s, p, at - 1, LAMBDA c : c = ":")
      user == SubSeq(s, p, (IF secret = 0 THEN at ELSE secret) - 1)
      pass == SubSeq(s, secret + 1, at - 1) IN
  IF at = 0 THEN [user |-> Before, userLen |-> 0, pass |-> Before, passLen |-> 0]
  ELSE [user |-> Given(user, room), userLen |-> Len(user),
        pass |-> IF secret = 0 THEN Before ELSE Given(pass, room), passLen |-> IF secret = 0 THEN room ELSE Len(pass)]
(* The host and the port, from behind the "@" to the end of the authority.   *)
HostPort(s, host, colon, end, default) ==
  LET port == NumberOf(SubSeq(s, colon + 1, end - 1)) % 65536 IN
  [host |-> SubSeq(s, host, colon - 1), port |-> IF port # 0 THEN port ELSE default]
Parts(s, n, p, end, at, room) ==
  LET host == IF at = 0 THEN p ELSE at + 1
      extra == FirstOf(s, end, {"?", "#"}) IN
  [scheme |-> IF n = 0 THEN Before ELSE Given(Cut(s, n - 1), room),
   schemeLen |-> IF n # 0 /\ room # 0 THEN n - 1 ELSE room,
   login |-> Login(s, p, at, room),
   server |-> HostPort(s, host, PortAt(s, host, end), end, IF n = 0 THEN 0 ELSE DefaultPort(Cut(s, n - 1))),
   path |-> Given(SubSeq(s, end, extra - 1), room), pathLen |-> extra - end,
   extra |-> Given(From(s, extra), room), extraLen |-> Len(s) + 1 - extra]
Authority(s, n, p, end, room) == Parts(s, n, p, end, SelectLastInSubSeq(s, p, end - 1, LAMBDA c : c = "@"), room)
SchemeEnd(s, colon) == IF colon + 2 <= Len(s) /\ SubSeq(s, colon, colon + 2) = <<":", "/", "/">> THEN colon ELSE 0
Behind(s, n, p, room) == Authority(s, n, p, FirstOf(s, p, {"/", "?", "#"}), room)
Crack(s, room) ==
  LET n == SchemeEnd(s, FirstOf(s, 1, {":", "/", "?", "#"})) IN Behind(s, n, IF n = 0 THEN 1 ELSE n + 3, room)

Url(u) ==
  (IF u.scheme = <<>> THEN <<>> ELSE u.scheme \o <<":", "/", "/">>)
  \o (IF u.user = <<>> THEN <<>> ELSE u.user \o (IF u.pass = <<>> THEN <<>> ELSE <<":">> \o u.pass) \o <<"@">>)
  \o u.host \o (IF u.port = <<>> THEN <<>> ELSE <<":">> \o u.port) \o u.path \o u.extra
-----------------------------------------------------------------------------
Init ==
  \/ /\ path \in Starts /\ leads = Meaning(path) /\ strayed = FALSE /\ calls = 0 /\ text = <<>> /\ pattern = <<>>
  \/ /\ text \in Texts /\ pattern \in Texts
     /\ path = <<>> /\ leads = Meaning(<<>>) /\ strayed = FALSE /\ calls = MaxCalls
  \/ \E u \in Urls, r \in UrlRooms :
       path = Url(u) /\ leads = [url |-> u, room |-> r] /\ strayed = FALSE /\ calls = MaxCalls + 1 /\ text = <<>> /\ pattern = <<>>

Next ==
  \/ CallCanonicalize \/ CallRemoveFileSpec \/ CallStripPath \/ CallStripToRoot \/ CallRemoveExtension
  \/ \E more \in Pieces : CallAppend(more) \/ CallCombine(more)
  \/ \E e \in Exts : CallAddExtension(e) \/ CallRenameExtension(e)

Spec == Init /\ [][Next]_vars
-----------------------------------------------------------------------------
(* A path leads where the calls that built it should lead, unless one met a  *)
(* form it does not read right.                                              *)
PathsLead == strayed \/ calls > MaxCalls \/ Meaning(path) = leads

(* A path split and put together again is the path, but that the wide        *)
(* function takes a directory to start with a separator; its name and        *)
(* extension are what the path functions take for its file.                  *)
PathsSplit ==
  \E s \in {SplitPath(path)} :
    /\ MakePath(s, FALSE) = path
    /\ s.dir = <<>> \/ IsSep(s.dir[1]) => MakePath(s, TRUE) = path
    /\ "/" \in ToSet(path) \/ LastSep(path) = 0 \/ s.name \o s.ext = FileName(path)

(* A URL comes apart into the parts it was made of, each as far as its       *)
(* buffer goes and with its whole length: but a port of 0, or one beyond 16  *)
(* bits, is not taken as it stands, and a password that is not there leaves  *)
(* its length as it was.                                                     *)
UrlsComeApart ==
  calls > MaxCalls =>
    \E u \in {leads.url}, r \in {leads.room}, k \in {Crack(path, leads.room)}, n \in {NumberOf(leads.url.port)} :
      LET Holds(part, buffer, len) ==
            /\ len = Len(part)
            /\ IF r = 0 THEN buffer = Before ELSE Len(buffer) < r /\ IsPrefix(buffer, part) /\ (Len(part) < r => buffer = part) IN
      /\ u.scheme # <<>> /\ r > 0 => Holds(u.scheme, k.scheme, k.schemeLen)
      /\ IF u.user = <<>> THEN k.login.userLen = 0 /\ k.login.passLen = 0
         ELSE Holds(u.user, k.login.user, k.login.userLen) /\ (u.pass # <<>> => Holds(u.pass, k.login.pass, k.login.passLen))
      /\ k.server.host = u.host
      /\ k.server.port = IF n % 65536 # 0 THEN n % 65536 ELSE DefaultPort(u.scheme)
      /\ Holds(u.path, k.path, k.pathLen) /\ Holds(u.extra, k.extra, k.extraLen)

(* What a pattern of "?" and "*" means: the string can be cut so that each   *)
(* of its characters fits.                                                   *)
Fits(s, p) ==
  \E cut \in [0 .. Len(p) -> 0 .. Len(s)] :
    /\ cut[0] = 0 /\ cut[Len(p)] = Len(s)
    /\ \A j \in 1 .. Len(p) :
         IF p[j] = "*" THEN cut[j] >= cut[j - 1]
         ELSE cut[j] = cut[j - 1] + 1 /\ p[j] \in {"?", s[cut[j]]}
PatternsMatch ==
  MatchSpec(text, pattern) <=> pattern = <<>> \/ \E p \in PatternsOf(pattern) : Fits(text, p)

(* The relative path leads from one to the other, the common prefix ends     *)
(* where a directory does (but where the first path does, or the other's     *)
(* name goes on), and what was quoted is unquoted again.                     *)
PairsAgree ==
  /\ \A d, e \in BOOLEAN :
       (\A c \in ToSet(Components(text)) \cup ToSet(Components(pattern)) : IsName(c)) =>
         Walk("none", Base(text, d), Components(RelativePathTo(text, d, pattern, e))) = Base(pattern, e)
  /\ LET n == CommonPrefix(text, pattern)
         ends(p) == n = 0 \/ n = Len(p) \/ p[n + 1] \in {Sep, ":"} IN
     /\ Cut(text, n) = Cut(pattern, n)
     /\ (ends(text) /\ ends(pattern)) \/ n \in {Len(text), Len(pattern)} \/ text[n + 1] = Sep
  /\ "\"" \notin ToSet(text) => Unquote(Quote(text)) = text
  /\ LET t == StrTrim(text, pattern)
         b == StrSpn(text, pattern) IN
     t = <<>> \/ (Occurs(text, t, b + 1) /\ StrSpn(t, pattern) = 0 /\ StrSpn(Reverse(t), pattern) = 0)
  /\ StrCSpn(text, pattern) = Len(text) \/ StrSpn(From(text, StrCSpn(text, pattern) + 1), pattern) > 0
  /\ pattern # <<>> => (StrStr(text, pattern) = 0 <=> StrRStr(text, pattern) = 0)

PathsAreRight == PathsLead /\ PatternsMatch /\ PairsAgree /\ PathsSplit /\ UrlsComeApart
=============================================================================
