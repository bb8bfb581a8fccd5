----------------------------- MODULE MCServices -----------------------------
(* Services for TLC.                                                         *)
EXTENDS Services

(* Menu templates, up to three menus deep.                                   *)
Item(n) == [id |-> n]
Popup(s) == [id |-> 0, sub |-> s]
MCTrees == {<<Popup(<<Item(1), Item(2)>>), Item(2)>>, <<Popup(<<Popup(<<Item(2)>>)>>), Item(1)>>}

(* Dialog templates that have control ids in common, of both forms: with     *)
(* classes by ordinal and by name, known or not, creation data, and an end   *)
(* within the last item.                                                     *)
MCItem(i, c, t, d) == [id |-> i, class |-> c, title |-> t, data |-> d]
MCButton == <<65535, 128>>
MCTemplates == {
  [ex |-> FALSE, font |-> TRUE, cut |-> 0, items |-> <<MCItem(1, MCButton, <<2, 3>>, 0), MCItem(2, <<1>>, <<65535, 7>>, 0)>>],
  [ex |-> FALSE, font |-> FALSE, cut |-> 0, items |-> <<MCItem(3, <<2, 3>>, <<>>, 0), MCItem(2, <<65535, 142>>, <<2>>, 4), MCItem(1, MCButton, <<>>, 0)>>],
  [ex |-> TRUE, font |-> TRUE, cut |-> 0, items |-> <<MCItem(1, <<2>>, <<>>, 0), MCItem(2, <<65535, 141>>, <<65535, 1>>, 6)>>],
  [ex |-> TRUE, font |-> FALSE, cut |-> 1, items |-> <<MCItem(3, <<>>, <<2>>, 3), MCItem(2, MCButton, <<2>>, 0), MCItem(1, <<1>>, <<2, 3>>, 0)>>]}

(* Characters for paths, and texts to match and to split.                    *)
Over(chars, n) == [1 .. n -> chars]
MCStarts == {<<>>, <<"\\">>, <<"a", ":", "\\">>, <<"\\", "\\">>}
MCPieces == {<<"a">>, <<".", ".">>, <<".">>, <<"b", ".">>, <<"\\", "a", "\\", "b">>, <<"a", "\\", ".", ".", "\\", "b">>}
MCExts == {<<".", "x">>}
MCTexts == (UNION {Over({"a", "b", "\\", "*", "?", ";"}, n) : n \in 0 .. 2}) \cup (UNION {Over({"a", "\"", " "}, n) : n \in 0 .. 3})
           \cup Over({"a", "\\", "*"}, 3)

(* URLs with and without each part, and with marks of one part in another.   *)
MCUrlRooms == {0, 1, 3}
MCUrls == {[scheme |-> s, user |-> w[1], pass |-> w[2], host |-> h, port |-> p, path |-> d, extra |-> e] :
  s \in {<<>>, <<"http">>, <<"x", "y">>}, w \in {<< <<>>, <<>> >>, << <<"u", "v", "w">>, <<>> >>, << <<"u">>, <<"p", ":", "@">> >>},
  h \in {<<"a", ".", "b">>, <<"[", ":", "1", "]">>}, p \in {<<>>, <<"0">>, <<"8", "1">>, <<"6", "5", "5", "3", "8">>},
  d \in {<<>>, <<"/">>, <<"/", "a", ":", "@">>}, e \in {<<>>, <<"?", "x", "/">>, <<"#">>}}

(* Resource directories of two types, and what is asked of them.             *)
Id(n, s) == [n |-> n, s |-> s]
Langs == {<<[lang |-> 9, size |-> 3]>>, <<[lang |-> 9, size |-> 3], [lang |-> 1, size |-> 4]>>}
Level(ids) == UNION {{[i \in 1 .. 2 |-> [id |-> ids[i], data |-> d[i]]] : d \in [1 .. 2 -> Langs]}}
MCDirectories == {<<>>} \cup
  {<<[id |-> t, names |-> a], [id |-> Id(5, <<>>), names |-> b]>> :
     t \in {Id(0, <<"A", "a">>), Id(1, <<>>)}, a \in Level(<<Id(0, <<"a">>), Id(5, <<>>)>>), b \in Level(<<Id(1, <<>>), Id(15, <<>>)>>)}
MCWanted == [n : {0}, s : {<<"a">>, <<"A", "A">>, <<"#", "5">>, <<"#", "1", "5">>, <<"5">>, <<"1", "5">>}, wide : BOOLEAN]
            \cup [n : {1, 5}, s : {<<>>}, wide : {TRUE}]

(* Version blocks with two string tables and a table of translations.        *)
Leaf(k, v) == [key |-> k, vlen |-> v, kids |-> <<>>]
Node(k, kids) == [key |-> k, vlen |-> 0, kids |-> kids]
StringTables == {<<>>, <<Node("en", <<Leaf("Name", 2), Leaf("Note", 0)>>)>>,
                 <<Node("en", <<Leaf("Name", 2)>>), Node("de", <<Leaf("Note", 1), Leaf("Name", 0), Leaf("Name", 3)>>)>>}
Translations == Node("VarFileInfo", <<Leaf("Translation", 4)>>)
MCVersionBlocks == UNION {{[key |-> "VS_VERSION_INFO", vlen |-> v, kids |-> k] : v \in {0, 52}} :
  k \in UNION {{<<Node("StringFileInfo", t)>>, <<Translations, Node("StringFileInfo", t)>>, <<Node("StringFileInfo", t), Translations>>} : t \in StringTables}}
MCVersionPaths == {"", "VarFileInfo", "StringFileInfo", "Other"} \X {"", "Translation", "en", "de"} \X {"", "Name", "Note"}

(* Accelerators: flags, padding, key and command.                            *)
MCTables == UNION {[1 .. n -> {<<1, 0, 1, 0, 1, 0>>, <<0, 0, 1, 0, 1, 1>>, <<3, 0, 1, 0, 0, 1>>, <<1, 1, 1, 1, 0, 0>>}] : n \in 1 .. 3}

(* Pictures of two rows, and files of two classes.                           *)
MCShapes == [1 .. 2 -> [1 .. 2 -> [c : {"dark", "bright", "white"}, a : BOOLEAN]]]
MCShellFiles == {[drive |-> FALSE, dir |-> e, ext |-> x] : e \in BOOLEAN, x \in {"zip", ""}}

MCRect(l, t, r, b) == [l |-> l, t |-> t, r |-> r, b |-> b]
MCBoxes == {MCRect(0, 0, 3, 3), MCRect(1, 1, 2, 4), MCRect(2, 0, 4, 1)}
MCBoxLists == {<<MCRect(0, 0, 1, 1), MCRect(2, 2, 2, 3), MCRect(1, 1, 3, 2)>>}
MCPolygons == {<<<<0, 0>>, <<4, 0>>, <<4, 4>>, <<2, 1>>, <<0, 4>>>>,
               <<<<0, 0>>, <<3, 0>>, <<3, 1>>, <<1, 1>>, <<1, 2>>, <<3, 2>>, <<3, 3>>, <<0, 3>>>>}
MCSizes == {<<3, 2>>}
MCBlit(x, y, w, h, xs, ys, ws, hs) == [x |-> x, y |-> y, w |-> w, h |-> h, xs |-> xs, ys |-> ys, ws |-> ws, hs |-> hs]
MCBlits == {MCBlit(1, 0, 2, 1, 0, 0, 2, 1)}
MCStretches == {MCBlit(0, 0, 2, 2, 0, 0, 1, 1)}
MCDibRects == {MCBlit(0, 0, 2, 2, 0, 0, 1, 2), MCBlit(1, 0, 1, 2, 0, 1, 1, 1)}
MCDibs == {[bpp |-> 4, top |-> FALSE, table |-> <<1>>, pixels |-> <<<<0, 1, 1>>, <<1, 0, 0>>>>],
           [bpp |-> 32, top |-> TRUE, table |-> <<>>, pixels |-> <<<<1, 0>>, <<0, 1>>>>]}
MCFigure(op, ps, p, b, a) == [op |-> op, at |-> ps, pen |-> p, brush |-> b, arg |-> a]
MCFigures ==
  {MCFigure("line", <<<<4, 2>>>>, 1, 0, 0), MCFigure("line", <<<<1, 3>>>>, 2, 0, 0),
   MCFigure("chain", <<<<4, 0>>, <<2, 3>>, <<3, 1>>>>, 1, 0, 0), MCFigure("rect", <<<<1, 0>>, <<4, 3>>>>, 1, 2, 0),
   MCFigure("rect", <<<<0, 1>>, <<6, 3>>>>, 2, -1, 0), MCFigure("ellipse", <<<<0, 0>>, <<5, 4>>>>, 0, 1, 0),
   MCFigure("polygon", <<<<0, 0>>, <<4, 1>>, <<1, 3>>>>, 1, 2, 0), MCFigure("flood", <<<<2, 1>>>>, 0, 1, 0),
   MCFigure("flood", <<<<0, 3>>>>, 0, 2, 0), MCFigure("flood", <<<<2, 1>>>>, 0, 2, 2), MCFigure("border", <<<<2, 1>>>>, 0, 2, 1)}

(* A path and a name of a pipe, a folder and patterns, an index, spellings   *)
(* of variables, access to grant and to deny.                                *)
MCPipeNames == {<<"pipe", "a">>, <<"a">>}
MCFolder == <<"a", "b", "c">>
MCPatterns == [wild : {TRUE}, names : {{"a", "b", "c"}, {"b"}, {}}] \cup [wild : {FALSE}, names : {{"b"}}]
MCIndex == <<[frn |-> 11, size |-> 72], [frn |-> 12, size |-> 80], [frn |-> 15, size |-> 88]>>
MCVariables == {"path", "nproc", "x"} \X {1, 2}
MCBaseVariables == {<<"path", 1>>}
MCOwnVariables == {<<"nproc", 1>>}
MCEntries == [deny : BOOLEAN, sid : {"user", "other"}, mask : {{"read", "write", "control"}}]
             \cup {[deny |-> FALSE, sid |-> "admins", mask |-> {"read"}], [deny |-> TRUE, sid |-> "admins", mask |-> {"write"}]}

Guests == Permutations(Users \cup Askers)
=============================================================================
