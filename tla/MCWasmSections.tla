--------------------------- MODULE MCWasmSections ---------------------------
(* One file with every section, and every file that one or two edits make  *)
(* of it: a section left out, moved, repeated or replaced by another one   *)
(* of its kind, and two sections replaced.  Pages of 64 bytes, an address  *)
(* space of four, and two references to a type at most.                    *)
EXTENDS WasmSections, SequencesExt

S(kind, items) == [kind |-> kind, count |-> Len(items), items |-> items]
C(kind, count, items) == [kind |-> kind, count |-> count, items |-> items]

Const(n) == [op |-> "i32", val |-> n]
Get(i) == [op |-> "get", val |-> i]
Func(i) == [kind |-> "func", index |-> i]
Global(mutable) == [kind |-> "global", mutable |-> mutable]
Limited(kind, init, max, spectest, name) ==
  [kind |-> kind, init |-> init, max |-> max, spectest |-> spectest, name |-> name]
T == Limited("table", 1, Null, FALSE, "t")
G(type, mutable, init) == [type |-> type, mutable |-> mutable, init |-> init]
X(name, kind, index) == [name |-> name, kind |-> kind, index |-> index]
B(start, asks, locals, valid, grows, table) ==
  [start |-> start, asks |-> asks, locals |-> locals, valid |-> valid,
   grows |-> grows, table |-> table]
Code(bodies, size) == [kind |-> "code", count |-> 2, items |-> bodies, size |-> size]
D(passive, memory, length, cut) ==
  [passive |-> passive, memory |-> memory, length |-> length, cut |-> cut, init |-> Const(0)]
Datas(items) == [kind |-> "data", count |-> Len(items), items |-> items, size |-> 40]
Y(type, defined, index, binding) ==
  [type |-> type, defined |-> defined, index |-> index, binding |-> binding,
   absolute |-> FALSE, offset |-> 4]
R(type, offset, index) == [type |-> type, offset |-> offset, index |-> index]
Relocs1(kind, target, items) ==
  [kind |-> kind, count |-> Len(items), items |-> items, target |-> target]
N(index, str) == [index |-> index, str |-> str]
E(table, funcs) == [table |-> table, funcs |-> funcs, init |-> Const(0)]
M(init, max) == [init |-> init, max |-> max]

Body1 == B(3, <<4, 8, 12>>, "none", TRUE, FALSE, TRUE)
Body2 == B(20, <<21, 26>>, "some", TRUE, FALSE, FALSE)
Symbols == << Y("function", TRUE, 1, "global"), Y("data", TRUE, 0, "local"),
              Y("tag", TRUE, 0, "local"), Y("table", TRUE, 0, "global") >>
Symbols2 == << Y("data", TRUE, 0, "local"), Y("function", FALSE, 0, "weak") >>
Globals == << G("i32", TRUE, Const(96)), G("i32", FALSE, Const(98)), G("i32", FALSE, Const(40)) >>

\* For each place of the file the sections that may stand there.
Variants ==
  << << S("type", <<"void", "i32->i32", "void">>), S("type", <<"void", "void", "void">>),
        S("type", <<"void", "i32->i32", "bad">>), C("type", 4, <<"void", "i32->i32", "void">>),
        C("type", 2, <<"void", "i32->i32", "void">>), S("type", <<"void", "i32->i32">>),
        S("type", <<"void", "i32,i32->i32">>), S("type", <<"i32->", "i32->i32">>) >>,
     << S("import", <<Func(0), Global(FALSE)>>), S("import", <<Func(5), Global(FALSE)>>),
        S("import", <<Func(0), Global(TRUE), T>>),
        S("import", <<Func(0), Limited("memory", 1, 2, FALSE, "m")>>),
        S("import", <<Func(0), Limited("memory", 3, 2, FALSE, "m")>>),
        S("import", <<Limited("memory", 0, 3, TRUE, "memory"), Limited("table", 10, Null, TRUE, "table")>>),
        S("import", <<Limited("memory", 1, 1, TRUE, "memory")>>),
        S("import", <<Limited("table", 11, 20, TRUE, "table")>>),
        S("import", <<Limited("table", 1, 20, TRUE, "t")>>),
        S("import", <<T, T>>), S("import", <<>>) >>,
     << S("function", <<0, 1>>), S("function", <<1, 7>>), S("function", <<0>>) >>,
     << S("table", <<M(2, Null)>>), S("table", <<M(2, 1)>>), S("table", <<>>) >>,
     << S("memory", <<M(2, Null)>>), S("memory", <<M(4, 4)>>), S("memory", <<M(0, 1)>>),
        S("memory", <<M(3, 2)>>), S("memory", <<M(1, 3), M(1, 3)>>), S("memory", <<M(1, 3)>>) >>,
     << S("global", Globals), S("global", <<G("i32", FALSE, Get(0)), G("i32", FALSE, Const(64))>>),
        S("global", <<G("i64", FALSE, Const(1))>>),
        S("global", << G("i32", FALSE, Const(90)), G("i32", FALSE, Const(250)), G("i32", FALSE, Const(40)) >>),
        S("global", << G("i32", TRUE, Const(20)), G("i32", FALSE, Const(30)), G("i32", FALSE, Const(28)) >>) >>,
     << S("export", <<X("__heap_base", "global", 2), X("__data_end", "global", 3), X("malloc", "func", 2)>>),
        S("export", <<X("main", "func", 2), X("main", "func", 1)>>), S("export", <<X("f", "func", 3)>>),
        S("export", <<X("m", "memory", 0), X("t", "table", 0), X("g", "global", 9)>>),
        S("export", <<X("__new", "func", 2), X("__pin", "func", 2), X("free", "func", 1)>>),
        S("export", <<X("m", "memory", 1)>>), S("export", <<X("__new", "func", 2)>>) >>,
     << S("start", <<1>>), S("start", <<2>>), S("start", <<0>>), S("start", <<3>>) >>,
     << S("elem", <<E(0, <<0, 1>>), E(0, <<>>)>>), S("elem", <<E(0, <<1, 4>>)>>), S("elem", <<E(1, <<0>>)>>) >>,
     << C("datacount", 2, <<>>), C("datacount", 1, <<>>) >>,
     << Code(<<Body1, Body2>>, 32), Code(<<Body1>>, 32),
        Code(<<Body1, B(20, <<21, 26>>, "bad", TRUE, FALSE, FALSE)>>, 32),
        Code(<<Body1, B(20, <<21, 26>>, "none", TRUE, TRUE, TRUE)>>, 32),
        Code(<<Body1, B(20, <<>>, "none", FALSE, FALSE, TRUE)>>, 32),
        Code(<<Body1, Body2, Body2>>, 40) >>,
     << Datas(<<D(FALSE, 0, 8, FALSE), D(TRUE, 0, 4, FALSE)>>), Datas(<<D(TRUE, 0, 4, FALSE)>>),
        Datas(<<D(FALSE, 1, 8, FALSE), D(TRUE, 0, 4, FALSE)>>),
        Datas(<<D(FALSE, 0, 8, FALSE), D(FALSE, 0, 8, TRUE)>>) >>,
     << S("linking", Symbols), S("linking", Symbols2), S("linking", <<Y("function", TRUE, 0, "global")>>),
        S("linking", <<Y("global", FALSE, 0, "weak")>>), S("linking", <<Y("global", TRUE, 2, "global")>>),
        S("linking", <<Y("function", TRUE, 3, "global")>>), S("linking", <<Y("data", TRUE, 2, "global")>>),
        S("linking", <<Y("section", TRUE, 0, "local"), Y("other", TRUE, 0, "local")>>) >>,
     << Relocs1("reloc.CODE", 11, <<R("function", 4, 0), R("memory", 12, 1), R("memory", 21, 1), R("function", 21, 0)>>),
        Relocs1("reloc.CODE", 11, <<R("memory64", 6, 1), R("type", 8, 0), R("global", 26, 0)>>),
        Relocs1("reloc.CODE", 11, <<R("function", 12, 0), R("memory", 4, 1)>>),
        Relocs1("reloc.CODE", 11, <<R("tag", 2, 2), R("table_number", 253, 3)>>),
        Relocs1("reloc.CODE", 11, <<R("function", 21, 1)>>), Relocs1("reloc.CODE", 12, <<>>),
        Relocs1("reloc.CODE", 11, <<>>) >>,
     << Relocs1("reloc.DATA", 12, <<R("memory", 2, 1), R("section", 10, 2)>>),
        Relocs1("reloc.DATA", 12, <<R("global_i32", 36, 1), R("global_i32", 37, 1)>>),
        Relocs1("reloc.DATA", 11, <<R("memory", 2, 1)>>),
        Relocs1("reloc.DATA", 12, <<R("function_offset", 2, 0), R("bad", 4, 0)>>) >>,
     << S("name", <<N(0, "imported"), N(1, "f"), N(2, "g")>>), S("name", <<N(1, "f"), N(2, "f")>>),
        S("name", <<N(1, ""), N(1, "f")>>), S("name", <<N(1, "f"), N(3, "g")>>), C("other", 0, <<>>) >> >>

\* f(k) for k from 1 to n; the concatenation makes TLC evaluate it once.
Each(f(_), n) == <<>> \o [k \in 1..n |-> f(k)]

\* The edits.  A file may be moved about, repeated in, and varied in one place
\* or in two.
Edited ==
  LET vs     == <<>> \o Variants
      places == Len(vs)
      base   == Each(LAMBDA i : vs[i][1], places)
      \* place and number of each other section: at most 8 for a place
      alts   == SelectSeq(Each(LAMBDA k : <<((k - 1) \div 8) + 1, ((k - 1) % 8) + 1>>, 8 * places),
                          LAMBDA a : a[2] \in 2..Len(vs[a[1]]))
      other(a) == vs[a[1]][a[2]]
      varied(a) == Each(LAMBDA i : IF i = a[1] THEN other(a) ELSE base[i], places)
      pair(k, n) == <<((k - 1) \div n) + 1, ((k - 1) % n) + 1>>
      pairs(n, m) == Each(LAMBDA k : pair(k, m), n * m)
      apart  == SelectSeq(pairs(places, places), LAMBDA p : p[1] # p[2])
      spots  == <<3, 8, 13, 15, 16>>
      two    == SelectSeq(pairs(Len(alts), Len(alts)), LAMBDA p : alts[p[1]][1] < alts[p[2]][1])
      varied2(p) == Each(LAMBDA i : IF i = alts[p[1]][1] THEN other(alts[p[1]])
                                    ELSE IF i = alts[p[2]][1] THEN other(alts[p[2]])
                                    ELSE base[i], places)
  IN  << base, <<>>, << C("unknown", 0, <<>>) >> >>
      \o Each(LAMBDA k : varied(alts[k]), Len(alts))
      \o Each(LAMBDA i : <<>> \o RemoveAt(base, i), places)
      \o Each(LAMBDA k : <<>> \o InsertAt(RemoveAt(base, apart[k][1]), apart[k][2],
                                         base[apart[k][1]]), Len(apart))
      \o Each(LAMBDA k : <<>> \o InsertAt(base, pair(k, places)[2], base[pair(k, places)[1]]),
              places * places)
      \o Each(LAMBDA k : <<>> \o InsertAt(base, spots[pair(k, 5)[2]], other(alts[pair(k, 5)[1]])),
              5 * Len(alts))
      \o Each(LAMBDA k : varied2(two[k]), Len(two))

MCFiles == ToSet(Edited)
=============================================================================
