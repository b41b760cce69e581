------------------------ MODULE WasmReferencesProofs ------------------------
(***************************************************************************)
(* What an accepted file may refer to, proved for every set of files: each *)
(* index was compared with the counts at the time its section was read,    *)
(* and what is read later neither removes what it names nor changes what   *)
(* it is.  And what shrinking leaves of a memory: see ShrinkInvariant.     *)
(***************************************************************************)
EXTENDS WasmSectionsProofs

-----------------------------------------------------------------------------
(* The invariant *)

Indexed == {"importTables", "tables", "start", "dataCount", "types", "importFuncs",
            "importMemory", "importGlobals", "functions", "memory", "globals", "exports",
            "segments", "datas", "symbols", "codeRelocs", "dataRelocs", "names",
            "malloc", "retain", "free"}

Shapes ==
  /\ Indexed \subseteq DOMAIN mod
  /\ IsSeq(mod.importFuncs) /\ IsSeq(mod.importMemory) /\ IsSeq(mod.importGlobals)
  /\ IsSeq(mod.memory) /\ IsSeq(mod.globals) /\ IsSeq(mod.exports) /\ IsSeq(mod.names)
  /\ IsSeq(mod.symbols) /\ IsSeq(mod.codeRelocs) /\ IsSeq(mod.dataRelocs)
  /\ IsSeq(mod.types) /\ IsSeq(mod.functions) /\ IsSeq(mod.segments) /\ IsSeq(mod.datas)
  /\ mod.importTables \in 0..1 /\ mod.tables \in Nat

Elements(s) == {s[i] : i \in DOMAIN s}

\* What each index names.
FunctionOk(f) ==
  f.type \in Nat /\ f.type < Len(mod.types) /\ mod.types[f.type + 1].sig = f.sig
ExportOk(e) == e.index \in Nat /\ e.index < IndexBelow(e.kind)
StartOk(f) == f \in Nat /\ f < FuncCount /\ SigOf(f) = "void"
SegmentOk(s) == \A j \in DOMAIN s.funcs : s.funcs[j] \in Nat /\ s.funcs[j] < FuncCount
NameOk(n) == n.index \in Nat /\ n.index < FuncCount
SymbolOk(s) ==
  s.type = "function" =>
    /\ s.index \in Nat /\ s.index < FuncCount
    /\ s.defined <=> s.index >= Len(mod.importFuncs)
RelocOk(r) == ~SymbolsReplaced => r.index \in Nat /\ RelocationResolves(r)

ElementsOk ==
  /\ \A f \in Elements(mod.functions) : FunctionOk(f)
  /\ \A e \in Elements(mod.exports) : ExportOk(e)
  /\ mod.start # Null => StartOk(mod.start)
  /\ \A s \in Elements(mod.segments) : SegmentOk(s)
  /\ \A n \in Elements(mod.names) : NameOk(n)
  /\ \A s \in Elements(mod.symbols) : SymbolOk(s)
  /\ \A r \in Elements(mod.codeRelocs) : RelocOk(r)
  /\ \A r \in Elements(mod.dataRelocs) : RelocOk(r)

\* A block is one type.
BlocksAreTypes ==
  \A t, u \in Elements(mod.types) : t.block = u.block => t.sig = u.sig

Ascending(n) ==
  \A p, q \in DOMAIN file :
    p < q /\ q < n /\ file[p].kind \notin Custom /\ file[q].kind \notin Custom =>
      Rank(file[p].kind) < Rank(file[q].kind)

\* Nothing is there before its section.
BegunInv ==
  /\ mod.importFuncs # <<>> => Begun("import")
  /\ mod.memory # <<>> => Begun("memory")
  /\ mod.globals # <<>> => Begun("global")
  /\ mod.exports # <<>> => Begun("export")
  /\ mod.start # Null => Begun("start")
  /\ mod.codeRelocs # <<>> => Begun("reloc.CODE")
  /\ mod.dataRelocs # <<>> => Begun("reloc.DATA")

\* While functions are imported nothing refers to them yet.
ImportsFirst ==
  pos <= Len(file) /\ Sec.kind = "import" =>
    /\ mod.functions = <<>> /\ mod.start = Null
    /\ \A s \in Elements(mod.symbols) : s.type # "function"

Passed(kind) == \E p \in DOMAIN file : p < pos /\ file[p].kind = kind

CountInv ==
  /\ pos <= Len(file) /\ Sec.kind = "function" /\ item > 0 =>
       Len(mod.functions) = item - 1 /\ Sec.count = CountOf("code")
  /\ pos <= Len(file) /\ Sec.kind = "data" /\ item > 0 =>
       Len(mod.datas) = item - 1 /\ DataCountAgrees
  /\ Passed("function") => Len(mod.functions) = CountOf("code")
  /\ Begun("code") => CountOf("code") = CountOf("function")
  /\ Passed("data") =>
       /\ Len(mod.datas) = CountOf("data")
       /\ mod.dataCount # Null => CountOf("data") = mod.dataCount

\* What Resolve leaves.
Counts ==
  /\ Len(mod.functions) = CountOf("code")
  /\ mod.dataCount # Null /\ CountOf("data") > 0 => Len(mod.datas) = mod.dataCount
  /\ \A f \in {mod.malloc, mod.retain, mod.free} \ {Null} :
       f \in Len(mod.importFuncs)..(FuncCount - 1)

ReadingInv == BegunInv /\ ImportsFirst /\ CountInv

XInv ==
  /\ phase \in {"start", "splitting"} => Ascending(pos)
  /\ phase = "loading" => Ascending(Len(file) + 1) /\ ReadingInv
  /\ phase \in {"loading", "preparing", "loaded"} => Shapes /\ ElementsOk /\ BlocksAreTypes
  /\ phase \in {"preparing", "loaded"} => Counts

LEMMA InitXInv == Init => XInv
<1> SUFFICES ASSUME Init PROVE XInv
  OBVIOUS
<1>1. phase = "start" /\ pos = 1
  BY DEF Init
<1>2. Ascending(pos)
  <2>1. \A f \in Files : Len(f) \in Nat /\ DOMAIN f = 1..Len(f)
    BY FilesAssumption
  <2>2. DOMAIN file \subseteq Nat \ {0}
    BY <2>1 DEF Init
  <2>3. \A p, q \in Nat \ {0} : ~(p < q /\ q < 1)
    OBVIOUS
  <2> QED
    BY <1>1, <2>2, <2>3 DEF Ascending
<1> QED
  BY <1>1, <1>2 DEF XInv

LEMMA XInvResolves == XInv => ReferencesResolve
<1> SUFFICES ASSUME XInv, phase = "loaded" PROVE ReferencesResolve
  BY DEF ReferencesResolve
<1>1. ElementsOk /\ Counts
  BY DEF XInv
<1>2. \A s : \A i \in DOMAIN s : s[i] \in Elements(s)
  BY DEF Elements
<1>3. /\ \A i \in DOMAIN mod.functions : FunctionOk(mod.functions[i])
      /\ \A i \in DOMAIN mod.exports : ExportOk(mod.exports[i])
      /\ \A i \in DOMAIN mod.segments : SegmentOk(mod.segments[i])
      /\ \A i \in DOMAIN mod.names : NameOk(mod.names[i])
      /\ \A i \in DOMAIN mod.symbols : SymbolOk(mod.symbols[i])
      /\ \A i \in DOMAIN mod.codeRelocs : RelocOk(mod.codeRelocs[i])
      /\ \A i \in DOMAIN mod.dataRelocs : RelocOk(mod.dataRelocs[i])
      /\ mod.start # Null => StartOk(mod.start)
  BY <1>1, <1>2 DEF ElementsOk
<1>4. /\ \A i \in DOMAIN mod.functions :
           LET f == mod.functions[i]
           IN f.type < Len(mod.types) /\ mod.types[f.type + 1].sig = f.sig
      /\ \A i \in DOMAIN mod.exports : mod.exports[i].index < IndexBelow(mod.exports[i].kind)
      /\ mod.start # Null => mod.start < FuncCount /\ SigOf(mod.start) = "void"
      /\ \A i \in DOMAIN mod.segments : \A j \in DOMAIN mod.segments[i].funcs :
           mod.segments[i].funcs[j] < FuncCount
      /\ \A i \in DOMAIN mod.names : mod.names[i].index < FuncCount
  BY <1>3 DEF FunctionOk, ExportOk, SegmentOk, NameOk, StartOk
<1>5. /\ \A i \in DOMAIN mod.symbols :
           LET s == mod.symbols[i]
           IN s.type = "function" =>
                s.index < FuncCount /\ (s.defined <=> s.index >= Len(mod.importFuncs))
      /\ ~SymbolsReplaced =>
           /\ \A i \in DOMAIN mod.codeRelocs : RelocationResolves(mod.codeRelocs[i])
           /\ \A i \in DOMAIN mod.dataRelocs : RelocationResolves(mod.dataRelocs[i])
  BY <1>3 DEF SymbolOk, RelocOk
<1> QED
  BY <1>1, <1>4, <1>5 DEF ReferencesResolve, Counts

-----------------------------------------------------------------------------
(* Sequences that grow, and what stays true of their elements *)

LEMMA AppendElements ==
  ASSUME NEW s, NEW e, IsSeq(s)
  PROVE  Elements(Append(s, e)) = Elements(s) \cup {e}
<1> DEFINE t == Append(s, e)
           n == Len(s) + 1
<1>1. DOMAIN t = DOMAIN s \cup {n} /\ t[n] = e /\ \A i \in DOMAIN s : t[i] = s[i]
  BY AppendEntries
<1> HIDE DEF t, n
<1>2. Elements(t) = Elements(s) \cup {e}
  BY <1>1 DEF Elements
<1> QED
  BY <1>2 DEF t

LEMMA NoElements == Elements(<<>>) = {}
BY EmptySeq DEF Elements

\* t is s, perhaps with more at its end.
Extends(s, t) == Len(s) <= Len(t) /\ \A i \in 1..Len(s) : t[i] = s[i]

LEMMA ExtendsSelf ==
  ASSUME NEW s, IsSeq(s)
  PROVE  Extends(s, s)
BY DEF IsSeq, Extends

LEMMA ExtendsAppend ==
  ASSUME NEW s, NEW e, IsSeq(s)
  PROVE  Extends(s, Append(s, e))
BY AppendEntries DEF Extends

LenOf(field) == Len(mod[field])

LEMMA CountsAre ==
  /\ FuncCount = LenOf("importFuncs") + LenOf("functions")
  /\ MemoryCount = LenOf("importMemory") + LenOf("memory")
  /\ GlobalCount = LenOf("importGlobals") + LenOf("globals")
  /\ TableCount = mod.importTables + mod.tables
BY DEF FuncCount, MemoryCount, GlobalCount, TableCount, LenOf

Naturals1 ==
  /\ LenOf("importFuncs") \in Nat /\ LenOf("functions") \in Nat
  /\ LenOf("importMemory") \in Nat /\ LenOf("memory") \in Nat
  /\ LenOf("importGlobals") \in Nat /\ LenOf("globals") \in Nat
  /\ LenOf("types") \in Nat /\ LenOf("symbols") \in Nat
  /\ mod.importTables \in Nat /\ mod.tables \in Nat
  /\ FuncCount \in Nat /\ LenOf("importFuncs") <= FuncCount
  /\ LenOf("functions") > 0 => FuncCount > 0
  /\ \A kind : IndexBelow(kind) \in Nat

LEMMA CountsNat == Shapes => Naturals1
<1> SUFFICES ASSUME Shapes PROVE Naturals1
  OBVIOUS
<1>1. /\ LenOf("importFuncs") \in Nat /\ LenOf("functions") \in Nat
      /\ LenOf("importMemory") \in Nat /\ LenOf("memory") \in Nat
      /\ LenOf("importGlobals") \in Nat /\ LenOf("globals") \in Nat
      /\ LenOf("types") \in Nat /\ LenOf("symbols") \in Nat
  BY DEF Shapes, IsSeq, LenOf
<1>2. mod.importTables \in Nat /\ mod.tables \in Nat
  BY DEF Shapes
<1>3. /\ FuncCount \in Nat /\ TableCount \in Nat /\ MemoryCount \in Nat /\ GlobalCount \in Nat
      /\ LenOf("importFuncs") <= FuncCount
      /\ LenOf("functions") > 0 => FuncCount > 0
  BY <1>1, <1>2, CountsAre
<1>4. \A kind : IndexBelow(kind) \in {FuncCount, TableCount, MemoryCount, GlobalCount, 0}
  BY DEF IndexBelow
<1>5. \A kind : IndexBelow(kind) \in Nat
  BY <1>3, <1>4
<1> QED
  BY <1>1, <1>2, <1>3, <1>5 DEF Naturals1

\* A step that only adds to what indices name.
Longer ==
  /\ Extends(mod.types, mod'.types) /\ Extends(mod.functions, mod'.functions)
  /\ \A field \in {"types", "functions", "importFuncs", "importMemory", "memory",
                   "importGlobals", "globals"} : LenOf(field) <= LenOf(field)'
  /\ mod.importTables <= mod'.importTables /\ mod.tables <= mod'.tables

LEMMA CountsGrow ==
  ASSUME Shapes, Shapes', Longer
  PROVE  /\ Naturals1 /\ Naturals1' /\ FuncCount <= FuncCount'
         /\ \A kind : IndexBelow(kind) <= IndexBelow(kind)'
<1>1. (Shapes => Naturals1)'
  BY CountsNat, PTL
<1>2. Naturals1 /\ Naturals1'
  BY <1>1, CountsNat
<1>3. (/\ FuncCount = LenOf("importFuncs") + LenOf("functions")
       /\ MemoryCount = LenOf("importMemory") + LenOf("memory")
       /\ GlobalCount = LenOf("importGlobals") + LenOf("globals")
       /\ TableCount = mod.importTables + mod.tables)'
  BY CountsAre, PTL
<1>4. FuncCount <= FuncCount'
  BY <1>2, <1>3, CountsAre DEF Naturals1, Longer
<1>5. MemoryCount <= MemoryCount'
  BY <1>2, <1>3, CountsAre DEF Naturals1, Longer
<1>6. GlobalCount <= GlobalCount'
  BY <1>2, <1>3, CountsAre DEF Naturals1, Longer
<1>7. TableCount <= TableCount'
  BY <1>2, <1>3, CountsAre DEF Naturals1, Longer
<1>8. \A kind : IndexBelow(kind) <= IndexBelow(kind)'
  BY <1>4, <1>5, <1>6, <1>7 DEF IndexBelow
<1> QED
  BY <1>2, <1>4, <1>8

LEMMA OkStays ==
  ASSUME Shapes, Shapes', Longer
  PROVE  /\ \A f : FunctionOk(f) => FunctionOk(f)'
         /\ \A e : ExportOk(e) => ExportOk(e)'
         /\ \A s : SegmentOk(s) => SegmentOk(s)'
         /\ \A n : NameOk(n) => NameOk(n)'
<1>1. /\ FuncCount \in Nat /\ FuncCount' \in Nat /\ FuncCount <= FuncCount'
      /\ LenOf("types") \in Nat /\ LenOf("types")' \in Nat
      /\ \A k : /\ IndexBelow(k) \in Nat /\ IndexBelow(k)' \in Nat
                /\ IndexBelow(k) <= IndexBelow(k)'
  BY CountsGrow DEF Naturals1
<1>2. ASSUME NEW f, FunctionOk(f) PROVE FunctionOk(f)'
  <2> DEFINE s == mod.types
             t == mod'.types
  <2>1. f.type \in Nat /\ f.type < Len(s) /\ s[f.type + 1].sig = f.sig
    BY <1>2 DEF FunctionOk
  <2>2. Len(s) \in Nat /\ Len(t) \in Nat /\ Len(s) <= Len(t) /\ \A i \in 1..Len(s) : t[i] = s[i]
    BY <1>1 DEF Longer, Extends, LenOf
  <2> HIDE DEF s, t
  <2>3. f.type < Len(t) /\ t[f.type + 1].sig = f.sig
    BY <2>1, <2>2
  <2> QED
    BY <2>1, <2>3 DEF FunctionOk, t
<1>3. \A e : ExportOk(e) => ExportOk(e)'
  BY <1>1 DEF ExportOk
<1>4. \A s : SegmentOk(s) => SegmentOk(s)'
  BY <1>1 DEF SegmentOk
<1>5. \A n : NameOk(n) => NameOk(n)'
  BY <1>1 DEF NameOk
<1> QED
  BY <1>2, <1>3, <1>4, <1>5

\* What tells imports from the module's own functions stays while no function
\* is imported.
LEMMA OwnStays ==
  ASSUME Shapes, Shapes', Longer, mod'.importFuncs = mod.importFuncs
  PROVE  /\ \A f : StartOk(f) => StartOk(f)'
         /\ \A s : SymbolOk(s) => SymbolOk(s)'
<1>1. /\ FuncCount \in Nat /\ FuncCount' \in Nat /\ FuncCount <= FuncCount'
      /\ LenOf("importFuncs") \in Nat /\ LenOf("functions") \in Nat
  BY CountsGrow DEF Naturals1
<1>2. \A f : f \in Nat /\ f < FuncCount => SigOf(f)' = SigOf(f)
  <2> SUFFICES ASSUME NEW f \in Nat, f < FuncCount PROVE SigOf(f)' = SigOf(f)
    OBVIOUS
  <2> DEFINE i == mod.importFuncs
             s == mod.functions
             t == mod'.functions
  <2>1. \A k \in 1..Len(s) : t[k] = s[k]
    BY DEF Longer, Extends
  <2>2. /\ SigOf(f) = IF f < Len(i) THEN i[f + 1] ELSE s[f - Len(i) + 1].sig
        /\ SigOf(f)' = IF f < Len(i) THEN i[f + 1] ELSE t[f - Len(i) + 1].sig
    BY DEF SigOf
  <2>3. Len(i) \in Nat /\ Len(s) \in Nat /\ f < Len(i) + Len(s)
    BY <1>1, CountsAre DEF LenOf
  <2> HIDE DEF i, s, t
  <2>4. ~(f < Len(i)) => f - Len(i) + 1 \in 1..Len(s)
    BY <2>3
  <2> QED
    BY <2>1, <2>2, <2>4
<1>3. \A f : StartOk(f) => StartOk(f)'
  BY <1>1, <1>2 DEF StartOk
<1>4. \A s : SymbolOk(s) => SymbolOk(s)'
  BY <1>1 DEF SymbolOk
<1> QED
  BY <1>3, <1>4

LEMMA RelocStays ==
  ASSUME Shapes, Shapes', UNCHANGED file,
         ~SymbolsReplaced => Extends(mod.symbols, mod'.symbols)
  PROVE  \A r : RelocOk(r) => RelocOk(r)'
<1> SUFFICES ASSUME NEW r, RelocOk(r) PROVE RelocOk(r)'
  OBVIOUS
<1>1. SymbolOf(r)' = SymbolOf(r) /\ (SymbolsReplaced' <=> SymbolsReplaced)
  BY DEF SymbolsReplaced, SymbolOf
<1> DEFINE s == mod.symbols
           t == mod'.symbols
<1>2. Len(s) \in Nat /\ Len(t) \in Nat
  BY DEF Shapes, IsSeq
<1>3. ASSUME ~SymbolsReplaced PROVE r.index \in Nat /\ RelocationResolves(r)'
  <2>1. /\ r.index \in Nat
        /\ SymbolOf(r) # {} => r.index < Len(s) /\ s[r.index + 1].type \in SymbolOf(r)
    BY <1>3 DEF RelocOk, RelocationResolves
  <2>2. Len(s) <= Len(t) /\ \A i \in 1..Len(s) : t[i] = s[i]
    BY <1>3 DEF Extends
  <2> HIDE DEF s, t
  <2>3. SymbolOf(r) # {} => r.index < Len(t) /\ t[r.index + 1].type \in SymbolOf(r)
    BY <1>2, <2>1, <2>2
  <2> QED
    BY <1>1, <2>1, <2>3 DEF RelocationResolves, t
<1> QED
  BY <1>1, <1>3 DEF RelocOk

-----------------------------------------------------------------------------
(* Entries *)

\* Which fields the entries of a section may change.
Readers ==
  { <<"type", "types">>, <<"import", "importFuncs">>, <<"import", "importTables">>,
    <<"import", "importMemory">>, <<"import", "importGlobals">>, <<"function", "functions">>,
    <<"table", "tables">>, <<"memory", "memory">>, <<"global", "globals">>,
    <<"export", "exports">>, <<"start", "start">>, <<"elem", "segments">>, <<"data", "datas">>,
    <<"linking", "symbols">>, <<"reloc.CODE", "codeRelocs">>, <<"reloc.DATA", "dataRelocs">>,
    <<"name", "names">> }

Only(field) ==
  Indexed \subseteq DOMAIN mod' /\ \A g \in Indexed : g # field => mod'[g] = mod[g]

LEMMA OnlyFacts ==
  ASSUME NEW field, Only(field)
  PROVE  /\ field # "importTables" => mod'.importTables = mod.importTables
         /\ field # "tables" => mod'.tables = mod.tables
         /\ field # "start" => mod'.start = mod.start
         /\ field # "dataCount" => mod'.dataCount = mod.dataCount
         /\ field # "types" => mod'.types = mod.types
         /\ field # "importFuncs" => mod'.importFuncs = mod.importFuncs
         /\ field # "importMemory" => mod'.importMemory = mod.importMemory
         /\ field # "importGlobals" => mod'.importGlobals = mod.importGlobals
         /\ field # "functions" => mod'.functions = mod.functions
         /\ field # "memory" => mod'.memory = mod.memory
         /\ field # "globals" => mod'.globals = mod.globals
         /\ field # "exports" => mod'.exports = mod.exports
         /\ field # "segments" => mod'.segments = mod.segments
         /\ field # "datas" => mod'.datas = mod.datas
         /\ field # "symbols" => mod'.symbols = mod.symbols
         /\ field # "codeRelocs" => mod'.codeRelocs = mod.codeRelocs
         /\ field # "dataRelocs" => mod'.dataRelocs = mod.dataRelocs
         /\ field # "names" => mod'.names = mod.names
BY DEF Only, Indexed

LEMMA NotPassed ==
  ASSUME RInv, LoadInv, pos <= Len(file), Sec.kind \notin Custom
  PROVE  \A k : k = Sec.kind => ~Passed(k)
<1>1. /\ Len(file) \in Nat /\ DOMAIN file = 1..Len(file) /\ pos \in DOMAIN file
  BY Positions
<1>2. pos < Len(file) + 1
  BY <1>1
<1>3. \A p \in DOMAIN file :
        p < pos /\ file[p].kind \notin Custom => file[p].kind # file[pos].kind
  BY <1>1, <1>2 DEF LoadInv, OnceBefore, Sec
<1> QED
  BY <1>3 DEF Passed, Sec

\* An entry changes one field, of its own section: what ReadingInv says of the
\* others stays, and the own section has begun.
LEMMA EntryGoesOn ==
  ASSUME RInv, LInv, XInv, phase = "loading", phase' = "loading", pos <= Len(file),
         item \in 1..Sec.count, item' = item + 1, UNCHANGED <<pos, file>>,
         NEW field, <<Sec.kind, field>> \in Readers, Only(field),
         field \in {"functions", "datas"} => Len(mod'[field]) = Len(mod[field]) + 1,
         Shapes', BlocksAreTypes', ElementsOk'
  PROVE  XInv'
<1>1. /\ Len(file) \in Nat /\ DOMAIN file = 1..Len(file) /\ pos \in Nat \ {0}
      /\ item \in Nat \ {0} /\ Sec.count \in Nat /\ pos \in DOMAIN file
  BY Positions
<1>2. LoadInv /\ ReadingInv /\ Ascending(Len(file) + 1)
  BY DEF LInv, XInv
<1>3. item' > 0 /\ item > 0 /\ item' - 1 = item
  BY <1>1
<1>4. \A p : Opened(p)' <=> Opened(p)
  BY <1>3 DEF Opened
<1>5. \A k : Begun(k)' <=> Begun(k)
  BY <1>4 DEF Begun
<1>6. \A k : k = Sec.kind => Begun(k)'
  <2>1. \A p : p = pos => Opened(p)'
    BY <1>1, <1>3 DEF Opened
  <2> QED
    BY <1>1, <2>1 DEF Begun, Sec
<1>7. \A k : /\ Passed(k)' <=> Passed(k)
             /\ CountOf(k)' = CountOf(k)
  BY DEF Passed, CountOf, Of
<1>8. Sec' = Sec
  BY DEF Sec
<1>9. /\ field = "importFuncs" => Sec.kind = "import"
      /\ field = "memory" => Sec.kind = "memory"
      /\ field = "globals" => Sec.kind = "global"
      /\ field = "exports" => Sec.kind = "export"
      /\ field = "start" => Sec.kind = "start"
      /\ field = "codeRelocs" => Sec.kind = "reloc.CODE"
      /\ field = "dataRelocs" => Sec.kind = "reloc.DATA"
      /\ field = "functions" <=> Sec.kind = "function"
      /\ field = "datas" <=> Sec.kind = "data"
      /\ field = "symbols" => Sec.kind = "linking"
      /\ field # "dataCount"
  BY DEF Readers
<1>10. BegunInv'
  BY <1>2, <1>5, <1>6, <1>9, OnlyFacts DEF ReadingInv, BegunInv
<1>11. ImportsFirst'
  <2>1. Sec.kind = "import" =>
          /\ mod'.functions = mod.functions /\ mod'.start = mod.start
          /\ mod'.symbols = mod.symbols
    BY <1>9, OnlyFacts
  <2> QED
    BY <1>2, <1>8, <2>1 DEF ReadingInv, ImportsFirst
<1>12. CountInv'
  <2>1. /\ Sec.kind = "function" => ~Passed("function")
        /\ Sec.kind = "data" => ~Passed("data")
    BY <1>2, NotPassed DEF Custom
  <2>2. /\ Sec.kind # "function" => mod'.functions = mod.functions
        /\ Sec.kind = "function" => Len(mod'.functions) = Len(mod.functions) + 1
        /\ Sec.kind # "data" => mod'.datas = mod.datas
        /\ Sec.kind = "data" => Len(mod'.datas) = Len(mod.datas) + 1
        /\ mod'.dataCount = mod.dataCount
    BY <1>9, OnlyFacts
  <2>3. DataCountAgrees' <=> DataCountAgrees
    BY <1>8, <2>2 DEF DataCountAgrees
  <2>4. CountInv
    BY <1>2 DEF ReadingInv
  <2> QED
    BY <1>1, <1>3, <1>5, <1>7, <1>8, <2>1, <2>2, <2>3, <2>4 DEF CountInv
<1>13. Ascending(Len(file) + 1)'
  BY <1>2 DEF Ascending
<1> QED
  BY <1>10, <1>11, <1>12, <1>13 DEF XInv, ReadingInv

\* The fields that are sequences.
Seqs == {"types", "importFuncs", "importMemory", "importGlobals", "functions", "memory",
         "globals", "exports", "segments", "datas", "symbols", "codeRelocs", "dataRelocs",
         "names"}

LEMMA ShapesAre ==
  Shapes <=> /\ Indexed \subseteq DOMAIN mod /\ \A g \in Seqs : IsSeq(mod[g])
             /\ mod.importTables \in 0..1 /\ mod.tables \in Nat
BY DEF Shapes, Seqs

LEMMA SeqsIndexed == Seqs \subseteq Indexed
BY DEF Seqs, Indexed

\* A step that leaves the sequences or makes them longer.
LEMMA GrowsShapes ==
  ASSUME Shapes, Indexed \subseteq DOMAIN mod',
         \A g \in Seqs : IsSeq(mod'[g]) /\ Extends(mod[g], mod'[g]),
         mod'.importTables \in 0..1 /\ mod.importTables <= mod'.importTables,
         mod'.tables \in Nat /\ mod.tables <= mod'.tables
  PROVE  Shapes' /\ Longer /\ Extends(mod.symbols, mod'.symbols)
<1>1. (Shapes <=> /\ Indexed \subseteq DOMAIN mod /\ \A g \in Seqs : IsSeq(mod[g])
                  /\ mod.importTables \in 0..1 /\ mod.tables \in Nat)'
  BY ShapesAre, PTL
<1>2. Shapes'
  BY <1>1
<1>3. /\ \A g \in Seqs : Len(mod[g]) <= Len(mod'[g])
      /\ Extends(mod.types, mod'.types) /\ Extends(mod.functions, mod'.functions)
      /\ Extends(mod.symbols, mod'.symbols)
  BY DEF Seqs, Extends
<1>4. Longer
  BY <1>3 DEF Longer, LenOf, Seqs
<1> QED
  BY <1>2, <1>3, <1>4

LEMMA OnlyGrows ==
  ASSUME Shapes, NEW field \in Seqs, Only(field), IsSeq(mod'[field]),
         Extends(mod[field], mod'[field])
  PROVE  Shapes' /\ Longer /\ Extends(mod.symbols, mod'.symbols)
<1>1. \A g \in Seqs : IsSeq(mod[g])
  BY ShapesAre
<1>2. ASSUME NEW g \in Seqs PROVE IsSeq(mod'[g]) /\ Extends(mod[g], mod'[g])
  <2>1. CASE g = field
    BY <2>1
  <2>2. CASE g # field
    <3>1. mod'[g] = mod[g]
      BY <2>2, SeqsIndexed DEF Only
    <3> QED
      BY <1>1, <3>1, ExtendsSelf
  <2> QED
    BY <2>1, <2>2
<1>3. /\ mod'.importTables = mod.importTables /\ mod'.tables = mod.tables
      /\ field \notin {"importTables", "tables"}
  <2>1. field \notin {"importTables", "tables"}
    BY DEF Seqs
  <2> QED
    BY <2>1, OnlyFacts
<1>4. mod.importTables \in 0..1 /\ mod.tables \in Nat
  BY ShapesAre
<1> QED
  BY <1>2, <1>3, <1>4, GrowsShapes DEF Only

LEMMA AddFacts ==
  ASSUME Shapes, NEW field \in Seqs, NEW e, Add(field, e)
  PROVE  /\ Only(field) /\ mod'[field] = Append(mod[field], e)
         /\ IsSeq(mod[field]) /\ IsSeq(mod'[field]) /\ Extends(mod[field], mod'[field])
         /\ Len(mod'[field]) = Len(mod[field]) + 1
         /\ Elements(mod'[field]) = Elements(mod[field]) \cup {e}
<1>1. IsSeq(mod[field]) /\ Indexed \subseteq DOMAIN mod /\ field \in DOMAIN mod
  BY ShapesAre, SeqsIndexed
<1>2. Only(field) /\ mod'[field] = Append(mod[field], e)
  BY <1>1 DEF Add, Only
<1> QED
  BY <1>1, <1>2, AppendEntries, AppendElements, ExtendsAppend

\* What indices name stays, and they name it still.
Stays ==
  /\ \A f : FunctionOk(f) => FunctionOk(f)'
  /\ \A e : ExportOk(e) => ExportOk(e)'
  /\ \A f : StartOk(f) => StartOk(f)'
  /\ \A s : SegmentOk(s) => SegmentOk(s)'
  /\ \A n : NameOk(n) => NameOk(n)'
  /\ \A s : SymbolOk(s) => SymbolOk(s)'
  /\ \A r : RelocOk(r) => RelocOk(r)'

\* An entry that is right when it is read is right afterwards.
LEMMA ElementsStay ==
  ASSUME ElementsOk, Stays, NEW field, Only(field), NEW e,
         field \in Seqs => Elements(mod'[field]) = Elements(mod[field]) \cup {e},
         field = "functions" => FunctionOk(e),
         field = "exports" => ExportOk(e),
         field = "start" => mod'.start = e /\ StartOk(e),
         field = "segments" => SegmentOk(e),
         field = "names" => NameOk(e),
         field = "symbols" => SymbolOk(e),
         field \in {"codeRelocs", "dataRelocs"} => RelocOk(e)
  PROVE  ElementsOk'
<1>1. \A g \in Seqs : g # field => Elements(mod'[g]) = Elements(mod[g])
  BY SeqsIndexed DEF Only, Elements
<1>2. \A f \in Elements(mod'.functions) : FunctionOk(f)'
  <2>1. \A f \in Elements(mod'.functions) : FunctionOk(f)
    BY <1>1 DEF ElementsOk, Seqs
  <2> QED
    BY <2>1 DEF Stays
<1>3. \A x \in Elements(mod'.exports) : ExportOk(x)'
  <2>1. \A x \in Elements(mod'.exports) : ExportOk(x)
    BY <1>1 DEF ElementsOk, Seqs
  <2> QED
    BY <2>1 DEF Stays
<1>4. (mod.start # Null => StartOk(mod.start))'
  <2>1. mod'.start # Null => StartOk(mod'.start)
    BY OnlyFacts DEF ElementsOk
  <2>2. \A f : f = mod'.start => (f # Null => StartOk(f)')
    BY <2>1 DEF Stays
  <2> QED
    BY <2>2 DEF StartOk
<1>5. \A s \in Elements(mod'.segments) : SegmentOk(s)'
  <2>1. \A s \in Elements(mod'.segments) : SegmentOk(s)
    BY <1>1 DEF ElementsOk, Seqs
  <2> QED
    BY <2>1 DEF Stays
<1>6. \A n \in Elements(mod'.names) : NameOk(n)'
  <2>1. \A n \in Elements(mod'.names) : NameOk(n)
    BY <1>1 DEF ElementsOk, Seqs
  <2> QED
    BY <2>1 DEF Stays
<1>7. \A s \in Elements(mod'.symbols) : SymbolOk(s)'
  <2>1. \A s \in Elements(mod'.symbols) : SymbolOk(s)
    BY <1>1 DEF ElementsOk, Seqs
  <2> QED
    BY <2>1 DEF Stays
<1>8. \A r \in Elements(mod'.codeRelocs) \cup Elements(mod'.dataRelocs) : RelocOk(r)'
  <2>1. \A r \in Elements(mod'.codeRelocs) \cup Elements(mod'.dataRelocs) : RelocOk(r)
    BY <1>1 DEF ElementsOk, Seqs
  <2> QED
    BY <2>1 DEF Stays
<1> QED
  BY <1>2, <1>3, <1>4, <1>5, <1>6, <1>7, <1>8 DEF ElementsOk

LEMMA GrownStays ==
  ASSUME Shapes, Shapes', Longer, Extends(mod.symbols, mod'.symbols),
         mod'.importFuncs = mod.importFuncs, UNCHANGED file
  PROVE  Stays
BY OkStays, OwnStays, RelocStays DEF Stays

Entry == phase = "loading" /\ pos <= Len(file) /\ item \in 1..Sec.count

\* An entry that is added to a field, but not an imported function.
LEMMA EntryAdds ==
  ASSUME RInv, LInv, XInv, Entry, Next1,
         NEW field \in Seqs, <<Sec.kind, field>> \in Readers, field # "importFuncs",
         NEW e, Add(field, e),
         field = "types" => BlocksAreTypes',
         field = "functions" => FunctionOk(e),
         field = "exports" => ExportOk(e),
         field = "segments" => SegmentOk(e),
         field = "names" => NameOk(e),
         field = "symbols" => SymbolOk(e),
         field \in {"codeRelocs", "dataRelocs"} => RelocOk(e)
  PROVE  XInv'
<1>1. /\ phase = "loading" /\ phase' = "loading" /\ item' = item + 1
      /\ UNCHANGED <<pos, file>>
  BY DEF Entry, Next1, loading
<1>2. Shapes /\ ElementsOk /\ BlocksAreTypes
  BY <1>1 DEF XInv
<1>3. /\ Only(field) /\ IsSeq(mod'[field]) /\ Extends(mod[field], mod'[field])
      /\ Len(mod'[field]) = Len(mod[field]) + 1
      /\ Elements(mod'[field]) = Elements(mod[field]) \cup {e}
  BY <1>2, AddFacts
<1>4. Shapes' /\ Longer /\ Extends(mod.symbols, mod'.symbols)
  BY <1>2, <1>3, OnlyGrows
<1>5. mod'.importFuncs = mod.importFuncs /\ (field # "types" => mod'.types = mod.types)
  BY <1>3, OnlyFacts
<1>6. Stays
  BY <1>1, <1>2, <1>4, <1>5, GrownStays
<1>7. ElementsOk'
  <2>1. field # "start"
    BY DEF Seqs
  <2> QED
    BY <1>2, <1>3, <1>6, <2>1, ElementsStay
<1>8. BlocksAreTypes'
  BY <1>2, <1>5 DEF BlocksAreTypes
<1> QED
  BY <1>1, <1>3, <1>4, <1>7, <1>8, EntryGoesOn DEF Entry

\* Indices that the file gives are numbers.
LEMMA IndexFacts ==
  ASSUME RInv, Entry, item <= Len(Sec.items)
  PROVE  /\ Sec.kind \in {"function", "start"} => It \in Nat
         /\ Sec.kind \in {"export", "name", "linking", "reloc.CODE", "reloc.DATA"} =>
              It.index \in Nat
         /\ Sec.kind = "elem" => \A k \in DOMAIN It.funcs : It.funcs[k] \in Nat
<1>1. \A f \in Files : \A p \in 1..Len(f) : \A i \in 1..Len(f[p].items) :
        /\ f[p].kind \in {"function", "start"} => f[p].items[i] \in Nat
        /\ f[p].kind \in {"export", "name", "linking", "reloc.CODE", "reloc.DATA"} =>
             f[p].items[i].index \in Nat
        /\ f[p].kind = "elem" =>
             \A k \in DOMAIN f[p].items[i].funcs : f[p].items[i].funcs[k] \in Nat
  BY IndicesAssumption
<1>2. /\ file \in Files /\ Len(file) \in Nat /\ pos \in 1..Len(file)
      /\ item \in Nat \ {0} /\ Sec.count \in Nat
  BY Positions DEF Entry
<1>3. Len(Sec.items) \in Int => item \in 1..Len(Sec.items)
  BY <1>2
<1> QED
  BY <1>1, <1>2, <1>3 DEF Sec, It

\* Memories, globals and data segments refer to nothing that is looked up.
LEMMA PlainEntries ==
  ASSUME RInv, LInv, XInv, LoadMemory \/ LoadGlobal \/ LoadData
  PROVE  XInv'
<1>1. CASE LoadMemory
  <2>1. /\ Entry /\ Next1 /\ <<Sec.kind, "memory">> \in Readers /\ Add("memory", Memory)
    BY <1>1 DEF LoadMemory, At, Entry, Readers
  <2> QED
    BY <2>1, EntryAdds DEF Seqs
<1>2. CASE LoadGlobal
  <2>1. /\ Entry /\ Next1 /\ <<Sec.kind, "globals">> \in Readers /\ Add("globals", It)
    BY <1>2 DEF LoadGlobal, At, Entry, Readers
  <2> QED
    BY <2>1, EntryAdds DEF Seqs
<1>3. CASE LoadData
  <2>1. /\ Entry /\ Next1 /\ <<Sec.kind, "datas">> \in Readers /\ Add("datas", Data)
    BY <1>3 DEF LoadData, At, Entry, Readers
  <2> QED
    BY <2>1, EntryAdds DEF Seqs
<1> QED
  BY <1>1, <1>2, <1>3

\* An export names something of its kind, a segment functions.
LEMMA ExportRefers ==
  ASSUME RInv, LInv, XInv, LoadExport
  PROVE  XInv'
<1>1. /\ Entry /\ Next1 /\ <<Sec.kind, "exports">> \in Readers /\ Add("exports", It)
      /\ Sec.kind = "export" /\ item <= Len(Sec.items) /\ It.index < IndexBelow(It.kind)
  BY DEF LoadExport, ExportAccepted, At, Entry, Readers
<1>2. ExportOk(It)
  BY <1>1, IndexFacts DEF ExportOk
<1> QED
  BY <1>1, <1>2, EntryAdds DEF Seqs

LEMMA SegmentRefers ==
  ASSUME RInv, LInv, XInv, LoadElem
  PROVE  XInv'
<1>1. /\ Entry /\ Next1 /\ <<Sec.kind, "segments">> \in Readers /\ Add("segments", Segment)
      /\ Sec.kind = "elem" /\ item <= Len(Sec.items)
      /\ \A i \in DOMAIN It.funcs : It.funcs[i] < FuncCount
  BY DEF LoadElem, SegmentFuncs, At, Entry, Readers
<1>2. Segment.funcs = It.funcs
  BY DEF Segment
<1>3. SegmentOk(Segment)
  BY <1>1, <1>2, IndexFacts DEF SegmentOk
<1> QED
  BY <1>1, <1>3, EntryAdds DEF Seqs

\* A function symbol names an import or a function of the module's own.
LEMMA SymbolRefers ==
  ASSUME RInv, LInv, XInv, LoadSymbol
  PROVE  XInv'
<1>1. /\ Entry /\ Next1 /\ <<Sec.kind, "symbols">> \in Readers /\ Add("symbols", It)
      /\ Sec.kind = "linking" /\ item <= Len(Sec.items) /\ SymbolAccepted
  BY DEF LoadSymbol, At, Entry, Readers
<1>2. It.type = "function" => RightHalf(Len(mod.importFuncs), FuncCount)
  BY <1>1 DEF SymbolAccepted
<1>3. SymbolOk(It)
  BY <1>1, <1>2, IndexFacts DEF SymbolOk, RightHalf
<1> QED
  BY <1>1, <1>3, EntryAdds DEF Seqs

\* A relocation names a symbol of its type.
LEMMA RelocRefers ==
  ASSUME RInv, LInv, XInv, LoadReloc
  PROVE  XInv'
<1>1. /\ Entry /\ Next1 /\ <<Sec.kind, Relocs>> \in Readers /\ Add(Relocs, It)
      /\ Sec.kind \in {"reloc.CODE", "reloc.DATA"} /\ item <= Len(Sec.items)
      /\ TargetAccepted /\ Relocs \in {"codeRelocs", "dataRelocs"}
  BY DEF LoadReloc, RelocAccepted, Relocs, At, Entry, Readers
<1>2. It.index \in Nat
  BY <1>1, IndexFacts
<1> DEFINE r == It
<1>3. /\ r.type \in {"function", "function_offset"} => IsSymbol(r.index, "function")
      /\ r.type = "table_number" => IsSymbol(r.index, "table")
      /\ r.type \in {"memory", "memory64"} => IsSymbol(r.index, "data")
  BY <1>1 DEF TargetAccepted
<1> HIDE DEF r
<1>4. RelocationResolves(r)
  <2>1. CASE r.type \in {"function", "function_offset"}
    BY <1>3, <2>1 DEF RelocationResolves, SymbolOf, IsSymbol
  <2>2. CASE r.type = "table_number"
    BY <1>3, <2>2 DEF RelocationResolves, SymbolOf, IsSymbol
  <2>3. CASE r.type \in {"memory", "memory64"}
    BY <1>3, <2>3 DEF RelocationResolves, SymbolOf, IsSymbol
  <2>4. CASE r.type \notin {"function", "function_offset", "table_number", "memory", "memory64"}
    <3>1. SymbolOf(r) = {}
      BY <2>4 DEF SymbolOf
    <3> QED
      BY <3>1 DEF RelocationResolves
  <2> QED
    BY <2>1, <2>2, <2>3, <2>4
<1>5. RelocOk(It)
  BY <1>2, <1>4 DEF RelocOk, r
<1> QED
  BY <1>1, <1>5, EntryAdds DEF Seqs

\* A new type has a block of its own; an equal one is the type read before.
LEMMA TypeRefers ==
  ASSUME RInv, LInv, XInv, LoadNewType \/ LoadSameType
  PROVE  XInv'
<1>1. /\ At("type") /\ Entry /\ Next1 /\ <<Sec.kind, "types">> \in Readers
      /\ phase = "loading" /\ Sec.kind = "type"
  BY DEF LoadNewType, LoadSameType, At, Entry, Readers
<1>2. Shapes /\ BlocksAreTypes
  BY <1>1 DEF XInv
<1>3. ASSUME NEW e, Add("types", e)
      PROVE  Elements(mod'.types) = Elements(mod.types) \cup {e}
  <2>1. "types" \in Seqs
    BY DEF Seqs
  <2> QED
    BY <1>2, <1>3, <2>1, AddFacts
<1>4. CASE LoadNewType
  <2> DEFINE e == [block |-> EntryBlock, sig |-> It]
  <2>1. Add("types", e) /\ e.block = EntryBlock
    BY <1>4 DEF LoadNewType
  <2>2. EntryBlock = <<"type", pos, item>>
    BY <1>1 DEF EntryBlock
  <2> HIDE DEF e
  <2>3. \A t \in Elements(mod.types) : t.block # e.block
    <3>1. /\ item \in Nat \ {0}
          /\ \A i \in DOMAIN mod.types :
               \E j \in 1..(item - 1) : mod.types[i].block = <<"type", pos, j>>
      BY <1>1, TypeFacts
    <3>2. item \notin 1..(item - 1)
      BY <3>1
    <3> QED
      BY <2>1, <2>2, <3>1, <3>2 DEF Elements
  <2>4. Elements(mod'.types) = Elements(mod.types) \cup {e}
    BY <1>3, <2>1
  <2>5. BlocksAreTypes'
    BY <1>2, <2>3, <2>4 DEF BlocksAreTypes
  <2> QED
    BY <1>1, <2>1, <2>5, EntryAdds DEF Seqs
<1>5. CASE LoadSameType
  <2> DEFINE e == mod.types[FirstSame]
  <2>1. Add("types", e) /\ SameTypes # {}
    BY <1>5 DEF LoadSameType
  <2>2. FirstSame \in DOMAIN mod.types
    <3>1. DOMAIN mod.types = 1..(item - 1)
      BY <1>1, TypeFacts
    <3>2. SameTypes \subseteq 1..(item - 1) /\ SameTypes \subseteq Nat
      BY DEF SameTypes
    <3>3. FirstSame = Least(SameTypes)
      BY DEF FirstSame, Least
    <3> QED
      BY <2>1, <3>1, <3>2, <3>3, LeastIsLeast
  <2>3. e \in Elements(mod.types)
    BY <2>2 DEF Elements
  <2> HIDE DEF e
  <2>4. Elements(mod'.types) = Elements(mod.types)
    BY <1>3, <2>1, <2>3
  <2>5. BlocksAreTypes'
    BY <1>2, <2>4 DEF BlocksAreTypes
  <2> QED
    BY <1>1, <2>1, <2>5, EntryAdds DEF Seqs
<1> QED
  BY <1>4, <1>5

\* The first index of a type's block names that type.
LEMMA SmallestIsType ==
  ASSUME Shapes, BlocksAreTypes, NEW t \in Nat, t < Len(mod.types)
  PROVE  /\ SmallestTypeIdx(t) \in Nat /\ SmallestTypeIdx(t) < Len(mod.types)
         /\ mod.types[SmallestTypeIdx(t) + 1].sig = mod.types[t + 1].sig
<1> DEFINE s == mod.types
           b == s[t + 1].block
           T == {i \in DOMAIN s : s[i].block = b}
           First(i) == s[i].block = b /\ \A j \in 1..(i - 1) : s[j].block # s[i].block
           c == CHOOSE i \in DOMAIN s : First(i)
<1>1. SmallestTypeIdx(t) = c - 1
  BY DEF SmallestTypeIdx
<1>2. Len(s) \in Nat /\ DOMAIN s = 1..Len(s) /\ \A i \in DOMAIN s : s[i] \in Elements(s)
  BY DEF Shapes, IsSeq, Elements
<1>3. \A i, j \in DOMAIN s : s[i].block = s[j].block => s[i].sig = s[j].sig
  BY <1>2 DEF BlocksAreTypes
<1> HIDE DEF s, b
<1>4. t + 1 \in DOMAIN s /\ s[t + 1].block = b
  <2>1. t < Len(s)
    BY DEF s
  <2> QED
    BY <1>2, <2>1 DEF b
<1>5. T \subseteq Nat /\ T # {}
  BY <1>2, <1>4
<1>6. Least(T) \in T /\ \A y \in T : Least(T) <= y
  BY <1>5, LeastIsLeast
<1>7. Least(T) \in DOMAIN s /\ First(Least(T))
  <2> DEFINE k == Least(T)
  <2>1. k \in DOMAIN s /\ s[k].block = b /\ k \in Nat
    BY <1>5, <1>6
  <2>2. \A j \in 1..(k - 1) : j \notin T
    <3> HIDE DEF k, T
    <3>1. \A y \in T : k <= y
      BY <1>6 DEF k
    <3> QED
      BY <2>1, <3>1
  <2>3. \A j \in 1..(k - 1) : s[j].block # b
    <3> HIDE DEF k
    <3>1. 1..(k - 1) \subseteq DOMAIN s
      BY <1>2, <2>1
    <3> QED
      BY <2>2, <3>1
  <2> QED
    BY <2>1, <2>3
<1> HIDE DEF First
<1>8. c \in DOMAIN s /\ First(c)
  BY <1>7
<1>9. s[c].sig = s[t + 1].sig /\ c \in 1..Len(s)
  BY <1>2, <1>3, <1>4, <1>8 DEF First
<1> HIDE DEF c
<1>10. c - 1 \in Nat /\ c - 1 < Len(s) /\ c - 1 + 1 = c
  BY <1>2, <1>9
<1> QED
  BY <1>1, <1>9, <1>10 DEF s

LEMMA FunctionRefers ==
  ASSUME RInv, LInv, XInv, LoadFunction
  PROVE  XInv'
<1>1. /\ Entry /\ Next1 /\ <<Sec.kind, "functions">> \in Readers
      /\ phase = "loading" /\ Sec.kind = "function" /\ item <= Len(Sec.items)
      /\ It < Len(mod.types)
  BY DEF LoadFunction, FunctionAccepted, At, Entry, Readers
<1>2. PICK o : Add("functions", Function(o))
  BY DEF LoadFunction
<1>3. Shapes /\ BlocksAreTypes /\ It \in Nat
  BY <1>1, IndexFacts DEF XInv
<1> DEFINE f == Function(o)
<1>4. f.type = SmallestTypeIdx(It) /\ f.sig = mod.types[It + 1].sig
  BY DEF Function
<1> HIDE DEF f
<1>5. \A t : t = It => /\ SmallestTypeIdx(t) \in Nat /\ SmallestTypeIdx(t) < Len(mod.types)
                       /\ mod.types[SmallestTypeIdx(t) + 1].sig = mod.types[t + 1].sig
  BY <1>1, <1>3, SmallestIsType
<1>6. FunctionOk(f)
  BY <1>4, <1>5 DEF FunctionOk
<1> QED
  BY <1>1, <1>2, <1>6, EntryAdds DEF Seqs, f

\* A table is counted, and the start function is noted.
LEMMA NumberGrows ==
  ASSUME Shapes, NEW field, field \in {"importTables", "tables", "start"}, Only(field),
         mod'.importTables \in 0..1 /\ mod.importTables <= mod'.importTables,
         mod'.tables \in Nat /\ mod.tables <= mod'.tables
  PROVE  Shapes' /\ Longer /\ Extends(mod.symbols, mod'.symbols)
<1>1. \A g \in Seqs : IsSeq(mod[g])
  BY ShapesAre
<1>2. ASSUME NEW g \in Seqs PROVE IsSeq(mod'[g]) /\ Extends(mod[g], mod'[g])
  <2>1. mod'[g] = mod[g]
    <3>1. g \in Indexed /\ g # field
      BY SeqsIndexed DEF Seqs
    <3> QED
      BY <3>1 DEF Only
  <2> QED
    BY <1>1, <2>1, ExtendsSelf
<1> QED
  BY <1>2, GrowsShapes DEF Only

LEMMA EntryCounts ==
  ASSUME RInv, LInv, XInv, Entry, Next1,
         NEW field, field \in {"importTables", "tables", "start"},
         <<Sec.kind, field>> \in Readers, Only(field),
         mod'.importTables \in 0..1 /\ mod.importTables <= mod'.importTables,
         mod'.tables \in Nat /\ mod.tables <= mod'.tables,
         NEW e, field = "start" => mod'.start = e /\ StartOk(e)
  PROVE  XInv'
<1>1. /\ phase = "loading" /\ phase' = "loading" /\ item' = item + 1
      /\ UNCHANGED <<pos, file>>
  BY DEF Entry, Next1, loading
<1>2. Shapes /\ ElementsOk /\ BlocksAreTypes
  BY <1>1 DEF XInv
<1>3. Shapes' /\ Longer /\ Extends(mod.symbols, mod'.symbols)
  BY <1>2, NumberGrows
<1>4. mod'.importFuncs = mod.importFuncs /\ mod'.types = mod.types
  BY OnlyFacts
<1>5. Stays
  BY <1>1, <1>2, <1>3, <1>4, GrownStays
<1>6. /\ field \notin Seqs
      /\ field \notin {"functions", "exports", "segments", "names", "symbols",
                       "codeRelocs", "dataRelocs", "datas"}
  BY DEF Seqs
<1>7. ElementsOk'
  BY <1>2, <1>5, <1>6, ElementsStay
<1>8. BlocksAreTypes'
  BY <1>2, <1>4 DEF BlocksAreTypes
<1> QED
  BY <1>1, <1>3, <1>6, <1>7, <1>8, EntryGoesOn DEF Entry

LEMMA TableCounts ==
  ASSUME RInv, LInv, XInv, LoadTable
  PROVE  XInv'
<1>1. /\ Entry /\ Next1 /\ <<Sec.kind, "tables">> \in Readers /\ phase = "loading"
      /\ mod' = [mod EXCEPT !["tables"] = @ + 1]
  BY DEF LoadTable, At, Entry, Readers
<1>2. Shapes
  BY <1>1 DEF XInv
<1>3. Only("tables") /\ mod'.tables = mod.tables + 1 /\ mod'.importTables = mod.importTables
  BY <1>1, <1>2 DEF Shapes, Only, Indexed
<1>4. mod.tables \in Nat /\ mod.importTables \in 0..1
  BY <1>2 DEF Shapes
<1>5. mod.importTables <= mod'.importTables /\ mod.tables <= mod'.tables /\ mod'.tables \in Nat
  BY <1>3, <1>4
<1> QED
  BY <1>1, <1>3, <1>4, <1>5, EntryCounts

LEMMA StartRefers ==
  ASSUME RInv, LInv, XInv, LoadStart
  PROVE  XInv'
<1>1. /\ Entry /\ Next1 /\ <<Sec.kind, "start">> \in Readers /\ phase = "loading"
      /\ mod' = [mod EXCEPT !["start"] = It] /\ Sec.kind = "start" /\ item <= Len(Sec.items)
      /\ It < FuncCount /\ SigOf(It) = "void"
  BY DEF LoadStart, StartAccepted, At, Entry, Readers
<1>2. Shapes
  BY <1>1 DEF XInv
<1>3. /\ Only("start") /\ mod'.tables = mod.tables /\ mod'.importTables = mod.importTables
      /\ mod'.start = It
  BY <1>1, <1>2 DEF Shapes, Only, Indexed
<1>4. mod.tables \in Nat /\ mod.importTables \in 0..1
  BY <1>2 DEF Shapes
<1>5. /\ mod.importTables <= mod'.importTables /\ mod.tables <= mod'.tables
      /\ mod'.tables \in Nat /\ mod'.importTables \in 0..1
  BY <1>3, <1>4
<1>6. StartOk(It)
  BY <1>1, IndexFacts DEF StartOk
<1> QED
  BY <1>1, <1>3, <1>5, <1>6, EntryCounts

\* A function that is imported moves the module's own up: nothing names them
\* by an index yet, but what has the same index as before has it still.
LEMMA ImportRefers ==
  ASSUME RInv, LInv, XInv, LoadImport
  PROVE  XInv'
<1>1. /\ Entry /\ Next1 /\ phase = "loading" /\ phase' = "loading" /\ Sec.kind = "import"
      /\ item' = item + 1 /\ UNCHANGED <<pos, file>>
  BY DEF LoadImport, At, Entry, Next1, loading
<1>2. Shapes /\ ElementsOk /\ BlocksAreTypes /\ ImportsFirst
  BY <1>1 DEF XInv, ReadingInv
<1>3. /\ <<Sec.kind, "importFuncs">> \in Readers /\ <<Sec.kind, "importGlobals">> \in Readers
      /\ <<Sec.kind, "importMemory">> \in Readers /\ <<Sec.kind, "importTables">> \in Readers
  BY <1>1 DEF Readers
<1>4. ASSUME NEW sig, Add("importFuncs", sig) PROVE XInv'
  <2>1. "importFuncs" \in Seqs
    BY DEF Seqs
  <2>2. /\ Only("importFuncs") /\ IsSeq(mod'.importFuncs)
        /\ Extends(mod.importFuncs, mod'.importFuncs)
    BY <1>2, <1>4, <2>1, AddFacts
  <2>3. Shapes' /\ Longer /\ Extends(mod.symbols, mod'.symbols)
    BY <1>2, <2>1, <2>2, OnlyGrows
  <2>4. /\ \A x : ExportOk(x) => ExportOk(x)'
        /\ \A s : SegmentOk(s) => SegmentOk(s)'
        /\ \A n : NameOk(n) => NameOk(n)'
        /\ \A r : RelocOk(r) => RelocOk(r)'
    BY <1>1, <1>2, <2>3, OkStays, RelocStays
  <2>5. /\ mod'.functions = <<>> /\ mod'.start = Null
        /\ \A s \in Elements(mod'.symbols) : s.type # "function"
        /\ mod'.types = mod.types /\ mod'.exports = mod.exports
        /\ mod'.segments = mod.segments /\ mod'.names = mod.names
        /\ mod'.codeRelocs = mod.codeRelocs /\ mod'.dataRelocs = mod.dataRelocs
    BY <1>1, <1>2, <2>2, OnlyFacts DEF ImportsFirst, Entry
  <2>6. \A s \in Elements(mod'.symbols) : SymbolOk(s)'
    BY <2>5 DEF SymbolOk
  <2>7. ElementsOk'
    BY <1>2, <2>4, <2>5, <2>6, NoElements DEF ElementsOk
  <2>8. BlocksAreTypes'
    BY <1>2, <2>5 DEF BlocksAreTypes
  <2> QED
    BY <1>1, <1>3, <2>2, <2>3, <2>7, <2>8, EntryGoesOn DEF Entry
<1>5. ASSUME NEW e, Add("importGlobals", e) PROVE XInv'
  BY <1>1, <1>3, <1>5, EntryAdds DEF Seqs
<1>6. ASSUME NEW e, Add("importMemory", e) PROVE XInv'
  BY <1>1, <1>3, <1>6, EntryAdds DEF Seqs
<1>7. ASSUME mod' = [mod EXCEPT !["importTables"] = 1] PROVE XInv'
  <2>1. /\ Only("importTables") /\ mod'.tables = mod.tables /\ mod'.importTables = 1
    BY <1>2, <1>7 DEF Shapes, Only, Indexed
  <2>2. mod.tables \in Nat /\ mod.importTables \in 0..1
    BY <1>2 DEF Shapes
  <2>3. /\ mod.importTables <= mod'.importTables /\ mod.tables <= mod'.tables
        /\ mod'.tables \in Nat /\ mod'.importTables \in 0..1
    BY <2>1, <2>2
  <2> QED
    BY <1>1, <1>3, <2>1, <2>3, EntryCounts
<1> QED
  BY <1>4, <1>5, <1>6, <1>7 DEF LoadImport

\* A name is kept when its function is the module's own.
LEMMA NameRefers ==
  ASSUME RInv, LInv, XInv, LoadName
  PROVE  XInv'
<1>1. /\ Entry /\ Next1 /\ phase = "loading" /\ phase' = "loading" /\ Sec.kind = "name"
      /\ item' = item + 1 /\ UNCHANGED <<pos, file>> /\ item <= Len(Sec.items)
      /\ OwnName => It.index < FuncCount
      /\ <<Sec.kind, "names">> \in Readers
  BY DEF LoadName, NameAccepted, At, Entry, Next1, loading, Readers
<1>2. Shapes /\ ElementsOk /\ BlocksAreTypes
  BY <1>1 DEF XInv
<1> DEFINE m == [mod EXCEPT !["names"] = IF OwnName THEN Append(@, It) ELSE @]
<1>3. /\ Indexed \subseteq DOMAIN m /\ \A g \in Indexed : g # "names" => m[g] = mod[g]
      /\ m.names = IF OwnName THEN Append(mod.names, It) ELSE mod.names
  BY <1>2 DEF Shapes, Indexed
<1>4. PICK S : mod' = [m EXCEPT !["strings"] = S]
  <2> DEFINE S == IF NeedsString THEN m.strings \cup {[str |-> It.str, block |-> EntryBlock]}
                  ELSE m.strings
  <2>1. mod' = [m EXCEPT !["strings"] = S]
    BY DEF LoadName
  <2> QED
    BY <2>1
<1> HIDE DEF m
<1>5. "strings" \notin Indexed /\ "names" \in Seqs
  BY DEF Indexed, Seqs
<1>6. Only("names") /\ mod'.names = m.names
  BY <1>3, <1>4, <1>5, SeqsIndexed DEF Only
<1>7. IsSeq(mod.names)
  BY <1>2 DEF Shapes
<1>8. PICK n : \/ NameOk(n) /\ Elements(mod'.names) = Elements(mod.names) \cup {n}
               \/ mod'.names = mod.names
  <2>1. CASE OwnName
    <3>1. NameOk(It)
      BY <1>1, <2>1, IndexFacts DEF NameOk
    <3>2. mod'.names = Append(mod.names, It)
      BY <1>3, <1>6, <2>1
    <3> QED
      BY <1>7, <3>1, <3>2, AppendElements
  <2>2. CASE ~OwnName
    BY <1>3, <1>6, <2>2
  <2> QED
    BY <2>1, <2>2
<1>9. IsSeq(mod'.names) /\ Extends(mod.names, mod'.names)
  <2>1. mod'.names = mod.names \/ mod'.names = Append(mod.names, It)
    BY <1>3, <1>6
  <2>2. \A s : s = mod.names => IsSeq(s) /\ Extends(s, s)
    BY <1>7, ExtendsSelf
  <2>3. \A s : s = mod.names => IsSeq(Append(s, It)) /\ Extends(s, Append(s, It))
    BY <1>7, ExtendsAppend, AppendEntries
  <2> QED
    BY <2>1, <2>2, <2>3
<1>10. Shapes' /\ Longer /\ Extends(mod.symbols, mod'.symbols)
  BY <1>2, <1>5, <1>6, <1>9, OnlyGrows
<1>11. mod'.importFuncs = mod.importFuncs /\ mod'.types = mod.types
  BY <1>6, OnlyFacts
<1>12. Stays
  BY <1>1, <1>2, <1>10, <1>11, GrownStays
<1>13. ElementsOk'
  <2>1. CASE NameOk(n) /\ Elements(mod'.names) = Elements(mod.names) \cup {n}
    BY <1>2, <1>6, <1>12, <2>1, ElementsStay
  <2>2. CASE mod'.names = mod.names
    <3>1. Only("dataCount")
      BY <1>6, <2>2 DEF Only
    <3> QED
      BY <1>2, <1>12, <3>1, ElementsStay DEF Seqs
  <2> QED
    BY <1>8, <2>1, <2>2
<1>14. BlocksAreTypes'
  BY <1>2, <1>11 DEF BlocksAreTypes
<1> QED
  BY <1>1, <1>6, <1>10, <1>13, <1>14, EntryGoesOn DEF Entry

-----------------------------------------------------------------------------
(* Sections *)

LEMMA Ranks ==
  /\ Rank("import") = 2 /\ Rank("function") = 3 /\ Rank("start") = 8
  /\ Rank("datacount") = 10 /\ Rank("data") = 12
<1> DEFINE O == SectionOrder
<1>1. /\ DOMAIN O = 1..12 /\ O[1] = "type" /\ O[2] = "import" /\ O[3] = "function"
      /\ O[4] = "table" /\ O[5] = "memory" /\ O[6] = "global" /\ O[7] = "export"
      /\ O[8] = "start" /\ O[9] = "elem" /\ O[10] = "datacount" /\ O[11] = "code"
      /\ O[12] = "data"
  BY DEF SectionOrder
<1>2. \A k : Rank(k) = CHOOSE i \in DOMAIN O : O[i] = k
  BY DEF Rank
<1> HIDE DEF O
<1>3. 1..12 = {1, 2, 3, 4, 5, 6, 7, 8, 9, 10, 11, 12}
  OBVIOUS
<1>4. /\ \A i \in DOMAIN O : O[i] = "import" => i = 2
      /\ \A i \in DOMAIN O : O[i] = "function" => i = 3
      /\ \A i \in DOMAIN O : O[i] = "start" => i = 8
      /\ \A i \in DOMAIN O : O[i] = "datacount" => i = 10
      /\ \A i \in DOMAIN O : O[i] = "data" => i = 12
  BY <1>1, <1>3
<1>5. {2, 3, 8, 10, 12} \subseteq DOMAIN O
  BY <1>1, <1>3
<1> QED
  BY <1>1, <1>2, <1>4, <1>5

\* The count that stands before the section of a kind is the section's own.
LEMMA CountIs ==
  ASSUME RInv, LoadInv, pos <= Len(file), Sec.kind \notin Custom
  PROVE  \A k : k = Sec.kind => CountOf(k) = Sec.count
<1>1. /\ Len(file) \in Nat /\ DOMAIN file = 1..Len(file) /\ pos \in DOMAIN file
  BY Positions
<1>2. \A p \in DOMAIN file : p # pos => file[p].kind # Sec.kind
  <2> SUFFICES ASSUME NEW p \in DOMAIN file, p # pos PROVE file[p].kind # Sec.kind
    OBVIOUS
  <2>1. CASE p < pos
    <3>1. pos < Len(file) + 1
      BY <1>1
    <3> QED
      BY <1>1, <2>1, <3>1 DEF LoadInv, OnceBefore, Sec
  <2>2. CASE pos < p
    <3>1. p < Len(file) + 1
      BY <1>1
    <3> QED
      BY <1>1, <2>2, <3>1 DEF LoadInv, OnceBefore, Sec
  <2> QED
    BY <1>1, <2>1, <2>2
<1>3. \A k : k = Sec.kind => Of(k) = {pos}
  BY <1>1, <1>2 DEF Of, Sec
<1> QED
  BY <1>3 DEF CountOf, Sec

LEMMA OrderCut ==
  ASSUME RInv, XInv, Split
  PROVE  XInv'
<1>1. /\ phase = "splitting" /\ phase' = "splitting" /\ pos <= Len(file)
      /\ (Sec.kind \notin Custom => InOrder) /\ pos' = pos + 1 /\ UNCHANGED file
  BY DEF Split, loading
<1>2. /\ Ascending(pos) /\ Len(file) \in Nat /\ DOMAIN file = 1..Len(file)
      /\ pos \in Nat \ {0}
  BY <1>1, Positions DEF XInv
<1>3. Ascending(pos + 1)
  <2> SUFFICES ASSUME NEW p \in DOMAIN file, NEW q \in DOMAIN file, p < q, q < pos + 1,
                      file[p].kind \notin Custom, file[q].kind \notin Custom
               PROVE  Rank(file[p].kind) < Rank(file[q].kind)
    BY DEF Ascending
  <2>1. CASE q < pos
    BY <1>2, <2>1 DEF Ascending
  <2>2. CASE q = pos
    <3>1. p \in 1..(pos - 1) /\ Sec.kind \notin Custom
      BY <1>2, <2>2 DEF Sec
    <3> QED
      BY <1>1, <2>2, <3>1 DEF InOrder, Sec
  <2> QED
    BY <1>2, <2>1, <2>2
<1>4. Ascending(pos)'
  BY <1>1, <1>3 DEF Ascending
<1> QED
  BY <1>1, <1>4 DEF XInv

LEMMA NothingNamed ==
  /\ Indexed \subseteq DOMAIN NoModule /\ \A g \in Seqs : NoModule[g] = <<>>
  /\ NoModule.importTables = 0 /\ NoModule.tables = 0 /\ NoModule.start = Null
<1>1. Indexed \subseteq DOMAIN NoModule
  BY DEF Indexed, NoModule
<1>2. \A g \in Seqs : NoModule[g] = <<>>
  BY DEF Seqs, NoModule
<1>3. NoModule.importTables = 0 /\ NoModule.tables = 0 /\ NoModule.start = Null
  BY DEF NoModule
<1> QED
  BY <1>1, <1>2, <1>3

\* The walk over the sections begins with an empty module.
LEMMA WalkBegins ==
  ASSUME RInv, LInv, XInv, SplitDone
  PROVE  XInv'
<1>1. /\ phase = "splitting" /\ phase' = "loading" /\ pos = Len(file) + 1 /\ pos' = 1
      /\ item' = 0 /\ mod = NoModule /\ mod' = NoModule /\ UNCHANGED file
      /\ Ascending(Len(file) + 1)
  BY Positions DEF SplitDone, loading, LInv, XInv
<1>2. DOMAIN file \subseteq Nat \ {0}
  BY Positions
<1>3. \A k : ~Begun(k)' /\ ~Passed(k)'
  <2>1. \A p \in Nat \ {0} : ~(p < 1) /\ ~(p \in 1..1 /\ (p = 1 => 0 > 0))
    OBVIOUS
  <2> QED
    BY <1>1, <1>2, <2>1 DEF Begun, Opened, Passed
<1>4. /\ \A g \in Seqs : mod'[g] = <<>>
      /\ Indexed \subseteq DOMAIN mod' /\ mod'.importTables = 0 /\ mod'.tables = 0
      /\ mod'.start = Null
  BY <1>1, NothingNamed
<1>5. /\ mod'.importFuncs = <<>> /\ mod'.memory = <<>> /\ mod'.globals = <<>>
      /\ mod'.exports = <<>> /\ mod'.codeRelocs = <<>> /\ mod'.dataRelocs = <<>>
      /\ mod'.functions = <<>> /\ mod'.symbols = <<>> /\ mod'.segments = <<>>
      /\ mod'.names = <<>> /\ mod'.types = <<>>
  BY <1>4 DEF Seqs
<1>6. BegunInv' /\ ImportsFirst'
  BY <1>4, <1>5, NoElements DEF BegunInv, ImportsFirst
<1>7. CountInv'
  BY <1>1, <1>3 DEF CountInv
<1>8. Shapes'
  <2>1. (Shapes <=> /\ Indexed \subseteq DOMAIN mod /\ \A g \in Seqs : IsSeq(mod[g])
                    /\ mod.importTables \in 0..1 /\ mod.tables \in Nat)'
    BY ShapesAre, PTL
  <2> QED
    BY <1>4, <2>1, EmptySeq
<1>9. ElementsOk' /\ BlocksAreTypes'
  BY <1>4, <1>5, NoElements DEF ElementsOk, BlocksAreTypes
<1>10. Ascending(Len(file) + 1)'
  BY <1>1 DEF Ascending
<1> QED
  BY <1>1, <1>6, <1>7, <1>8, <1>9, <1>10 DEF XInv, ReadingInv

\* A step that leaves all that indices name, or that holds them.
Named == Indexed \ {"malloc", "retain", "free"}
SameNamed == Indexed \subseteq DOMAIN mod' /\ \A g \in Named : mod'[g] = mod[g]

LEMMA NamedStays ==
  ASSUME Shapes, ElementsOk, BlocksAreTypes, SameNamed, UNCHANGED file
  PROVE  Shapes' /\ ElementsOk' /\ BlocksAreTypes'
<1>1. /\ Seqs \subseteq Named
      /\ {"importTables", "tables", "start"} \subseteq Named
  BY DEF Seqs, Named, Indexed
<1>2. \A g \in Seqs : IsSeq(mod'[g]) /\ Extends(mod[g], mod'[g])
  BY <1>1, ShapesAre, ExtendsSelf DEF SameNamed
<1>3. /\ mod'.importTables = mod.importTables /\ mod'.tables = mod.tables
      /\ mod'.start = mod.start
  BY <1>1 DEF SameNamed
<1>4. mod.importTables \in 0..1 /\ mod.tables \in Nat
  BY ShapesAre
<1>5. Shapes' /\ Longer /\ Extends(mod.symbols, mod'.symbols)
  BY <1>2, <1>3, <1>4, GrowsShapes DEF SameNamed
<1>6. /\ mod'.functions = mod.functions /\ mod'.exports = mod.exports
      /\ mod'.segments = mod.segments /\ mod'.names = mod.names
      /\ mod'.symbols = mod.symbols /\ mod'.codeRelocs = mod.codeRelocs
      /\ mod'.dataRelocs = mod.dataRelocs /\ mod'.types = mod.types
      /\ mod'.importFuncs = mod.importFuncs
  BY <1>1 DEF SameNamed, Seqs
<1>7. Stays
  BY <1>5, <1>6, GrownStays
<1>8. (mod.start # Null => StartOk(mod.start))'
  <2>1. \A f : f = mod'.start => (f # Null => StartOk(f)')
    BY <1>3, <1>7 DEF ElementsOk, Stays
  <2> QED
    BY <2>1 DEF StartOk
<1>9. ElementsOk'
  BY <1>6, <1>7, <1>8 DEF ElementsOk, Stays
<1> QED
  BY <1>5, <1>6, <1>9 DEF BlocksAreTypes

\* What is passed stays passed, and the section that closes is.
LEMMA SectionPassed ==
  ASSUME RInv, LInv, XInv, CloseSection
  PROVE  XInv'
<1>1. /\ phase = "loading" /\ phase' = "loading" /\ pos <= Len(file) /\ pos' = pos + 1
      /\ item' = 0 /\ Finished /\ UNCHANGED <<mod, file>>
  BY DEF CloseSection, loading
<1>2. /\ Len(file) \in Nat /\ DOMAIN file = 1..Len(file) /\ pos \in DOMAIN file
      /\ Sec.count \in Nat /\ pos \in Nat /\ item \in Nat
  BY <1>1, Positions
<1>3. /\ LoadInv /\ ReadingInv /\ Ascending(Len(file) + 1)
      /\ Shapes /\ ElementsOk /\ BlocksAreTypes
  BY <1>1 DEF LInv, XInv
<1>4. item > 0
  BY <1>1, <1>2 DEF Finished
<1>5. \A p : Opened(p)' <=> Opened(p)
  BY <1>1, <1>2, <1>4 DEF Opened
<1>6. \A k : Begun(k)' <=> Begun(k)
  BY <1>1, <1>5 DEF Begun
<1>7. \A k : /\ Passed(k)' => Passed(k) \/ k = Sec.kind
             /\ CountOf(k)' = CountOf(k)
  BY <1>1, <1>2 DEF Passed, CountOf, Of, Sec
<1>8. BegunInv'
  BY <1>1, <1>3, <1>6 DEF ReadingInv, BegunInv
<1>9. \A p \in DOMAIN file : Opened(p) => p < pos + 1
  BY <1>2 DEF Opened
<1>10. ImportsFirst'
  <2> SUFFICES ASSUME pos + 1 <= Len(file), file[pos + 1].kind = "import"
               PROVE  /\ mod.functions = <<>> /\ mod.start = Null
                      /\ \A s \in Elements(mod.symbols) : s.type # "function"
    BY <1>1 DEF ImportsFirst, Sec
  <2> DEFINE q == pos + 1
  <2>1. q \in DOMAIN file /\ q < Len(file) + 1 /\ file[q].kind = "import"
    BY <1>2
  <2> HIDE DEF q
  <2>2. \A p \in DOMAIN file : Opened(p) => p < q
    BY <1>9 DEF q
  <2>3. ASSUME NEW p \in DOMAIN file, Opened(p), file[p].kind \notin Custom
        PROVE  Rank(file[p].kind) < Rank("import")
    <3>1. p < q /\ "import" \notin Custom
      BY <2>2, <2>3 DEF Custom
    <3> QED
      BY <1>3, <2>1, <2>3, <3>1 DEF Ascending
  <2>4. /\ ~Begun("function") /\ ~Begun("start") /\ ~Begun("import")
    <3>1. /\ "function" \notin Custom /\ "start" \notin Custom /\ "import" \notin Custom
      BY DEF Custom
    <3>2. /\ ~(Rank("function") < Rank("import")) /\ ~(Rank("start") < Rank("import"))
          /\ ~(Rank("import") < Rank("import"))
      BY Ranks
    <3> QED
      BY <2>3, <3>1, <3>2 DEF Begun
  <2>5. mod.functions = <<>> /\ mod.start = Null /\ mod.importFuncs = <<>>
    BY <1>3, <2>4 DEF LoadInv, FieldInv, ReadingInv, BegunInv
  <2>6. FuncCount = 0
    BY <2>5, EmptySeq DEF FuncCount
  <2>7. \A s \in Elements(mod.symbols) : s.type # "function"
    <3>1. \A s \in Elements(mod.symbols) : s.type = "function" => s.index \in Nat /\ s.index < 0
      BY <1>3, <2>6 DEF ElementsOk, SymbolOk
    <3> QED
      BY <3>1
  <2> QED
    BY <2>5, <2>7
<1>11. CountInv'
  <2>1. CountInv
    BY <1>3 DEF ReadingInv
  <2>2. Sec.kind \in {"function", "data"} => item = Sec.count + 1
    BY <1>1 DEF Finished, Counted
  <2>3. Sec.kind = "function" => Len(mod.functions) = CountOf("code")
    BY <1>1, <1>2, <1>4, <2>1, <2>2 DEF CountInv
  <2>4. Sec.kind = "data" =>
          /\ Len(mod.datas) = Sec.count /\ DataCountAgrees /\ CountOf("data") = Sec.count
    BY <1>1, <1>2, <1>3, <1>4, <2>1, <2>2, CountIs DEF CountInv, Custom
  <2>5. Sec.kind = "data" =>
          /\ Len(mod.datas) = CountOf("data")
          /\ mod.dataCount # Null => CountOf("data") = mod.dataCount
    BY <2>4 DEF DataCountAgrees
  <2> QED
    BY <1>1, <1>6, <1>7, <2>1, <2>3, <2>5 DEF CountInv
<1>12. SameNamed
  BY <1>1, <1>3, ShapesAre DEF SameNamed
<1>13. Shapes' /\ ElementsOk' /\ BlocksAreTypes'
  BY <1>1, <1>3, <1>12, NamedStays
<1>14. Ascending(Len(file) + 1)'
  BY <1>1, <1>3 DEF Ascending
<1> QED
  BY <1>1, <1>8, <1>10, <1>11, <1>13, <1>14 DEF XInv, ReadingInv

\* Reading a count changes the section's own field only.
LEMMA CountSets ==
  ASSUME Indexed \subseteq DOMAIN mod
  PROVE  /\ Indexed \subseteq DOMAIN WithArray
         /\ \A g \in Indexed : \/ WithArray[g] = mod[g]
                               \/ g = "dataCount" /\ Sec.kind = "datacount"
                               \/ g = Field(Sec.kind) /\ WithArray[g] = <<>>
         /\ Sec.kind = "linking" => WithArray.symbols = <<>>
<1> DEFINE m == IF NeedsArray THEN [mod EXCEPT !["ptr"] = [@ EXCEPT ![Sec.kind] = ArrayBlock]]
                ELSE mod
<1>1. Indexed \subseteq DOMAIN m /\ \A g \in Indexed : m[g] = mod[g]
  <2>1. "ptr" \notin Indexed
    BY DEF Indexed
  <2> QED
    BY <2>1
<1>2. WithArray = IF Sec.kind = "datacount" THEN [m EXCEPT !["dataCount"] = Sec.count]
                  ELSE IF Field(Sec.kind) # "none" /\ (NeedsArray \/ Sec.kind = "linking")
                  THEN [m EXCEPT ![Field(Sec.kind)] = <<>>]
                  ELSE m
  BY DEF WithArray
<1> HIDE DEF m
<1>3. Sec.kind = "linking" => Field(Sec.kind) = "symbols" /\ "symbols" \in Indexed
  BY DEF Field, Indexed
<1>4. CASE Sec.kind = "datacount"
  BY <1>1, <1>2, <1>4
<1>5. CASE WithArray = m /\ Sec.kind # "linking"
  BY <1>1, <1>5
<1>6. CASE WithArray = [m EXCEPT ![Field(Sec.kind)] = <<>>]
  BY <1>1, <1>3, <1>6
<1> QED
  BY <1>2, <1>3, <1>4, <1>5, <1>6

\* A section that is not custom finds its field empty.
LEMMA FieldsOpen ==
  ASSUME RInv, LInv, XInv, OpenSection
  PROVE  /\ Indexed \subseteq DOMAIN mod'
         /\ \A g \in Named \ {"dataCount", "symbols", "codeRelocs", "dataRelocs"} :
              mod'[g] = mod[g]
         /\ Sec.kind # "datacount" => mod'.dataCount = mod.dataCount
         /\ mod'.symbols = IF Sec.kind = "linking" THEN <<>> ELSE mod.symbols
         /\ \/ mod'.codeRelocs = mod.codeRelocs
            \/ mod'.codeRelocs = <<>> /\ Sec.kind = "reloc.CODE"
         /\ \/ mod'.dataRelocs = mod.dataRelocs
            \/ mod'.dataRelocs = <<>> /\ Sec.kind = "reloc.DATA"
<1>1. /\ phase = "loading" /\ pos <= Len(file) /\ item = 0 /\ mod' = WithArray
  BY DEF OpenSection
<1>2. /\ LoadInv /\ ReadingInv /\ Shapes
  BY <1>1 DEF LInv, XInv
<1>3. /\ Indexed \subseteq DOMAIN mod'
      /\ \A g \in Indexed : \/ mod'[g] = mod[g]
                            \/ g = "dataCount" /\ Sec.kind = "datacount"
                            \/ g = Field(Sec.kind) /\ mod'[g] = <<>>
      /\ Sec.kind = "linking" => mod'.symbols = <<>>
  BY <1>1, <1>2, ShapesAre, CountSets
<1>4. /\ Field(Sec.kind) = "types" => Sec.kind = "type"
      /\ Field(Sec.kind) = "functions" => Sec.kind = "function"
      /\ Field(Sec.kind) = "memory" => Sec.kind = "memory"
      /\ Field(Sec.kind) = "globals" => Sec.kind = "global"
      /\ Field(Sec.kind) = "exports" => Sec.kind = "export"
      /\ Field(Sec.kind) = "segments" => Sec.kind = "elem"
      /\ Field(Sec.kind) = "datas" => Sec.kind = "data"
      /\ Field(Sec.kind) = "symbols" => Sec.kind = "linking"
      /\ Field(Sec.kind) = "codeRelocs" => Sec.kind = "reloc.CODE"
      /\ Field(Sec.kind) = "dataRelocs" => Sec.kind = "reloc.DATA"
      /\ Field(Sec.kind) \in {"types", "functions", "memory", "globals", "exports", "segments",
                              "datas", "symbols", "codeRelocs", "dataRelocs", "none"}
  BY DEF Field
<1>5. Sec.kind \notin Custom => \A k : k = Sec.kind => ~Begun(k)
  BY <1>1, <1>2, FirstOfKind
<1>6. /\ Sec.kind = "type" => mod.types = <<>>
      /\ Sec.kind = "function" => mod.functions = <<>>
      /\ Sec.kind = "elem" => mod.segments = <<>>
      /\ Sec.kind = "data" => mod.datas = <<>>
      /\ Sec.kind = "memory" => mod.memory = <<>>
      /\ Sec.kind = "global" => mod.globals = <<>>
      /\ Sec.kind = "export" => mod.exports = <<>>
  BY <1>2, <1>5 DEF Custom, LoadInv, FieldInv, ReadingInv, BegunInv
<1>7. ASSUME NEW g \in Named \ {"dataCount", "symbols", "codeRelocs", "dataRelocs"}
      PROVE  mod'[g] = mod[g]
  <2>1. g \in Indexed
    BY DEF Named
  <2>2. g = Field(Sec.kind) =>
          g \in {"types", "functions", "memory", "globals", "exports", "segments", "datas"}
    BY <1>4 DEF Named, Indexed
  <2>3. g = Field(Sec.kind) => mod[g] = <<>>
    BY <1>4, <1>6, <2>2
  <2> QED
    BY <1>3, <2>1, <2>3
<1>8. {"dataCount", "symbols", "codeRelocs", "dataRelocs"} \subseteq Indexed
  BY DEF Indexed
<1>9. Sec.kind # "datacount" => mod'.dataCount = mod.dataCount
  BY <1>3, <1>4, <1>8
<1>10. mod'.symbols = IF Sec.kind = "linking" THEN <<>> ELSE mod.symbols
  BY <1>3, <1>4, <1>8
<1>11. /\ \/ mod'.codeRelocs = mod.codeRelocs
          \/ mod'.codeRelocs = <<>> /\ Sec.kind = "reloc.CODE"
       /\ \/ mod'.dataRelocs = mod.dataRelocs
          \/ mod'.dataRelocs = <<>> /\ Sec.kind = "reloc.DATA"
  BY <1>3, <1>4, <1>8
<1> QED
  BY <1>3, <1>7, <1>9, <1>10, <1>11

\* A symbol table that comes first finds no relocations.
LEMMA SymbolsFirst ==
  ASSUME RInv, ReadingInv, pos <= Len(file), item = 0, Sec.kind = "linking", ~SymbolsReplaced
  PROVE  mod.codeRelocs = <<>> /\ mod.dataRelocs = <<>>
<1>1. pos \in DOMAIN file /\ DOMAIN file \subseteq Nat
  BY Positions
<1>2. \A p \in DOMAIN file : Opened(p) => p < pos
  BY <1>1 DEF Opened
<1>3. \A p \in DOMAIN file : p < pos => file[p].kind \notin {"reloc.CODE", "reloc.DATA"}
  BY <1>1 DEF SymbolsReplaced, Sec
<1>4. ~Begun("reloc.CODE") /\ ~Begun("reloc.DATA")
  BY <1>2, <1>3 DEF Begun
<1> QED
  BY <1>4 DEF ReadingInv, BegunInv

\* What OpenSection leaves of the elements that hold indices.
LEMMA ElementsOpen ==
  ASSUME RInv, LInv, XInv, OpenSection
  PROVE  Shapes' /\ ElementsOk' /\ BlocksAreTypes'
<1>1. /\ phase = "loading" /\ pos <= Len(file) /\ item = 0 /\ UNCHANGED file
  BY DEF OpenSection, loading
<1>2. Shapes /\ ElementsOk /\ BlocksAreTypes /\ ReadingInv
  BY <1>1 DEF XInv
<1> DEFINE Kept == Named \ {"dataCount", "symbols", "codeRelocs", "dataRelocs"}
<1>3. /\ Indexed \subseteq DOMAIN mod' /\ \A g \in Kept : mod'[g] = mod[g]
      /\ mod'.symbols = IF Sec.kind = "linking" THEN <<>> ELSE mod.symbols
      /\ mod'.codeRelocs \in {mod.codeRelocs, <<>>}
      /\ mod'.dataRelocs \in {mod.dataRelocs, <<>>}
  BY FieldsOpen
<1>4. /\ Seqs \subseteq Kept \cup {"symbols", "codeRelocs", "dataRelocs"}
      /\ {"importTables", "tables", "start"} \subseteq Kept
      /\ {"types", "importFuncs", "importMemory", "importGlobals", "functions", "memory",
          "globals", "exports", "segments", "names"} \subseteq Kept
  BY DEF Seqs, Named, Indexed
<1> HIDE DEF Kept
<1>5. /\ mod'.importTables = mod.importTables /\ mod'.tables = mod.tables
      /\ mod'.start = mod.start /\ mod'.types = mod.types /\ mod'.importFuncs = mod.importFuncs
      /\ mod'.importMemory = mod.importMemory /\ mod'.importGlobals = mod.importGlobals
      /\ mod'.functions = mod.functions /\ mod'.memory = mod.memory
      /\ mod'.globals = mod.globals /\ mod'.exports = mod.exports
      /\ mod'.segments = mod.segments /\ mod'.names = mod.names
  BY <1>3, <1>4
<1>6. Shapes'
  <2>1. \A g \in Seqs : IsSeq(mod[g])
    BY <1>2, ShapesAre
  <2>2. \A g \in Seqs : mod'[g] \in {mod[g], <<>>}
    BY <1>3, <1>4
  <2>3. \A g \in Seqs : IsSeq(mod'[g])
    BY <2>1, <2>2, EmptySeq
  <2>4. mod'.importTables \in 0..1 /\ mod'.tables \in Nat
    BY <1>2, <1>5 DEF Shapes
  <2>5. (Shapes <=> /\ Indexed \subseteq DOMAIN mod /\ \A g \in Seqs : IsSeq(mod[g])
                    /\ mod.importTables \in 0..1 /\ mod.tables \in Nat)'
    BY ShapesAre, PTL
  <2> QED
    BY <1>3, <2>3, <2>4, <2>5
<1>7. Longer
  <2>1. /\ IsSeq(mod.types) /\ IsSeq(mod.functions)
        /\ mod.importTables \in Nat /\ mod.tables \in Nat
    BY <1>2 DEF Shapes
  <2>2. Extends(mod.types, mod'.types) /\ Extends(mod.functions, mod'.functions)
    BY <1>5, <2>1, ExtendsSelf
  <2>3. \A g \in {"types", "functions", "importFuncs", "importMemory", "memory",
                  "importGlobals", "globals"} : LenOf(g)' = LenOf(g) /\ LenOf(g) \in Nat
    BY <1>2, <1>5 DEF LenOf, Shapes, IsSeq
  <2> QED
    BY <1>5, <2>1, <2>2, <2>3 DEF Longer
<1>8. /\ \A f : FunctionOk(f) => FunctionOk(f)'
      /\ \A e : ExportOk(e) => ExportOk(e)'
      /\ \A f : StartOk(f) => StartOk(f)'
      /\ \A s : SegmentOk(s) => SegmentOk(s)'
      /\ \A n : NameOk(n) => NameOk(n)'
      /\ \A s : SymbolOk(s) => SymbolOk(s)'
  BY <1>2, <1>5, <1>6, <1>7, OkStays, OwnStays
<1>9. \A s \in Elements(mod'.symbols) : SymbolOk(s)'
  <2>1. \A s \in Elements(mod'.symbols) : s \in Elements(mod.symbols)
    BY <1>3, NoElements
  <2> QED
    BY <1>2, <1>8, <2>1 DEF ElementsOk
<1>10. \A r \in Elements(mod'.codeRelocs) \cup Elements(mod'.dataRelocs) : RelocOk(r)'
  <2>1. \A r \in Elements(mod'.codeRelocs) \cup Elements(mod'.dataRelocs) :
          r \in Elements(mod.codeRelocs) \cup Elements(mod.dataRelocs)
    BY <1>3, NoElements
  <2>2. \A r \in Elements(mod'.codeRelocs) \cup Elements(mod'.dataRelocs) : RelocOk(r)
    BY <1>2, <2>1 DEF ElementsOk
  <2>3. CASE Sec.kind # "linking"
    <3>1. IsSeq(mod.symbols) /\ mod'.symbols = mod.symbols
      BY <1>2, <1>3, <2>3 DEF Shapes
    <3>2. Extends(mod.symbols, mod'.symbols)
      BY <3>1, ExtendsSelf
    <3> QED
      BY <1>1, <1>2, <1>6, <2>2, <3>2, RelocStays
  <2>4. CASE Sec.kind = "linking" /\ SymbolsReplaced
    <3>1. SymbolsReplaced'
      BY <1>1, <2>4 DEF SymbolsReplaced
    <3> QED
      BY <3>1 DEF RelocOk
  <2>5. CASE Sec.kind = "linking" /\ ~SymbolsReplaced
    <3>1. mod.codeRelocs = <<>> /\ mod.dataRelocs = <<>>
      BY <1>1, <1>2, <2>5, SymbolsFirst
    <3> QED
      BY <2>1, <3>1, NoElements
  <2> QED
    BY <2>3, <2>4, <2>5
<1>11. (mod.start # Null => StartOk(mod.start))'
  <2>1. \A f : f = mod'.start => (f # Null => StartOk(f)')
    BY <1>2, <1>5, <1>8 DEF ElementsOk
  <2> QED
    BY <2>1 DEF StartOk
<1>12. ElementsOk'
  BY <1>2, <1>5, <1>8, <1>9, <1>10, <1>11 DEF ElementsOk
<1>13. BlocksAreTypes'
  BY <1>2, <1>5 DEF BlocksAreTypes
<1> QED
  BY <1>6, <1>12, <1>13

LEMMA CountOpens ==
  ASSUME RInv, LInv, XInv, OpenSection
  PROVE  XInv'
<1>1. /\ phase = "loading" /\ phase' = "loading" /\ pos <= Len(file) /\ item = 0 /\ item' = 1
      /\ UNCHANGED <<pos, file>> /\ CountAccepted
  BY DEF OpenSection, loading
<1>2. /\ LoadInv /\ ReadingInv /\ Ascending(Len(file) + 1)
      /\ Len(file) \in Nat /\ DOMAIN file = 1..Len(file) /\ pos \in DOMAIN file
      /\ Sec.count \in Nat
  BY <1>1, Positions DEF LInv, XInv
<1>3. /\ mod'.functions = mod.functions /\ mod'.datas = mod.datas /\ mod'.start = mod.start
      /\ mod'.importFuncs = mod.importFuncs /\ mod'.memory = mod.memory
      /\ mod'.globals = mod.globals /\ mod'.exports = mod.exports
      /\ Sec.kind # "datacount" => mod'.dataCount = mod.dataCount
      /\ Sec.kind # "linking" => mod'.symbols = mod.symbols
      /\ mod'.codeRelocs \in {mod.codeRelocs, <<>>}
      /\ mod'.dataRelocs \in {mod.dataRelocs, <<>>}
  <2>1. {"functions", "datas", "start", "importFuncs", "memory", "globals", "exports"}
          \subseteq Named \ {"dataCount", "symbols", "codeRelocs", "dataRelocs"}
    BY DEF Named, Indexed
  <2> QED
    BY <2>1, FieldsOpen
<1>4. Sec' = Sec /\ \A k : (Passed(k)' <=> Passed(k)) /\ CountOf(k)' = CountOf(k)
  BY <1>1 DEF Sec, Passed, CountOf, Of
<1>5. \A p : Opened(p)' <=> Opened(p) \/ p = pos
  BY <1>1, <1>2 DEF Opened
<1>6. \A k : Begun(k)' <=> Begun(k) \/ k = Sec.kind
  BY <1>1, <1>2, <1>5 DEF Begun, Sec
<1>7. BegunInv'
  BY <1>2, <1>3, <1>6 DEF ReadingInv, BegunInv
<1>8. ImportsFirst'
  BY <1>2, <1>3, <1>4, <1>1 DEF ReadingInv, ImportsFirst
<1>9. CountInv'
  <2>1. CountInv
    BY <1>2 DEF ReadingInv
  <2>2. Sec.kind = "function" => Sec.count = CountOf("code") /\ Len(mod.functions) = 0
    <3>1. Sec.kind = "function" => Sec.count = CountOf("code")
      BY <1>1 DEF CountAccepted
    <3>2. Sec.kind = "function" => ~Begun("function")
      BY <1>1, <1>2, FirstOfKind DEF Custom
    <3> QED
      BY <1>2, <3>1, <3>2, EmptySeq DEF LoadInv, FieldInv
  <2>3. Sec.kind = "data" => DataCountAgrees /\ Len(mod.datas) = 0
    <3>1. Sec.kind = "data" => DataCountAgrees
      BY <1>1 DEF CountAccepted
    <3>2. Sec.kind = "data" => ~Begun("data")
      BY <1>1, <1>2, FirstOfKind DEF Custom
    <3> QED
      BY <1>2, <3>1, <3>2, EmptySeq DEF LoadInv, FieldInv
  <2>4. Sec.kind = "code" => CountOf("code") = CountOf("function")
    <3>1. Sec.kind = "code" => Sec.count = CountOf("function")
      BY <1>1 DEF CountAccepted
    <3>2. Sec.kind = "code" => CountOf("code") = Sec.count
      BY <1>1, <1>2, CountIs DEF Custom
    <3> QED
      BY <3>1, <3>2
  <2>5. Passed("data") => mod'.dataCount = mod.dataCount
    <3>1. Sec.kind = "datacount" => ~Passed("data")
      <4> SUFFICES ASSUME Sec.kind = "datacount", NEW p \in DOMAIN file, p < pos,
                          file[p].kind = "data"
                   PROVE  FALSE
        BY DEF Passed
      <4>1. pos < Len(file) + 1 /\ file[pos].kind = "datacount"
        BY <1>2 DEF Sec
      <4>2. "data" \notin Custom /\ "datacount" \notin Custom
        BY DEF Custom
      <4>3. Rank("data") < Rank("datacount")
        BY <1>2, <4>1, <4>2 DEF Ascending
      <4> QED
        BY <4>3, Ranks
    <3> QED
      BY <1>3, <3>1
  <2>6. DataCountAgrees /\ Sec.kind = "data" => DataCountAgrees'
    BY <1>3, <1>4 DEF DataCountAgrees
  <2> QED
    BY <1>1, <1>3, <1>4, <1>6, <2>1, <2>2, <2>3, <2>4, <2>5, <2>6 DEF CountInv
<1>10. Ascending(Len(file) + 1)'
  BY <1>1, <1>2 DEF Ascending
<1> QED
  BY <1>1, <1>7, <1>8, <1>9, <1>10, ElementsOpen DEF XInv, ReadingInv

-----------------------------------------------------------------------------
(* The end *)

\* Greatest is the greatest element of a bounded set of numbers.
LEMMA GreatestIsIn ==
  ASSUME NEW n \in Nat, NEW T, T \subseteq 1..n, T # {}
  PROVE  Greatest(T) \in T
<1> DEFINE U == {n - i : i \in T}
<1>1. U \subseteq Nat /\ U # {}
  <2>1. \A i \in 1..n : n - i \in Nat
    OBVIOUS
  <2>2. U # {}
    OBVIOUS
  <2>3. \A i \in T : n - i \in Nat
    BY <2>1
  <2> QED
    BY <2>2, <2>3
<1>2. Least(U) \in U /\ \A y \in U : Least(U) <= y
  BY <1>1, LeastIsLeast
<1>3. PICK g \in T : Least(U) = n - g
  BY <1>2
<1>4. \A i \in T : n - g <= n - i
  BY <1>2, <1>3
<1>5. \A i \in T : g >= i
  BY <1>4
<1> QED
  BY <1>3, <1>5 DEF Greatest

\* The allocator's functions are functions of the module's own.
OwnOrNone(f) == f = Null \/ f \in Len(mod.importFuncs)..(FuncCount - 1)

LEMMA ExportsOwn ==
  ASSUME NEW names, NEW sig
  PROVE  \A i \in OwnExports(names, sig) :
           i \in DOMAIN mod.exports /\ OwnOrNone(mod.exports[i].index)
BY DEF OwnExports, OwnOrNone

LEMMA AllocatorOwn ==
  ASSUME Shapes
  PROVE  /\ OwnOrNone(Allocator)
         /\ Retains # {} => OwnOrNone(mod.exports[Least(Retains)].index)
         /\ Frees # {} => OwnOrNone(mod.exports[Greatest(Frees)].index)
<1> DEFINE n == Len(mod.exports)
<1>1. n \in Nat /\ DOMAIN mod.exports = 1..n
  BY DEF Shapes, IsSeq
<1>2. \A i \in Mallocs \cup News \cup Retains \cup Frees :
        i \in 1..n /\ OwnOrNone(mod.exports[i].index)
  BY <1>1, ExportsOwn DEF Mallocs, News, Retains, Frees
<1> HIDE DEF n
<1>3. Mallocs \cup News # {} => Greatest(Mallocs \cup News) \in Mallocs \cup News
  <2>1. Mallocs \cup News \subseteq 1..n
    BY <1>2
  <2> QED
    BY <1>1, <2>1, GreatestIsIn
<1>4. Frees # {} => Greatest(Frees) \in Frees
  <2>1. Frees \subseteq 1..n
    BY <1>2
  <2> QED
    BY <1>1, <2>1, GreatestIsIn
<1>5. Retains # {} => Least(Retains) \in Retains
  <2>1. Retains \subseteq Nat
    BY <1>1, <1>2
  <2> QED
    BY <2>1, LeastIsLeast
<1>6. OwnOrNone(Allocator)
  <2>1. OwnOrNone(Null)
    BY DEF OwnOrNone
  <2>2. Mallocs \cup News # {} => OwnOrNone(mod.exports[Greatest(Mallocs \cup News)].index)
    BY <1>2, <1>3
  <2> QED
    BY <2>1, <2>2 DEF Allocator
<1> QED
  BY <1>2, <1>4, <1>5, <1>6

LEMMA ResolveKeeps ==
  ASSUME Shapes, Resolve
  PROVE  /\ SameNamed
         /\ mod'.malloc = Allocator
         /\ mod'.retain = Null \/ (Retains # {} /\ mod'.retain = mod.exports[Least(Retains)].index)
         /\ mod'.free = Null \/ (Frees # {} /\ mod'.free = mod.exports[Greatest(Frees)].index)
<1> DEFINE Kept(m) == Indexed \subseteq DOMAIN m /\ \A g \in Named : m[g] = mod[g]
<1>1. ASSUME NEW m, Kept(m), NEW field, NEW val, field \notin Named
      PROVE  Kept([m EXCEPT ![field] = val])
  <2>1. Named \subseteq Indexed
    BY DEF Named
  <2> QED
    BY <1>1, <2>1
<1>2. Kept(mod)
  BY ShapesAre
<1>3. /\ "dataEnd" \notin Named /\ "heapBase" \notin Named /\ "stackTop" \notin Named
      /\ "stackSize" \notin Named /\ "malloc" \notin Named /\ "retain" \notin Named
      /\ "free" \notin Named /\ {"malloc", "retain", "free"} \subseteq Indexed
  BY DEF Named, Indexed
<1>4. \A m : Kept(m) => Indexed \subseteq DOMAIN m
  OBVIOUS
<1> HIDE DEF Kept
<1>5. Kept(ResolvedAux)
  <2> DEFINE a == [mod EXCEPT !.dataEnd = DataEnd]
             b == [a EXCEPT !.heapBase = HeapBase]
             c == [b EXCEPT !.stackTop = StackTop]
             d == [c EXCEPT !.stackSize = StackSize]
  <2>1. Kept(a)
    BY <1>1, <1>2, <1>3
  <2>2. Kept(b)
    <3> HIDE DEF a
    <3> QED
      BY <1>1, <1>3, <2>1
  <2>3. Kept(c)
    <3> HIDE DEF b
    <3> QED
      BY <1>1, <1>3, <2>2
  <2>4. Kept(d)
    <3> HIDE DEF c
    <3> QED
      BY <1>1, <1>3, <2>3
  <2>5. ResolvedAux = IF ~AuxUsable THEN mod ELSE d
    BY DEF ResolvedAux
  <2> HIDE DEF d
  <2> QED
    BY <1>2, <2>4, <2>5
<1> DEFINE r == IF News # {} /\ Retains # {} THEN mod.exports[Least(Retains)].index ELSE Null
           f == IF Frees # {} THEN mod.exports[Greatest(Frees)].index ELSE Null
           a == [ResolvedAux EXCEPT !["malloc"] = Allocator]
           b == [a EXCEPT !["retain"] = r]
           c == [b EXCEPT !["free"] = f]
<1>6. mod' = c
  BY DEF Resolve
<1>7. /\ r = Null \/ (Retains # {} /\ r = mod.exports[Least(Retains)].index)
      /\ f = Null \/ (Frees # {} /\ f = mod.exports[Greatest(Frees)].index)
  OBVIOUS
<1> HIDE DEF r, f
<1>8. Kept(a) /\ a.malloc = Allocator
  BY <1>1, <1>3, <1>4, <1>5
<1> HIDE DEF a
<1>9. Kept(b) /\ b.malloc = Allocator /\ b.retain = r
  BY <1>1, <1>3, <1>4, <1>8
<1> HIDE DEF b
<1>10. Kept(c) /\ c.malloc = Allocator /\ c.retain = r /\ c.free = f
  BY <1>1, <1>3, <1>4, <1>9
<1> HIDE DEF c
<1>11. SameNamed
  BY <1>6, <1>10 DEF SameNamed, Kept
<1> QED
  BY <1>6, <1>7, <1>10, <1>11

LEMMA ModuleKnown ==
  ASSUME RInv, LInv, XInv, Resolve
  PROVE  XInv'
<1>1. /\ phase = "loading" /\ phase' = "preparing" /\ pos = Len(file) + 1 /\ UNCHANGED file
  BY DEF Resolve, loading
<1>2. /\ LoadInv /\ ReadingInv /\ Shapes /\ ElementsOk /\ BlocksAreTypes
      /\ Len(file) \in Nat /\ DOMAIN file = 1..Len(file)
  BY <1>1, Positions DEF LInv, XInv
<1>3. SameNamed
  BY <1>2, ResolveKeeps
<1>4. Shapes' /\ ElementsOk' /\ BlocksAreTypes'
  BY <1>1, <1>2, <1>3, NamedStays
<1>5. \A p \in DOMAIN file : p < pos
  BY <1>1, <1>2
<1>6. \A k : Of(k) # {} <=> Passed(k)
  BY <1>5 DEF Of, Passed
<1>7. \A k : Begun(k) => Of(k) # {}
  BY DEF Begun, Of
<1>8. \A k : Passed(k) => Begun(k)
  BY <1>1, <1>2 DEF Passed, Begun, Opened
<1>9. \A k : Of(k) = {} => CountOf(k) = 0
  BY DEF CountOf
<1>10. Len(mod.functions) = CountOf("code")
  <2>1. CASE Passed("function")
    BY <1>2, <2>1 DEF ReadingInv, CountInv
  <2>2. CASE ~Passed("function")
    <3>1. CountOf("function") = 0 /\ ~Begun("function")
      BY <1>6, <1>7, <1>9, <2>2
    <3>2. Len(mod.functions) = 0
      BY <1>2, <3>1, EmptySeq DEF LoadInv, FieldInv
    <3>3. CountOf("code") = 0
      BY <1>2, <1>6, <1>8, <1>9, <3>1 DEF ReadingInv, CountInv
    <3> QED
      BY <3>2, <3>3
  <2> QED
    BY <2>1, <2>2
<1>11. mod.dataCount # Null /\ CountOf("data") > 0 => Len(mod.datas) = mod.dataCount
  <2>1. CountOf("data") > 0 => Passed("data")
    BY <1>6, <1>9
  <2> QED
    BY <1>2, <2>1 DEF ReadingInv, CountInv
<1>12. /\ mod'.functions = mod.functions /\ mod'.datas = mod.datas
       /\ mod'.dataCount = mod.dataCount /\ mod'.importFuncs = mod.importFuncs
  BY <1>3 DEF SameNamed, Named, Indexed
<1>13. \A k : CountOf(k)' = CountOf(k)
  BY <1>1 DEF CountOf, Of
<1>14. FuncCount' = FuncCount
  BY <1>12 DEF FuncCount
<1>15. \A f \in {mod'.malloc, mod'.retain, mod'.free} \ {Null} :
         f \in Len(mod.importFuncs)..(FuncCount - 1)
  BY <1>2, ResolveKeeps, AllocatorOwn DEF OwnOrNone
<1>16. Counts'
  BY <1>10, <1>11, <1>12, <1>13, <1>14, <1>15 DEF Counts
<1> QED
  BY <1>1, <1>4, <1>16 DEF XInv

\* Validation changes nothing that indices name.
LEMMA BodyKept ==
  ASSUME XInv, Prepare \/ PrepareFails
  PROVE  XInv'
<1>1. phase = "preparing" /\ phase' \in {"preparing", "refused"} /\ UNCHANGED file
  BY DEF Prepare, PrepareFails, loading
<1>2. Shapes /\ ElementsOk /\ BlocksAreTypes /\ Counts
  BY <1>1 DEF XInv
<1>3. CASE PrepareFails
  <2>1. phase' = "refused"
    BY <1>3 DEF PrepareFails
  <2> QED
    BY <2>1 DEF XInv
<1>4. CASE Prepare
  <2> DEFINE body == mod.functions[item].body
             N == IF body.table THEN {CacheBlock} ELSE {}
             m == [mod EXCEPT !["grows"] = @ \/ body.grows]
  <2>1. mod' = [m EXCEPT !["caches"] = @ \cup N]
    BY <1>4 DEF Prepare
  <2>2. /\ "grows" \notin Indexed /\ "caches" \notin Indexed
    BY DEF Indexed
  <2>3. Indexed \subseteq DOMAIN m /\ \A g \in Indexed : m[g] = mod[g]
    BY <1>2, <2>2, ShapesAre
  <2> HIDE DEF m, N
  <2>4. Indexed \subseteq DOMAIN mod' /\ \A g \in Indexed : mod'[g] = mod[g]
    BY <2>1, <2>2, <2>3
  <2>5. SameNamed
    BY <2>4 DEF SameNamed, Named
  <2>6. Shapes' /\ ElementsOk' /\ BlocksAreTypes'
    BY <1>1, <1>2, <2>5, NamedStays
  <2>7. Counts'
    <3>1. /\ mod'.functions = mod.functions /\ mod'.datas = mod.datas
          /\ mod'.dataCount = mod.dataCount /\ mod'.importFuncs = mod.importFuncs
          /\ mod'.malloc = mod.malloc /\ mod'.retain = mod.retain /\ mod'.free = mod.free
      BY <2>4 DEF Indexed
    <3>2. FuncCount' = FuncCount /\ \A k : CountOf(k)' = CountOf(k)
      BY <1>1, <3>1 DEF FuncCount, CountOf, Of
    <3> QED
      BY <1>2, <3>1, <3>2 DEF Counts
  <2> QED
    BY <1>1, <2>6, <2>7 DEF XInv
<1> QED
  BY <1>3, <1>4

\* Shrinking keeps the number of memories.
LEMMA MemoriesAre ==
  ASSUME NEW s, IsSeq(s)
  PROVE  IsSeq(Memories(s)) /\ Len(Memories(s)) = Len(s)
<1>1. Len(s) \in Nat /\ DOMAIN s = 1..Len(s)
  BY DEF IsSeq
<1> DEFINE t == Memories(s)
<1>2. DOMAIN t = 1..Len(s) /\ t = [i \in 1..Len(s) |-> t[i]]
  BY <1>1 DEF Memories
<1> HIDE DEF t
<1>3. Len(t) = Len(s)
  BY <1>1, <1>2
<1> QED
  BY <1>1, <1>2, <1>3 DEF IsSeq, t

LEMMA ShrinkKept ==
  ASSUME XInv, Loaded
  PROVE  XInv'
<1>1. phase = "preparing" /\ phase' = "loaded" /\ UNCHANGED file
  BY DEF Loaded, loading
<1>2. Shapes /\ ElementsOk /\ BlocksAreTypes /\ Counts
  BY <1>1 DEF XInv
<1> DEFINE a == Memories(mod.memory)
           b == Memories(mod.importMemory)
           m == [mod EXCEPT !["memory"] = a]
<1>3. mod' = [m EXCEPT !["importMemory"] = b]
  BY DEF Loaded
<1>4. /\ IsSeq(a) /\ Len(a) = Len(mod.memory) /\ IsSeq(b) /\ Len(b) = Len(mod.importMemory)
  BY <1>2, MemoriesAre DEF Shapes
<1> HIDE DEF a, b
<1>5. /\ Indexed \subseteq DOMAIN m /\ m.memory = a
      /\ \A g \in Indexed : g # "memory" => m[g] = mod[g]
      /\ "memory" \in Indexed /\ "importMemory" \in Indexed
  <2>1. Indexed \subseteq DOMAIN mod /\ "memory" \in Indexed /\ "importMemory" \in Indexed
    BY <1>2, ShapesAre DEF Indexed
  <2> QED
    BY <2>1
<1> HIDE DEF m
<1>6. /\ Indexed \subseteq DOMAIN mod' /\ mod'.memory = a /\ mod'.importMemory = b
      /\ \A g \in Indexed \ {"memory", "importMemory"} : mod'[g] = mod[g]
  BY <1>3, <1>5
<1>7. /\ mod'.importTables = mod.importTables /\ mod'.tables = mod.tables
      /\ mod'.start = mod.start /\ mod'.types = mod.types /\ mod'.importFuncs = mod.importFuncs
      /\ mod'.importGlobals = mod.importGlobals /\ mod'.functions = mod.functions
      /\ mod'.globals = mod.globals /\ mod'.exports = mod.exports
      /\ mod'.segments = mod.segments /\ mod'.names = mod.names /\ mod'.symbols = mod.symbols
      /\ mod'.codeRelocs = mod.codeRelocs /\ mod'.dataRelocs = mod.dataRelocs
      /\ mod'.datas = mod.datas /\ mod'.dataCount = mod.dataCount
      /\ mod'.malloc = mod.malloc /\ mod'.retain = mod.retain /\ mod'.free = mod.free
  BY <1>6 DEF Indexed
<1>8. Shapes'
  BY <1>2, <1>4, <1>6, <1>7 DEF Shapes
<1>9. Longer /\ Extends(mod.symbols, mod'.symbols)
  <2>1. /\ IsSeq(mod.types) /\ IsSeq(mod.functions) /\ IsSeq(mod.symbols)
        /\ mod.importTables \in Nat /\ mod.tables \in Nat
    BY <1>2 DEF Shapes
  <2>2. /\ Extends(mod.types, mod'.types) /\ Extends(mod.functions, mod'.functions)
        /\ Extends(mod.symbols, mod'.symbols)
    BY <1>7, <2>1, ExtendsSelf
  <2>3. \A g \in {"types", "functions", "importFuncs", "importMemory", "memory",
                  "importGlobals", "globals"} : LenOf(g)' = LenOf(g) /\ LenOf(g) \in Nat
    BY <1>2, <1>4, <1>6, <1>7 DEF LenOf, Shapes, IsSeq
  <2> QED
    BY <1>7, <2>1, <2>2, <2>3 DEF Longer
<1>10. Stays
  BY <1>1, <1>2, <1>7, <1>8, <1>9, GrownStays
<1>11. (mod.start # Null => StartOk(mod.start))'
  <2>1. \A f : f = mod'.start => (f # Null => StartOk(f)')
    BY <1>2, <1>7, <1>10 DEF ElementsOk, Stays
  <2> QED
    BY <2>1 DEF StartOk
<1>12. ElementsOk'
  BY <1>2, <1>7, <1>10, <1>11 DEF ElementsOk, Stays
<1>13. BlocksAreTypes'
  BY <1>2, <1>7 DEF BlocksAreTypes
<1>14. Counts'
  <2>1. FuncCount' = FuncCount /\ \A k : CountOf(k)' = CountOf(k)
    BY <1>1, <1>7 DEF FuncCount, CountOf, Of
  <2> QED
    BY <1>2, <1>7, <2>1 DEF Counts
<1> QED
  BY <1>1, <1>8, <1>12, <1>13, <1>14 DEF XInv

\* Steps that refuse the file, end it, or only read the module.
LEMMA NothingAccepted ==
  ASSUME \/ CreateFails \/ SplitFails \/ OpenFails \/ RefuseEntry \/ CloseFails \/ Unload
  PROVE  XInv'
<1>1. phase' \in {"refused", "gone"}
  BY DEF CreateFails, SplitFails, OpenFails, RefuseEntry, RefuseType, FailFunction, RefuseElem,
         RefuseData, EntryFails, CloseFails, Unload
<1> QED
  BY <1>1 DEF XInv

LEMMA ModuleRead ==
  ASSUME XInv, UNCHANGED <<file, phase, pos, item, mod>>
  PROVE  XInv'
<1>1. CASE phase \in {"loading", "preparing", "loaded"}
  <2>1. Shapes /\ ElementsOk /\ BlocksAreTypes
    BY <1>1 DEF XInv
  <2>2. SameNamed
    BY <2>1, ShapesAre DEF SameNamed
  <2>3. Shapes' /\ ElementsOk' /\ BlocksAreTypes'
    BY <2>1, <2>2, NamedStays
  <2>4. (phase = "loading" => Ascending(Len(file) + 1) /\ ReadingInv)'
    BY DEF XInv, Ascending, ReadingInv, BegunInv, ImportsFirst, CountInv, Begun, Opened, Passed,
           CountOf, Of, DataCountAgrees, Sec
  <2>5. (phase \in {"preparing", "loaded"} => Counts)'
    BY DEF XInv, Counts, CountOf, Of, FuncCount
  <2>6. phase' \notin {"start", "splitting"}
    BY <1>1
  <2> QED
    BY <2>3, <2>4, <2>5, <2>6 DEF XInv
<1>2. CASE phase \in {"start", "splitting"}
  BY <1>2 DEF XInv, Ascending
<1> QED
  BY <1>1, <1>2 DEF XInv

-----------------------------------------------------------------------------
LEMMA StepXInv == RInv /\ LInv /\ XInv /\ [Next]_vars => XInv'
<1> SUFFICES ASSUME RInv, LInv, XInv, [Next]_vars PROVE XInv'
  OBVIOUS
<1>1. CASE LoadEntry
  BY <1>1, PlainEntries, ExportRefers, SegmentRefers, SymbolRefers, RelocRefers, TypeRefers,
     FunctionRefers, TableCounts, StartRefers, ImportRefers, NameRefers DEF LoadEntry
<1>2. CASE RefuseEntry \/ CreateFails \/ SplitFails \/ OpenFails \/ CloseFails \/ Unload
  BY <1>2, NothingAccepted
<1>3. CASE CreateModule
  <2>1. phase = "start" /\ phase' = "splitting" /\ UNCHANGED <<pos, file>>
    BY <1>3 DEF CreateModule, loading
  <2> QED
    BY <2>1 DEF XInv, Ascending
<1>4. CASE Split \/ SplitDone \/ OpenSection \/ CloseSection
  BY <1>4, OrderCut, WalkBegins, CountOpens, SectionPassed
<1>5. CASE Resolve \/ Prepare \/ PrepareFails \/ Loaded
  BY <1>5, ModuleKnown, BodyKept, ShrinkKept
<1>6. CASE StartFunction \/ Ask \/ Skip \/ UNCHANGED vars
  <2>1. UNCHANGED <<file, phase, pos, item, mod>>
    BY <1>6 DEF StartFunction, Ask, Skip, vars
  <2> QED
    BY <2>1, ModuleRead
<1> QED
  BY <1>1, <1>2, <1>3, <1>4, <1>5, <1>6 DEF Next

\* Whatever the files hold, in a module that the loader accepts every index
\* names something of the finished module, of the kind it should be.
THEOREM ReferencesInvariant == Spec => []ReferencesResolve
<1>1. Init => RInv /\ LInv /\ XInv
  BY InitRInv, InitLInv, InitXInv
<1>2. RInv /\ LInv /\ XInv /\ [Next]_vars => (RInv /\ LInv /\ XInv)'
  BY StepRInv, StepLInv, StepXInv
<1> QED
  BY <1>1, <1>2, XInvResolves, PTL DEF Spec

-----------------------------------------------------------------------------
(* What shrinking leaves of a memory, proved for every set of files: the   *)
(* sizes that the linker's exported globals give, the whole memory they    *)
(* are compared with, and the one page that remains.                       *)

(* The invariant *)

DeclaredInit(i) == file[CHOOSE p \in Of("memory") : TRUE].items[i].init

\* Until it is shrunk a memory is what the file declares.
AsDeclared(i) ==
  /\ DeclaredInit(i) \in Nat /\ DeclaredInit(i) <= MaxPages
  /\ \E max : mod.memory[i] = [bytes |-> PageBytes, init |-> DeclaredInit(i), max |-> max]
MemoryAsDeclared == \A i \in DOMAIN mod.memory : AsDeclared(i)

GlobalOk(g) == g.init.op = "i32" => g.init.val \in Nat
GlobalsOk == \A g \in Elements(mod.globals) : GlobalOk(g)

\* The next entry of the memory section is the next memory.
MemoryRead ==
  pos <= Len(file) /\ Sec.kind = "memory" /\ item > 0 => Len(mod.memory) = item - 1

\* What Resolve took from the exports is what they still say.
AuxKnown ==
  AuxUsable => /\ mod.dataEnd = DataEnd /\ mod.heapBase = HeapBase
               /\ mod.stackTop = StackTop /\ mod.stackSize = StackSize

AuxFields == {"grows", "dataEnd", "heapBase", "stackTop", "stackSize"}

SInv ==
  /\ phase \in {"start", "splitting", "loading", "preparing"} => AuxFields \subseteq DOMAIN mod
  /\ phase \in {"loading", "preparing"} => MemoryAsDeclared /\ GlobalsOk
  /\ phase = "loading" => MemoryRead
  /\ phase = "preparing" => AuxKnown
  /\ ShrinkKeepsData

LEMMA InitSInv == Init => SInv
<1> SUFFICES ASSUME Init PROVE SInv
  OBVIOUS
<1>1. phase = "start" /\ AuxFields \subseteq DOMAIN mod
  BY DEF Init, NoModule, AuxFields
<1> QED
  BY <1>1 DEF SInv, ShrinkKeepsData

-----------------------------------------------------------------------------
(* The numbers of the linker *)

LEMMA AlignUp ==
  ASSUME NEW n \in Nat, NEW to \in {8, 16}
  PROVE  Align(n, to) \in Nat /\ n <= Align(n, to)
<1>1. CASE to = 8
  BY <1>1 DEF Align
<1>2. CASE to = 16
  BY <1>2 DEF Align
<1> QED
  BY <1>1, <1>2

LEMMA AuxNat ==
  ASSUME Shapes, GlobalsOk, NEW name, AuxExports(name) # {}
  PROVE  AuxValue(name) \in Nat
<1> DEFINE A == AuxExports(name)
           e == mod.exports[Least(A)]
           own == e.index - Len(mod.importGlobals) + 1
<1>1. A \subseteq Nat
  <2>1. A \subseteq DOMAIN mod.exports
    BY DEF AuxExports
  <2>2. DOMAIN mod.exports \subseteq Nat
    BY DEF Shapes, IsSeq
  <2> QED
    BY <2>1, <2>2
<1>2. Least(A) \in A
  BY <1>1, LeastIsLeast
<1>3. own \in DOMAIN mod.globals /\ mod.globals[own].init.op = "i32"
  BY <1>2 DEF AuxExports
<1>4. AuxValue(name) = mod.globals[own].init.val
  BY DEF AuxValue
<1> HIDE DEF own
<1> QED
  BY <1>3, <1>4 DEF GlobalsOk, GlobalOk, Elements

\* The stack and the data lie below the heap.
LEMMA StackBelow ==
  ASSUME Shapes, GlobalsOk, AuxUsable
  PROVE  /\ HeapBase \in Nat /\ DataEnd \in Nat /\ DataEnd <= HeapBase
         /\ StackTop \in Nat /\ StackTop <= HeapBase /\ StackSize <= StackTop
<1>1. /\ HeapBase \in Nat /\ AuxValue("__data_end") \in Nat
  BY AuxNat DEF AuxUsable, AuxFound, HeapBase
<1>2. DataEnd \in Nat /\ DataEnd <= HeapBase
  BY <1>1, AlignUp DEF DataEnd, AuxUsable
<1>3. StackGlobals # {} =>
        /\ mod.globals[Least(StackGlobals)].init.val \in Nat
        /\ mod.globals[Least(StackGlobals)].init.val <= HeapBase
  <2> SUFFICES ASSUME StackGlobals # {}
               PROVE  LET i == Least(StackGlobals)
                      IN mod.globals[i].init.val \in Nat /\ mod.globals[i].init.val <= HeapBase
    OBVIOUS
  <2>1. StackGlobals \subseteq Nat
    <3>1. StackGlobals \subseteq DOMAIN mod.globals
      BY DEF StackGlobals
    <3>2. DOMAIN mod.globals \subseteq Nat
      BY DEF Shapes, IsSeq
    <3> QED
      BY <3>1, <3>2
  <2>2. Least(StackGlobals) \in StackGlobals
    BY <2>1, LeastIsLeast
  <2>3. \A i \in StackGlobals :
          mod.globals[i].init.val \in Nat /\ mod.globals[i].init.val <= HeapBase
    <3>1. \A i \in StackGlobals :
            /\ i \in DOMAIN mod.globals /\ mod.globals[i].init.op = "i32"
            /\ mod.globals[i].init.val <= HeapBase
      BY DEF StackGlobals
    <3> QED
      BY <3>1 DEF GlobalsOk, GlobalOk, Elements
  <2> QED
    BY <2>2, <2>3
<1>4. StackTop \in Nat /\ StackTop <= HeapBase
  BY <1>1, <1>3 DEF StackTop
<1>5. StackSize <= StackTop
  BY <1>2, <1>4 DEF StackSize
<1> QED
  BY <1>1, <1>2, <1>4, <1>5

-----------------------------------------------------------------------------
(* Shrinking one memory *)

LEMMA OnePageIs ==
  ASSUME NEW b \in Nat, NEW n \in Nat, NEW max, n <= MaxPages
  PROVE  LET m == OnePage([bytes |-> b, init |-> n, max |-> max])
         IN /\ m.bytes * m.init = b * n
            /\ n < MaxPages => m.max = m.init
<1> DEFINE w == [bytes |-> b, init |-> n, max |-> max]
           one == IF n > 0 THEN 1 ELSE 0
<1>1. w.bytes = b /\ w.init = n
  OBVIOUS
<1>2. OnePage(w) = IF n < MaxPages
                   THEN [bytes |-> b * n, init |-> one, max |-> one] ELSE w
  BY <1>1 DEF OnePage
<1>3. b * n \in Nat
  OBVIOUS
<1>4. (b * n) * one = b * n
  <2> DEFINE k == b * n
  <2>1. n = 0 => k = 0
    OBVIOUS
  <2> HIDE DEF k
  <2>2. k \in Nat
    BY <1>3 DEF k
  <2>3. k * one = k
    BY <2>1, <2>2
  <2> QED
    BY <2>3 DEF k
<1> HIDE DEF w, one
<1> QED
  BY <1>1, <1>2, <1>4 DEF w

\* To the heap base or to nothing less than it was.
LEMMA ShrunkIs ==
  ASSUME Shapes, GlobalsOk, AuxKnown, NEW n \in Nat, n <= MaxPages, NEW max, ~mod.grows
  PROVE  LET m == Shrunk([bytes |-> PageBytes, init |-> n, max |-> max])
             all == n * PageBytes
         IN /\ m.bytes * m.init <= all
            /\ m.bytes * m.init < all =>
                 /\ mod.heapBase # Null
                 /\ mod.heapBase <= m.bytes * m.init /\ mod.stackTop <= m.bytes * m.init
                 /\ mod.dataEnd <= m.bytes * m.init
                 /\ mod.stackSize <= mod.stackTop
                 /\ m.max = m.init
<1> DEFINE w == [bytes |-> PageBytes, init |-> n, max |-> max]
           h == Align(HeapBase, 8)
           all == n * PageBytes
           low == AuxUsable /\ h < WordMod /\ h <= all
           m == Shrunk(w)
           used == m.bytes * m.init
<1>1. PageBytes \in Nat /\ MaxPages \in Nat /\ MaxPages > 1 /\ Null \notin Nat
  BY SizesAssumption
<1>2. all \in Nat /\ PageBytes * n = all
  BY <1>1
<1>3. ToHeapBase(w) = IF low THEN [bytes |-> h, init |-> 1, max |-> max] ELSE w
  <2>1. w.bytes * w.init = all
    BY <1>2
  <2>2. [w EXCEPT !.bytes = h, !.init = 1] = [bytes |-> h, init |-> 1, max |-> max]
    <3> DEFINE v == [w EXCEPT !["bytes"] = h]
    <3> HIDE DEF h
    <3>1. v = [bytes |-> h, init |-> n, max |-> max]
      OBVIOUS
    <3> HIDE DEF v
    <3>2. [v EXCEPT !["init"] = 1] = [bytes |-> h, init |-> 1, max |-> max]
      BY <3>1
    <3> QED
      BY <3>2 DEF v
  <2> HIDE DEF w, h
  <2> QED
    BY <2>1, <2>2 DEF ToHeapBase, h
<1>4. m = OnePage(ToHeapBase(w))
  BY DEF Shrunk
<1>5. CASE low
  <2>1. /\ HeapBase \in Nat /\ DataEnd \in Nat /\ DataEnd <= HeapBase
        /\ StackTop \in Nat /\ StackTop <= HeapBase /\ StackSize <= StackTop
    BY <1>5, StackBelow
  <2>2. h \in Nat /\ HeapBase <= h
    BY <2>1, AlignUp
  <2>3. /\ mod.dataEnd = DataEnd /\ mod.heapBase = HeapBase
        /\ mod.stackTop = StackTop /\ mod.stackSize = StackSize
    BY <1>5 DEF AuxKnown
  <2>4. m = OnePage([bytes |-> h, init |-> 1, max |-> max])
    BY <1>3, <1>4, <1>5
  <2>5. h <= all
    BY <1>5
  <2> HIDE DEF m, h, all
  <2>6. used = h * 1 /\ m.max = m.init
    BY <1>1, <2>2, <2>4, OnePageIs
  <2>7. used = h
    BY <2>2, <2>6
  <2> HIDE DEF used
  <2>8. mod.heapBase # Null
    BY <1>1, <2>1, <2>3
  <2>9. /\ mod.heapBase <= used /\ mod.stackTop <= used /\ mod.dataEnd <= used
        /\ mod.stackSize <= mod.stackTop /\ used <= all
    BY <2>1, <2>2, <2>3, <2>5, <2>7
  <2> QED
    BY <2>6, <2>8, <2>9 DEF used, m, all
<1>6. CASE ~low
  <2>1. m = OnePage([bytes |-> PageBytes, init |-> n, max |-> max])
    BY <1>3, <1>4, <1>6
  <2> HIDE DEF m
  <2>2. used = PageBytes * n
    BY <1>1, <2>1, OnePageIs
  <2> HIDE DEF used
  <2>3. used = all
    BY <1>2, <2>2
  <2>4. used <= all /\ ~(used < all)
    BY <1>2, <2>3
  <2> QED
    BY <2>4 DEF used, m
<1> QED
  BY <1>5, <1>6
-----------------------------------------------------------------------------
(* The steps *)

\* What a file declares does not change.
LEMMA DeclaredStays ==
  ASSUME UNCHANGED file
  PROVE  \A i : DeclaredInit(i)' = DeclaredInit(i)
BY DEF DeclaredInit, Of

LEMMA RefusedShrinks == phase' \in {"refused", "gone"} => SInv'
BY DEF SInv, ShrinkKeepsData

\* A step that reads no memory and no global.
LEMMA OthersRead ==
  ASSUME SInv, phase = "loading", phase' = "loading", UNCHANGED file,
         mod'.memory = mod.memory, mod'.globals = mod.globals, DOMAIN mod' = DOMAIN mod,
         MemoryRead'
  PROVE  SInv'
<1>1. AuxFields \subseteq DOMAIN mod' /\ MemoryAsDeclared /\ GlobalsOk
  BY DEF SInv
<1>2. MemoryAsDeclared' /\ GlobalsOk'
  BY <1>1, DeclaredStays DEF MemoryAsDeclared, AsDeclared, GlobalsOk
<1> QED
  BY <1>1, <1>2 DEF SInv, ShrinkKeepsData

LEMMA OnlyOne ==
  ASSUME RInv, LoadInv, pos <= Len(file), Sec.kind \notin Custom
  PROVE  \A k : k = Sec.kind => Of(k) = {pos}
<1>1. /\ Len(file) \in Nat /\ DOMAIN file = 1..Len(file) /\ pos \in DOMAIN file
  BY Positions
<1>2. \A p \in DOMAIN file : p < Len(file) + 1 /\ (p # pos => p < pos \/ pos < p)
  BY <1>1
<1>3. \A p \in DOMAIN file : p # pos => file[p].kind # Sec.kind
  BY <1>1, <1>2 DEF LoadInv, OnceBefore, Sec
<1> QED
  BY <1>1, <1>3 DEF Of, Sec

LEMMA MemoryDeclared ==
  ASSUME RInv, LInv, XInv, SInv, LoadMemory
  PROVE  SInv'
<1>1. /\ phase = "loading" /\ phase' = "loading" /\ Sec.kind = "memory" /\ pos <= Len(file)
      /\ item \in 1..Sec.count /\ item <= Len(Sec.items) /\ item' = item + 1
      /\ UNCHANGED <<pos, file>> /\ MemoryAccepted /\ Add("memory", Memory)
  BY DEF LoadMemory, At, Next1, loading
<1>2. /\ Shapes /\ MemoryAsDeclared /\ GlobalsOk /\ AuxFields \subseteq DOMAIN mod
      /\ LoadInv /\ item \in Nat \ {0} /\ pos \in DOMAIN file
      /\ DOMAIN file = 1..Len(file) /\ file \in Files
  BY <1>1, Positions DEF XInv, SInv, LInv
<1>3. Len(mod.memory) = item - 1
  BY <1>1, <1>2 DEF SInv, MemoryRead
<1>4. /\ mod'.memory = Append(mod.memory, Memory) /\ mod'.globals = mod.globals
      /\ DOMAIN mod' = DOMAIN mod /\ IsSeq(mod.memory)
  <2>1. {"memory", "globals"} \subseteq DOMAIN mod /\ IsSeq(mod.memory)
    BY <1>2 DEF Shapes, Indexed
  <2> QED
    BY <1>1, <2>1 DEF Add
<1>5. /\ DOMAIN mod'.memory = DOMAIN mod.memory \cup {item} /\ mod'.memory[item] = Memory
      /\ \A i \in DOMAIN mod.memory : mod'.memory[i] = mod.memory[i]
      /\ Len(mod'.memory) = item
  <2>1. Len(mod.memory) + 1 = item
    BY <1>2, <1>3
  <2> QED
    BY <1>4, <2>1, AppendEntries
<1>6. It.init \in Nat
  <2>1. item \in 1..Len(Sec.items)
    BY <1>1, <1>2
  <2> QED
    BY <1>1, <1>2, <2>1, SizesAssumption DEF It, Sec
<1>7. It.init <= MaxPages
  BY <1>1 DEF MemoryAccepted
<1>8. DeclaredInit(item) = It.init
  <2>1. Of("memory") = {pos}
    BY <1>1, <1>2, OnlyOne DEF Custom
  <2> QED
    BY <2>1 DEF DeclaredInit, It, Sec
<1>9. \E max : Memory = [bytes |-> PageBytes, init |-> It.init, max |-> max]
  BY DEF Memory
<1>10. MemoryAsDeclared'
  <2>1. \A i : DeclaredInit(i)' = DeclaredInit(i)
    BY <1>1, DeclaredStays
  <2>2. ASSUME NEW i \in DOMAIN mod.memory PROVE AsDeclared(i)'
    BY <1>2, <1>5, <2>1, <2>2 DEF MemoryAsDeclared, AsDeclared
  <2>3. \A i : i = item => AsDeclared(i)'
    BY <1>5, <1>6, <1>7, <1>8, <1>9, <2>1 DEF AsDeclared
  <2> QED
    BY <1>5, <2>2, <2>3 DEF MemoryAsDeclared
<1>11. GlobalsOk'
  BY <1>2, <1>4 DEF GlobalsOk
<1>12. MemoryRead'
  BY <1>1, <1>2, <1>5 DEF MemoryRead
<1> QED
  BY <1>1, <1>2, <1>4, <1>10, <1>11, <1>12 DEF SInv, ShrinkKeepsData

LEMMA GlobalNumbers ==
  ASSUME RInv, XInv, SInv, LoadGlobal
  PROVE  SInv'
<1>1. /\ phase = "loading" /\ phase' = "loading" /\ Sec.kind = "global" /\ pos <= Len(file)
      /\ item \in 1..Sec.count /\ item <= Len(Sec.items)
      /\ UNCHANGED <<pos, file>> /\ Add("globals", It)
  BY DEF LoadGlobal, At, Next1, loading
<1>2. /\ Shapes /\ MemoryAsDeclared /\ GlobalsOk /\ AuxFields \subseteq DOMAIN mod
      /\ item \in Nat \ {0} /\ pos \in DOMAIN file
      /\ DOMAIN file = 1..Len(file) /\ file \in Files
  BY <1>1, Positions DEF XInv, SInv
<1>3. /\ mod'.globals = Append(mod.globals, It) /\ mod'.memory = mod.memory
      /\ DOMAIN mod' = DOMAIN mod /\ IsSeq(mod.globals)
  <2>1. {"memory", "globals"} \subseteq DOMAIN mod /\ IsSeq(mod.globals)
    BY <1>2 DEF Shapes, Indexed
  <2> QED
    BY <1>1, <2>1 DEF Add
<1>4. GlobalOk(It)
  <2>1. item \in 1..Len(Sec.items)
    BY <1>1, <1>2
  <2> QED
    BY <1>1, <1>2, <2>1, SizesAssumption DEF It, Sec, GlobalOk
<1>5. Elements(mod'.globals) = Elements(mod.globals) \cup {It}
  BY <1>3, AppendElements
<1>6. GlobalsOk'
  BY <1>2, <1>4, <1>5 DEF GlobalsOk, GlobalOk
<1>7. MemoryAsDeclared'
  BY <1>1, <1>2, <1>3, DeclaredStays DEF MemoryAsDeclared, AsDeclared
<1>8. MemoryRead'
  BY <1>1 DEF MemoryRead, Sec
<1> QED
  BY <1>1, <1>2, <1>3, <1>6, <1>7, <1>8 DEF SInv, ShrinkKeepsData

LEMMA OtherEntries ==
  ASSUME RInv, XInv, SInv,
         \/ LoadNewType \/ LoadSameType \/ LoadImport \/ LoadFunction \/ LoadTable
         \/ LoadExport \/ LoadStart \/ LoadElem \/ LoadData \/ LoadSymbol \/ LoadReloc
         \/ LoadName
  PROVE  SInv'
<1>1. /\ phase = "loading" /\ phase' = "loading" /\ pos <= Len(file) /\ Sec.kind # "memory"
      /\ UNCHANGED <<pos, file>>
  BY DEF LoadNewType, LoadSameType, LoadImport, LoadFunction, LoadTable, LoadExport, LoadStart,
         LoadElem, LoadData, LoadSymbol, LoadReloc, LoadName, At, Next1, loading
<1>2. {"memory", "globals"} \subseteq DOMAIN mod
  BY <1>1 DEF XInv, Shapes, Indexed
<1> DEFINE Goal == /\ mod'.memory = mod.memory /\ mod'.globals = mod.globals
                   /\ DOMAIN mod' = DOMAIN mod
<1>reads. MemoryRead'
  BY <1>1 DEF MemoryRead, Sec
<1> SUFFICES Goal
  BY <1>1, <1>reads, OthersRead
<1>3. ASSUME NEW field, field \notin {"memory", "globals"}, NEW e,
             mod' = [mod EXCEPT ![field] = e]
      PROVE  Goal
  BY <1>2, <1>3
<1>4. ASSUME NEW field, field \notin {"memory", "globals"}, NEW e, Add(field, e) PROVE Goal
  BY <1>3, <1>4 DEF Add
<1>5. CASE LoadTable
  <2>1. mod' = [mod EXCEPT !["tables"] = mod.tables + 1]
    BY <1>5 DEF LoadTable
  <2> QED
    BY <1>3, <2>1
<1>6. CASE LoadStart
  <2>1. mod' = [mod EXCEPT !["start"] = It]
    BY <1>6 DEF LoadStart
  <2> QED
    BY <1>3, <2>1
<1>7. CASE LoadImport
  <2>1. CASE mod' = [mod EXCEPT !["importTables"] = 1]
    BY <1>3, <2>1
  <2>2. CASE \E e : \/ Add("importFuncs", e) \/ Add("importGlobals", e)
                    \/ Add("importMemory", e)
    BY <1>4, <2>2
  <2>3. \/ mod' = [mod EXCEPT !["importTables"] = 1]
        \/ \E e : \/ Add("importFuncs", e) \/ Add("importGlobals", e)
                  \/ Add("importMemory", e)
    BY <1>7 DEF LoadImport
  <2> QED
    BY <2>1, <2>2, <2>3
<1>8. CASE LoadName
  <2> DEFINE n == IF OwnName THEN Append(mod.names, It) ELSE mod.names
             m == [mod EXCEPT !["names"] = n]
             t == IF NeedsString THEN m.strings \cup {[str |-> It.str, block |-> EntryBlock]}
                  ELSE m.strings
  <2>1. mod' = [m EXCEPT !["strings"] = t]
    BY <1>8 DEF LoadName
  <2> HIDE DEF n, t
  <2>2. m.memory = mod.memory /\ m.globals = mod.globals /\ DOMAIN m = DOMAIN mod
    BY <1>2
  <2> HIDE DEF m
  <2> QED
    BY <1>2, <2>1, <2>2
<1>9. CASE \/ LoadNewType \/ LoadSameType \/ LoadFunction \/ LoadExport \/ LoadElem
           \/ LoadData \/ LoadSymbol \/ LoadReloc
  <2>1. \E field \in {"types", "functions", "exports", "segments", "datas", "symbols",
                      "codeRelocs", "dataRelocs"} : \E e : Add(field, e)
    BY <1>9 DEF LoadNewType, LoadSameType, LoadFunction, LoadExport, LoadElem, LoadData,
                LoadSymbol, LoadReloc, Relocs
  <2> QED
    BY <1>4, <2>1
<1> QED
  BY <1>5, <1>6, <1>7, <1>8, <1>9

\* A count is read: the memories of a section that opens are none.
LEMMA MemoryOpens ==
  ASSUME RInv, LInv, XInv, SInv, OpenSection
  PROVE  SInv'
<1>1. /\ phase = "loading" /\ phase' = "loading" /\ pos <= Len(file) /\ item = 0 /\ item' = 1
      /\ UNCHANGED <<pos, file>> /\ mod' = WithArray
  BY DEF OpenSection, loading
<1>2. /\ ModInv /\ LoadInv /\ ReadingInv
  BY <1>1 DEF LInv, XInv
<1>3. DOMAIN mod' = DOMAIN mod
  BY <1>1, <1>2, ArrayOpens
<1>4. mod'.memory = mod.memory /\ mod'.globals = mod.globals
  BY FieldsOpen DEF Named, Indexed
<1>5. Sec.kind = "memory" => mod.memory = <<>>
  BY <1>1, <1>2, FirstOfKind DEF Custom, ReadingInv, BegunInv
<1>6. MemoryRead'
  BY <1>1, <1>4, <1>5, EmptySeq DEF MemoryRead, Sec
<1> QED
  BY <1>1, <1>3, <1>4, <1>6, OthersRead

LEMMA MemoryCloses ==
  ASSUME SInv, CloseSection
  PROVE  SInv'
<1>1. /\ phase = "loading" /\ phase' = "loading" /\ item' = 0 /\ UNCHANGED <<mod, file>>
  BY DEF CloseSection, loading
<1>2. MemoryRead'
  BY <1>1 DEF MemoryRead
<1> QED
  BY <1>1, <1>2, OthersRead

LEMMA NothingRead ==
  ASSUME RInv, LInv, SInv, SplitDone
  PROVE  SInv'
<1>1. /\ phase = "splitting" /\ phase' = "loading" /\ item' = 0 /\ mod' = mod
      /\ mod = NoModule
  BY Positions DEF SplitDone, LInv
<1>2. mod'.memory = <<>> /\ mod'.globals = <<>>
  BY <1>1, NothingNamed DEF Seqs
<1>3. MemoryAsDeclared' /\ GlobalsOk'
  BY <1>2, EmptySeq, NoElements DEF MemoryAsDeclared, GlobalsOk
<1>4. MemoryRead'
  BY <1>1 DEF MemoryRead
<1>5. AuxFields \subseteq DOMAIN mod'
  BY <1>1 DEF SInv
<1> QED
  BY <1>1, <1>3, <1>4, <1>5 DEF SInv, ShrinkKeepsData

\* What the numbers of the linker are read from.
LEMMA AuxStays ==
  ASSUME mod'.exports = mod.exports, mod'.globals = mod.globals,
         mod'.importGlobals = mod.importGlobals
  PROVE  /\ AuxUsable' <=> AuxUsable
         /\ DataEnd' = DataEnd /\ HeapBase' = HeapBase
         /\ StackTop' = StackTop /\ StackSize' = StackSize
<1>1. \A name : AuxExports(name)' = AuxExports(name)
  BY DEF AuxExports
<1>2. \A name : AuxValue(name)' = AuxValue(name)
  BY <1>1 DEF AuxValue
<1>3. HeapBase' = HeapBase /\ DataEnd' = DataEnd
  BY <1>2 DEF HeapBase, DataEnd
<1>4. AuxUsable' <=> AuxUsable
  BY <1>1, <1>3 DEF AuxUsable, AuxFound
<1>5. StackGlobals' = StackGlobals
  BY <1>3 DEF StackGlobals
<1>6. StackTop' = StackTop
  BY <1>3, <1>5 DEF StackTop
<1> QED
  BY <1>3, <1>4, <1>5, <1>6 DEF StackSize

LEMMA NumbersTaken ==
  ASSUME XInv, SInv, Resolve
  PROVE  SInv'
<1>1. phase = "loading" /\ phase' = "preparing" /\ UNCHANGED file
  BY DEF Resolve, loading
<1>2. Shapes /\ MemoryAsDeclared /\ GlobalsOk /\ AuxFields \subseteq DOMAIN mod
  BY <1>1 DEF XInv, SInv
<1>3. SameNamed
  BY <1>2, ResolveKeeps
<1>4. /\ mod'.memory = mod.memory /\ mod'.globals = mod.globals /\ mod'.exports = mod.exports
      /\ mod'.importGlobals = mod.importGlobals
  BY <1>3 DEF SameNamed, Named, Indexed
<1>5. MemoryAsDeclared' /\ GlobalsOk'
  BY <1>1, <1>2, <1>4, DeclaredStays DEF MemoryAsDeclared, AsDeclared, GlobalsOk
<1> DEFINE Taken(m) ==
             /\ AuxFields \subseteq DOMAIN m
             /\ AuxUsable => /\ m.dataEnd = DataEnd /\ m.heapBase = HeapBase
                             /\ m.stackTop = StackTop /\ m.stackSize = StackSize
<1>6. Taken(ResolvedAux)
  <2> DEFINE a == [mod EXCEPT !["dataEnd"] = DataEnd]
             b == [a EXCEPT !["heapBase"] = HeapBase]
             c == [b EXCEPT !["stackTop"] = StackTop]
             d == [c EXCEPT !["stackSize"] = StackSize]
  <2>1. ResolvedAux = IF ~AuxUsable THEN mod ELSE d
    BY DEF ResolvedAux
  <2>2. AuxFields \subseteq DOMAIN a /\ a.dataEnd = DataEnd
    BY <1>2 DEF AuxFields
  <2> HIDE DEF a
  <2>3. AuxFields \subseteq DOMAIN b /\ b.dataEnd = DataEnd /\ b.heapBase = HeapBase
    BY <2>2 DEF AuxFields
  <2> HIDE DEF b
  <2>4. /\ AuxFields \subseteq DOMAIN c /\ c.dataEnd = DataEnd /\ c.heapBase = HeapBase
        /\ c.stackTop = StackTop
    BY <2>3 DEF AuxFields
  <2> HIDE DEF c
  <2>5. /\ AuxFields \subseteq DOMAIN d /\ d.dataEnd = DataEnd /\ d.heapBase = HeapBase
        /\ d.stackTop = StackTop /\ d.stackSize = StackSize
    BY <2>4 DEF AuxFields
  <2> HIDE DEF d
  <2> QED
    BY <1>2, <2>1, <2>5
<1>7. ASSUME NEW m, Taken(m), NEW field \in {"malloc", "retain", "free"}, NEW val
      PROVE  Taken([m EXCEPT ![field] = val])
  <2>1. field \notin AuxFields
    BY DEF AuxFields
  <2>2. {"dataEnd", "heapBase", "stackTop", "stackSize"} \subseteq AuxFields
    BY DEF AuxFields
  <2> QED
    BY <1>7, <2>1, <2>2
<1> HIDE DEF Taken
<1>8. Taken(mod')
  <2> DEFINE r == IF News # {} /\ Retains # {} THEN mod.exports[Least(Retains)].index ELSE Null
             f == IF Frees # {} THEN mod.exports[Greatest(Frees)].index ELSE Null
             a == [ResolvedAux EXCEPT !["malloc"] = Allocator]
             b == [a EXCEPT !["retain"] = r]
             c == [b EXCEPT !["free"] = f]
  <2>1. mod' = c
    BY DEF Resolve
  <2> HIDE DEF r, f
  <2>2. Taken(a)
    BY <1>6, <1>7
  <2> HIDE DEF a
  <2>3. Taken(b)
    BY <1>7, <2>2
  <2> HIDE DEF b
  <2> QED
    BY <1>7, <2>1, <2>3
<1>9. AuxKnown' /\ AuxFields \subseteq DOMAIN mod'
  BY <1>4, <1>8, AuxStays DEF Taken, AuxKnown
<1> QED
  BY <1>1, <1>5, <1>9 DEF SInv, ShrinkKeepsData

LEMMA BodyGrows ==
  ASSUME XInv, SInv, Prepare
  PROVE  SInv'
<1>1. phase = "preparing" /\ UNCHANGED file /\ phase' \in {"preparing", "refused"}
  BY DEF Prepare, loading
<1>2. Shapes /\ MemoryAsDeclared /\ GlobalsOk /\ AuxFields \subseteq DOMAIN mod /\ AuxKnown
  BY <1>1 DEF XInv, SInv
<1> DEFINE body == mod.functions[item].body
           N == IF body.table THEN {CacheBlock} ELSE {}
           m == [mod EXCEPT !["grows"] = @ \/ body.grows]
           Kept(n) == /\ DOMAIN n = DOMAIN mod
                      /\ n.memory = mod.memory /\ n.globals = mod.globals
                      /\ n.exports = mod.exports /\ n.importGlobals = mod.importGlobals
                      /\ n.dataEnd = mod.dataEnd /\ n.heapBase = mod.heapBase
                      /\ n.stackTop = mod.stackTop /\ n.stackSize = mod.stackSize
<1>3. mod' = [m EXCEPT !["caches"] = @ \cup N]
  BY DEF Prepare
<1>4. {"memory", "globals", "exports", "importGlobals", "dataEnd", "heapBase", "stackTop",
       "stackSize"} \subseteq DOMAIN mod
  BY <1>2 DEF Shapes, Indexed, AuxFields
<1>5. Kept(m)
  BY <1>4
<1> HIDE DEF m, N
<1>6. Kept(mod')
  BY <1>3, <1>4, <1>5
<1>7. AuxFields \subseteq DOMAIN mod' /\ AuxKnown'
  BY <1>2, <1>6, AuxStays DEF AuxKnown
<1>8. MemoryAsDeclared' /\ GlobalsOk'
  BY <1>1, <1>2, <1>6, DeclaredStays DEF MemoryAsDeclared, AsDeclared, GlobalsOk
<1>9. CASE phase' = "preparing"
  BY <1>7, <1>8, <1>9 DEF SInv, ShrinkKeepsData
<1> QED
  BY <1>1, <1>9, RefusedShrinks

\* Each memory is shrunk as ShrunkIs says, from what the file declares.
LEMMA MemoriesShrink ==
  ASSUME XInv, SInv, Loaded
  PROVE  SInv'
<1>1. phase = "preparing" /\ phase' = "loaded" /\ UNCHANGED file
  BY DEF Loaded, loading
<1>2. Shapes /\ MemoryAsDeclared /\ GlobalsOk /\ AuxFields \subseteq DOMAIN mod /\ AuxKnown
  BY <1>1 DEF XInv, SInv
<1> DEFINE m == [mod EXCEPT !["memory"] = Memories(mod.memory)]
<1>3. mod' = [m EXCEPT !["importMemory"] = Memories(m.importMemory)]
  BY DEF Loaded
<1>4. {"memory", "importMemory", "grows", "dataEnd", "heapBase", "stackTop", "stackSize"}
        \subseteq DOMAIN mod
  BY <1>2 DEF Shapes, Indexed, AuxFields
<1>5. /\ DOMAIN m = DOMAIN mod /\ m.memory = Memories(mod.memory) /\ m.grows = mod.grows
      /\ m.dataEnd = mod.dataEnd /\ m.heapBase = mod.heapBase
      /\ m.stackTop = mod.stackTop /\ m.stackSize = mod.stackSize
  BY <1>4
<1> HIDE DEF m
<1>6. /\ mod'.memory = Memories(mod.memory) /\ mod'.grows = mod.grows
      /\ mod'.dataEnd = mod.dataEnd /\ mod'.heapBase = mod.heapBase
      /\ mod'.stackTop = mod.stackTop /\ mod'.stackSize = mod.stackSize
  BY <1>3, <1>4, <1>5
<1>7. /\ DOMAIN mod'.memory = DOMAIN mod.memory
      /\ \A i \in DOMAIN mod.memory : mod'.memory[i] = Shrunk(mod.memory[i])
  BY <1>6 DEF Memories
<1>8. \A i \in DOMAIN mod.memory : Declared'[i] = DeclaredInit(i) * PageBytes
  BY <1>1, <1>7 DEF Declared, DeclaredInit, Of
<1>9. ASSUME NEW i \in DOMAIN mod.memory
      PROVE  LET s == mod'.memory[i]
                 bytes == s.bytes * s.init
             IN /\ mod'.grows => s.bytes = PageBytes
                /\ bytes <= Declared'[i]
                /\ bytes < Declared'[i] =>
                     /\ mod'.heapBase # Null
                     /\ mod'.heapBase <= bytes /\ mod'.stackTop <= bytes
                     /\ mod'.dataEnd <= bytes
                     /\ mod'.stackSize <= mod'.stackTop
                     /\ s.max = s.init
  <2> DEFINE n == DeclaredInit(i)
  <2>1. n \in Nat /\ n <= MaxPages
    BY <1>2, <1>9 DEF MemoryAsDeclared, AsDeclared
  <2>2. PICK max : mod.memory[i] = [bytes |-> PageBytes, init |-> n, max |-> max]
    BY <1>2, <1>9 DEF MemoryAsDeclared, AsDeclared
  <2> HIDE DEF n
  <2>3. mod'.memory[i] = Shrunk([bytes |-> PageBytes, init |-> n, max |-> max])
    BY <1>7, <2>2
  <2>4. Declared'[i] = n * PageBytes
    BY <1>8 DEF n
  <2>5. CASE ~mod.grows
    BY <1>2, <1>6, <2>1, <2>3, <2>4, <2>5, ShrunkIs
  <2>6. CASE mod.grows
    <3>1. mod'.memory[i] = [bytes |-> PageBytes, init |-> n, max |-> max]
      BY <2>3, <2>6 DEF Shrunk
    <3>2. PageBytes * n = n * PageBytes /\ n * PageBytes \in Nat
      BY <2>1, SizesAssumption
    <3> QED
      BY <2>4, <3>1, <3>2
  <2> QED
    BY <2>5, <2>6
<1>10. ShrinkKeepsData'
  BY <1>7, <1>9 DEF ShrinkKeepsData
<1> QED
  BY <1>1, <1>10 DEF SInv

LEMMA CompilerKeeps ==
  ASSUME SInv, UNCHANGED <<file, phase, pos, item, mod>>
  PROVE  SInv'
<1>1. ShrinkKeepsData'
  BY DEF SInv, ShrinkKeepsData, Declared, Of
<1>2. MemoryAsDeclared => MemoryAsDeclared'
  BY DeclaredStays DEF MemoryAsDeclared, AsDeclared
<1>3. AuxKnown => AuxKnown'
  BY AuxStays DEF AuxKnown
<1>4. (GlobalsOk => GlobalsOk') /\ (MemoryRead => MemoryRead')
  BY DEF GlobalsOk, MemoryRead, Sec
<1> QED
  BY <1>1, <1>2, <1>3, <1>4 DEF SInv

-----------------------------------------------------------------------------
LEMMA StepSInv == RInv /\ LInv /\ XInv /\ SInv /\ [Next]_vars => SInv'
<1> SUFFICES ASSUME RInv, LInv, XInv, SInv, [Next]_vars PROVE SInv'
  OBVIOUS
<1>1. CASE LoadEntry
  BY <1>1, MemoryDeclared, GlobalNumbers, OtherEntries DEF LoadEntry
<1>2. CASE \/ RefuseEntry \/ CreateFails \/ SplitFails \/ OpenFails \/ CloseFails \/ Unload
           \/ PrepareFails
  <2>1. phase' \in {"refused", "gone"}
    BY <1>2 DEF CreateFails, SplitFails, OpenFails, RefuseEntry, RefuseType, FailFunction,
                RefuseElem, RefuseData, EntryFails, CloseFails, Unload, PrepareFails
  <2> QED
    BY <2>1, RefusedShrinks
<1>3. CASE CreateModule \/ Split
  <2>1. phase \in {"start", "splitting"} /\ phase' = "splitting" /\ UNCHANGED mod
    BY <1>3 DEF CreateModule, Split
  <2> QED
    BY <2>1 DEF SInv, ShrinkKeepsData
<1>4. CASE SplitDone \/ OpenSection \/ CloseSection
  BY <1>4, NothingRead, MemoryOpens, MemoryCloses
<1>5. CASE Resolve \/ Prepare \/ Loaded
  BY <1>5, NumbersTaken, BodyGrows, MemoriesShrink
<1>6. CASE StartFunction \/ Ask \/ Skip \/ UNCHANGED vars
  <2>1. UNCHANGED <<file, phase, pos, item, mod>>
    BY <1>6 DEF StartFunction, Ask, Skip, vars
  <2> QED
    BY <2>1, CompilerKeeps
<1> QED
  BY <1>1, <1>2, <1>3, <1>4, <1>5, <1>6 DEF Next

\* However the linker's globals and the memory's limits lie, a memory that is
\* shrunk still holds the data and the stack it held, and one that grows is
\* left alone.
THEOREM ShrinkInvariant == Spec => []ShrinkKeepsData
<1>1. Init => RInv /\ LInv /\ XInv /\ SInv
  BY InitRInv, InitLInv, InitXInv, InitSInv
<1>2. RInv /\ LInv /\ XInv /\ SInv /\ [Next]_vars => (RInv /\ LInv /\ XInv /\ SInv)'
  BY StepRInv, StepLInv, StepXInv, StepSInv
<1>3. SInv => ShrinkKeepsData
  BY DEF SInv
<1> QED
  BY <1>1, <1>2, <1>3, PTL DEF Spec
=============================================================================
