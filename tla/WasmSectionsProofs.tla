-------------------------- MODULE WasmSectionsProofs --------------------------
(***************************************************************************)
(* Two results about the loader, for every set of files.  The walk of the  *)
(* compiler beside the relocations: the loader keeps the relocations of    *)
(* the code section in the order of their offsets, whatever else the file  *)
(* holds, and a cursor that only moves forwards then never leaves one      *)
(* behind that is asked for.  And what wasm_loader_unload finds: see       *)
(* LifetimeInvariant.                                                      *)
(***************************************************************************)
EXTENDS WasmSections, TLAPS, WellFoundedInduction, FiniteSetTheorems

-----------------------------------------------------------------------------
(* Sequences and least elements *)

IsSeq(s) == Len(s) \in Nat /\ s = [i \in 1..Len(s) |-> s[i]]

\* What Append does to a sequence of anything.
LEMMA AppendFacts ==
  ASSUME NEW s, NEW e, IsSeq(s)
  PROVE  /\ IsSeq(Append(s, e)) /\ Len(Append(s, e)) = Len(s) + 1
         /\ Append(s, e)[Len(s) + 1] = e
         /\ \A i \in 1..Len(s) : Append(s, e)[i] = s[i]
<1> DEFINE T == {s[i] : i \in 1..Len(s)} \cup {e}
<1>1. s \in [1..Len(s) -> T] /\ e \in T
  BY DEF IsSeq
<1>2. s \in Seq(T)
  BY <1>1 DEF IsSeq
<1> HIDE DEF T
<1>3. Append(s, e) \in Seq(T) /\ Len(Append(s, e)) = Len(s) + 1
  BY <1>1, <1>2
<1>4. Append(s, e)[Len(s) + 1] = e /\ \A i \in 1..Len(s) : Append(s, e)[i] = s[i]
  BY <1>1, <1>2, <1>3
<1>5. \A t \in Seq(T) : IsSeq(t)
  BY DEF IsSeq
<1> QED
  BY <1>3, <1>4, <1>5

LEMMA MinimalExists ==
  ASSUME NEW R, NEW T, T \subseteq Nat, T # {}, IsWellFoundedOn(R, Nat)
  PROVE  \E x \in T : \A y \in T : ~(<<y, x>> \in R)
BY WFMin, Zenon

LEMMA MinimalIsLeast ==
  ASSUME NEW R, NEW T, T \subseteq Nat, T # {}, IsWellFoundedOn(R, Nat),
         \A x, y \in Nat : x < y => <<x, y>> \in R
  PROVE  \E x \in T : \A y \in T : x <= y
<1>1. PICK x \in T : \A y \in T : ~(<<y, x>> \in R)
  BY MinimalExists, Zenon
<1>2. \A y \in T : ~(y < x)
  BY <1>1, Zenon
<1>3. \A m, n \in Nat : ~(m < n) => n <= m
  OBVIOUS
<1> QED
  BY <1>1, <1>2, <1>3, Zenon

\* Least is the least element of a set of natural numbers that has one.
LEMMA LeastIsLeast ==
  ASSUME NEW T, T \subseteq Nat, T # {}
  PROVE  Least(T) \in T /\ \A y \in T : Least(T) <= y
<1>1. \A x, y \in Nat : x < y => <<x, y>> \in OpToRel(<, Nat)
  BY DEF OpToRel
<1>2. \E x \in T : \A y \in T : x <= y
  BY <1>1, NatLessThanWellFounded, MinimalIsLeast, Zenon
<1> QED
  BY <1>2, Zenon DEF Least

-----------------------------------------------------------------------------
(* The invariant *)

IsBody(body) ==
  body.start \in Nat /\ \A k \in DOMAIN body.asks : body.asks[k] \in Nat

FileInv ==
  /\ file \in Files /\ pos \in Nat \ {0} /\ item \in Nat
  /\ phase \in {"start", "splitting"} => item = 0

\* The relocations are in the order of their offsets.
TableInv ==
  /\ "codeRelocs" \in DOMAIN mod /\ IsSeq(mod.codeRelocs)
  /\ \A i \in 1..RelocCount :
       Reloc(i).offset \in Nat /\ \A j \in i..RelocCount : Reloc(i).offset <= Reloc(j).offset

\* While they are read the last one is the entry before.
ReadInv ==
  phase = "loading" /\ pos <= Len(file) /\ Sec.kind = "reloc.CODE" /\ item \in 1..Sec.count =>
    IF item = 1 THEN mod.codeRelocs = <<>>
    ELSE RelocCount > 0 /\ Reloc(RelocCount).offset = Sec.items[item - 1].offset

BodyInv ==
  /\ "functions" \in DOMAIN mod /\ IsSeq(mod.functions)
  /\ \A i \in 1..Len(mod.functions) : IsBody(mod.functions[i].body)

\* What the cursor has passed lies before the instruction.
CursorInv ==
  /\ phase \notin {"loaded", "gone"} => given = {} /\ fn = 0
  /\ fn \in 0..Len(mod.functions)
  /\ fn > 0 =>
       /\ ip \in Nat /\ cursor \in 0..(RelocCount + 1)
       /\ \A i \in 1..RelocCount : cursor = 0 \/ i < cursor => Reloc(i).offset < ip

RInv == FileInv /\ TableInv /\ ReadInv /\ BodyInv /\ CursorInv /\ RelocationsApplied

LEMMA InitRInv == Init => RInv
<1> SUFFICES ASSUME Init PROVE RInv
  OBVIOUS
<1>1. /\ DOMAIN mod = DOMAIN NoModule
      /\ "codeRelocs" \in DOMAIN mod /\ mod.codeRelocs = <<>>
      /\ "functions" \in DOMAIN mod /\ mod.functions = <<>>
  BY DEF Init, NoModule
<1>2. IsSeq(<<>>) /\ Len(<<>>) = 0
  BY DEF IsSeq
<1>3. FileInv /\ ReadInv
  BY DEF Init, FileInv, ReadInv
<1>4. TableInv /\ BodyInv
  BY <1>1, <1>2 DEF TableInv, BodyInv, RelocCount, Reloc
<1>5. CursorInv /\ RelocationsApplied
  BY <1>1, <1>2 DEF Init, CursorInv, RelocationsApplied, RelocCount
<1> QED
  BY <1>3, <1>4, <1>5 DEF RInv

-----------------------------------------------------------------------------
(* Steps of the loader *)

\* The two tables the invariant is about are as they were.
Same ==
  /\ DOMAIN mod' = DOMAIN mod
  /\ mod'.codeRelocs = mod.codeRelocs /\ mod'.functions = mod.functions

LEMMA SameKeeps ==
  ASSUME TableInv, BodyInv, Same
  PROVE  TableInv' /\ BodyInv'
BY DEF TableInv, BodyInv, Same, RelocCount, Reloc

\* While a module is loaded nothing has asked for a relocation yet.
LEMMA LoaderStep ==
  ASSUME RInv, phase \notin {"loaded", "gone"}, UNCHANGED <<fn, given>>,
         FileInv', TableInv', ReadInv', BodyInv'
  PROVE  RInv'
<1>1. given' = {} /\ fn' = 0
  BY DEF RInv, CursorInv
<1>2. Len(mod.functions)' \in Nat
  BY DEF BodyInv, IsSeq
<1>3. CursorInv' /\ RelocationsApplied'
  BY <1>1, <1>2 DEF CursorInv, RelocationsApplied
<1> QED
  BY <1>3 DEF RInv

\* An entry of another section.
LEMMA OtherEntry ==
  ASSUME RInv, phase = "loading", Sec.kind # "reloc.CODE", UNCHANGED <<pos, loading>>,
         item' \in {item, item + 1}, phase' \in {"loading", "refused"},
         TableInv', BodyInv'
  PROVE  RInv'
<1>1. UNCHANGED <<fn, given, file>>
  BY DEF loading
<1>2. FileInv'
  BY <1>1 DEF RInv, FileInv
<1>3. ReadInv'
  BY <1>1 DEF ReadInv, Sec
<1> QED
  BY <1>1, <1>2, <1>3, LoaderStep

LEMMA OtherSections ==
  ASSUME RInv, phase = "loading",
         \/ LoadNewType \/ LoadSameType \/ RefuseType \/ LoadImport \/ LoadTable
         \/ LoadMemory \/ LoadGlobal \/ LoadExport \/ LoadStart \/ LoadElem \/ RefuseElem
         \/ LoadData \/ RefuseData \/ LoadSymbol \/ LoadName
  PROVE  RInv'
<1>1. "codeRelocs" \in DOMAIN mod /\ "functions" \in DOMAIN mod
  BY DEF RInv, TableInv, BodyInv
<1>2. ASSUME NEW field, NEW entry, Add(field, entry), field \notin {"codeRelocs", "functions"}
      PROVE  Same
  BY <1>1, <1>2 DEF Add, Same
<1>3. Same
  <2>1. CASE LoadNewType \/ LoadSameType \/ RefuseType
    BY <1>2, <2>1 DEF LoadNewType, LoadSameType, RefuseType
  <2>2. CASE LoadImport
    <3>1. ASSUME mod' = [mod EXCEPT !.importTables = 1] PROVE Same
      BY <1>1, <3>1 DEF Same
    <3> QED
      BY <1>2, <2>2, <3>1 DEF LoadImport
  <2>3. CASE LoadTable \/ LoadStart \/ LoadName
    BY <1>1, <2>3 DEF LoadTable, LoadStart, LoadName, Same
  <2>4. CASE LoadMemory \/ LoadGlobal \/ LoadExport \/ LoadSymbol
    BY <1>2, <2>4 DEF LoadMemory, LoadGlobal, LoadExport, LoadSymbol
  <2>5. CASE LoadElem \/ RefuseElem \/ LoadData \/ RefuseData
    BY <1>2, <2>5 DEF LoadElem, RefuseElem, LoadData, RefuseData
  <2> QED
    BY <2>1, <2>2, <2>3, <2>4, <2>5
<1>4. /\ Sec.kind # "reloc.CODE" /\ UNCHANGED <<pos, loading>>
      /\ item' \in {item, item + 1} /\ phase' \in {"loading", "refused"}
  BY DEF At, Next1, LoadNewType, LoadSameType, RefuseType, LoadImport, LoadTable,
         LoadMemory, LoadGlobal, LoadExport, LoadStart, LoadElem, RefuseElem,
         LoadData, RefuseData, LoadSymbol, LoadName
<1> QED
  BY <1>3, <1>4, SameKeeps, OtherEntry DEF RInv

LEMMA FileFacts ==
  ASSUME RInv, pos <= Len(file)
  PROVE  /\ Len(file) \in Nat /\ pos \in 1..Len(file) /\ Sec.count \in Nat
         /\ Sec.kind = "reloc.CODE" => \A i \in 1..Len(Sec.items) : Sec.items[i].offset \in Nat
BY FilesAssumption DEF RInv, FileInv, Sec

\* The body of a function is one of the code section's.
LEMMA BodyFacts ==
  ASSUME RInv, NEW i \in Nat \ {0}, HasBody(i)
  PROVE  IsBody(Body(i))
<1>1. \A f \in Files : /\ Len(f) \in Nat /\ DOMAIN f = 1..Len(f)
                       /\ \A p \in 1..Len(f) : f[p].kind = "code" =>
                            \A k \in 1..Len(f[p].items) : IsBody(f[p].items[k])
  BY FilesAssumption DEF IsBody
<1> DEFINE c == CHOOSE p \in Of("code") : TRUE
<1>2. c \in Of("code") /\ i \in 1..Len(file[c].items)
  BY DEF HasBody
<1>3. c \in 1..Len(file) /\ file[c].kind = "code"
  BY <1>1, <1>2 DEF RInv, FileInv, Of
<1>4. Body(i) = file[c].items[i]
  BY DEF Body
<1> HIDE DEF c
<1> QED
  BY <1>1, <1>2, <1>3, <1>4 DEF RInv, FileInv

LEMMA FunctionEntry ==
  ASSUME RInv, phase = "loading", LoadFunction \/ FailFunction
  PROVE  RInv'
<1>1. /\ Sec.kind = "function" /\ UNCHANGED <<pos, loading>> /\ item \in Nat \ {0}
      /\ item' \in {item, item + 1} /\ phase' \in {"loading", "refused"}
  BY FileFacts DEF At, Next1, LoadFunction, FailFunction
<1>2. HasBody(item)
  BY DEF LoadFunction, FailFunction, FunctionAccepted
<1>3. PICK o : mod' = [mod EXCEPT !["functions"] = Append(@, Function(o))]
  BY DEF LoadFunction, FailFunction, Add
<1> DEFINE f == Function(o)
<1>4. mod' = [mod EXCEPT !["functions"] = Append(@, f)] /\ f.body = Body(item)
  BY <1>3 DEF Function
<1> HIDE DEF f
<1>5. /\ DOMAIN mod' = DOMAIN mod /\ mod'.codeRelocs = mod.codeRelocs
      /\ mod'.functions = Append(mod.functions, f)
  BY <1>4 DEF RInv, TableInv, BodyInv
<1>6. TableInv'
  BY <1>5 DEF RInv, TableInv, RelocCount, Reloc
<1>7. BodyInv'
  <2>1. /\ IsSeq(mod.functions)
        /\ \A i \in 1..Len(mod.functions) : IsBody(mod.functions[i].body)
        /\ "functions" \in DOMAIN mod
    BY DEF RInv, BodyInv
  <2>2. /\ IsSeq(mod'.functions) /\ Len(mod'.functions) = Len(mod.functions) + 1
        /\ mod'.functions[Len(mod.functions) + 1] = f
        /\ \A i \in 1..Len(mod.functions) : mod'.functions[i] = mod.functions[i]
    BY <1>5, <2>1, AppendFacts
  <2>3. IsBody(f.body)
    BY <1>1, <1>2, <1>4, BodyFacts
  <2>4. Len(mod.functions) \in Nat
    BY <2>1 DEF IsSeq
  <2>5. \A i \in 1..Len(mod'.functions) : IsBody(mod'.functions[i].body)
    <3> SUFFICES ASSUME NEW i \in 1..Len(mod'.functions) PROVE IsBody(mod'.functions[i].body)
      OBVIOUS
    <3>1. CASE i \in 1..Len(mod.functions)
      BY <2>1, <2>2, <3>1
    <3>2. CASE i = Len(mod.functions) + 1
      BY <2>2, <2>3, <3>2
    <3> QED
      BY <2>2, <2>4, <3>1, <3>2
  <2> QED
    BY <1>5, <2>1, <2>2, <2>5 DEF BodyInv, IsBody
<1> QED
  BY <1>1, <1>6, <1>7, OtherEntry

\* A relocation follows the ones before: the loader compares it with the last.
LEMMA RelocEntry ==
  ASSUME RInv, phase = "loading", LoadReloc
  PROVE  RInv'
<1>1. /\ UNCHANGED <<pos, loading, phase>> /\ item' = item + 1 /\ pos <= Len(file)
      /\ item \in 1..Sec.count /\ item <= Len(Sec.items)
      /\ Sec.kind \in {"reloc.CODE", "reloc.DATA"} /\ AfterPrevious
      /\ Add(Relocs, It)
  BY DEF LoadReloc, At, Next1, RelocAccepted
<1>2. /\ Sec.count \in Nat /\ Len(file) \in Nat
      /\ Sec.kind = "reloc.CODE" => \A i \in 1..Len(Sec.items) : Sec.items[i].offset \in Nat
  BY <1>1, FileFacts
<1>3. CASE Sec.kind = "reloc.DATA"
  <2>1. Same
    BY <1>1, <1>3 DEF Add, Relocs, Same, RInv, TableInv, BodyInv
  <2> QED
    BY <1>1, <1>3, <2>1, SameKeeps, OtherEntry DEF RInv
<1>4. CASE Sec.kind = "reloc.CODE"
  <2>1. /\ DOMAIN mod' = DOMAIN mod /\ mod'.functions = mod.functions
        /\ mod'.codeRelocs = Append(mod.codeRelocs, It)
    BY <1>1, <1>4 DEF Add, Relocs, RInv, TableInv, BodyInv
  <2>2. /\ IsSeq(mod.codeRelocs) /\ RelocCount \in Nat
        /\ \A i \in 1..RelocCount :
             Reloc(i).offset \in Nat /\ \A j \in i..RelocCount : Reloc(i).offset <= Reloc(j).offset
    BY DEF RInv, TableInv, IsSeq, RelocCount
  <2>3. /\ IsSeq(mod'.codeRelocs) /\ RelocCount' = RelocCount + 1
        /\ mod'.codeRelocs[RelocCount + 1] = It
        /\ \A i \in 1..RelocCount : mod'.codeRelocs[i] = Reloc(i)
    BY <2>1, <2>2, AppendFacts DEF RelocCount, Reloc
  <2>4. It.offset \in Nat /\ \A i \in 1..RelocCount : Reloc(i).offset <= It.offset
    <3>1. item \in Nat \ {0} /\ It = Sec.items[item]
      BY <1>1, <1>2 DEF It
    <3>2. It.offset \in Nat
      BY <1>1, <1>2, <1>4, <3>1, SMT
    <3>3. CASE item = 1
      <4>1. RelocCount = 0
        BY <1>1, <1>4, <3>3 DEF RInv, ReadInv, RelocCount
      <4> QED
        BY <3>2, <4>1
    <3>4. CASE item > 1
      <4>1. RelocCount > 0 /\ Reloc(RelocCount).offset = Sec.items[item - 1].offset
        BY <1>1, <1>4, <3>4 DEF RInv, ReadInv
      <4>2. Reloc(RelocCount).offset <= It.offset
        BY <1>1, <3>4, <4>1 DEF AfterPrevious
      <4> QED
        BY <2>2, <3>2, <4>1, <4>2
    <3> QED
      BY <3>1, <3>3, <3>4
  <2>5. TableInv'
    <3>1. ASSUME NEW i \in 1..(RelocCount + 1), NEW j \in i..(RelocCount + 1)
          PROVE  /\ mod'.codeRelocs[i].offset \in Nat
                 /\ mod'.codeRelocs[i].offset <= mod'.codeRelocs[j].offset
      <4>1. CASE j \in 1..RelocCount
        BY <2>2, <2>3, <4>1
      <4>2. CASE j = RelocCount + 1
        BY <2>2, <2>3, <2>4, <4>2
      <4> QED
        BY <2>2, <4>1, <4>2
    <3>2. "codeRelocs" \in DOMAIN mod' /\ RelocCount' = RelocCount + 1
      BY <2>1, <2>3 DEF RInv, TableInv
    <3>3. \A i \in 1..(RelocCount + 1) : mod'.codeRelocs[i].offset \in Nat
      BY <2>2, <3>1
    <3> QED
      BY <2>3, <3>1, <3>2, <3>3 DEF TableInv, Reloc
  <2>6. BodyInv'
    BY <2>1 DEF RInv, BodyInv
  <2>7. ReadInv'
    <3>1. Sec' = Sec /\ item' \in Nat /\ item' - 1 = item /\ item' # 1
      BY <1>1, <1>2 DEF Sec, loading
    <3>2. RelocCount' > 0 /\ mod'.codeRelocs[RelocCount'].offset = Sec.items[item].offset
      BY <2>2, <2>3 DEF It
    <3> QED
      BY <3>1, <3>2 DEF ReadInv, Reloc
  <2>8. FileInv'
    BY <1>1, <1>2 DEF RInv, FileInv, loading
  <2> QED
    BY <1>1, <2>5, <2>6, <2>7, <2>8, LoaderStep DEF loading
<1> QED
  BY <1>1, <1>3, <1>4

\* The count of a section: its array starts empty, and the others stay.
LEMMA ArrayStarts ==
  ASSUME RInv
  PROVE  /\ DOMAIN WithArray = DOMAIN mod
         /\ WithArray.functions \in {mod.functions, <<>>}
         /\ WithArray.codeRelocs =
              IF Sec.kind = "reloc.CODE" /\ NeedsArray THEN <<>> ELSE mod.codeRelocs
<1>1. "codeRelocs" \in DOMAIN mod /\ "functions" \in DOMAIN mod
  BY DEF RInv, TableInv, BodyInv
<1> DEFINE m == IF NeedsArray THEN [mod EXCEPT !["ptr"] = [@ EXCEPT ![Sec.kind] = ArrayBlock]]
                ELSE mod
<1>2. /\ DOMAIN m = DOMAIN mod
      /\ m.functions = mod.functions /\ m.codeRelocs = mod.codeRelocs
  BY <1>1
<1>3. WithArray = IF Sec.kind = "datacount" THEN [m EXCEPT !.dataCount = Sec.count]
                  ELSE IF Field(Sec.kind) # "none" /\ (NeedsArray \/ Sec.kind = "linking")
                  THEN [m EXCEPT ![Field(Sec.kind)] = <<>>]
                  ELSE m
  BY DEF WithArray
<1> HIDE DEF m
<1>4. CASE Sec.kind = "datacount"
  BY <1>1, <1>2, <1>3, <1>4
<1>5. CASE Sec.kind = "reloc.CODE"
  BY <1>1, <1>2, <1>3, <1>5 DEF Field
<1>6. CASE Sec.kind \notin {"datacount", "reloc.CODE"}
  <2>1. Field(Sec.kind) # "codeRelocs"
    BY <1>6 DEF Field
  <2> QED
    BY <1>1, <1>2, <1>3, <1>6, <2>1
<1> QED
  BY <1>4, <1>5, <1>6

LEMMA SectionOpens ==
  ASSUME RInv, phase = "loading", OpenSection
  PROVE  RInv'
<1>1. /\ pos <= Len(file) /\ item' = 1 /\ mod' = WithArray
      /\ UNCHANGED <<phase, pos, loading>>
  BY DEF OpenSection
<1>2. FileInv'
  BY <1>1 DEF RInv, FileInv, loading
<1>3. IsSeq(<<>>) /\ Len(<<>>) = 0
  BY DEF IsSeq
<1>4. BodyInv'
  <2>1. "functions" \in DOMAIN mod' /\ mod'.functions \in {mod.functions, <<>>}
    BY <1>1, ArrayStarts DEF RInv, BodyInv
  <2> QED
    BY <1>3, <2>1 DEF RInv, BodyInv
<1>5. TableInv'
  <2>1. "codeRelocs" \in DOMAIN mod' /\ mod'.codeRelocs \in {mod.codeRelocs, <<>>}
    BY <1>1, ArrayStarts DEF RInv, TableInv
  <2>2. CASE mod'.codeRelocs = mod.codeRelocs
    BY <2>1, <2>2 DEF RInv, TableInv, RelocCount, Reloc
  <2>3. CASE mod'.codeRelocs = <<>>
    BY <1>3, <2>1, <2>3 DEF TableInv, RelocCount, Reloc
  <2> QED
    BY <2>1, <2>2, <2>3
<1>6. ReadInv'
  <2>1. Sec' = Sec /\ Sec.count \in Nat
    BY <1>1, FileFacts DEF Sec, loading
  <2>2. Sec.kind = "reloc.CODE" /\ 1 \in 1..Sec.count => mod'.codeRelocs = <<>>
    BY <1>1, <2>1, ArrayStarts DEF NeedsArray, Arrays
  <2> QED
    BY <1>1, <2>1, <2>2 DEF ReadInv
<1> QED
  BY <1>1, <1>2, <1>4, <1>5, <1>6, LoaderStep DEF loading

\* A step that leaves both tables alone and reads no entry.
LEMMA QuietStep ==
  ASSUME RInv, phase \notin {"loaded", "gone"}, UNCHANGED loading, Same,
         FileInv', phase' = "loading" => item' = 0
  PROVE  RInv'
<1>1. TableInv' /\ BodyInv'
  BY SameKeeps DEF RInv
<1>2. ReadInv'
  BY DEF ReadInv
<1> QED
  BY <1>1, <1>2, LoaderStep DEF loading

LEMMA LoaderRest ==
  ASSUME RInv,
         \/ CreateModule \/ CreateFails \/ Split \/ SplitFails \/ SplitDone
         \/ OpenFails \/ EntryFails \/ CloseSection \/ CloseFails
         \/ Resolve \/ Prepare \/ PrepareFails \/ Loaded
  PROVE  RInv'
<1>1. "codeRelocs" \in DOMAIN mod /\ "functions" \in DOMAIN mod
  BY DEF RInv, TableInv, BodyInv
<1>2. mod' = mod => Same
  BY DEF Same
<1>3. CASE \/ CreateModule \/ CreateFails \/ Split \/ SplitFails \/ SplitDone
           \/ EntryFails \/ CloseSection \/ CloseFails
  <2>1. /\ phase \notin {"loaded", "gone"} /\ UNCHANGED loading /\ mod' = mod
        /\ pos' \in {pos, pos + 1, 1} /\ item' \in {item, 0}
    BY <1>3 DEF CreateModule, CreateFails, Split, SplitFails, SplitDone,
                EntryFails, CloseSection, CloseFails
  <2>2. phase' \in {"start", "splitting", "loading"} => item' = 0
    BY <1>3 DEF RInv, FileInv, CreateModule, CreateFails, Split, SplitFails, SplitDone,
                EntryFails, CloseSection, CloseFails
  <2>3. FileInv'
    BY <2>1, <2>2 DEF RInv, FileInv, loading
  <2> QED
    BY <1>2, <2>1, <2>2, <2>3, QuietStep
<1>4. CASE OpenFails
  <2>1. Same
    BY <1>1, <1>2, <1>4 DEF OpenFails, Same
  <2>2. FileInv'
    BY <1>4 DEF OpenFails, RInv, FileInv, loading
  <2> QED
    BY <1>4, <2>1, <2>2, QuietStep DEF OpenFails
<1>5. CASE Resolve
  <2>1. DOMAIN ResolvedAux = DOMAIN mod /\ ResolvedAux.codeRelocs = mod.codeRelocs
        /\ ResolvedAux.functions = mod.functions
    BY <1>1 DEF ResolvedAux
  <2>2. Same
    BY <1>1, <1>5, <2>1 DEF Resolve, Same
  <2>3. FileInv'
    BY <1>5 DEF Resolve, RInv, FileInv, loading
  <2> QED
    BY <1>5, <2>2, <2>3, QuietStep DEF Resolve
<1>6. CASE Prepare \/ PrepareFails \/ Loaded
  <2>1. Same
    BY <1>1, <1>2, <1>6 DEF Prepare, PrepareFails, Loaded, Same
  <2>2. /\ phase = "preparing" /\ UNCHANGED <<pos, loading>> /\ item' \in {item, item + 1}
        /\ phase' \in {"preparing", "refused", "loaded"}
    BY <1>6 DEF Prepare, PrepareFails, Loaded
  <2>3. FileInv'
    BY <2>2 DEF RInv, FileInv, loading
  <2> QED
    BY <2>1, <2>2, <2>3, QuietStep
<1> QED
  BY <1>3, <1>4, <1>5, <1>6

-----------------------------------------------------------------------------
(* Steps of the compiler *)

\* The module is finished: what was proved of its tables stays.
LEMMA CompilerStep ==
  ASSUME RInv, phase = "loaded", phase' \in {"loaded", "gone"},
         UNCHANGED <<file, pos, item, mod>>, CursorInv', RelocationsApplied'
  PROVE  RInv'
<1>1. Same
  BY DEF Same
<1>2. TableInv' /\ BodyInv' /\ FileInv' /\ ReadInv'
  BY <1>1, SameKeeps DEF RInv, FileInv, ReadInv
<1> QED
  BY <1>2 DEF RInv

LEMMA NotBeforeLeast ==
  ASSUME RInv, NEW from \in Nat \ {0}, NEW offset, NotBefore(from, offset) # {}
  PROVE  LET i == Least(NotBefore(from, offset))
         IN /\ i \in from..RelocCount /\ Reloc(i).offset >= offset
            /\ \A j \in from..RelocCount : j < i => ~(Reloc(j).offset >= offset)
<1>1. NotBefore(from, offset) \subseteq Nat
  BY DEF NotBefore
<1> DEFINE i == Least(NotBefore(from, offset))
<1>2. i \in NotBefore(from, offset) /\ \A j \in NotBefore(from, offset) : i <= j
  BY <1>1, LeastIsLeast
<1> HIDE DEF i
<1>3. i \in from..RelocCount /\ Reloc(i).offset >= offset
  BY <1>2 DEF NotBefore
<1>4. \A j \in from..RelocCount : j < i => ~(Reloc(j).offset >= offset)
  BY <1>1, <1>2, <1>3 DEF NotBefore
<1> QED
  BY <1>3, <1>4 DEF i

\* What every relocation of a loaded module is.
LEMMA RelocFacts ==
  ASSUME RInv
  PROVE  /\ RelocCount \in Nat
         /\ \A i \in 1..RelocCount :
              Reloc(i).offset \in Nat /\ \A j \in i..RelocCount : Reloc(i).offset <= Reloc(j).offset
BY DEF RInv, TableInv, IsSeq, RelocCount

\* aot_compile_func begins with the first relocation that is not before its
\* body.
LEMMA FunctionStarts ==
  ASSUME RInv, StartFunction
  PROVE  RInv'
<1> DEFINE start == mod.functions[fn + 1].body.start
<1>1. /\ phase = "loaded" /\ phase' = "loaded" /\ UNCHANGED <<file, pos, item, mod, given>>
      /\ fn' = fn + 1 /\ fn < Len(mod.functions) /\ ip' = start
      /\ cursor' = IF NotBefore(1, start) = {} THEN 0 ELSE Least(NotBefore(1, start))
  BY DEF StartFunction
<1>2. /\ RelocCount \in Nat
      /\ \A i \in 1..RelocCount : Reloc(i).offset \in Nat
  BY RelocFacts
<1>3. /\ RelocCount' = RelocCount
      /\ RelocationsApplied'
  BY <1>1 DEF RInv, RelocationsApplied, RelocCount, Reloc
<1>4. fn \in Nat /\ fn + 1 \in 1..Len(mod.functions) /\ start \in Nat
  BY <1>1 DEF RInv, CursorInv, BodyInv, IsBody, IsSeq
<1> HIDE DEF start
<1>5. CASE NotBefore(1, start) = {}
  <2>1. \A i \in 1..RelocCount : Reloc(i).offset < start
    BY <1>2, <1>4, <1>5 DEF NotBefore
  <2>2. CursorInv'
    BY <1>1, <1>2, <1>3, <1>4, <1>5, <2>1 DEF CursorInv, Reloc
  <2> QED
    BY <1>1, <1>3, <2>2, CompilerStep
<1>6. CASE NotBefore(1, start) # {}
  <2>1. /\ cursor' \in 1..RelocCount
        /\ \A j \in 1..RelocCount : j < cursor' => ~(Reloc(j).offset >= start)
    BY <1>1, <1>6, NotBeforeLeast
  <2>2. \A j \in 1..RelocCount : j < cursor' => Reloc(j).offset < start
    BY <1>2, <1>4, <2>1
  <2>3. CursorInv'
    BY <1>1, <1>2, <1>3, <1>4, <2>1, <2>2 DEF CursorInv, Reloc
  <2> QED
    BY <1>1, <1>3, <2>3, CompilerStep
<1> QED
  BY <1>5, <1>6

\* The next instruction that asks lies at the instruction pointer or after.
LEMMA AskFacts ==
  ASSUME RInv, phase = "loaded", AsksLeft # {}
  PROVE  /\ fn > 0 /\ fn \in 1..Len(mod.functions) /\ ip \in Nat
         /\ Least(AsksLeft) \in Nat /\ Least(AsksLeft) >= ip
<1>1. fn \in 1..Len(mod.functions) /\ fn > 0 /\ ip \in Nat
  BY DEF AsksLeft, RInv, CursorInv, BodyInv, IsSeq
<1>2. AsksLeft = {a \in Asks : a >= ip} /\ Asks \subseteq Nat
  BY <1>1 DEF AsksLeft, Asks, RInv, BodyInv, IsBody
<1>3. Least(AsksLeft) \in AsksLeft
  BY <1>2, LeastIsLeast
<1> QED
  BY <1>1, <1>2, <1>3

\* find_relocation answers with the relocation at the offset, and with none
\* only when none is there: those it has passed lie before, and the first it
\* finds is the least of the others.
LEMMA FindIsRight ==
  ASSUME RInv, phase = "loaded", fn > 0, NEW at \in Nat, at >= ip
  PROVE  LET found == FindRelocation(at)
         IN /\ found = 0 => \A i \in 1..RelocCount : Reloc(i).offset # at
            /\ found # 0 => /\ found \in 1..RelocCount /\ Reloc(found).offset = at
                            /\ \A i \in 1..RelocCount : i <= found => Reloc(i).offset <= at
<1>1. /\ RelocCount \in Nat
      /\ \A i \in 1..RelocCount :
           Reloc(i).offset \in Nat /\ \A j \in i..RelocCount : Reloc(i).offset <= Reloc(j).offset
  BY RelocFacts
<1>2. /\ ip \in Nat /\ cursor \in 0..(RelocCount + 1)
      /\ \A i \in 1..RelocCount : cursor = 0 \/ i < cursor => Reloc(i).offset < ip
  BY DEF RInv, CursorInv
<1> DEFINE found == FindRelocation(at)
<1>3. CASE cursor = 0
  BY <1>1, <1>2, <1>3 DEF FindRelocation
<1>4. CASE cursor # 0 /\ NotBefore(cursor, at) = {}
  <2>1. found = 0
    BY <1>4 DEF FindRelocation
  <2>2. \A i \in cursor..RelocCount : ~(Reloc(i).offset >= at)
    BY <1>4 DEF NotBefore
  <2> QED
    BY <1>1, <1>2, <1>4, <2>1, <2>2
<1>5. CASE cursor # 0 /\ NotBefore(cursor, at) # {}
  <2> DEFINE i == Least(NotBefore(cursor, at))
  <2>1. /\ i \in cursor..RelocCount /\ Reloc(i).offset >= at
        /\ \A j \in cursor..RelocCount : j < i => ~(Reloc(j).offset >= at)
    BY <1>2, <1>5, NotBeforeLeast
  <2>2. found = IF Reloc(i).offset = at THEN i ELSE 0
    BY <1>5 DEF FindRelocation
  <2> HIDE DEF i, found
  <2>3. \A j \in 1..RelocCount : j < i => Reloc(j).offset < at
    BY <1>1, <1>2, <1>5, <2>1
  <2>4. \A j \in i..RelocCount : Reloc(i).offset <= Reloc(j).offset
    BY <1>1, <1>2, <1>5, <2>1
  <2>5. CASE Reloc(i).offset = at
    <3>1. found = i /\ i \in 1..RelocCount
      BY <1>2, <1>5, <2>1, <2>2, <2>5
    <3>2. \A j \in 1..RelocCount : j <= i => Reloc(j).offset <= at
      BY <1>1, <2>3, <2>5, <3>1
    <3> QED
      BY <2>5, <3>1, <3>2 DEF found
  <2>6. CASE Reloc(i).offset # at
    <3>1. found = 0
      BY <2>2, <2>6
    <3>2. \A j \in 1..RelocCount : Reloc(j).offset # at
      BY <1>1, <1>2, <1>5, <2>1, <2>3, <2>4, <2>6
    <3> QED
      BY <3>1, <3>2 DEF found
  <2> QED
    BY <2>5, <2>6
<1> QED
  BY <1>3, <1>4, <1>5

LEMMA InstructionAsks ==
  ASSUME RInv, Ask
  PROVE  RInv'
<1> DEFINE at == Least(AsksLeft)
<1> DEFINE found == FindRelocation(at)
<1>1. /\ phase = "loaded" /\ phase' = "loaded" /\ UNCHANGED <<file, pos, item, mod, fn>>
      /\ given' = given \cup {[at |-> at, reloc |-> found]}
      /\ cursor' = IF found = 0 THEN cursor ELSE found + 1
      /\ ip' = at + 1 /\ AsksLeft # {}
  BY DEF Ask
<1>2. fn > 0 /\ at \in Nat /\ at >= ip /\ ip \in Nat
  BY <1>1, AskFacts
<1> HIDE DEF at
<1>3. /\ found = 0 => \A i \in 1..RelocCount : Reloc(i).offset # at
      /\ found # 0 => /\ found \in 1..RelocCount /\ Reloc(found).offset = at
                      /\ \A i \in 1..RelocCount : i <= found => Reloc(i).offset <= at
  BY <1>1, <1>2, FindIsRight
<1> HIDE DEF found
<1>4. RelocCount' = RelocCount /\ mod' = mod
  BY <1>1 DEF RelocCount
<1>5. RelocationsApplied'
  <2> SUFFICES ASSUME NEW g \in given'
               PROVE  IF g.reloc = 0 THEN \A i \in 1..RelocCount : Reloc(i).offset # g.at
                      ELSE Reloc(g.reloc).offset = g.at
    BY <1>4 DEF RelocationsApplied, Reloc
  <2>1. CASE g \in given
    BY <2>1 DEF RInv, RelocationsApplied
  <2>2. CASE g = [at |-> at, reloc |-> found]
    BY <1>3, <2>2
  <2> QED
    BY <1>1, <2>1, <2>2
<1>6. CursorInv'
  <2>1. /\ RelocCount \in Nat /\ cursor \in 0..(RelocCount + 1)
        /\ fn \in 0..Len(mod.functions)
        /\ \A i \in 1..RelocCount : Reloc(i).offset \in Nat
        /\ \A i \in 1..RelocCount : cursor = 0 \/ i < cursor => Reloc(i).offset < ip
    BY <1>2, RelocFacts DEF RInv, CursorInv
  <2>2. cursor' \in 0..(RelocCount + 1)
    BY <1>1, <1>3, <2>1
  <2>3. \A i \in 1..RelocCount : cursor' = 0 \/ i < cursor' => Reloc(i).offset < ip'
    BY <1>1, <1>2, <1>3, <2>1
  <2> QED
    BY <1>1, <1>2, <1>4, <2>1, <2>2, <2>3 DEF CursorInv, Reloc
<1> QED
  BY <1>1, <1>5, <1>6, CompilerStep

LEMMA InstructionSkipped ==
  ASSUME RInv, Skip
  PROVE  RInv'
<1>1. /\ phase = "loaded" /\ phase' = "loaded" /\ AsksLeft # {}
      /\ UNCHANGED <<file, pos, item, mod, fn, cursor, given>>
      /\ ip' = Least(AsksLeft) + 1
  BY DEF Skip
<1>2. fn > 0 /\ ip \in Nat /\ ip' \in Nat /\ ip < ip'
  BY <1>1, AskFacts
<1>3. RelocationsApplied' /\ RelocCount' = RelocCount
  BY <1>1 DEF RInv, RelocationsApplied, RelocCount, Reloc
<1>4. \A i \in 1..RelocCount : Reloc(i).offset \in Nat
  BY RelocFacts
<1>5. CursorInv'
  BY <1>1, <1>2, <1>3, <1>4 DEF RInv, CursorInv, Reloc
<1> QED
  BY <1>1, <1>3, <1>5, CompilerStep

LEMMA ModuleUnloads ==
  ASSUME RInv, Unload
  PROVE  RInv'
<1>1. phase' = "gone" /\ UNCHANGED <<pos, item, mod, loading>>
  BY DEF Unload
<1>2. Same
  BY <1>1 DEF Same
<1>3. TableInv' /\ BodyInv' /\ FileInv' /\ ReadInv'
  BY <1>1, <1>2, SameKeeps DEF RInv, FileInv, ReadInv, loading
<1>4. CursorInv' /\ RelocationsApplied'
  BY <1>1 DEF RInv, CursorInv, RelocationsApplied, RelocCount, Reloc, loading
<1> QED
  BY <1>3, <1>4 DEF RInv

LEMMA StepRInv == RInv /\ [Next]_vars => RInv'
<1> SUFFICES ASSUME RInv, [Next]_vars PROVE RInv'
  OBVIOUS
<1>1. CASE LoadEntry
  <2>1. phase = "loading"
    BY <1>1 DEF LoadEntry, At, LoadNewType, LoadSameType, LoadImport, LoadFunction, LoadTable,
                LoadMemory, LoadGlobal, LoadExport, LoadStart, LoadElem, LoadData, LoadSymbol,
                LoadReloc, LoadName
  <2> QED
    BY <1>1, <2>1, OtherSections, FunctionEntry, RelocEntry DEF LoadEntry
<1>2. CASE RefuseEntry
  <2>1. phase = "loading"
    BY <1>2 DEF RefuseEntry, At, RefuseType, FailFunction, RefuseElem, RefuseData, EntryFails
  <2> QED
    BY <1>2, <2>1, OtherSections, FunctionEntry, LoaderRest DEF RefuseEntry
<1>3. CASE OpenSection
  BY <1>3, SectionOpens DEF OpenSection
<1>4. CASE StartFunction \/ Ask \/ Skip \/ Unload
  BY <1>4, FunctionStarts, InstructionAsks, InstructionSkipped, ModuleUnloads
<1>5. CASE UNCHANGED vars
  <2>1. UNCHANGED <<file, phase, pos, item, mod, fn, ip, cursor, given>>
    BY <1>5 DEF vars
  <2> QED
    BY <2>1 DEF RInv, FileInv, TableInv, ReadInv, BodyInv, CursorInv, RelocationsApplied,
                RelocCount, Reloc, Sec
<1> QED
  BY <1>1, <1>2, <1>3, <1>4, <1>5, LoaderRest DEF Next

\* Whatever the files hold, whatever entries are refused and whatever code is
\* skipped, each instruction that asks gets the relocation at its operand, and
\* none only when there is none.
THEOREM RelocationsInvariant == Spec => []RelocationsApplied
<1>1. RInv => RelocationsApplied
  BY DEF RInv
<1> QED
  BY <1>1, InitRInv, StepRInv, PTL DEF Spec

-----------------------------------------------------------------------------
(* What wasm_loader_unload finds, proved for every set of files: wherever  *)
(* loading stops, the blocks that the module points to are the blocks that *)
(* loader_malloc gave out, apart from the sections and from the arrays of  *)
(* custom sections that came twice, and each shared type counts the        *)
(* entries that point to it.                                               *)

(* The blocks of a module *)

BlocksOf(s) == {s[i].block : i \in DOMAIN s}
OffsetsOf(s) == {s[i].offsets : i \in DOMAIN s}
Uses(types, b) == {i \in DOMAIN types : types[i].block = b}

HoldsOf(m) ==
  {ModuleBlock} \cup ({m.ptr[k] : k \in Arrays} \ {Null})
  \cup BlocksOf(m.functions) \cup (OffsetsOf(m.functions) \ {Null})
  \cup (BlocksOf(m.segments) \ {Null}) \cup BlocksOf(m.datas)
  \cup {s.block : s \in m.strings} \cup m.caches \cup BlocksOf(m.types)

LEMMA HoldsIs == Owned \cup TypeBlocks = HoldsOf(mod)
BY DEF Owned, TypeBlocks, Pointers, HoldsOf, BlocksOf, OffsetsOf

LEMMA ReferencesAre == \A b : References(b) = Cardinality(Uses(mod.types, b))
BY DEF References, Uses

\* The entries of a sequence one longer.
LEMMA AppendEntries ==
  ASSUME NEW s, NEW e, IsSeq(s)
  PROVE  /\ IsSeq(Append(s, e)) /\ Len(s) \in Nat
         /\ DOMAIN s = 1..Len(s) /\ DOMAIN Append(s, e) = DOMAIN s \cup {Len(s) + 1}
         /\ Len(s) + 1 \notin DOMAIN s
         /\ Append(s, e)[Len(s) + 1] = e /\ Len(Append(s, e)) = Len(s) + 1
         /\ \A i \in DOMAIN s : Append(s, e)[i] = s[i]
<1>1. \A t : IsSeq(t) => Len(t) \in Nat /\ DOMAIN t = 1..Len(t)
  BY DEF IsSeq
<1>2. /\ IsSeq(Append(s, e)) /\ Len(Append(s, e)) = Len(s) + 1
      /\ Append(s, e)[Len(s) + 1] = e
      /\ \A i \in 1..Len(s) : Append(s, e)[i] = s[i]
  BY AppendFacts
<1>3. 1..(Len(s) + 1) = 1..Len(s) \cup {Len(s) + 1} /\ Len(s) + 1 \notin 1..Len(s)
  BY <1>1
<1> QED
  BY <1>1, <1>2, <1>3

LEMMA AppendBlocks ==
  ASSUME NEW s, NEW e, IsSeq(s)
  PROVE  /\ BlocksOf(Append(s, e)) = BlocksOf(s) \cup {e.block}
         /\ OffsetsOf(Append(s, e)) = OffsetsOf(s) \cup {e.offsets}
<1> DEFINE t == Append(s, e)
           n == Len(s) + 1
<1>1. DOMAIN t = DOMAIN s \cup {n} /\ t[n] = e /\ \A i \in DOMAIN s : t[i] = s[i]
  BY AppendEntries
<1> HIDE DEF t, n
<1>2. BlocksOf(t) = BlocksOf(s) \cup {e.block}
  BY <1>1 DEF BlocksOf
<1>3. OffsetsOf(t) = OffsetsOf(s) \cup {e.offsets}
  BY <1>1 DEF OffsetsOf
<1> QED
  BY <1>2, <1>3 DEF t

\* One more entry of types that points to b.
LEMMA AppendUses ==
  ASSUME NEW s, NEW e, IsSeq(s)
  PROVE  /\ \A b : b # e.block => Uses(Append(s, e), b) = Uses(s, b)
         /\ Cardinality(Uses(s, e.block)) \in Nat
         /\ Cardinality(Uses(Append(s, e), e.block)) = Cardinality(Uses(s, e.block)) + 1
<1> DEFINE t == Append(s, e)
           n == Len(s) + 1
           U == Uses(s, e.block)
<1>1. /\ DOMAIN t = DOMAIN s \cup {n} /\ n \notin DOMAIN s /\ t[n] = e
      /\ \A i \in DOMAIN s : t[i] = s[i]
      /\ DOMAIN s = 1..Len(s) /\ Len(s) \in Nat
  BY AppendEntries
<1> HIDE DEF t, n
<1>2. \A b : b # e.block => Uses(t, b) = Uses(s, b)
  BY <1>1 DEF Uses
<1>3. Uses(t, e.block) = U \cup {n} /\ n \notin U
  BY <1>1 DEF Uses
<1>4. IsFiniteSet(U)
  <2>1. U \subseteq 1..Len(s)
    BY <1>1 DEF Uses
  <2>2. IsFiniteSet(1..Len(s))
    BY <1>1, FS_Interval
  <2> QED
    BY <2>1, <2>2, FS_Subset
<1> HIDE DEF U
<1>5. Cardinality(U \cup {n}) = Cardinality(U) + 1 /\ Cardinality(U) \in Nat
  BY <1>3, <1>4, FS_AddElement, FS_CardinalityType
<1> QED
  BY <1>2, <1>3, <1>5 DEF t, U

-----------------------------------------------------------------------------
(* The invariant *)

\* A later section of its kind made the module forget this array.
Lost(b) ==
  /\ b[1] \in {"linking", "reloc.CODE", "reloc.DATA"} /\ b[3] = 0
  /\ \E p \in DOMAIN file : p > b[2] /\ file[p].kind = b[1]

Fields == {"types", "functions", "segments", "datas", "strings", "caches", "ptr"}
ModInv ==
  /\ Fields \subseteq DOMAIN mod /\ DOMAIN mod.ptr = Arrays
  /\ IsSeq(mod.types) /\ IsSeq(mod.functions) /\ IsSeq(mod.segments) /\ IsSeq(mod.datas)

\* The module points to nothing that is not there, and all there is is its.
Held ==
  /\ HoldsOf(mod) \subseteq live
  /\ \A b \in HoldsOf(mod) : b[1] # "section"
  /\ \A b \in live : b \in HoldsOf(mod) \/ b[1] = "section" \/ Lost(b)

Counted1 ==
  \A b \in BlocksOf(mod.types) :
    b \in DOMAIN refs /\ refs[b] = Cardinality(Uses(mod.types, b))

\* No two sections have the same kind, unless it is a custom one.
OnceBefore(n) ==
  \A p, q \in DOMAIN file :
    p < q /\ q < n /\ file[p].kind \notin Custom /\ file[q].kind \notin Custom =>
      file[p].kind # file[q].kind

\* The section at p has been opened.
Opened(p) == p \in 1..pos /\ (p = pos => item > 0)
Begun(kind) == \E p \in DOMAIN file : Opened(p) /\ file[p].kind = kind

PtrInv ==
  \A k \in Arrays : mod.ptr[k] # Null =>
    \E p \in DOMAIN file : Opened(p) /\ file[p].kind = k /\ mod.ptr[k] = <<k, p, 0>>
FieldInv ==
  /\ mod.types # <<>> => Begun("type")
  /\ mod.functions # <<>> => Begun("function")
  /\ mod.segments # <<>> => Begun("elem")
  /\ mod.datas # <<>> => Begun("data")

\* While types are read, each points to the block of its entry or of one before.
TypesRead ==
  pos <= Len(file) /\ Sec.kind = "type" /\ item > 0 =>
    /\ Len(mod.types) = item - 1
    /\ \A i \in DOMAIN mod.types : \E j \in 1..(item - 1) : mod.types[i].block = <<"type", pos, j>>

LoadInv == OnceBefore(Len(file) + 1) /\ PtrInv /\ FieldInv /\ TypesRead

LInv ==
  /\ ~twice /\ ModInv
  /\ phase = "start" => live = {}
  /\ phase = "gone" => \A b \in live : Lost(b)
  /\ phase \notin {"start", "gone"} => Held /\ Counted1
  /\ phase \in {"start", "splitting"} => mod = NoModule /\ OnceBefore(pos)
  /\ phase = "loading" => LoadInv

LEMMA EmptySeq == IsSeq(<<>>) /\ Len(<<>>) = 0 /\ DOMAIN <<>> = {}
BY DEF IsSeq

LEMMA NoModuleFacts ==
  /\ Fields \subseteq DOMAIN NoModule /\ DOMAIN NoModule.ptr = Arrays
  /\ NoModule.types = <<>> /\ NoModule.functions = <<>> /\ NoModule.segments = <<>>
  /\ NoModule.datas = <<>> /\ NoModule.strings = {} /\ NoModule.caches = {}
  /\ \A k \in Arrays : NoModule.ptr[k] = Null
BY DEF NoModule, Fields

LEMMA NothingHeld == HoldsOf(NoModule) = {ModuleBlock} /\ BlocksOf(NoModule.types) = {}
<1>1. BlocksOf(<<>>) = {} /\ OffsetsOf(<<>>) = {}
  BY EmptySeq DEF BlocksOf, OffsetsOf
<1> QED
  BY <1>1, NoModuleFacts DEF HoldsOf

LEMMA InitLInv == Init => LInv
<1> SUFFICES ASSUME Init PROVE LInv
  OBVIOUS
<1>1. mod = NoModule /\ phase = "start" /\ live = {} /\ ~twice /\ pos = 1
  BY DEF Init
<1>2. ModInv
  BY <1>1, NoModuleFacts, EmptySeq DEF ModInv
<1>3. OnceBefore(pos)
  <2>1. \A f \in Files : Len(f) \in Nat /\ DOMAIN f = 1..Len(f)
    BY FilesAssumption
  <2>2. DOMAIN file \subseteq Nat \ {0}
    BY <2>1 DEF Init
  <2>3. \A p, q \in Nat \ {0} : ~(p < q /\ q < 1)
    OBVIOUS
  <2> QED
    BY <1>1, <2>2, <2>3 DEF OnceBefore
<1> QED
  BY <1>1, <1>2, <1>3 DEF LInv

-----------------------------------------------------------------------------
(* Entries *)

LEMMA Positions ==
  ASSUME RInv
  PROVE  /\ Len(file) \in Nat /\ DOMAIN file = 1..Len(file) /\ file \in Files
         /\ pos \in Nat \ {0} /\ item \in Nat
         /\ phase \in {"start", "splitting"} => item = 0
         /\ pos <= Len(file) => pos \in DOMAIN file /\ Sec.count \in Nat
<1>1. \A f \in Files : /\ Len(f) \in Nat /\ DOMAIN f = 1..Len(f)
                       /\ \A p \in 1..Len(f) : f[p].count \in Nat
  BY FilesAssumption
<1> QED
  BY <1>1 DEF RInv, FileInv, Sec

\* A step that hands out some blocks and makes the module point to them.
LEMMA GainKeeps ==
  ASSUME Held, NEW N, HoldsOf(mod') = HoldsOf(mod) \cup N, live' = live \cup N,
         file' = file, \A b \in N : b[1] # "section"
  PROVE  Held'
<1>1. HoldsOf(mod') \subseteq live' /\ \A b \in HoldsOf(mod') : b[1] # "section"
  BY DEF Held
<1>2. \A b : Lost(b) => Lost(b)'
  BY DEF Lost
<1>3. \A b \in live' : b \in HoldsOf(mod') \/ b[1] = "section" \/ Lost(b)'
  BY <1>2 DEF Held
<1> QED
  BY <1>1, <1>3 DEF Held

\* A step that changes nothing of a module that it has to free.
Alike ==
  /\ Fields \subseteq DOMAIN mod' /\ mod'.ptr = mod.ptr
  /\ mod'.types = mod.types /\ mod'.functions = mod.functions
  /\ mod'.segments = mod.segments /\ mod'.datas = mod.datas
  /\ mod'.strings = mod.strings /\ mod'.caches = mod.caches

LEMMA AlikeKeeps ==
  ASSUME ModInv, Held, Counted1, Alike, UNCHANGED <<live, refs, file>>
  PROVE  ModInv' /\ Held' /\ Counted1'
<1> DEFINE N == {}
<1>1. HoldsOf(mod') = HoldsOf(mod)
  BY DEF Alike, HoldsOf
<1>2. Held'
  <2>1. /\ HoldsOf(mod') = HoldsOf(mod) \cup N /\ live' = live \cup N
        /\ \A b \in N : b[1] # "section"
    BY <1>1
  <2> HIDE DEF N
  <2> QED
    BY <2>1, GainKeeps
<1>3. ModInv'
  BY DEF ModInv, Alike
<1>4. Counted1'
  BY DEF Counted1, Alike
<1> QED
  BY <1>2, <1>3, <1>4

\* An entry of the section at pos: only the fields of its kind change.
LEMMA EntryStep ==
  ASSUME RInv, LInv, phase = "loading", pos <= Len(file), item \in 1..Sec.count,
         UNCHANGED <<pos, twice, file>>, item' \in {item, item + 1},
         phase' \in {"loading", "refused"},
         ModInv', Held', Counted1', mod'.ptr = mod.ptr,
         Sec.kind # "type" => mod'.types = mod.types,
         Sec.kind # "function" => mod'.functions = mod.functions,
         Sec.kind # "elem" => mod'.segments = mod.segments,
         Sec.kind # "data" => mod'.datas = mod.datas,
         Sec.kind = "type" /\ phase' = "loading" => TypesRead'
  PROVE  LInv'
<1>1. /\ Len(file) \in Nat /\ DOMAIN file = 1..Len(file) /\ pos \in Nat \ {0}
      /\ item \in Nat \ {0} /\ Sec.count \in Nat /\ pos \in DOMAIN file
  BY Positions
<1>2. LoadInv
  BY DEF LInv
<1>3. item' > 0
  BY <1>1
<1>4. \A p : Opened(p) => Opened(p)'
  BY <1>3 DEF Opened
<1>5. \A k : Begun(k) => Begun(k)'
  BY <1>4 DEF Begun
<1>6. \A k : k = Sec.kind => Begun(k)'
  <2>1. \A p : p = pos => Opened(p)'
    BY <1>1, <1>3 DEF Opened
  <2> QED
    BY <1>1, <2>1 DEF Begun, Sec
<1>7. PtrInv'
  BY <1>2, <1>4 DEF LoadInv, PtrInv
<1>8. FieldInv'
  BY <1>2, <1>5, <1>6 DEF LoadInv, FieldInv
<1>9. OnceBefore(Len(file) + 1)'
  BY <1>2 DEF LoadInv, OnceBefore
<1>10. phase' = "loading" => TypesRead'
  BY DEF TypesRead, Sec
<1>11. phase' = "loading" => LoadInv'
  BY <1>7, <1>8, <1>9, <1>10 DEF LoadInv
<1>12. ~twice'
  BY DEF LInv
<1> QED
  BY <1>11, <1>12 DEF LInv

LEMMA QuietEntry ==
  ASSUME RInv, LInv, phase = "loading", pos <= Len(file), item \in 1..Sec.count,
         Sec.kind # "type", Alike, UNCHANGED <<pos, twice, file, live, refs>>,
         item' \in {item, item + 1}, phase' \in {"loading", "refused"}
  PROVE  LInv'
<1>1. ModInv /\ Held /\ Counted1
  BY DEF LInv
<1>2. ModInv' /\ Held' /\ Counted1'
  BY <1>1, AlikeKeeps
<1> QED
  BY <1>2, EntryStep DEF Alike

LEMMA QuietEntries ==
  ASSUME RInv, LInv,
         \/ LoadImport \/ LoadTable \/ LoadMemory \/ LoadGlobal \/ LoadExport
         \/ LoadStart \/ LoadSymbol \/ LoadReloc
  PROVE  LInv'
<1>1. Fields \subseteq DOMAIN mod
  BY DEF LInv, ModInv
<1>2. ASSUME NEW field, NEW entry, Add(field, entry), field \notin Fields
      PROVE  Alike
  BY <1>1, <1>2 DEF Add, Alike, Fields
<1>3. Alike
  <2>1. CASE LoadImport
    <3>1. ASSUME mod' = [mod EXCEPT !.importTables = 1] PROVE Alike
      BY <1>1, <3>1 DEF Alike, Fields
    <3> QED
      BY <1>2, <2>1, <3>1 DEF LoadImport, Fields
  <2>2. CASE LoadTable \/ LoadStart
    BY <1>1, <2>2 DEF LoadTable, LoadStart, Alike, Fields
  <2>3. CASE LoadMemory \/ LoadGlobal \/ LoadExport \/ LoadSymbol
    BY <1>2, <2>3 DEF LoadMemory, LoadGlobal, LoadExport, LoadSymbol, Fields
  <2>4. CASE LoadReloc
    BY <1>2, <2>4 DEF LoadReloc, Relocs, Fields
  <2> QED
    BY <2>1, <2>2, <2>3, <2>4
<1>4. /\ phase = "loading" /\ pos <= Len(file) /\ item \in 1..Sec.count /\ Sec.kind # "type"
      /\ UNCHANGED <<pos, twice, loading, live, refs, phase>> /\ item' = item + 1
  BY DEF At, Next1, LoadImport, LoadTable, LoadMemory, LoadGlobal, LoadExport, LoadStart,
         LoadSymbol, LoadReloc
<1> QED
  BY <1>3, <1>4, QuietEntry DEF loading

LEMMA BlockFacts ==
  ASSUME RInv
  PROVE  /\ \A k \in Arrays : <<k, pos, item>> # Null /\ <<k, pos, 0>> # Null
         /\ <<"local_offsets", pos, item>> # Null
<1> DEFINE Kinds == Arrays \cup {"module", "section", "local_offsets", "name", "br_table_cache"}
<1>1. pos \in Nat /\ item \in Nat /\ 0 \in Nat
  BY Positions
<1>2. Arrays \subseteq Kinds /\ "local_offsets" \in Kinds
  OBVIOUS
<1>3. Null \notin Kinds \X Nat \X Nat
  BY NullAssumption
<1> HIDE DEF Kinds
<1> QED
  BY <1>1, <1>2, <1>3

\* A function and, when it has locals, their offsets.
LEMMA FunctionBlocks ==
  ASSUME RInv, LInv, LoadFunction \/ FailFunction
  PROVE  LInv'
<1>1. /\ Sec.kind = "function" /\ UNCHANGED <<pos, loading, twice, refs>>
      /\ phase = "loading" /\ pos <= Len(file) /\ item \in 1..Sec.count
      /\ item' \in {item, item + 1} /\ phase' \in {"loading", "refused"}
  BY DEF At, Next1, LoadFunction, FailFunction
<1>2. ModInv /\ Held /\ Counted1
  BY <1>1 DEF LInv
<1>3. /\ EntryBlock # Null /\ EntryBlock[1] = "function"
      /\ OffsetsBlock # Null /\ OffsetsBlock[1] = "local_offsets"
  <2>1. /\ <<"function", pos, item>> # Null
        /\ <<"local_offsets", pos, item>> # Null
    BY BlockFacts DEF Arrays
  <2> QED
    BY <1>1, <2>1 DEF EntryBlock, OffsetsBlock
<1>4. PICK o \in {Null, OffsetsBlock} :
        /\ mod' = [mod EXCEPT !["functions"] = Append(@, Function(o))]
        /\ live' = live \cup ({EntryBlock, o} \ {Null})
  <2>1. /\ {EntryBlock, OffsetsBlock} \ {Null} = {EntryBlock, OffsetsBlock}
        /\ {EntryBlock, Null} \ {Null} = {EntryBlock}
    BY <1>3
  <2> QED
    BY <2>1 DEF LoadFunction, FailFunction, Add, Alloc
<1> DEFINE f == Function(o)
           N == {EntryBlock, o} \ {Null}
<1>5. f.block = EntryBlock /\ f.offsets = o
  BY DEF Function
<1>6. mod' = [mod EXCEPT !["functions"] = Append(@, f)] /\ live' = live \cup N
  BY <1>4
<1> HIDE DEF f
<1>7. /\ DOMAIN mod' = DOMAIN mod /\ mod'.functions = Append(mod.functions, f)
      /\ mod'.ptr = mod.ptr /\ mod'.types = mod.types
      /\ mod'.segments = mod.segments /\ mod'.datas = mod.datas
      /\ mod'.strings = mod.strings /\ mod'.caches = mod.caches
  BY <1>2, <1>6 DEF ModInv, Fields
<1>8. /\ BlocksOf(mod'.functions) = BlocksOf(mod.functions) \cup {EntryBlock}
      /\ OffsetsOf(mod'.functions) = OffsetsOf(mod.functions) \cup {o}
      /\ IsSeq(mod'.functions)
  BY <1>2, <1>5, <1>7, AppendBlocks, AppendEntries DEF ModInv
<1>9. HoldsOf(mod') = HoldsOf(mod) \cup N
  <2>1. N = {EntryBlock} \cup ({o} \ {Null})
    BY <1>3
  <2> HIDE DEF N
  <2> QED
    BY <1>7, <1>8, <2>1 DEF HoldsOf
<1>10. \A b \in N : b[1] # "section"
  BY <1>3
<1> HIDE DEF N
<1>11. Held'
  BY <1>1, <1>2, <1>6, <1>9, <1>10, GainKeeps DEF loading
<1>12. ModInv' /\ Counted1'
  BY <1>1, <1>2, <1>7, <1>8 DEF ModInv, Counted1
<1> QED
  BY <1>1, <1>7, <1>11, <1>12, EntryStep DEF loading

\* An entry, but not a type, that hands out blocks for the module to hold.
LEMMA BlocksGained ==
  ASSUME RInv, LInv, phase = "loading", pos <= Len(file), item \in 1..Sec.count,
         Sec.kind # "type", UNCHANGED <<pos, twice, loading, refs>>,
         item' \in {item, item + 1}, phase' \in {"loading", "refused"},
         ModInv', mod'.ptr = mod.ptr, mod'.types = mod.types,
         Sec.kind # "function" => mod'.functions = mod.functions,
         Sec.kind # "elem" => mod'.segments = mod.segments,
         Sec.kind # "data" => mod'.datas = mod.datas,
         NEW N, HoldsOf(mod') = HoldsOf(mod) \cup N, live' = live \cup N,
         \A b \in N : b[1] # "section"
  PROVE  LInv'
<1>1. Held /\ Counted1 /\ file' = file
  BY DEF LInv, loading
<1>2. Held'
  BY <1>1, GainKeeps
<1>3. Counted1'
  BY <1>1 DEF Counted1
<1> QED
  BY <1>1, <1>2, <1>3, EntryStep

\* A table segment with functions has a block for them.
LEMMA SegmentBlocks ==
  ASSUME RInv, LInv, LoadElem \/ RefuseElem
  PROVE  LInv'
<1>1. /\ Sec.kind = "elem" /\ UNCHANGED <<pos, loading, twice, refs>>
      /\ phase = "loading" /\ pos <= Len(file) /\ item \in 1..Sec.count
      /\ item' \in {item, item + 1} /\ phase' \in {"loading", "refused"}
  BY DEF At, Next1, LoadElem, RefuseElem
<1>2. ModInv
  BY DEF LInv
<1>3. EntryBlock # Null /\ EntryBlock[1] = "elem"
  BY <1>1, BlockFacts DEF EntryBlock, Arrays
<1> DEFINE o == Segment.block
           N == {o} \ {Null}
<1>4. mod' = [mod EXCEPT !["segments"] = Append(@, Segment)] /\ live' = live \cup N
  BY <1>3 DEF LoadElem, RefuseElem, Add, Alloc, AllocSegment, Segment
<1>5. /\ DOMAIN mod' = DOMAIN mod /\ mod'.segments = Append(mod.segments, Segment)
      /\ mod'.ptr = mod.ptr /\ mod'.types = mod.types
      /\ mod'.functions = mod.functions /\ mod'.datas = mod.datas
      /\ mod'.strings = mod.strings /\ mod'.caches = mod.caches
  BY <1>2, <1>4 DEF ModInv, Fields
<1>6. BlocksOf(mod'.segments) = BlocksOf(mod.segments) \cup {o} /\ IsSeq(mod'.segments)
  BY <1>2, <1>5, AppendBlocks, AppendEntries DEF ModInv
<1>7. \A b \in N : b[1] # "section"
  BY <1>3 DEF Segment
<1> HIDE DEF o
<1>8. HoldsOf(mod') = HoldsOf(mod) \cup N
  BY <1>5, <1>6 DEF HoldsOf
<1>9. ModInv'
  BY <1>2, <1>5, <1>6 DEF ModInv
<1> HIDE DEF N
<1> QED
  BY <1>1, <1>4, <1>5, <1>7, <1>8, <1>9, BlocksGained

\* A data segment is a block.
LEMMA DataBlocks ==
  ASSUME RInv, LInv, LoadData \/ RefuseData
  PROVE  LInv'
<1>1. /\ Sec.kind = "data" /\ UNCHANGED <<pos, loading, twice, refs>>
      /\ phase = "loading" /\ pos <= Len(file) /\ item \in 1..Sec.count
      /\ item' \in {item, item + 1} /\ phase' \in {"loading", "refused"}
  BY DEF At, Next1, LoadData, RefuseData
<1>2. ModInv
  BY DEF LInv
<1> DEFINE N == {EntryBlock}
<1>3. mod' = [mod EXCEPT !["datas"] = Append(@, Data)] /\ live' = live \cup N
  BY DEF LoadData, RefuseData, Add, Alloc
<1>4. /\ DOMAIN mod' = DOMAIN mod /\ mod'.datas = Append(mod.datas, Data)
      /\ mod'.ptr = mod.ptr /\ mod'.types = mod.types
      /\ mod'.functions = mod.functions /\ mod'.segments = mod.segments
      /\ mod'.strings = mod.strings /\ mod'.caches = mod.caches
  BY <1>2, <1>3 DEF ModInv, Fields
<1>5. BlocksOf(mod'.datas) = BlocksOf(mod.datas) \cup N /\ IsSeq(mod'.datas)
  <2>1. Data.block = EntryBlock
    BY DEF Data
  <2> QED
    BY <1>2, <1>4, <2>1, AppendBlocks, AppendEntries DEF ModInv
<1>6. \A b \in N : b[1] # "section"
  BY <1>1 DEF EntryBlock
<1> HIDE DEF N
<1>7. HoldsOf(mod') = HoldsOf(mod) \cup N
  BY <1>4, <1>5 DEF HoldsOf
<1>8. ModInv'
  BY <1>2, <1>4, <1>5 DEF ModInv
<1> QED
  BY <1>1, <1>3, <1>4, <1>6, <1>7, <1>8, BlocksGained

\* A text that is new is copied to a block.
LEMMA NameBlocks ==
  ASSUME RInv, LInv, LoadName
  PROVE  LInv'
<1>1. /\ Sec.kind = "name" /\ UNCHANGED <<pos, loading, twice, refs, phase>>
      /\ phase = "loading" /\ pos <= Len(file) /\ item \in 1..Sec.count
      /\ item' = item + 1
  BY DEF At, Next1, LoadName
<1>2. ModInv
  BY DEF LInv
<1> DEFINE N == IF NeedsString THEN {EntryBlock} ELSE {}
           S == IF NeedsString THEN {[str |-> It.str, block |-> EntryBlock]} ELSE {}
<1> DEFINE m == [mod EXCEPT !.names = IF OwnName THEN Append(@, It) ELSE @]
<1>3. mod' = [m EXCEPT !.strings = m.strings \cup S] /\ m.strings = mod.strings
  <2>1. m.strings = mod.strings
    OBVIOUS
  <2>2. mod' = [m EXCEPT !.strings = IF NeedsString
                  THEN mod.strings \cup {[str |-> It.str, block |-> EntryBlock]}
                  ELSE mod.strings]
    BY DEF LoadName
  <2> HIDE DEF m
  <2>3. CASE NeedsString
    BY <2>1, <2>2, <2>3
  <2>4. CASE ~NeedsString
    BY <2>1, <2>2, <2>4
  <2> QED
    BY <2>3, <2>4
<1>4. live' = live \cup N
  BY DEF LoadName, Alloc
<1>5. {s.block : s \in S} = N
  <2> DEFINE r == [str |-> It.str, block |-> EntryBlock]
  <2>1. r.block = EntryBlock
    OBVIOUS
  <2>2. S = (IF NeedsString THEN {r} ELSE {}) /\ N = (IF NeedsString THEN {r.block} ELSE {})
    BY <2>1
  <2> HIDE DEF r, S, N
  <2> QED
    BY <2>2
<1>6. \A b \in N : b[1] # "section"
  BY <1>1 DEF EntryBlock
<1> HIDE DEF N, S
<1>7. /\ DOMAIN mod' = DOMAIN mod /\ mod'.strings = mod.strings \cup S
      /\ mod'.ptr = mod.ptr /\ mod'.types = mod.types
      /\ mod'.functions = mod.functions /\ mod'.segments = mod.segments
      /\ mod'.datas = mod.datas /\ mod'.caches = mod.caches
  BY <1>2, <1>3 DEF ModInv, Fields
<1>8. {s.block : s \in mod'.strings} = {s.block : s \in mod.strings} \cup N
  BY <1>5, <1>7
<1>9. HoldsOf(mod') = HoldsOf(mod) \cup N
  BY <1>7, <1>8 DEF HoldsOf
<1>10. ModInv'
  BY <1>2, <1>7 DEF ModInv
<1> QED
  BY <1>1, <1>4, <1>6, <1>7, <1>9, <1>10, BlocksGained

\* What is known of the types while they are read.
LEMMA TypeFacts ==
  ASSUME RInv, LInv, At("type")
  PROVE  /\ Sec.kind = "type" /\ phase = "loading" /\ pos <= Len(file) /\ item \in 1..Sec.count
         /\ item \in Nat \ {0} /\ ModInv /\ Held /\ Counted1
         /\ Len(mod.types) = item - 1 /\ DOMAIN mod.types = 1..(item - 1)
         /\ \A i \in DOMAIN mod.types :
              \E j \in 1..(item - 1) : mod.types[i].block = <<"type", pos, j>>
<1>1. /\ Sec.kind = "type" /\ phase = "loading" /\ pos <= Len(file) /\ item \in 1..Sec.count
  BY DEF At
<1>2. item \in Nat \ {0}
  BY <1>1, Positions
<1>3. ModInv /\ Held /\ Counted1 /\ TypesRead
  BY <1>1 DEF LInv, LoadInv
<1>4. /\ Len(mod.types) = item - 1
      /\ \A i \in DOMAIN mod.types :
           \E j \in 1..(item - 1) : mod.types[i].block = <<"type", pos, j>>
  BY <1>1, <1>2, <1>3 DEF TypesRead
<1>5. DOMAIN mod.types = 1..Len(mod.types)
  BY <1>3, AppendEntries DEF ModInv
<1> QED
  BY <1>1, <1>2, <1>3, <1>4, <1>5

\* One more entry of types.
LEMMA TypeAdded ==
  ASSUME ModInv, NEW e, Add("types", e)
  PROVE  /\ ModInv' /\ mod'.types = Append(mod.types, e) /\ mod'.ptr = mod.ptr
         /\ mod'.functions = mod.functions /\ mod'.segments = mod.segments
         /\ mod'.datas = mod.datas
         /\ BlocksOf(mod'.types) = BlocksOf(mod.types) \cup {e.block}
         /\ HoldsOf(mod') = HoldsOf(mod) \cup {e.block}
<1>1. /\ DOMAIN mod' = DOMAIN mod /\ mod'.types = Append(mod.types, e)
      /\ mod'.ptr = mod.ptr /\ mod'.datas = mod.datas
      /\ mod'.functions = mod.functions /\ mod'.segments = mod.segments
      /\ mod'.strings = mod.strings /\ mod'.caches = mod.caches
  BY DEF Add, ModInv, Fields
<1>2. BlocksOf(mod'.types) = BlocksOf(mod.types) \cup {e.block} /\ IsSeq(mod'.types)
  BY <1>1, AppendBlocks, AppendEntries DEF ModInv
<1>3. HoldsOf(mod') = HoldsOf(mod) \cup {e.block}
  BY <1>1, <1>2 DEF HoldsOf
<1>4. ModInv'
  BY <1>1, <1>2 DEF ModInv
<1> QED
  BY <1>1, <1>2, <1>3, <1>4

\* The types are read on.
LEMMA TypesReadOn ==
  ASSUME RInv, LInv, At("type"), NEW e, mod'.types = Append(mod.types, e),
         item' = item + 1, UNCHANGED <<pos, file>>,
         \E j \in 1..item : e.block = <<"type", pos, j>>
  PROVE  TypesRead'
<1>1. /\ item \in Nat \ {0} /\ Len(mod.types) = item - 1 /\ IsSeq(mod.types)
      /\ \A i \in DOMAIN mod.types :
           \E j \in 1..(item - 1) : mod.types[i].block = <<"type", pos, j>>
  BY TypeFacts DEF ModInv
<1>2. /\ Len(mod'.types) = item /\ DOMAIN mod'.types = DOMAIN mod.types \cup {item}
      /\ mod'.types[item] = e /\ \A i \in DOMAIN mod.types : mod'.types[i] = mod.types[i]
  <2>1. Len(mod.types) + 1 = item
    BY <1>1
  <2> QED
    BY <1>1, <2>1, AppendEntries
<1>3. \A i \in DOMAIN mod'.types :
        \E j \in 1..item : mod'.types[i].block = <<"type", pos, j>>
  <2>1. 1..(item - 1) \subseteq 1..item
    BY <1>1
  <2> QED
    BY <1>1, <1>2, <2>1
<1>4. item' - 1 = item
  BY <1>1
<1> QED
  BY <1>2, <1>3, <1>4 DEF TypesRead

\* A type that is new has a block of its own, counted once.
LEMMA NewTypeBlock ==
  ASSUME RInv, LInv, LoadNewType \/ RefuseType
  PROVE  LInv'
<1> DEFINE e == [block |-> EntryBlock, sig |-> It]
           N == {EntryBlock}
<1>1. /\ At("type") /\ Add("types", e) /\ live' = live \cup N
      /\ refs' = [b \in DOMAIN refs \cup {EntryBlock} |->
                    IF b = EntryBlock THEN 1 ELSE refs[b]]
      /\ UNCHANGED <<pos, loading, twice>>
      /\ item' = (IF phase' = "loading" THEN item + 1 ELSE item)
      /\ phase' \in {"loading", "refused"}
  BY DEF LoadNewType, RefuseType, Next1, Alloc, At
<1>2. /\ Sec.kind = "type" /\ phase = "loading" /\ pos <= Len(file) /\ item \in 1..Sec.count
      /\ item \in Nat \ {0} /\ ModInv /\ Held /\ Counted1
      /\ \A i \in DOMAIN mod.types :
           \E j \in 1..(item - 1) : mod.types[i].block = <<"type", pos, j>>
  BY <1>1, TypeFacts
<1>3. e.block = EntryBlock /\ EntryBlock = <<"type", pos, item>>
  BY <1>2 DEF EntryBlock
<1> HIDE DEF e
<1>4. /\ ModInv' /\ mod'.types = Append(mod.types, e) /\ mod'.ptr = mod.ptr
      /\ mod'.functions = mod.functions /\ mod'.segments = mod.segments
      /\ mod'.datas = mod.datas
      /\ BlocksOf(mod'.types) = BlocksOf(mod.types) \cup {EntryBlock}
      /\ HoldsOf(mod') = HoldsOf(mod) \cup N
  BY <1>1, <1>2, <1>3, TypeAdded
<1>5. Held'
  <2>1. \A b \in N : b[1] # "section"
    BY <1>3
  <2> HIDE DEF N
  <2> QED
    BY <1>1, <1>2, <1>4, <2>1, GainKeeps DEF loading
<1>6. EntryBlock \notin BlocksOf(mod.types)
  <2>1. item \notin 1..(item - 1)
    BY <1>2
  <2>2. \A i \in DOMAIN mod.types : mod.types[i].block # <<"type", pos, item>>
    BY <1>2, <2>1
  <2> QED
    BY <1>3, <2>2 DEF BlocksOf
<1>7. Counted1'
  <2>1. Uses(mod.types, EntryBlock) = {}
    BY <1>6 DEF Uses, BlocksOf
  <2>2. Cardinality({}) = 0
    BY FS_EmptySet
  <2>3. /\ \A b : b # EntryBlock => Uses(mod'.types, b) = Uses(mod.types, b)
        /\ Cardinality(Uses(mod'.types, EntryBlock))
             = Cardinality(Uses(mod.types, EntryBlock)) + 1
    <3>1. IsSeq(mod.types)
      BY <1>2 DEF ModInv
    <3>2. /\ \A b : b # e.block => Uses(Append(mod.types, e), b) = Uses(mod.types, b)
          /\ Cardinality(Uses(Append(mod.types, e), e.block))
               = Cardinality(Uses(mod.types, e.block)) + 1
      BY <3>1, AppendUses
    <3> QED
      BY <1>3, <1>4, <3>2
  <2>4. Cardinality(Uses(mod'.types, EntryBlock)) = 1
    BY <2>1, <2>2, <2>3
  <2>5. \A b \in BlocksOf(mod'.types) :
          b \in DOMAIN refs' /\ refs'[b] = Cardinality(Uses(mod'.types, b))
    <3> SUFFICES ASSUME NEW b \in BlocksOf(mod'.types)
                 PROVE  b \in DOMAIN refs' /\ refs'[b] = Cardinality(Uses(mod'.types, b))
      OBVIOUS
    <3>1. CASE b = EntryBlock
      BY <1>1, <2>4, <3>1
    <3>2. CASE b # EntryBlock
      BY <1>1, <1>2, <1>4, <2>3, <3>2 DEF Counted1
    <3> QED
      BY <3>1, <3>2
  <2> QED
    BY <2>5 DEF Counted1
<1>8. phase' = "loading" => TypesRead'
  <2>1. item \in 1..item
    BY <1>2
  <2> QED
    BY <1>1, <1>3, <1>4, <2>1, TypesReadOn DEF loading
<1> QED
  BY <1>1, <1>2, <1>4, <1>5, <1>7, <1>8, EntryStep DEF loading

\* A type read before is counted once more.
LEMMA SameTypeBlock ==
  ASSUME RInv, LInv, LoadSameType
  PROVE  LInv'
<1> DEFINE e == mod.types[FirstSame]
<1>1. /\ At("type") /\ Add("types", e) /\ UNCHANGED live /\ SameTypes # {}
      /\ refs' = [refs EXCEPT ![e.block] = @ + 1]
      /\ UNCHANGED <<pos, loading, twice, phase>> /\ item' = item + 1
  BY DEF LoadSameType, Next1, Shared
<1>2. /\ Sec.kind = "type" /\ phase = "loading" /\ pos <= Len(file) /\ item \in 1..Sec.count
      /\ item \in Nat \ {0} /\ ModInv /\ Held /\ Counted1
      /\ DOMAIN mod.types = 1..(item - 1)
      /\ \A i \in DOMAIN mod.types :
           \E j \in 1..(item - 1) : mod.types[i].block = <<"type", pos, j>>
  BY <1>1, TypeFacts
<1>3. FirstSame \in DOMAIN mod.types
  <2>1. SameTypes \subseteq 1..(item - 1) /\ SameTypes \subseteq Nat
    BY <1>2 DEF SameTypes
  <2>2. FirstSame = Least(SameTypes)
    BY DEF FirstSame, Least
  <2> QED
    BY <1>1, <1>2, <2>1, <2>2, LeastIsLeast
<1>4. e.block \in BlocksOf(mod.types)
  BY <1>3 DEF BlocksOf
<1>5. \E j \in 1..item : e.block = <<"type", pos, j>>
  <2>1. 1..(item - 1) \subseteq 1..item
    BY <1>2
  <2> QED
    BY <1>2, <1>3, <2>1
<1> HIDE DEF e
<1>6. /\ ModInv' /\ mod'.types = Append(mod.types, e) /\ mod'.ptr = mod.ptr
      /\ mod'.functions = mod.functions /\ mod'.segments = mod.segments
      /\ mod'.datas = mod.datas
      /\ BlocksOf(mod'.types) = BlocksOf(mod.types)
      /\ HoldsOf(mod') = HoldsOf(mod)
  <2>1. e.block \in HoldsOf(mod)
    BY <1>4 DEF HoldsOf
  <2>2. /\ ModInv' /\ mod'.types = Append(mod.types, e) /\ mod'.ptr = mod.ptr
        /\ mod'.functions = mod.functions /\ mod'.segments = mod.segments
        /\ mod'.datas = mod.datas
        /\ BlocksOf(mod'.types) = BlocksOf(mod.types) \cup {e.block}
        /\ HoldsOf(mod') = HoldsOf(mod) \cup {e.block}
    BY <1>1, <1>2, TypeAdded
  <2> QED
    BY <1>4, <2>1, <2>2
<1>7. Held'
  <2> DEFINE N == {}
  <2>1. /\ HoldsOf(mod') = HoldsOf(mod) \cup N /\ live' = live \cup N
        /\ \A b \in N : b[1] # "section"
    BY <1>1, <1>6
  <2> HIDE DEF N
  <2> QED
    BY <1>1, <1>2, <2>1, GainKeeps DEF loading
<1>8. Counted1'
  <2>1. /\ \A b : b # e.block => Uses(mod'.types, b) = Uses(mod.types, b)
        /\ Cardinality(Uses(mod'.types, e.block))
             = Cardinality(Uses(mod.types, e.block)) + 1
    BY <1>2, <1>6, AppendUses DEF ModInv
  <2>2. e.block \in DOMAIN refs /\ refs[e.block] = Cardinality(Uses(mod.types, e.block))
    BY <1>2, <1>4 DEF Counted1
  <2>3. refs'[e.block] = Cardinality(Uses(mod'.types, e.block))
    BY <1>1, <2>1, <2>2
  <2>4. \A b \in BlocksOf(mod.types) :
          b \in DOMAIN refs' /\ refs'[b] = Cardinality(Uses(mod'.types, b))
    <3> SUFFICES ASSUME NEW b \in BlocksOf(mod.types)
                 PROVE  b \in DOMAIN refs' /\ refs'[b] = Cardinality(Uses(mod'.types, b))
      OBVIOUS
    <3>1. CASE b = e.block
      BY <1>1, <2>2, <2>3, <3>1
    <3>2. CASE b # e.block
      BY <1>1, <1>2, <2>1, <3>2 DEF Counted1
    <3> QED
      BY <3>1, <3>2
  <2> QED
    BY <1>6, <2>4 DEF Counted1
<1>9. TypesRead'
  BY <1>1, <1>5, <1>6, TypesReadOn DEF loading
<1> QED
  BY <1>1, <1>2, <1>6, <1>7, <1>8, <1>9, EntryStep DEF loading

-----------------------------------------------------------------------------
(* Sections *)

\* Outside of the walk over the sections only the blocks matter.
LEMMA BlocksAlike ==
  ASSUME LInv, phase \notin {"start", "gone"}, Alike, UNCHANGED <<live, refs, file, twice>>,
         phase' \in {"refused", "preparing", "loaded"}
  PROVE  LInv'
<1>1. ModInv /\ Held /\ Counted1
  BY DEF LInv
<1>2. ModInv' /\ Held' /\ Counted1'
  BY <1>1, AlikeKeeps
<1>3. twice' = twice
  OBVIOUS
<1> QED
  BY <1>2, <1>3 DEF LInv

LEMMA SectionRefused ==
  ASSUME LInv, SplitFails \/ EntryFails \/ CloseFails
  PROVE  LInv'
<1>1. /\ phase \in {"splitting", "loading"} /\ phase' = "refused"
      /\ UNCHANGED <<mod, refs, live, twice, loading>>
  BY DEF SplitFails, EntryFails, CloseFails
<1>2. Alike
  BY <1>1 DEF LInv, ModInv, Alike
<1>3. UNCHANGED <<live, refs, file, twice>> /\ phase \notin {"start", "gone"}
  BY <1>1 DEF loading
<1> QED
  BY <1>1, <1>2, <1>3, BlocksAlike

LEMMA SectionCloses ==
  ASSUME RInv, LInv, CloseSection
  PROVE  LInv'
<1>1. /\ phase = "loading" /\ phase' = "loading" /\ pos' = pos + 1 /\ item' = 0
      /\ UNCHANGED <<mod, refs, live, twice, file>>
  BY DEF CloseSection, loading
<1>2. ModInv /\ Held /\ Counted1 /\ LoadInv /\ pos \in Nat \ {0}
  BY <1>1, Positions DEF LInv
<1>3. Alike
  BY <1>1, <1>2 DEF ModInv, Alike
<1>4. ModInv' /\ Held' /\ Counted1'
  BY <1>1, <1>2, <1>3, AlikeKeeps
<1>5. \A p : Opened(p) => Opened(p)'
  BY <1>1, <1>2 DEF Opened
<1>6. \A k : Begun(k) => Begun(k)'
  BY <1>1, <1>5 DEF Begun
<1>7. PtrInv'
  BY <1>1, <1>2, <1>5 DEF LoadInv, PtrInv
<1>8. FieldInv'
  BY <1>1, <1>2, <1>6 DEF LoadInv, FieldInv
<1>9. OnceBefore(Len(file) + 1)' /\ TypesRead'
  BY <1>1, <1>2 DEF LoadInv, OnceBefore, TypesRead
<1> QED
  BY <1>1, <1>4, <1>7, <1>8, <1>9 DEF LInv, LoadInv

\* A section that is not custom is the first of its kind.
LEMMA FirstOfKind ==
  ASSUME RInv, LoadInv, pos <= Len(file), item = 0, Sec.kind \notin Custom
  PROVE  \A k : k = Sec.kind => ~Begun(k)
<1>1. /\ Len(file) \in Nat /\ DOMAIN file = 1..Len(file) /\ pos \in DOMAIN file
  BY Positions
<1>2. \A p : Opened(p) => p \in 1..(pos - 1)
  BY <1>1 DEF Opened
<1>3. \A p \in DOMAIN file : p < pos => file[p].kind # Sec.kind
  <2>1. pos < Len(file) + 1
    BY <1>1
  <2>2. \A p \in DOMAIN file :
          p < pos /\ file[p].kind \notin Custom => file[p].kind # file[pos].kind
    BY <1>1, <2>1 DEF LoadInv, OnceBefore, Sec
  <2> QED
    BY <2>2 DEF Sec
<1>4. \A p \in 1..(pos - 1) : p < pos
  BY <1>1
<1> QED
  BY <1>2, <1>3, <1>4 DEF Begun

\* The pointer that a custom section makes the module drop was one to an array
\* of an earlier section of its kind.
LEMMA DroppedIsLost ==
  ASSUME RInv, LoadInv, pos <= Len(file), item = 0, Sec.kind \in Arrays,
         mod.ptr[Sec.kind] # Null
  PROVE  Lost(mod.ptr[Sec.kind])
<1>1. PICK p \in DOMAIN file : /\ Opened(p) /\ file[p].kind = Sec.kind
                               /\ mod.ptr[Sec.kind] = <<Sec.kind, p, 0>>
  BY DEF LoadInv, PtrInv
<1>2. pos \in DOMAIN file /\ p < pos
  BY <1>1, Positions DEF Opened
<1>3. Sec.kind \in Custom
  BY <1>1, FirstOfKind DEF Begun
<1>4. Sec.kind \in {"linking", "reloc.CODE", "reloc.DATA"}
  BY <1>3 DEF Custom, Arrays
<1> QED
  BY <1>1, <1>2, <1>4 DEF Lost, Sec

\* The count of a section: an array, and its field starts empty.
LEMMA ArrayOpens ==
  ASSUME ModInv
  PROVE  /\ DOMAIN WithArray = DOMAIN mod
         /\ WithArray.ptr = IF NeedsArray THEN [mod.ptr EXCEPT ![Sec.kind] = ArrayBlock]
                            ELSE mod.ptr
         /\ WithArray.strings = mod.strings /\ WithArray.caches = mod.caches
         /\ WithArray.types = mod.types \/ (Sec.kind = "type" /\ WithArray.types = <<>>)
         /\ \/ WithArray.functions = mod.functions
            \/ Sec.kind = "function" /\ WithArray.functions = <<>>
         /\ \/ WithArray.segments = mod.segments
            \/ Sec.kind = "elem" /\ WithArray.segments = <<>>
         /\ WithArray.datas = mod.datas \/ (Sec.kind = "data" /\ WithArray.datas = <<>>)
<1> DEFINE m == IF NeedsArray THEN [mod EXCEPT !["ptr"] = [@ EXCEPT ![Sec.kind] = ArrayBlock]]
                ELSE mod
<1>1. /\ DOMAIN m = DOMAIN mod /\ Fields \subseteq DOMAIN m
      /\ m.ptr = IF NeedsArray THEN [mod.ptr EXCEPT ![Sec.kind] = ArrayBlock] ELSE mod.ptr
      /\ m.types = mod.types /\ m.functions = mod.functions /\ m.segments = mod.segments
      /\ m.datas = mod.datas /\ m.strings = mod.strings /\ m.caches = mod.caches
  BY DEF ModInv, Fields
<1>2. WithArray = IF Sec.kind = "datacount" THEN [m EXCEPT !.dataCount = Sec.count]
                  ELSE IF Field(Sec.kind) # "none" /\ (NeedsArray \/ Sec.kind = "linking")
                  THEN [m EXCEPT ![Field(Sec.kind)] = <<>>]
                  ELSE m
  BY DEF WithArray
<1> HIDE DEF m
<1>3. CASE WithArray = [m EXCEPT !.dataCount = Sec.count]
  BY <1>1, <1>3 DEF Fields
<1>4. CASE WithArray = m
  BY <1>1, <1>4
<1>5. CASE WithArray = [m EXCEPT ![Field(Sec.kind)] = <<>>]
  <2>1. /\ Field(Sec.kind) \notin {"ptr", "strings", "caches"}
        /\ Field(Sec.kind) = "types" => Sec.kind = "type"
        /\ Field(Sec.kind) = "functions" => Sec.kind = "function"
        /\ Field(Sec.kind) = "segments" => Sec.kind = "elem"
        /\ Field(Sec.kind) = "datas" => Sec.kind = "data"
    BY DEF Field
  <2> QED
    BY <1>1, <1>5, <2>1 DEF Fields
<1> QED
  BY <1>2, <1>3, <1>4, <1>5

\* What a module holds when one of its pointers changes.
LEMMA PointerChanges ==
  ASSUME ModInv, NEW k \in Arrays, NEW b,
         mod'.ptr = [mod.ptr EXCEPT ![k] = b],
         mod'.types = mod.types, mod'.functions = mod.functions,
         mod'.segments = mod.segments, mod'.datas = mod.datas,
         mod'.strings = mod.strings, mod'.caches = mod.caches
  PROVE  /\ HoldsOf(mod') \subseteq HoldsOf(mod) \cup ({b} \ {Null})
         /\ HoldsOf(mod) \subseteq HoldsOf(mod') \cup ({mod.ptr[k]} \ {Null})
         /\ {b} \ {Null} \subseteq HoldsOf(mod')
<1> DEFINE P == {mod.ptr[j] : j \in Arrays}
           Q == {mod'.ptr[j] : j \in Arrays}
           R == {ModuleBlock} \cup BlocksOf(mod.functions) \cup (OffsetsOf(mod.functions) \ {Null})
                \cup (BlocksOf(mod.segments) \ {Null}) \cup BlocksOf(mod.datas)
                \cup {s.block : s \in mod.strings} \cup mod.caches \cup BlocksOf(mod.types)
<1>1. DOMAIN mod.ptr = Arrays
  BY DEF ModInv
<1>2. mod'.ptr[k] = b /\ \A j \in Arrays : j # k => mod'.ptr[j] = mod.ptr[j]
  BY <1>1
<1>3. Q \subseteq P \cup {b} /\ P \subseteq Q \cup {mod.ptr[k]} /\ b \in Q
  BY <1>2
<1>4. HoldsOf(mod) = R \cup (P \ {Null}) /\ HoldsOf(mod') = R \cup (Q \ {Null})
  BY DEF HoldsOf
<1> HIDE DEF P, Q, R
<1> QED
  BY <1>3, <1>4

\* The count is read, and the module gets an array of its own section.
LEMMA CountRead ==
  ASSUME RInv, LInv, OpenSection
  PROVE  LInv'
<1>1. /\ phase = "loading" /\ phase' = "loading" /\ pos <= Len(file)
      /\ item = 0 /\ item' = 1 /\ mod' = WithArray
      /\ live' = (IF NeedsArray THEN live \cup {ArrayBlock} ELSE live)
      /\ UNCHANGED <<pos, refs, twice, file>>
  BY DEF OpenSection, loading
<1>2. /\ ModInv /\ Held /\ Counted1 /\ LoadInv
      /\ pos \in Nat \ {0} /\ pos \in DOMAIN file
  BY <1>1, Positions DEF LInv
<1>3. /\ mod.types = <<>> \/ Sec.kind # "type"
      /\ mod.functions = <<>> \/ Sec.kind # "function"
      /\ mod.segments = <<>> \/ Sec.kind # "elem"
      /\ mod.datas = <<>> \/ Sec.kind # "data"
  <2>1. \A k \in {"type", "function", "elem", "data"} : k = Sec.kind => ~Begun(k)
    BY <1>1, <1>2, FirstOfKind DEF Custom
  <2> QED
    BY <1>2, <2>1 DEF LoadInv, FieldInv
<1>4. /\ DOMAIN mod' = DOMAIN mod
      /\ mod'.ptr = (IF NeedsArray THEN [mod.ptr EXCEPT ![Sec.kind] = ArrayBlock] ELSE mod.ptr)
      /\ mod'.types = mod.types /\ mod'.functions = mod.functions
      /\ mod'.segments = mod.segments /\ mod'.datas = mod.datas
      /\ mod'.strings = mod.strings /\ mod'.caches = mod.caches
  BY <1>1, <1>2, <1>3, ArrayOpens
<1>5. ModInv' /\ Counted1'
  BY <1>1, <1>2, <1>4 DEF ModInv, Counted1
<1>6. NeedsArray => /\ Sec.kind \in Arrays /\ ArrayBlock # Null
                   /\ ArrayBlock = <<Sec.kind, pos, 0>> /\ Sec.kind # "section"
  BY BlockFacts DEF NeedsArray, ArrayBlock, Arrays
<1>7. Held'
  <2>1. CASE ~NeedsArray
    <3>1. Alike /\ live' = live
      BY <1>1, <1>2, <1>4, <2>1 DEF Alike, ModInv
    <3> QED
      BY <1>1, <1>2, <3>1, AlikeKeeps
  <2>2. CASE NeedsArray
    <3> DEFINE old == mod.ptr[Sec.kind]
    <3>1. /\ HoldsOf(mod') \subseteq HoldsOf(mod) \cup {ArrayBlock}
          /\ HoldsOf(mod) \subseteq HoldsOf(mod') \cup ({old} \ {Null})
          /\ ArrayBlock \in HoldsOf(mod')
      <4>1. mod'.ptr = [mod.ptr EXCEPT ![Sec.kind] = ArrayBlock]
        BY <1>4, <2>2
      <4>2. {ArrayBlock} \ {Null} = {ArrayBlock}
        BY <1>6, <2>2
      <4> QED
        BY <1>2, <1>4, <1>6, <2>2, <4>1, <4>2, PointerChanges
    <3>2. \A b \in {old} \ {Null} : Lost(b)'
      <4>1. old # Null => Lost(old)
        BY <1>1, <1>2, <1>6, <2>2, DroppedIsLost
      <4> QED
        BY <1>1, <4>1 DEF Lost
    <3>3. \A b : Lost(b) => Lost(b)'
      BY <1>1 DEF Lost
    <3>4. ArrayBlock[1] # "section" /\ live' = live \cup {ArrayBlock}
      BY <1>1, <1>6, <2>2
    <3> HIDE DEF old
    <3>5. HoldsOf(mod') \subseteq live' /\ \A b \in HoldsOf(mod') : b[1] # "section"
      BY <1>2, <3>1, <3>4 DEF Held
    <3>6. \A b \in live' : b \in HoldsOf(mod') \/ b[1] = "section" \/ Lost(b)'
      BY <1>2, <3>1, <3>2, <3>3, <3>4 DEF Held
    <3> QED
      BY <3>5, <3>6 DEF Held
  <2> QED
    BY <2>1, <2>2
<1>8. \A p : Opened(p) => Opened(p)'
  BY <1>1 DEF Opened
<1>9. \A p : p = pos => Opened(p)'
  BY <1>1, <1>2 DEF Opened
<1>10. \A k : Begun(k) => Begun(k)'
  BY <1>1, <1>8 DEF Begun
<1>11. FieldInv' /\ OnceBefore(Len(file) + 1)'
  BY <1>1, <1>2, <1>4, <1>10 DEF LoadInv, FieldInv, OnceBefore
<1>12. PtrInv'
  <2> SUFFICES ASSUME NEW k \in Arrays, mod'.ptr[k] # Null
               PROVE  \E p \in DOMAIN file' : /\ Opened(p)' /\ file'[p].kind = k
                                             /\ mod'.ptr[k] = <<k, p, 0>>
    BY DEF PtrInv
  <2>1. CASE NeedsArray /\ k = Sec.kind
    <3>1. mod'.ptr[k] = <<k, pos, 0>>
      BY <1>2, <1>4, <1>6, <2>1 DEF ModInv
    <3> QED
      BY <1>1, <1>2, <1>9, <2>1, <3>1 DEF Sec
  <2>2. CASE ~NeedsArray \/ k # Sec.kind
    <3>1. mod'.ptr[k] = mod.ptr[k]
      BY <1>2, <1>4, <2>2 DEF ModInv
    <3> QED
      BY <1>1, <1>2, <1>8, <3>1 DEF LoadInv, PtrInv
  <2> QED
    BY <2>1, <2>2
<1>13. TypesRead'
  <2>1. \A k : k = Sec.kind => (k = Sec.kind)'
    BY <1>1 DEF Sec
  <2>2. CASE Sec.kind = "type"
    <3>1. mod'.types = <<>> /\ item' - 1 = 0
      BY <1>1, <1>3, <1>4, <2>2
    <3> QED
      BY <3>1, EmptySeq DEF TypesRead
  <2>3. CASE Sec.kind # "type"
    BY <1>1, <2>3 DEF TypesRead, Sec
  <2> QED
    BY <2>2, <2>3
<1> QED
  BY <1>1, <1>5, <1>7, <1>11, <1>12, <1>13 DEF LInv, LoadInv

\* No array: the module points to none, or to the one before.
LEMMA CountRefused ==
  ASSUME RInv, LInv, OpenFails
  PROVE  LInv'
<1>1. /\ phase = "loading" /\ phase' = "refused" /\ pos <= Len(file) /\ item = 0
      /\ UNCHANGED <<pos, refs, live, twice, file>>
  BY DEF OpenFails, loading
<1>2. ModInv /\ Held /\ Counted1 /\ LoadInv
  BY <1>1 DEF LInv
<1>3. CASE mod' = mod
  <2>1. Alike
    BY <1>2, <1>3 DEF ModInv, Alike
  <2> QED
    BY <1>1, <2>1, BlocksAlike
<1>4. CASE Sec.kind = "linking" /\ mod' = [mod EXCEPT !["ptr"] = [@ EXCEPT !["linking"] = Null]]
  <2>1. /\ DOMAIN mod' = DOMAIN mod /\ mod'.ptr = [mod.ptr EXCEPT !["linking"] = Null]
        /\ mod'.types = mod.types /\ mod'.functions = mod.functions
        /\ mod'.segments = mod.segments /\ mod'.datas = mod.datas
        /\ mod'.strings = mod.strings /\ mod'.caches = mod.caches
    BY <1>2, <1>4 DEF ModInv, Fields
  <2>2. ModInv' /\ Counted1'
    BY <1>1, <1>2, <2>1 DEF ModInv, Counted1
  <2>3. "linking" \in Arrays
    BY DEF Arrays
  <2> DEFINE old == mod.ptr["linking"]
  <2>4. /\ HoldsOf(mod') \subseteq HoldsOf(mod)
        /\ HoldsOf(mod) \subseteq HoldsOf(mod') \cup ({old} \ {Null})
    <3>1. /\ HoldsOf(mod') \subseteq HoldsOf(mod) \cup ({Null} \ {Null})
          /\ HoldsOf(mod) \subseteq HoldsOf(mod') \cup ({old} \ {Null})
      BY <1>2, <2>1, <2>3, PointerChanges
    <3> QED
      BY <3>1
  <2>5. \A b \in {old} \ {Null} : Lost(b)'
    <3>1. old # Null => Lost(old)
      BY <1>1, <1>2, <1>4, <2>3, DroppedIsLost
    <3> QED
      BY <1>1, <3>1 DEF Lost
  <2>6. \A b : Lost(b) => Lost(b)'
    BY <1>1 DEF Lost
  <2> HIDE DEF old
  <2>7. Held'
    BY <1>1, <1>2, <2>4, <2>5, <2>6 DEF Held
  <2> QED
    BY <1>1, <2>2, <2>7 DEF LInv
<1> QED
  BY <1>3, <1>4 DEF OpenFails

-----------------------------------------------------------------------------
(* The beginning *)

LEMMA ModuleCreated ==
  ASSUME LInv, CreateModule \/ CreateFails
  PROVE  LInv'
<1>1. /\ phase = "start" /\ mod = NoModule /\ mod' = NoModule /\ ~twice /\ live = {}
      /\ ModInv /\ OnceBefore(pos) /\ UNCHANGED <<twice, pos, refs, file>>
  BY DEF LInv, CreateModule, CreateFails, loading
<1>2. ModInv' /\ OnceBefore(pos)'
  BY <1>1 DEF ModInv, OnceBefore
<1>3. CASE CreateModule
  <2>1. phase' = "splitting" /\ live' = {ModuleBlock}
    BY <1>3 DEF CreateModule
  <2>2. HoldsOf(mod') = {ModuleBlock} /\ BlocksOf(mod'.types) = {}
    BY <1>1, NothingHeld
  <2>3. Held' /\ Counted1'
    BY <2>1, <2>2 DEF Held, Counted1, ModuleBlock
  <2> QED
    BY <1>1, <1>2, <2>1, <2>3 DEF LInv
<1>4. CASE CreateFails
  <2>1. phase' = "gone" /\ live' = {}
    BY <1>1, <1>4 DEF CreateFails
  <2> QED
    BY <1>1, <1>2, <2>1 DEF LInv
<1> QED
  BY <1>3, <1>4

LEMMA RankIs ==
  ASSUME NEW kind, Known(kind), kind \notin Custom
  PROVE  Rank(kind) \in Int
<1>1. Rank(kind) \in DOMAIN SectionOrder
  BY DEF Known, Rank
<1>2. DOMAIN SectionOrder \subseteq Int
  BY DEF SectionOrder
<1> QED
  BY <1>1, <1>2

\* Sections that are not custom come in order, so none comes twice.
LEMMA SectionCut ==
  ASSUME RInv, LInv, Split
  PROVE  LInv'
<1>1. /\ phase = "splitting" /\ phase' = "splitting" /\ pos <= Len(file)
      /\ Known(Sec.kind) /\ (Sec.kind \notin Custom => InOrder)
      /\ live' = live \cup {SectionBlock(pos)} /\ pos' = pos + 1
      /\ UNCHANGED <<mod, refs, twice, file>>
  BY DEF Split, loading
<1>2. /\ ModInv /\ Held /\ Counted1 /\ mod = NoModule /\ OnceBefore(pos)
      /\ Len(file) \in Nat /\ DOMAIN file = 1..Len(file) /\ pos \in Nat \ {0}
  BY <1>1, Positions DEF LInv
<1>3. ModInv' /\ Counted1'
  BY <1>1, <1>2 DEF ModInv, Counted1
<1>4. Held'
  <2>1. SectionBlock(pos)[1] = "section"
    BY DEF SectionBlock
  <2>2. \A b : Lost(b) => Lost(b)'
    BY <1>1 DEF Lost
  <2>3. HoldsOf(mod') = HoldsOf(mod)
    BY <1>1
  <2> QED
    BY <1>1, <1>2, <2>1, <2>2, <2>3 DEF Held
<1>5. OnceBefore(pos + 1)
  <2> SUFFICES ASSUME NEW p \in DOMAIN file, NEW q \in DOMAIN file, p < q, q < pos + 1,
                      file[p].kind \notin Custom, file[q].kind \notin Custom,
                      file[p].kind = file[q].kind
               PROVE  FALSE
    BY DEF OnceBefore
  <2>1. CASE q < pos
    BY <1>2, <2>1 DEF OnceBefore
  <2>2. CASE q = pos
    <3>1. p \in 1..(pos - 1) /\ Sec.kind \notin Custom
      BY <1>2, <2>2 DEF Sec
    <3>2. Rank(file[p].kind) < Rank(Sec.kind)
      BY <1>1, <3>1 DEF InOrder
    <3>3. Rank(Sec.kind) \in Int
      BY <1>1, <3>1, RankIs
    <3>4. \A k : k = Sec.kind => Rank(k) = Rank(Sec.kind)
      OBVIOUS
    <3>5. file[p].kind = Sec.kind
      BY <2>2 DEF Sec
    <3>6. Rank(file[p].kind) = Rank(Sec.kind)
      BY <3>4, <3>5
    <3> QED
      BY <3>2, <3>3, <3>6
  <2> QED
    BY <1>2, <2>1, <2>2
<1>6. OnceBefore(pos)'
  BY <1>1, <1>5 DEF OnceBefore
<1> QED
  BY <1>1, <1>2, <1>3, <1>4, <1>6 DEF LInv

LEMMA SectionsCut ==
  ASSUME RInv, LInv, SplitDone
  PROVE  LInv'
<1>1. /\ phase = "splitting" /\ phase' = "loading" /\ pos = Len(file) + 1
      /\ UNCHANGED <<item, mod, live, refs, twice, file>>
  BY DEF SplitDone, loading
<1>2. /\ ModInv /\ Held /\ Counted1 /\ mod = NoModule /\ OnceBefore(pos) /\ item = 0
  BY <1>1, Positions DEF LInv
<1>3. Alike
  BY <1>1, <1>2 DEF ModInv, Alike
<1>4. ModInv' /\ Held' /\ Counted1'
  BY <1>1, <1>2, <1>3, AlikeKeeps
<1>5. PtrInv' /\ FieldInv'
  BY <1>1, <1>2, NoModuleFacts DEF PtrInv, FieldInv
<1>6. OnceBefore(Len(file) + 1)' /\ TypesRead'
  BY <1>1, <1>2 DEF OnceBefore, TypesRead
<1> QED
  BY <1>1, <1>4, <1>5, <1>6 DEF LInv, LoadInv

-----------------------------------------------------------------------------
(* The end *)

LEMMA ModuleResolves ==
  ASSUME LInv, Resolve
  PROVE  LInv'
<1>1. /\ phase = "loading" /\ phase' = "preparing" /\ UNCHANGED <<live, refs, file, twice>>
  BY DEF Resolve, loading
<1>2. Fields \subseteq DOMAIN mod
  BY DEF LInv, ModInv
<1> DEFINE Kept(m) == /\ Fields \subseteq DOMAIN m /\ m.ptr = mod.ptr
                      /\ m.types = mod.types /\ m.functions = mod.functions
                      /\ m.segments = mod.segments /\ m.datas = mod.datas
                      /\ m.strings = mod.strings /\ m.caches = mod.caches
<1>3. ASSUME NEW m, Kept(m), NEW field, NEW val, field \notin Fields
      PROVE  Kept([m EXCEPT ![field] = val])
  BY <1>3 DEF Fields
<1>4. Kept(mod)
  BY <1>2
<1> HIDE DEF Kept
<1>5. /\ "dataEnd" \notin Fields /\ "heapBase" \notin Fields /\ "stackTop" \notin Fields
      /\ "stackSize" \notin Fields /\ "malloc" \notin Fields /\ "retain" \notin Fields
      /\ "free" \notin Fields
  BY DEF Fields
<1>6. Kept(ResolvedAux)
  <2> DEFINE a == [mod EXCEPT !.dataEnd = DataEnd]
             b == [a EXCEPT !.heapBase = HeapBase]
             c == [b EXCEPT !.stackTop = StackTop]
             d == [c EXCEPT !.stackSize = StackSize]
  <2>1. Kept(a)
    BY <1>3, <1>4, <1>5
  <2>2. Kept(b)
    <3> HIDE DEF a
    <3> QED
      BY <1>3, <1>5, <2>1
  <2>3. Kept(c)
    <3> HIDE DEF b
    <3> QED
      BY <1>3, <1>5, <2>2
  <2>4. Kept(d)
    <3> HIDE DEF c
    <3> QED
      BY <1>3, <1>5, <2>3
  <2>5. ResolvedAux = IF ~AuxUsable THEN mod ELSE d
    BY DEF ResolvedAux
  <2> HIDE DEF d
  <2> QED
    BY <1>4, <2>4, <2>5
<1>7. Kept(mod')
  <2> DEFINE r == IF News # {} /\ Retains # {} THEN mod.exports[Least(Retains)].index ELSE Null
             f == IF Frees # {} THEN mod.exports[Greatest(Frees)].index ELSE Null
             a == [ResolvedAux EXCEPT !.malloc = Allocator]
             b == [a EXCEPT !.retain = r]
             c == [b EXCEPT !.free = f]
  <2>1. mod' = c
    BY DEF Resolve
  <2> HIDE DEF r, f
  <2>2. Kept(a)
    BY <1>3, <1>5, <1>6
  <2>3. Kept(b)
    <3> HIDE DEF a
    <3> QED
      BY <1>3, <1>5, <2>2
  <2>4. Kept(c)
    <3> HIDE DEF b
    <3> QED
      BY <1>3, <1>5, <2>3
  <2> QED
    BY <2>1, <2>4
<1>8. Alike
  BY <1>7 DEF Alike, Kept
<1>9. phase \notin {"start", "gone"}
  BY <1>1
<1> QED
  BY <1>1, <1>8, <1>9, BlocksAlike

\* A body with a br_table may get a cache for it.
LEMMA BodyPrepared ==
  ASSUME LInv, Prepare \/ PrepareFails
  PROVE  LInv'
<1>1. /\ phase = "preparing" /\ phase' \in {"preparing", "refused"}
      /\ UNCHANGED <<refs, file, twice>>
  BY DEF Prepare, PrepareFails, loading
<1>2. ModInv /\ Held /\ Counted1
  BY <1>1 DEF LInv
<1>3. PICK N \in {{}, {CacheBlock}} :
        /\ live' = live \cup N
        /\ Fields \subseteq DOMAIN mod' /\ mod'.caches = mod.caches \cup N
        /\ mod'.ptr = mod.ptr /\ mod'.types = mod.types
        /\ mod'.functions = mod.functions /\ mod'.segments = mod.segments
        /\ mod'.datas = mod.datas /\ mod'.strings = mod.strings
  <2>1. CASE Prepare
    <3> DEFINE body == mod.functions[item].body
               N == IF body.table THEN {CacheBlock} ELSE {}
               m == [mod EXCEPT !.grows = @ \/ body.grows]
    <3>1. mod' = [m EXCEPT !.caches = @ \cup N] /\ live' = live \cup N
      BY <2>1 DEF Prepare, Alloc
    <3>2. N \in {{}, {CacheBlock}}
      OBVIOUS
    <3>3. /\ Fields \subseteq DOMAIN m /\ m.ptr = mod.ptr /\ m.types = mod.types
          /\ m.functions = mod.functions /\ m.segments = mod.segments
          /\ m.datas = mod.datas /\ m.strings = mod.strings /\ m.caches = mod.caches
      BY <1>2 DEF ModInv, Fields
    <3> HIDE DEF m, N
    <3>4. /\ Fields \subseteq DOMAIN mod' /\ mod'.caches = mod.caches \cup N
          /\ mod'.ptr = mod.ptr /\ mod'.types = mod.types
          /\ mod'.functions = mod.functions /\ mod'.segments = mod.segments
          /\ mod'.datas = mod.datas /\ mod'.strings = mod.strings
      BY <3>1, <3>3 DEF Fields
    <3> QED
      BY <3>1, <3>2, <3>4
  <2>2. CASE PrepareFails
    <3>1. CASE UNCHANGED <<mod, live>>
      <4>1. live' = live \cup {} /\ mod'.caches = mod.caches \cup {}
        BY <3>1
      <4> QED
        BY <1>2, <3>1, <4>1 DEF ModInv
    <3>2. CASE live' = live \cup {CacheBlock} /\ mod' = [mod EXCEPT !.caches = @ \cup {CacheBlock}]
      BY <1>2, <3>2 DEF ModInv, Fields
    <3> QED
      BY <2>2, <3>1, <3>2 DEF PrepareFails, Alloc
  <2> QED
    BY <2>1, <2>2
<1>4. ModInv' /\ Counted1'
  BY <1>1, <1>2, <1>3 DEF ModInv, Counted1
<1>5. HoldsOf(mod') = HoldsOf(mod) \cup N
  BY <1>3 DEF HoldsOf
<1>6. \A b \in N : b[1] # "section"
  BY <1>3 DEF CacheBlock
<1>7. Held'
  BY <1>1, <1>2, <1>3, <1>5, <1>6, GainKeeps
<1> QED
  BY <1>1, <1>4, <1>7 DEF LInv

\* Once all is read the sections go; the module holds none of them.
LEMMA ModuleLoaded ==
  ASSUME LInv, Loaded
  PROVE  LInv'
<1>1. /\ phase = "preparing" /\ phase' = "loaded" /\ live' = live \ SectionBlocks
      /\ UNCHANGED <<refs, file, twice>>
  BY DEF Loaded, loading
<1>2. ModInv /\ Held /\ Counted1
  BY <1>1 DEF LInv
<1>3. /\ Fields \subseteq DOMAIN mod' /\ mod'.ptr = mod.ptr /\ mod'.types = mod.types
      /\ mod'.functions = mod.functions /\ mod'.segments = mod.segments
      /\ mod'.datas = mod.datas /\ mod'.strings = mod.strings /\ mod'.caches = mod.caches
  <2> DEFINE mem == Memories(mod.memory)
             imported == Memories(mod.importMemory)
             m == [mod EXCEPT !.memory = mem]
  <2>1. mod' = [m EXCEPT !.importMemory = imported]
    BY DEF Loaded
  <2> HIDE DEF mem, imported
  <2>2. /\ Fields \subseteq DOMAIN m /\ m.ptr = mod.ptr /\ m.types = mod.types
        /\ m.functions = mod.functions /\ m.segments = mod.segments
        /\ m.datas = mod.datas /\ m.strings = mod.strings /\ m.caches = mod.caches
    BY <1>2 DEF ModInv, Fields
  <2> HIDE DEF m
  <2> QED
    BY <2>1, <2>2 DEF Fields
<1>4. ModInv' /\ Counted1'
  BY <1>1, <1>2, <1>3 DEF ModInv, Counted1
<1>5. HoldsOf(mod') = HoldsOf(mod)
  BY <1>3 DEF HoldsOf
<1>6. \A b : Lost(b) => Lost(b)'
  BY <1>1 DEF Lost
<1>7. Held'
  BY <1>1, <1>2, <1>5, <1>6 DEF Held, SectionBlocks
<1> QED
  BY <1>1, <1>4, <1>7 DEF LInv

\* Unloading frees all that the module holds, and each type at its last entry.
LEMMA AllFreed ==
  ASSUME LInv, Unload
  PROVE  LInv'
<1>1. /\ phase \in {"refused", "loaded"} /\ phase' = "gone" /\ UNCHANGED <<mod, refs, file>>
      /\ live' = (live \ SectionBlocks)
                    \ (Owned \cup {b \in TypeBlocks : References(b) >= refs[b]})
      /\ twice' = (twice \/ ~(Owned \cup TypeBlocks) \subseteq live
                         \/ \E b \in TypeBlocks : References(b) > refs[b])
  BY DEF Unload, loading
<1>2. ModInv /\ Held /\ Counted1 /\ ~twice
  BY <1>1 DEF LInv
<1>3. \A b \in TypeBlocks : refs[b] = References(b) /\ References(b) \in Nat
  <2> SUFFICES ASSUME NEW b \in TypeBlocks
               PROVE  refs[b] = References(b) /\ References(b) \in Nat
    OBVIOUS
  <2>1. b \in BlocksOf(mod.types) /\ References(b) = Cardinality(Uses(mod.types, b))
    BY ReferencesAre DEF TypeBlocks, BlocksOf
  <2>2. refs[b] = Cardinality(Uses(mod.types, b))
    BY <1>2, <2>1 DEF Counted1
  <2> DEFINE e == [block |-> b]
  <2>3. e.block = b /\ IsSeq(mod.types)
    BY <1>2 DEF ModInv
  <2> HIDE DEF e
  <2>4. Cardinality(Uses(mod.types, e.block)) \in Nat
    BY <2>3, AppendUses
  <2> QED
    BY <2>1, <2>2, <2>3, <2>4
<1>4. /\ {b \in TypeBlocks : References(b) >= refs[b]} = TypeBlocks
      /\ ~\E b \in TypeBlocks : References(b) > refs[b]
  BY <1>3
<1>5. Owned \cup TypeBlocks = HoldsOf(mod)
  BY HoldsIs
<1>6. ~twice'
  BY <1>1, <1>2, <1>4, <1>5 DEF Held
<1>7. \A b \in live' : Lost(b)
  BY <1>1, <1>2, <1>4, <1>5 DEF Held, SectionBlocks
<1>8. ModInv' /\ \A b \in live' : Lost(b)'
  BY <1>1, <1>2, <1>7 DEF ModInv, Lost
<1> QED
  BY <1>1, <1>6, <1>8 DEF LInv

LEMMA CompilerReads ==
  ASSUME LInv, StartFunction \/ Ask \/ Skip
  PROVE  LInv'
<1>1. /\ phase = "loaded" /\ phase' = "loaded" /\ UNCHANGED <<mod, live, refs, file, twice>>
  BY DEF StartFunction, Ask, Skip
<1>2. Alike
  BY <1>1 DEF LInv, ModInv, Alike
<1>3. phase \notin {"start", "gone"}
  BY <1>1
<1> QED
  BY <1>1, <1>2, <1>3, BlocksAlike

-----------------------------------------------------------------------------
LEMMA StepLInv == RInv /\ LInv /\ [Next]_vars => LInv'
<1> SUFFICES ASSUME RInv, LInv, [Next]_vars PROVE LInv'
  OBVIOUS
<1>1. CASE LoadEntry
  BY <1>1, QuietEntries, FunctionBlocks, SegmentBlocks, DataBlocks, NameBlocks, NewTypeBlock,
     SameTypeBlock DEF LoadEntry
<1>2. CASE RefuseEntry
  BY <1>2, FunctionBlocks, SegmentBlocks, DataBlocks, NewTypeBlock, SectionRefused
     DEF RefuseEntry
<1>3. CASE CreateModule \/ CreateFails \/ Split \/ SplitFails \/ SplitDone
  BY <1>3, ModuleCreated, SectionCut, SectionRefused, SectionsCut
<1>4. CASE OpenSection \/ OpenFails \/ CloseSection \/ CloseFails
  BY <1>4, CountRead, CountRefused, SectionCloses, SectionRefused
<1>5. CASE Resolve \/ Prepare \/ PrepareFails \/ Loaded \/ Unload
  BY <1>5, ModuleResolves, BodyPrepared, ModuleLoaded, AllFreed
<1>6. CASE StartFunction \/ Ask \/ Skip
  BY <1>6, CompilerReads
<1>7. CASE UNCHANGED vars
  <2>1. UNCHANGED <<file, phase, pos, item, mod, refs, live, twice>>
    BY <1>7 DEF vars
  <2> QED
    BY <2>1 DEF LInv, ModInv, Held, Counted1, LoadInv, OnceBefore, PtrInv, FieldInv, TypesRead,
                Lost, Opened, Begun, Sec
<1> QED
  BY <1>1, <1>2, <1>3, <1>4, <1>5, <1>6, <1>7 DEF Next

\* Whatever the files hold and wherever loading stops, unloading frees every
\* block that the module was given once, types at their last reference, and
\* leaves only the arrays of custom sections that came again.
THEOREM LifetimeInvariant == Spec => []BlocksFreedOnce
<1>1. RInv /\ LInv => BlocksFreedOnce
  BY DEF LInv, BlocksFreedOnce, Forgotten, Lost
<1>2. Init => RInv /\ LInv
  BY InitRInv, InitLInv
<1>3. RInv /\ LInv /\ [Next]_vars => (RInv /\ LInv)'
  BY StepRInv, StepLInv
<1> QED
  BY <1>1, <1>2, <1>3, PTL DEF Spec
=============================================================================
