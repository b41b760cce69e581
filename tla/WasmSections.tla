---------------------------- MODULE WasmSections ----------------------------
(***************************************************************************)
(* wasm_loader_load and wasm_loader_unload: the file is cut into sections, *)
(* each section is read entry by entry into the module, what the compiler  *)
(* needs is resolved from it, the bodies are validated and the memory is   *)
(* shrunk.  Any entry may be refused and any loader_malloc may fail; what  *)
(* was built until then is unloaded.  aot_compile_func then walks each     *)
(* body beside the relocations that were read.                             *)
(*                                                                         *)
(* A file is a sequence of sections.  A section has a kind, a declared     *)
(* count and the entries that really follow.  A custom section with        *)
(* several subsections is written as several sections of its kind.         *)
(***************************************************************************)
EXTENDS Integers, Sequences, FiniteSets

CONSTANTS Files,      \* the files that may be loaded
          WordMod,    \* 2^32
          PageBytes,  \* DEFAULT_NUM_BYTES_PER_PAGE
          MaxPages,   \* DEFAULT_MAX_PAGES
          RefMax,     \* UINT16_MAX, the bound of ref_count
          Null

\* What a file is: sections with a count, offsets of relocations, and bodies
\* with the offset of their first instruction and of those that ask for a
\* relocation.
ASSUME FilesAssumption ==
  \A f \in Files :
    /\ Len(f) \in Nat /\ DOMAIN f = 1..Len(f)
    /\ \A p \in 1..Len(f) :
         /\ f[p].count \in Nat
         /\ f[p].kind = "reloc.CODE" =>
              \A i \in 1..Len(f[p].items) : f[p].items[i].offset \in Nat
         /\ f[p].kind = "code" =>
              \A i \in 1..Len(f[p].items) :
                LET body == f[p].items[i]
                IN body.start \in Nat /\ \A k \in DOMAIN body.asks : body.asks[k] \in Nat

\* Indices are numbers.
ASSUME IndicesAssumption ==
  \A f \in Files : \A p \in 1..Len(f) : \A i \in 1..Len(f[p].items) :
    LET entry == f[p].items[i]
    IN /\ f[p].kind \in {"function", "start"} => entry \in Nat
       /\ f[p].kind \in {"export", "name", "linking", "reloc.CODE", "reloc.DATA"} =>
            entry.index \in Nat
       /\ f[p].kind = "elem" => \A k \in DOMAIN entry.funcs : entry.funcs[k] \in Nat

\* Sizes and the values of globals are numbers, and Null is none.
ASSUME SizesAssumption ==
  /\ PageBytes \in Nat /\ MaxPages \in Nat /\ MaxPages > 1 /\ WordMod \in Nat
  /\ Null \notin Nat
  /\ \A f \in Files : \A p \in 1..Len(f) : \A i \in 1..Len(f[p].items) :
       LET entry == f[p].items[i]
       IN /\ f[p].kind = "memory" => entry.init \in Nat
          /\ f[p].kind = "global" /\ entry.init.op = "i32" => entry.init.val \in Nat

VARIABLES file,     \* the file, a sequence of sections
          phase,    \* what wasm_loader_load, the compiler or unload does next
          pos,      \* the section
          item,     \* its next entry, 0 before the count is read
          mod,      \* the WASMModule
          refs,     \* ref_count of each type block
          live,     \* the blocks loader_malloc gave out and nothing freed
          twice,    \* whether a block was freed that was not live
          fn,       \* the function aot_compile_func translates
          ip,       \* frame_ip, as an offset into the code section
          cursor,   \* curr_relocation: an index into code_relocs, or 0
          given     \* which relocation each instruction got

vars == <<file, phase, pos, item, mod, refs, live, twice, fn, ip, cursor, given>>
loading == <<fn, ip, cursor, given, file>>

Sec == file[pos]
It == Sec.items[item]

Custom == {"linking", "reloc.CODE", "reloc.DATA", "name", "other"}
SectionOrder == << "type", "import", "function", "table", "memory", "global",
                   "export", "start", "elem", "datacount", "code", "data" >>
Rank(kind) == CHOOSE i \in DOMAIN SectionOrder : SectionOrder[i] = kind
Known(kind) == kind \in Custom \/ \E i \in DOMAIN SectionOrder : SectionOrder[i] = kind

\* The sections whose entries go to an array of their own.
Arrays == {"type", "import", "function", "table", "memory", "global", "export",
           "elem", "data", "linking", "reloc.CODE", "reloc.DATA"}

\* Null is no block.
ASSUME NullAssumption ==
  Null \notin (Arrays \cup {"module", "section", "local_offsets", "name", "br_table_cache"})
              \X Nat \X Nat

ModuleBlock == <<"module", 0, 0>>
SectionBlock(p) == <<"section", p, 0>>
ArrayBlock == <<Sec.kind, pos, 0>>
EntryBlock == <<Sec.kind, pos, item>>
OffsetsBlock == <<"local_offsets", pos, item>>
SectionBlocks == {b \in live : b[1] = "section"}

NoModule ==
  [types |-> <<>>, importFuncs |-> <<>>, importTables |-> 0, importMemory |-> <<>>,
   importGlobals |-> <<>>, functions |-> <<>>, tables |-> 0, memory |-> <<>>,
   globals |-> <<>>, exports |-> <<>>, start |-> Null, segments |-> <<>>,
   dataCount |-> Null, datas |-> <<>>, symbols |-> <<>>, codeRelocs |-> <<>>,
   dataRelocs |-> <<>>, strings |-> {}, names |-> <<>>, caches |-> {},
   grows |-> FALSE, dataEnd |-> Null, heapBase |-> Null, stackTop |-> Null,
   stackSize |-> 0, malloc |-> Null, retain |-> Null, free |-> Null,
   ptr |-> [k \in Arrays |-> Null]]

Init ==
  /\ file \in Files
  /\ phase = "start" /\ pos = 1 /\ item = 0
  /\ mod = NoModule /\ refs = << >> /\ live = {} /\ twice = FALSE
  /\ fn = 0 /\ ip = 0 /\ cursor = 0 /\ given = {}

-----------------------------------------------------------------------------
(* create_module and create_sections *)

CreateModule ==
  /\ phase = "start" /\ phase' = "splitting"
  /\ live' = {ModuleBlock}
  /\ UNCHANGED <<pos, item, mod, refs, twice, loading>>

CreateFails ==
  /\ phase = "start" /\ phase' = "gone"
  /\ UNCHANGED <<pos, item, mod, refs, live, twice, loading>>

(* Custom sections stand anywhere; the others come at most once, in order. *)
AnyOrder == TRUE

InOrder ==
  \A p \in 1..(pos - 1) :
    file[p].kind \notin Custom => Rank(file[p].kind) < Rank(Sec.kind)

Split ==
  /\ phase = "splitting" /\ pos <= Len(file)
  /\ Known(Sec.kind) /\ (Sec.kind \notin Custom => InOrder)
  /\ live' = live \cup {SectionBlock(pos)}
  /\ pos' = pos + 1
  /\ UNCHANGED <<phase, item, mod, refs, twice, loading>>

\* A section of no known kind, one out of order, or no memory.
SplitFails ==
  /\ phase = "splitting" /\ pos <= Len(file)
  /\ phase' = "refused"
  /\ UNCHANGED <<pos, item, mod, refs, live, twice, loading>>

SplitDone ==
  /\ phase = "splitting" /\ pos = Len(file) + 1
  /\ phase' = "loading" /\ pos' = 1
  /\ UNCHANGED <<item, mod, refs, live, twice, loading>>

-----------------------------------------------------------------------------
(* load_from_sections: the count of a section, and its array *)

Of(kind) == {p \in DOMAIN file : file[p].kind = kind}
\* The count in front of the section of this kind, 0 when the file has none.
CountOf(kind) == IF Of(kind) = {} THEN 0
                 ELSE LET p == CHOOSE p \in Of(kind) : TRUE IN file[p].count

\* get_wasm_section
RelocatedKind == IF Sec.kind = "reloc.CODE" THEN "code" ELSE "data"
Relocated == {p \in DOMAIN file : p = Sec.target /\ file[p].kind = RelocatedKind}

DataCountAgrees == mod.dataCount # Null => Sec.count = mod.dataCount

CountAccepted ==
  CASE Sec.kind = "function" -> Sec.count = CountOf("code")
    [] Sec.kind = "code" -> Sec.count = CountOf("function")
    [] Sec.kind = "table" -> mod.importTables + Sec.count <= 1
    [] Sec.kind = "memory" -> Len(mod.importMemory) + Sec.count <= 1
    [] Sec.kind = "data" -> DataCountAgrees
    [] Sec.kind \in {"reloc.CODE", "reloc.DATA"} -> Relocated # {}
    [] OTHER -> TRUE

NeedsArray == Sec.kind \in Arrays /\ Sec.count > 0

\* A count of entries, and an array for them unless there are none.  Only a
\* custom section can come twice: its entries start afresh, and the array
\* before is forgotten.
Field(kind) ==
  CASE kind = "type" -> "types" [] kind = "function" -> "functions"
    [] kind = "memory" -> "memory" [] kind = "global" -> "globals"
    [] kind = "export" -> "exports" [] kind = "elem" -> "segments"
    [] kind = "data" -> "datas" [] kind = "linking" -> "symbols"
    [] kind = "reloc.CODE" -> "codeRelocs" [] kind = "reloc.DATA" -> "dataRelocs"
    [] OTHER -> "none"

WithArray ==
  LET m == IF NeedsArray THEN [mod EXCEPT !.ptr[Sec.kind] = ArrayBlock] ELSE mod
  IN IF Sec.kind = "datacount" THEN [m EXCEPT !.dataCount = Sec.count]
     ELSE IF Field(Sec.kind) # "none" /\ (NeedsArray \/ Sec.kind = "linking")
     THEN [m EXCEPT ![Field(Sec.kind)] = <<>>]
     ELSE m

OpenSection ==
  /\ phase = "loading" /\ pos <= Len(file) /\ item = 0
  /\ CountAccepted
  /\ mod' = WithArray
  /\ live' = IF NeedsArray THEN live \cup {ArrayBlock} ELSE live
  /\ item' = 1
  /\ UNCHANGED <<phase, pos, refs, twice, loading>>

\* module->symbols takes the answer of loader_malloc before it is looked at.
OpenFails ==
  /\ phase = "loading" /\ pos <= Len(file) /\ item = 0
  /\ ~CountAccepted \/ NeedsArray
  /\ mod' = IF CountAccepted /\ Sec.kind = "linking"
            THEN [mod EXCEPT !.ptr["linking"] = Null] ELSE mod
  /\ phase' = "refused"
  /\ UNCHANGED <<pos, item, refs, live, twice, loading>>

-----------------------------------------------------------------------------
(* The entries of each section.  Sections of these kinds are read entry by *)
(* entry; start has one entry; datacount and code are done with their      *)
(* count, and other custom sections are skipped.                           *)

Counted == Sec.kind \notin {"datacount", "code", "other"}
At(kind) ==
  /\ phase = "loading" /\ pos <= Len(file) /\ Sec.kind = kind
  /\ item \in 1..Sec.count /\ item <= Len(Sec.items)

Next1 == item' = item + 1 /\ UNCHANGED <<phase, pos, twice, loading>>
Add(field, entry) == mod' = [mod EXCEPT ![field] = Append(@, entry)]
Alloc(blocks) == live' = live \cup blocks

FuncCount == Len(mod.importFuncs) + Len(mod.functions)
GlobalCount == Len(mod.importGlobals) + Len(mod.globals)
TableCount == mod.importTables + mod.tables
MemoryCount == Len(mod.importMemory) + Len(mod.memory)

ValueTyped(sig) == sig # "bad"
SameTypes == {i \in 1..(item - 1) : mod.types[i].sig = It}
FirstSame == CHOOSE i \in SameTypes : \A j \in SameTypes : i <= j

\* ref_count of the block that one more entry of types points to.
SharedUncounted(b) == refs
Shared(b) == [refs EXCEPT ![b] = @ + 1]

(* An equal type is dropped and the first one used in its place. *)
LoadNewType ==
  /\ At("type") /\ ValueTyped(It) /\ SameTypes = {}
  /\ Add("types", [block |-> EntryBlock, sig |-> It])
  /\ refs' = [b \in DOMAIN refs \cup {EntryBlock} |-> IF b = EntryBlock THEN 1 ELSE refs[b]]
  /\ Alloc({EntryBlock}) /\ Next1

LoadSameType ==
  /\ At("type") /\ ValueTyped(It) /\ SameTypes # {}
  /\ refs[mod.types[FirstSame].block] < RefMax
  /\ Add("types", mod.types[FirstSame])
  /\ refs' = Shared(mod.types[FirstSame].block)
  /\ UNCHANGED live /\ Next1

\* The block is in types[i] already.
RefuseType ==
  /\ At("type")
  /\ ~ValueTyped(It) \/ (SameTypes # {} /\ refs[mod.types[FirstSame].block] = RefMax)
  /\ Add("types", [block |-> EntryBlock, sig |-> It])
  /\ refs' = [b \in DOMAIN refs \cup {EntryBlock} |-> IF b = EntryBlock THEN 1 ELSE refs[b]]
  /\ Alloc({EntryBlock}) /\ phase' = "refused"
  /\ UNCHANGED <<pos, item, twice, loading>>

\* The first scan of the import section.
Imports(kind) == {i \in DOMAIN Sec.items : i <= Sec.count /\ Sec.items[i].kind = kind}
ScanAccepted ==
  /\ Sec.count <= Len(Sec.items)
  /\ Imports("bad") = {}
  /\ Cardinality(Imports("table")) <= 1 /\ Cardinality(Imports("memory")) <= 1

\* The limits of a table or a memory; a memory without a maximum gets the
\* greatest one.
TableAccepted == It.max # Null => It.init <= It.max
MemoryAccepted == It.init <= MaxPages /\ (It.max # Null => It.max \in It.init..MaxPages)
Memory == [bytes |-> PageBytes, init |-> It.init,
           max |-> IF It.max = Null THEN MaxPages ELSE It.max]

\* What there is to import from the module spectest.
Spectest == [table |-> [init |-> 10, max |-> 20], memory |-> [init |-> 1, max |-> 2]]
SpectestAccepted ==
  It.spectest =>
    /\ It.name = It.kind
    /\ It.init <= Spectest[It.kind].init
    /\ It.max # Null => It.max >= Spectest[It.kind].max
ImportedMemory ==
  IF It.spectest THEN [Memory EXCEPT !.init = Spectest.memory.init, !.max = Spectest.memory.max]
  ELSE Memory

ImportAccepted ==
  /\ ScanAccepted
  /\ It.kind = "func" => It.index < Len(mod.types)
  /\ It.kind = "table" => TableAccepted /\ SpectestAccepted
  /\ It.kind = "memory" => MemoryAccepted /\ SpectestAccepted

LoadImport ==
  /\ At("import") /\ ImportAccepted
  /\ \/ It.kind = "func" /\ Add("importFuncs", mod.types[It.index + 1].sig)
     \/ It.kind = "global" /\ Add("importGlobals", It.mutable)
     \/ It.kind = "table" /\ mod' = [mod EXCEPT !.importTables = 1]
     \/ It.kind = "memory" /\ Add("importMemory", ImportedMemory)
  /\ UNCHANGED <<live, refs>> /\ Next1

(* load_function_section reads the bodies of the code section beside its   *)
(* own type indices.  A function is a block, and its local offsets another.*)
Body(i) == LET p == CHOOSE p \in Of("code") : TRUE IN file[p].items[i]
HasBody(i) == Of("code") # {} /\ LET p == CHOOSE p \in Of("code") : TRUE
                                 IN i <= Len(file[p].items)
FunctionAccepted == It < Len(mod.types) /\ HasBody(item)
LocalsAccepted == Body(item).locals # "bad"
NeedsOffsets == mod.types[It + 1].sig # "void" \/ Body(item).locals # "none"

\* wasm_get_smallest_type_idx: the first index of the type's block.
SmallestTypeIdx(t) ==
  (CHOOSE i \in DOMAIN mod.types :
     /\ mod.types[i].block = mod.types[t + 1].block
     /\ \A j \in 1..(i - 1) : mod.types[j].block # mod.types[i].block) - 1

Function(offsets) ==
  [block |-> EntryBlock, offsets |-> offsets, type |-> SmallestTypeIdx(It),
   sig |-> mod.types[It + 1].sig, body |-> Body(item)]

LoadFunction ==
  /\ At("function") /\ FunctionAccepted /\ LocalsAccepted
  /\ IF NeedsOffsets
     THEN Add("functions", Function(OffsetsBlock)) /\ Alloc({EntryBlock, OffsetsBlock})
     ELSE Add("functions", Function(Null)) /\ Alloc({EntryBlock})
  /\ UNCHANGED refs /\ Next1

\* Bad locals, too many cells of them, or no memory for their offsets.
FailFunction ==
  /\ At("function") /\ FunctionAccepted
  /\ ~LocalsAccepted \/ NeedsOffsets
  /\ Add("functions", Function(Null)) /\ Alloc({EntryBlock})
  /\ phase' = "refused"
  /\ UNCHANGED <<pos, item, refs, twice, loading>>

LoadTable ==
  /\ At("table") /\ TableAccepted
  /\ mod' = [mod EXCEPT !.tables = @ + 1]
  /\ UNCHANGED <<live, refs>> /\ Next1

LoadMemory ==
  /\ At("memory") /\ MemoryAccepted
  /\ Add("memory", Memory)
  /\ UNCHANGED <<live, refs>> /\ Next1

\* load_init_expr: a constant of the type wanted, or an immutable import.
InitAccepted(init, type) ==
  IF init.op = "get" THEN init.val < Len(mod.importGlobals) /\ ~mod.importGlobals[init.val + 1]
  ELSE init.op = type

GlobalAccepted == InitAccepted(It.init, It.type)
LoadGlobal ==
  /\ At("global") /\ GlobalAccepted
  /\ Add("globals", It)
  /\ UNCHANGED <<live, refs>> /\ Next1

IndexBelow(kind) ==
  CASE kind = "func" -> FuncCount [] kind = "table" -> TableCount
    [] kind = "memory" -> MemoryCount [] kind = "global" -> GlobalCount
    [] OTHER -> 0

ExportAccepted ==
  /\ \A i \in DOMAIN mod.exports : mod.exports[i].name # It.name
  /\ It.index < IndexBelow(It.kind)
LoadExport ==
  /\ At("export") /\ ExportAccepted
  /\ Add("exports", It)
  /\ UNCHANGED <<live, refs>> /\ Next1

SigOf(f) == IF f < Len(mod.importFuncs) THEN mod.importFuncs[f + 1]
            ELSE mod.functions[f - Len(mod.importFuncs) + 1].sig
StartAccepted == It < FuncCount /\ SigOf(It) = "void"
LoadStart ==
  /\ At("start") /\ StartAccepted
  /\ mod' = [mod EXCEPT !.start = It]
  /\ UNCHANGED <<live, refs>> /\ Next1

(* load_table_segment_section: func_indexes is allocated before the indices *)
(* are looked at.                                                           *)
SegmentHead == It.table = 0 /\ TableCount > 0 /\ InitAccepted(It.init, "i32")
SegmentFuncs == \A i \in DOMAIN It.funcs : It.funcs[i] < FuncCount
Segment == [block |-> IF It.funcs = <<>> THEN Null ELSE EntryBlock, funcs |-> It.funcs]
AllocSegment == Alloc(IF It.funcs = <<>> THEN {} ELSE {EntryBlock})

LoadElem ==
  /\ At("elem") /\ SegmentHead /\ SegmentFuncs
  /\ Add("segments", Segment) /\ AllocSegment
  /\ UNCHANGED refs /\ Next1

RefuseElem ==
  /\ At("elem") /\ SegmentHead /\ ~SegmentFuncs
  /\ Add("segments", Segment) /\ AllocSegment
  /\ phase' = "refused"
  /\ UNCHANGED <<pos, item, refs, twice, loading>>

(* A data segment is allocated before its bytes are known to be there.     *)
DataAccepted ==
  It.passive \/ (It.memory < MemoryCount /\ InitAccepted(It.init, "i32"))
Data == [block |-> EntryBlock, length |-> It.length]

LoadData ==
  /\ At("data") /\ DataAccepted /\ ~It.cut
  /\ Add("datas", Data) /\ Alloc({EntryBlock})
  /\ UNCHANGED refs /\ Next1

RefuseData ==
  /\ At("data") /\ DataAccepted /\ It.cut
  /\ Add("datas", Data) /\ Alloc({EntryBlock})
  /\ phase' = "refused"
  /\ UNCHANGED <<pos, item, refs, twice, loading>>

-----------------------------------------------------------------------------
(* Custom sections: symbols, relocations and names *)

\* A defined symbol names an entry of the module's own, another an import.
RightHalf(imports, all) ==
  It.index < all /\ (It.defined <=> It.index >= imports)

SymbolAccepted ==
  CASE It.type = "function" -> RightHalf(Len(mod.importFuncs), FuncCount)
    [] It.type = "global" -> /\ RightHalf(Len(mod.importGlobals), GlobalCount)
                             /\ It.defined \/ It.binding # "weak"
    [] It.type = "table" -> /\ RightHalf(mod.importTables, TableCount)
                            /\ It.defined \/ It.binding # "weak"
    [] It.type = "data" ->
         ~It.defined \/ It.absolute
         \/ (It.index < Len(mod.datas) /\ It.offset <= mod.datas[It.index + 1].length)
    [] It.type = "section" -> It.binding = "local"
    [] It.type = "tag" -> TRUE
    [] OTHER -> FALSE

LoadSymbol ==
  /\ At("linking") /\ SymbolAccepted
  /\ Add("symbols", It)
  /\ UNCHANGED <<live, refs>> /\ Next1

IsSymbol(index, type) == index < Len(mod.symbols) /\ mod.symbols[index + 1].type = type

(* The global kinds look at the number of globals; the section kind asks   *)
(* for a tag symbol.                                                       *)
TargetAccepted ==
  CASE It.type \in {"function", "function_offset"} -> IsSymbol(It.index, "function")
    [] It.type = "table_number" -> IsSymbol(It.index, "table")
    [] It.type = "type" -> It.index < Len(mod.types)
    [] It.type = "global" -> \/ It.index < GlobalCount
                             \/ IsSymbol(It.index, "data") \/ IsSymbol(It.index, "function")
    [] It.type = "global_i32" -> It.index < GlobalCount
    [] It.type \in {"tag", "section"} -> IsSymbol(It.index, "tag")
    [] It.type \in {"memory", "memory64"} -> IsSymbol(It.index, "data")
    [] OTHER -> FALSE

Width(type) == CASE type = "memory64" -> 10
                 [] type \in {"global_i32", "section", "function_offset"} -> 4
                 [] OTHER -> 5

Relocs == IF Sec.kind = "reloc.CODE" THEN "codeRelocs" ELSE "dataRelocs"
PreviousIgnored == TRUE
AfterPrevious == item > 1 => It.offset >= Sec.items[item - 1].offset

RelocAccepted ==
  /\ AfterPrevious
  /\ TargetAccepted
  /\ (It.offset + Width(It.type)) % WordMod <= file[Sec.target].size

LoadReloc ==
  /\ At("reloc.CODE") \/ At("reloc.DATA")
  /\ RelocAccepted
  /\ Add(Relocs, It)
  /\ UNCHANGED <<live, refs>> /\ Next1

\* The name section's strings are copied, each text once; imports have none.
OwnName == It.index >= Len(mod.importFuncs)
NameAccepted ==
  /\ item > 1 => It.index > Sec.items[item - 1].index
  /\ OwnName => It.index < FuncCount
Known1(str) == str = "" \/ \E s \in mod.strings : s.str = str
NeedsString == OwnName /\ ~Known1(It.str)

LoadName ==
  /\ At("name") /\ NameAccepted
  /\ mod' = [mod EXCEPT
       !.names = IF OwnName THEN Append(@, It) ELSE @,
       !.strings = IF NeedsString THEN @ \cup {[str |-> It.str, block |-> EntryBlock]} ELSE @]
  /\ Alloc(IF NeedsString THEN {EntryBlock} ELSE {})
  /\ UNCHANGED refs /\ Next1

-----------------------------------------------------------------------------
(* What refuses an entry and leaves nothing of it behind *)

Accepted ==
  CASE Sec.kind = "type" -> TRUE
    [] Sec.kind = "import" -> ImportAccepted
    [] Sec.kind = "function" -> FunctionAccepted
    [] Sec.kind = "table" -> TableAccepted
    [] Sec.kind = "memory" -> MemoryAccepted
    [] Sec.kind = "global" -> GlobalAccepted
    [] Sec.kind = "export" -> ExportAccepted
    [] Sec.kind = "start" -> StartAccepted
    [] Sec.kind = "elem" -> SegmentHead
    [] Sec.kind = "data" -> DataAccepted
    [] Sec.kind = "linking" -> SymbolAccepted
    [] Sec.kind \in {"reloc.CODE", "reloc.DATA"} -> RelocAccepted
    [] Sec.kind = "name" -> NameAccepted

\* An entry that asks loader_malloc for its first block.
NeedsBlock ==
  \/ Sec.kind \in {"type", "function", "data"}
  \/ Sec.kind = "elem" /\ It.funcs # <<>>
  \/ Sec.kind = "name" /\ NeedsString

\* Refused, past the end of the section, or no memory.
EntryFails ==
  /\ phase = "loading" /\ pos <= Len(file) /\ Counted
  /\ item \in 1..Sec.count
  /\ item <= Len(Sec.items) => ~Accepted \/ NeedsBlock
  /\ phase' = "refused"
  /\ UNCHANGED <<pos, item, mod, refs, live, twice, loading>>

Finished == item = (IF Counted THEN Sec.count ELSE 0) + 1

\* "section size mismatch"; names and code are not looked at here.
Exhausted == Sec.kind \in {"name", "code", "other"} \/ Sec.count >= Len(Sec.items)

CloseSection ==
  /\ phase = "loading" /\ pos <= Len(file)
  /\ Finished /\ Exhausted
  /\ pos' = pos + 1 /\ item' = 0
  /\ UNCHANGED <<phase, mod, refs, live, twice, loading>>

CloseFails ==
  /\ phase = "loading" /\ pos <= Len(file)
  /\ Finished /\ ~Exhausted
  /\ phase' = "refused"
  /\ UNCHANGED <<pos, item, mod, refs, live, twice, loading>>

-----------------------------------------------------------------------------
(* What load_from_sections resolves once every section is read *)

Align(n, to) == ((n + to - 1) \div to) * to
Least(S) == CHOOSE i \in S : \A j \in S : i <= j
Greatest(S) == CHOOSE i \in S : \A j \in S : i >= j

\* An own, immutable i32 constant exported under this name.  (For an imported
\* global the code would read before module->globals.)
AuxExports(name) ==
  {i \in DOMAIN mod.exports :
     LET e == mod.exports[i]
         own == e.index - Len(mod.importGlobals) + 1
     IN e.kind = "global" /\ e.name = name /\ own \in DOMAIN mod.globals
        /\ LET g == mod.globals[own]
           IN ~g.mutable /\ g.type = "i32" /\ g.init.op = "i32"}
AuxValue(name) ==
  LET e == mod.exports[Least(AuxExports(name))]
  IN mod.globals[e.index - Len(mod.importGlobals) + 1].init.val

AuxFound == AuxExports("__heap_base") # {} /\ AuxExports("__data_end") # {}
HeapBase == AuxValue("__heap_base")
DataEnd == Align(AuxValue("__data_end"), 16)
AuxUsable == AuxFound /\ DataEnd <= HeapBase

StackGlobals ==
  {i \in DOMAIN mod.globals :
     LET g == mod.globals[i]
     IN g.mutable /\ g.type = "i32" /\ g.init.op = "i32" /\ g.init.val <= HeapBase}
StackTop == IF StackGlobals = {} THEN HeapBase
            ELSE mod.globals[Least(StackGlobals)].init.val
StackSize == IF StackGlobals = {} THEN 0
             ELSE IF StackTop > DataEnd THEN StackTop - DataEnd ELSE StackTop

\* Own functions exported under one of these names, with this signature.
OwnExports(names, sig) ==
  {i \in DOMAIN mod.exports :
     LET e == mod.exports[i]
     IN e.kind = "func" /\ e.name \in names
        /\ e.index \in Len(mod.importFuncs)..(FuncCount - 1) /\ SigOf(e.index) = sig}

Mallocs == OwnExports({"malloc"}, "i32->i32")
News == OwnExports({"__new"}, "i32,i32->i32")
Retains == OwnExports({"__retain", "__pin"}, "i32->i32")
Frees == OwnExports({"free", "__release", "__unpin"}, "i32->")

\* The last export wins; __new alone, without its retain function, is none.
Allocator ==
  IF Mallocs \cup News = {} THEN Null
  ELSE LET i == Greatest(Mallocs \cup News)
       IN IF i \in News /\ Retains = {} THEN Null ELSE mod.exports[i].index

ResolvedAux ==
  IF ~AuxUsable THEN mod
  ELSE [mod EXCEPT !.dataEnd = DataEnd, !.heapBase = HeapBase,
                   !.stackTop = StackTop, !.stackSize = StackSize]

Resolve ==
  /\ phase = "loading" /\ pos = Len(file) + 1
  /\ mod' = [ResolvedAux EXCEPT
       !.malloc = Allocator,
       !.retain = IF News # {} /\ Retains # {}
                  THEN mod.exports[Least(Retains)].index ELSE Null,
       !.free = IF Frees # {} THEN mod.exports[Greatest(Frees)].index ELSE Null]
  /\ phase' = "preparing" /\ item' = 1
  /\ UNCHANGED <<pos, refs, live, twice, loading>>

-----------------------------------------------------------------------------
(* wasm_loader_prepare_bytecode of each function, and the memory *)

CacheBlock == <<"br_table_cache", 0, item>>

\* The last function ends where the code section does.
EndsSection ==
  item = Len(mod.functions) =>
    LET p == CHOOSE p \in Of("code") : TRUE IN file[p].count = Len(file[p].items)

Prepare ==
  /\ phase = "preparing" /\ item <= Len(mod.functions)
  /\ LET body == mod.functions[item].body
     IN /\ body.valid
        /\ mod' = [mod EXCEPT !.grows = @ \/ body.grows,
                              !.caches = @ \cup (IF body.table THEN {CacheBlock} ELSE {})]
        /\ Alloc(IF body.table THEN {CacheBlock} ELSE {})
  /\ IF EndsSection THEN item' = item + 1 /\ UNCHANGED phase
     ELSE phase' = "refused" /\ UNCHANGED item
  /\ UNCHANGED <<pos, refs, twice, loading>>

\* A body that does not validate, or no memory for its validation, before or
\* after the body's br_table got its cache.
PrepareFails ==
  /\ phase = "preparing" /\ item <= Len(mod.functions)
  /\ \E cached \in {FALSE, mod.functions[item].body.table} :
       IF cached THEN /\ mod' = [mod EXCEPT !.caches = @ \cup {CacheBlock}]
                      /\ Alloc({CacheBlock})
                 ELSE UNCHANGED <<mod, live>>
  /\ phase' = "refused"
  /\ UNCHANGED <<pos, item, refs, twice, loading>>

\* To what the module itself uses, when that is known and fits.
ToHeapBase(m) ==
  IF AuxUsable /\ Align(HeapBase, 8) < WordMod /\ Align(HeapBase, 8) <= m.bytes * m.init
  THEN [m EXCEPT !.bytes = Align(HeapBase, 8), !.init = 1] ELSE m

\* And to one page, or none.
OnePage(m) ==
  LET one == IF m.init > 0 THEN 1 ELSE 0
  IN IF m.init < MaxPages
     THEN [bytes |-> m.bytes * m.init, init |-> one, max |-> one] ELSE m

ShrunkAlways(m) == OnePage(ToHeapBase(m))
Shrunk(m) == IF mod.grows THEN m ELSE OnePage(ToHeapBase(m))

Memories(mems) == [i \in DOMAIN mems |-> Shrunk(mems[i])]

Loaded ==
  /\ phase = "preparing" /\ item = Len(mod.functions) + 1
  /\ mod' = [mod EXCEPT !.memory = Memories(@), !.importMemory = Memories(@)]
  /\ live' = live \ SectionBlocks
  /\ phase' = "loaded"
  /\ UNCHANGED <<pos, item, refs, twice, loading>>

-----------------------------------------------------------------------------
(* wasm_loader_unload, for a module that was refused or is done with *)

Pointers == {mod.ptr[k] : k \in Arrays} \ {Null}
References(b) == Cardinality({i \in DOMAIN mod.types : mod.types[i].block = b})

\* The blocks it frees besides types, which go when ref_count runs out.
Owned ==
  {ModuleBlock} \cup Pointers
  \cup {mod.functions[i].block : i \in DOMAIN mod.functions}
  \cup ({mod.functions[i].offsets : i \in DOMAIN mod.functions} \ {Null})
  \cup ({mod.segments[i].block : i \in DOMAIN mod.segments} \ {Null})
  \cup {mod.datas[i].block : i \in DOMAIN mod.datas}
  \cup {s.block : s \in mod.strings} \cup mod.caches

TypeBlocks == {mod.types[i].block : i \in DOMAIN mod.types}

Unload ==
  /\ phase \in {"refused", "loaded"}
  /\ live' = (live \ SectionBlocks) \ (Owned \cup {b \in TypeBlocks : References(b) >= refs[b]})
  /\ twice' = (twice \/ ~(Owned \cup TypeBlocks) \subseteq live
                     \/ \E b \in TypeBlocks : References(b) > refs[b])
  /\ phase' = "gone"
  /\ UNCHANGED <<pos, item, mod, refs, loading>>

-----------------------------------------------------------------------------
(* aot_compile_func: the instructions that take a relocation ask for the   *)
(* one at their operand, in the order of the body; unreachable ones are    *)
(* skipped.                                                                *)

Reloc(i) == mod.codeRelocs[i]
RelocCount == Len(mod.codeRelocs)
Asks == LET asks == mod.functions[fn].body.asks
        IN {asks[k] : k \in DOMAIN asks}
AsksLeft == IF fn = 0 THEN {} ELSE {a \in Asks : a >= ip}

\* The relocations from this one on that do not lie before the offset.
NotBefore(from, offset) == {i \in from..RelocCount : Reloc(i).offset >= offset}

StartFunction ==
  /\ phase = "loaded" /\ AsksLeft = {} /\ fn < Len(mod.functions)
  /\ fn' = fn + 1
  /\ LET start == mod.functions[fn + 1].body.start
     IN /\ ip' = start
        /\ cursor' = IF NotBefore(1, start) = {} THEN 0 ELSE Least(NotBefore(1, start))
  /\ UNCHANGED <<file, phase, pos, item, mod, refs, live, twice, given>>

FindRelocation(offset) ==
  IF cursor = 0 \/ NotBefore(cursor, offset) = {} THEN 0
  ELSE LET i == Least(NotBefore(cursor, offset))
       IN IF Reloc(i).offset = offset THEN i ELSE 0

Ask ==
  /\ phase = "loaded" /\ AsksLeft # {}
  /\ LET at == Least(AsksLeft)
         found == FindRelocation(at)
     IN /\ given' = given \cup {[at |-> at, reloc |-> found]}
        /\ cursor' = IF found = 0 THEN cursor ELSE found + 1
        /\ ip' = at + 1
  /\ UNCHANGED <<file, phase, pos, item, mod, refs, live, twice, fn>>

Skip ==
  /\ phase = "loaded" /\ AsksLeft # {}
  /\ ip' = Least(AsksLeft) + 1
  /\ UNCHANGED <<file, phase, pos, item, mod, refs, live, twice, fn, cursor, given>>

-----------------------------------------------------------------------------
LoadEntry ==
  \/ LoadNewType \/ LoadSameType \/ LoadImport \/ LoadFunction \/ LoadTable
  \/ LoadMemory \/ LoadGlobal \/ LoadExport \/ LoadStart \/ LoadElem
  \/ LoadData \/ LoadSymbol \/ LoadReloc \/ LoadName

RefuseEntry ==
  RefuseType \/ FailFunction \/ RefuseElem \/ RefuseData \/ EntryFails

Next ==
  \/ CreateModule \/ CreateFails \/ Split \/ SplitFails \/ SplitDone
  \/ OpenSection \/ OpenFails \/ LoadEntry \/ RefuseEntry
  \/ CloseSection \/ CloseFails
  \/ Resolve \/ Prepare \/ PrepareFails \/ Loaded \/ Unload
  \/ StartFunction \/ Ask \/ Skip

Spec == Init /\ [][Next]_vars

-----------------------------------------------------------------------------
(* Properties *)

\* A symbol table that was read after relocations were.
SymbolsReplaced ==
  \E p, q \in DOMAIN file :
    p < q /\ file[p].kind \in {"reloc.CODE", "reloc.DATA"} /\ file[q].kind = "linking"

SymbolOf(r) ==
  CASE r.type \in {"function", "function_offset"} -> {"function"}
    [] r.type = "table_number" -> {"table"}
    [] r.type \in {"memory", "memory64"} -> {"data"}
    [] OTHER -> {}

RelocationResolves(r) ==
  SymbolOf(r) # {} => /\ r.index < Len(mod.symbols)
                      /\ mod.symbols[r.index + 1].type \in SymbolOf(r)

\* Each index was compared with the counts at the time its section was read:
\* whatever was loaded later, in a module that is accepted every index names
\* something of the finished module, of the kind it should be.
ReferencesResolve ==
  phase = "loaded" =>
    /\ \A i \in DOMAIN mod.functions :
         LET f == mod.functions[i]
         IN f.type < Len(mod.types) /\ mod.types[f.type + 1].sig = f.sig
    /\ Len(mod.functions) = CountOf("code")
    /\ \A i \in DOMAIN mod.exports : mod.exports[i].index < IndexBelow(mod.exports[i].kind)
    /\ mod.start # Null => mod.start < FuncCount /\ SigOf(mod.start) = "void"
    /\ \A i \in DOMAIN mod.segments : \A j \in DOMAIN mod.segments[i].funcs :
         mod.segments[i].funcs[j] < FuncCount
    /\ \A i \in DOMAIN mod.names : mod.names[i].index < FuncCount
    /\ mod.dataCount # Null /\ CountOf("data") > 0 => Len(mod.datas) = mod.dataCount
    /\ \A i \in DOMAIN mod.symbols :
         LET s == mod.symbols[i]
         IN s.type = "function" =>
              s.index < FuncCount /\ (s.defined <=> s.index >= Len(mod.importFuncs))
    /\ ~SymbolsReplaced =>
         /\ \A i \in DOMAIN mod.codeRelocs : RelocationResolves(mod.codeRelocs[i])
         /\ \A i \in DOMAIN mod.dataRelocs : RelocationResolves(mod.dataRelocs[i])
    /\ \A f \in {mod.malloc, mod.retain, mod.free} \ {Null} :
         f \in Len(mod.importFuncs)..(FuncCount - 1)

\* The arrays that a later section of the same kind made the module forget.
Forgotten ==
  {b \in live : /\ b[1] \in {"linking", "reloc.CODE", "reloc.DATA"} /\ b[3] = 0
                 /\ \E p \in DOMAIN file : p > b[2] /\ file[p].kind = b[1]}

\* Wherever loading stops, and after a whole life too, unloading frees every
\* block once: shared types, half-read functions and segments included.
BlocksFreedOnce ==
  ~twice /\ (phase = "gone" => live = Forgotten)

\* An instruction gets the relocation at its operand, and none only if there
\* is none, whatever was skipped before it.
RelocationsApplied ==
  \A g \in given :
    IF g.reloc = 0 THEN \A i \in 1..RelocCount : Reloc(i).offset # g.at
    ELSE Reloc(g.reloc).offset = g.at

\* The memory as the file declares it.
Declared == [i \in DOMAIN mod.memory |->
               file[CHOOSE p \in Of("memory") : TRUE].items[i].init * PageBytes]

\* Shrinking leaves a growing memory alone, makes no memory larger, and never
\* cuts off the module's own data and stack where they lay inside it; a memory
\* that was shrunk cannot grow past its new size.
ShrinkKeepsData ==
  phase = "loaded" => \A i \in DOMAIN mod.memory :
    LET m == mod.memory[i]
        bytes == m.bytes * m.init
    IN /\ mod.grows => m.bytes = PageBytes
       /\ bytes <= Declared[i]
       /\ bytes < Declared[i] =>
            /\ mod.heapBase # Null
            /\ mod.heapBase <= bytes /\ mod.stackTop <= bytes /\ mod.dataEnd <= bytes
            /\ mod.stackSize <= mod.stackTop
            /\ m.max = m.init
=============================================================================
