# wasm2native in TLA+

wasm2native compiles a WebAssembly module ahead of time, through LLVM, to a native
object file that a host program links with a small run-time library. This directory
specifies what the program decides: how a file becomes a module, which function bodies
are accepted, what the compiler emits for each instruction and what that computes, how
an instance lives and dies, and how its heap hands out memory. TLC checks each part on
small instances; TLAPS proves the heap and its free chunks, the instance, the validator's stacks, what the
loader builds, frees and relocates, and the basic blocks the compiler emits, for every
size.

Every definition follows the C source (paths below are relative to `src/`);
`PROJECT.json` gives, definition by definition, the lines it stands for.

## 1. Inventory

| Component | State it keeps | Operations | Hard part | Status |
|---|---|---|---|---|
| Module loader, `core/iwasm/common/wasm_loader.c` | the `WASMModule`: types, imports, functions, tables, memories, globals, exports, segments, relocations, names | one loader per section, `load`, `unload` | order of sections, index spaces over imports and definitions, partial failure, integer edges | modelled, without LEB128, UTF-8 and 64-bit memories |
| Function body validator, same file | operand cells `frame_ref`, block stack `frame_csp`, high-water marks | one case per opcode; code rewriting | polymorphic stacks, values of several cells, br_table, limits | modelled |
| Control-flow code generation, `compilation/aot_emit_control.c`, `aot_emit_exception.c` | the `AOTBlock` stack with operand stacks, the LLVM function built so far, the insertion point | block, loop, if, else, end, br, br_if, br_table, return, unreachable, exceptions | skipping unreachable code, phis against edges, folded conditions | modelled |
| Other instruction emitters, `compilation/aot_emit_*.c`, `simd/` | the operand stack of one block | one emitter per opcode | undefined results of LLVM, limits of conversions, lanes, relocated addresses, cells of calls | modelled, without shared memory |
| Compiled instance: code generated by `compilation/aot_llvm.c`, `aot_emit_memory.c`, `aot_emit_function.c` | the generated globals: memory block, size, page count, bounds, exception, `is_instance_inited`, heap handle | create, destroy, calls, memory accesses, memory.grow, traps, functions for the host | bounds cached in globals, realloc moving the memory, exceptions through frames, a second life | sandbox mode modelled, without data segments |
| Host application, `wasm2native-vmlib/application` | none beyond the instance | execute_main, execute_func, quick entries, command loop | exceptions set and cleared around calls; argument cells and hand-written entries | modelled, without the text of numbers |
| EMS heap, `core/shared/mem-alloc/ems` | chunk headers, boundary tags, free lists and tree, statistics | init, malloc, free, realloc | boundary tags in application memory, in-place growth, size arithmetic | modelled |
| Built-in libc for sandboxed modules, `core/iwasm/libraries/libc-builtin` | none of its own | wrappers of libc functions | address validation, printf's arguments | what checks or converts is modelled |
| Driver, `wasm2native-compiler/main.c`, `compilation/aot_compiler.c`, `aot.c` | options, compiler context, relocation cursor | parse options, load, compile, emit | the dispatch over rewritten code, the relocation cursor | dispatch and cursor modelled |
| Utilities and platform layer, `core/shared/utils`, `core/shared/platform`; libc for unsandboxed modules; LLVM passes | OS objects | the usual | little: used from one thread, forwarding | not modelled |

How they interact: the driver passes a buffer to the loader; the loader builds the
module and has the validator walk each body, which also rewrites parts of it; the
compiler walks each accepted body again and trusts everything the validator
established (it pops without checking what block it pops from, and follows the
relocations the loader sorted beside the bodies). The generated code and
the run-time library share only globals, and the functions the generated code exports
to its host (`core/iwasm/include/w2n_export.h`). The EMS heap works on a part of the
linear memory of the instance and keeps its headers there, between the blocks of the
application.

There is no concurrency inside the program: the compiler has one thread, the generated
code has no locks, and those of the heap are commented out (`ems_alloc.c:399` and
others). The hard behaviours are long sequences of legal calls, several copies of one
fact that have to be kept in step (bounds and size, tag and header, phi and edge,
caller's and callee's cells), failures half way through, and arithmetic at the edges.
`PROJECT.json` lists them under `hazards`, line by line, with the properties that would
catch each.

## 2. Modules

```
HeapSpec <---- EmsHeap <---- EmsRealloc          KfcSpec <---- EmsKfc
(an allocator)                   |               (a store of chunks) |
                           EmsHeapProofs                       EmsKfcProofs

WasmTypes <--- WasmTyping <--- WasmValidator     WasmSections     WasmInstance     AotControl
(signatures)  (the type system)     |                 |                |
                          WasmValidatorProofs  WasmSectionsProofs  WasmInstanceProofs
                                               WasmReferencesProofs       AotOperandsProofs
                                                                          AotGraphProofs

WasmNumbers <--- WasmVectors      (what WebAssembly computes)
     |                |
AotScalar <------ AotVector <--- AotCalls <--- AotStraight      (what the emitted code computes)
                                            CodeWalk, LibcPrintf  (instances in AotStraight)
```
Arrows point from an implementation to what it implements or extends. Each `MC*` module
gives the constants of the module it extends their values.

### The heap: HeapSpec, EmsHeap, EmsRealloc

Addresses are counted in units of eight bytes, the alignment of the allocator. `size`
maps the address of each header to the size in it, `vo` holds the chunks that are
blocks (`HMU_VO`), `pinuse` those with the pinuse bit, and `tag` the word below each
address, which is a boundary tag when the chunk below is free and belongs to the
application otherwise (`Garbage`). `kfc` is the set of linked free chunks; how they are
linked is EmsKfc's subject. Sizes are computed modulo `2^w` (`WordMod`), as
`gc_size_t` arithmetic is.

`Malloc` is `gc_alloc_vo` with `alloc_hmu`: overflow test, best fit, `Split` or
`TakeWhole`, accounting, marking of the chunk above. `Free` is `gc_free_vo`: it looks
below by `pinuse` and `tag`, above by the header's type, unlinks, merges, relinks.
Realloc's cases are the branches of `gc_realloc_vo`; its two halves, allocate-and-copy
and free, are two steps with nothing in between.

`HeapSpec` knows addresses and lengths of live blocks only: a block covers the request,
blocks are disjoint, and a request is refused only when no run of free units could
hold it. `ImplementsPool` maps `live` to the blocks of `vo`. The third clause is the
strong one: a chunk lost, two neighbours left unmerged or a search that overlooks a
chunk all show as a refusal that was not justified.

### The store of free chunks: KfcSpec, EmsKfc

Lists of small sizes and a binary search tree of larger ones, with left, right and
parent links as in the code: `RemoveTreeNode` with its four cases, insertion with equal
sizes going left, the search for the best fit. The loops of the code are `Descend`, the
iteration of one step until nothing changes, over as many steps as there are nodes.
`KfcSpec` is a map from chunks to sizes that answers a request with a smallest
sufficient chunk.

### The loader: WasmSections

A file is a sequence of sections; a section has a kind, a declared count and the entries
that really follow it. `mod` is the `WASMModule` under construction and `live` the
blocks malloc has handed out for it, each named by what it holds. Reading one entry is
one step, so that each refusal and each failed allocation is a step of its own, with
everything built until then standing. Equal function types are shared and counted
(`refs`), as `wasm_loader.c:636` does. After the sections come the resolution of
`__heap_base`, `__data_end` and the stack pointer, the validation of the bodies (here: a
body is valid or not; WasmValidator says which), and the shrinking of a memory that
never grows. `Unload` frees the module array by array and remembers a block freed a second time
in `twice`. A file accepted is then walked by the compiler: `cursor` is its position
in the relocations, looked for at each function and compared at each instruction
that may have one.

### The validator: WasmTypes, WasmTyping, WasmValidator, CodeWalk

`WasmTypes` gives each opcode without control flow its signature. `WasmTyping` is the
validation algorithm of the WebAssembly specification, over values. `WasmValidator` is
`wasm_loader_prepare_bytecode`, over cells: an i64 is two cells, a v128 four, and each
`check_stack_pop` looks at cells. Opcodes are actions; a body is any sequence of them.
`ImplementsTyping` reads values back from cells (`Values`, from the top, where a cell
tells the width of its value) and open blocks back from `frame_csp` (`Ctrls`), and says
that the walk accepts, refuses and leaves operands exactly as the type system does. Limits (`UINT16_MAX` cells and
blocks) are the constants `MaxCells` and `MaxBlocks`; a body refused for a limit ends
with verdict "limit", which the abstract algorithm may do at any time.

`CodeWalk` has the bytes of a body: what the validator rewrites in them (the opcode of a
block with a type index, the depths of a br_table or a reference to its cache), how
`wasm_loader_find_block_addr` looks ahead over the rewritten bytes, and how
`aot_compile_func` walks them, against the walk of the original.

### Control flow: AotControl

The compiler walks the body with a stack of `AOTBlock`s; LLVM's function is a sequence
of basic blocks, each with the number of its terminators, its incoming edges, its phis
and their incoming values. Beside it, `types` keeps what the type system says of the
operands, which decides the opcodes that can come next: the loader has accepted the
body. Values are their type and whether LLVM folded them to a constant, as br_if, if
and br_table take other paths for constants. Skipping of unreachable code
(`handle_next_reachable_block`) is `NextReachable`, which every transfer of control
runs. malloc and LLVM calls succeed.

### Straight-line code: WasmNumbers, WasmVectors, AotScalar, AotVector, AotCalls, AotStraight

Two answers to each opcode are compared. `WasmNumbers` and `WasmVectors` are the
reference: integers of any width, floats as an index into ascending magnitudes, lanes.
`AotScalar` and `AotVector` are the emitters: the LLVM instructions that each
opcode becomes, with the checks and selects around them, over LLVM's own semantics, in
which a shift beyond the width, an overflowing division or a conversion out of range
give `Poison`. An operand carries whether it is a constant, since division and shifts
look at that. Rounding belongs to IEEE 754 and is a constant (`Ieee`): what is compared
is which operation on which operands, not the hardware's arithmetic.

`AotCalls` has the cells through which arguments and results travel: the pointers a
caller passes for results after the first, the checks of an indirect call and the type
index it compares, imports linked to natives, the table filled by the element segments,
and the host's side (`execute_func`, the quick entries, `execute_main`'s argv).

`AotStraight` joins them. `Init` chooses an opcode and a target; `Run` chooses operands
of every kind the operand stack may hold, computes what the emitted code leaves behind
(`Got`, the dispatch of `aot_compile_func` and the emitter) and what was meant (`Want`).
A store or a set changes both memories or cells and may be followed by a load or a get,
so that a value must survive the way through memory, a local or a global, with relocated
addresses when the sandbox is off. Copies and fills may leave the memory. `Walk` and
`Lib` are instances of CodeWalk and `LibcPrintf`.

Emitter and reference are written apart wherever the compiler decides something: which
instructions, in which order, with which checks, constants, casts, lanes and indices.
The leaves below that are the same operators on both sides: addition and the other
arithmetic of one number or one lane, comparisons, bit counts, `Ieee`, the extraction
of a lane. A mistake in such a leaf would not show.

### The built-in libc: Libc, LibcPrintf

Each wrapper checks addresses and ranges (`validate_app_addr`, strings to their zero),
turns them into pointers, calls the host's function and turns a pointer back. What the
host's function does is `CCall`, over the module's memory as over the host's, so the
property compares the wrapper with the same function called directly.

`LibcPrintf` extends it with `_vprintf_wa` and its three callers. A call of printf says
where the format and the arguments lie; the wrappers test a word at each, and that the
destination is a string. `Convert` is one conversion: the copy of its format, which may
need an allocation that fails, the test of the argument (`CheckVaArg32`, or
`CheckVaArg64`, which looks at the first byte only), the value taken from the memory,
and for `%s` the test of the string and the allocation for it. A test that fails raises
the exception with what was printed before it left in the memory or on the terminal;
an allocation that fails prints `ERR`. `SprintfOut` writes one character. An access to
what is not the module's memory ends the model's call as `outside`, which the reference
never answers. The reference (`PrintfMeant`, `SprintfMeant`, `SnprintfMeant`) lays the
arguments out as the module's compiler does, and says which items come out before the
first one that is not inside of the memory, and how much of them fits. Texts of numbers
are one character that tells values apart, on both sides the same.

### The instance: WasmInstance

The globals have the generated names. `Create`, `NextPost` and `CreateEnds` are
`wasm_instance_create`, which calls the start function and the constructors; `Destroy`,
`HostSets`, `CallRejected`, `CallExport` and `CallEnds` are what the host does; `Call`,
`Return`, `Trap`, `CallNative`, `GoOn` and `Unwind` are a frame of generated code, with
the test of `exception_id` after each call (`at = "check"`); `MemoryGrow` is the whole
of the instruction. `Shrunk` and `Memory` compute what the loader and `--heap-size`
make of the declared memory. An access is `Refused`, the comparison
`aot_check_memory_overflow` emits; it is an operator and not an action, since a check
changes nothing and its failure is a `Trap`. malloc, realloc and heap creation may
fail whenever they are called. `raised`, `outgrown` and `reported` are history
variables.

## 3. Runs

| Run | Shows | Bounds | Distinct states |
|---|---|---|---|
| `heap` | malloc and free in any order: layout invariants, accounting, the pool | ten units; requests below the minimum, of 2, 3 and 4 units, and two that wrap a word of 128 | 1 to 10 thousand |
| `realloc` | what in-place growth preserves, up to the first free that takes application data for a tag | ten units, four requests | thousands |
| `realloc_pinuse` | violation: growth by exactly the free chunk above leaves a pinuse bit clear | same | |
| `kfc` | links, order and best fit with equal sizes | five chunks, sizes 3 (list), 6, 7, 8 (tree) | 40 805 |
| `validator` | acceptance and operands agree with the type system; cells stay whole values | four cells, three blocks, one type of each width | 104 616 |
| `control` | branches, phis, terminators and operand stacks fit for every accepted body | three open blocks, two operands each | 249 190 |
| `control_entry` | violation: `if` with parameters, else and a condition folded to zero | same | |
| `control_branch` | violation: `if` with two parameters and no else | three operands, one block type | |
| `instance` | bounds, memory, exceptions and answers to the host in any order of calls | four pages of four bytes, five programs, two calls deep, two places for malloc | |
| `instance_recreate` | violation: destroyed after memory.grow and created again | same | |
| `sections` | what loads is consistent, what is refused anywhere is freed once, relocations reach their instructions, shrinking cuts off nothing | 2961 files; pages of 64 bytes, four in the address space, `RefMax` 2 | 291 413 |
| `straight` | every straight-line opcode, call, rewritten body and libc function computes what it should | bytes of two bits, see below | 66 889 |

Why the bounds are enough. Ten units hold three blocks with free chunks on both sides
of the one freed, so that both, one and neither neighbour merge, and a chunk one unit
too large to be split. Five chunks make a tree node with two children whose predecessor
is the child itself and one where it is deeper. Four cells let an i64 lie under, over
and between i32s and fill the stack with a v128. Three open blocks are the function, a
block and a block in it: a branch out of two, skipped code that contains a block, an
if in a loop. A four-page address space of 16 bytes lets every address and offset
be enumerated, wraps included.

The files of `sections` are one file with every section and what one or two edits make
of it: a section left out, moved, repeated or replaced by a variant, and pairs of
variants; every allocation of each may fail. `RefMax` 2 lets a shared type reach the
limit of its count. In `straight` every type keeps its number of bytes, but a byte has
two bits: an i32 has 256 values and an i64 65 536, their boundaries, shift counts and
limits of truncation lie within reach, and an i64 is still two i32s for the cells. The
samples of each type are the numbers around every limit the code compares with. Three
targets (sandbox; none, with and without relocations; x86 and others), ten function
types, 13 functions and a table of 14 with empty and ill-typed elements; two libc
memories of eight bytes. Calls of printf have formats of up to two of thirteen items, or
three of three, over memories of 32 bytes with arguments, strings or the destination up
to the last byte, and lists of arguments and formats that begin there or behind it;
`temp_fmt` has five bytes, a string of two characters needs an allocation and one of
three is too long. In CodeWalk a byte of
LEB128 carries four bits, so that a depth from 32 on takes the br_table cache, and
bodies are wrapped in no or 33 blocks to reach it.

Views and symmetry. `StackView` of the validator drops the opcode last checked, on which
nothing depends. `LayoutView` drops the statistics, which no step of the allocator
reads; they drift without bound under realloc, and `AccountingExact` is therefore
checked in runs without the view. `StackView` of AotControl replaces the finished basic
blocks by the truth of what the invariants say about them: code already emitted is not
read again, except for whether a block was created and whether an edge leads there,
which the view keeps. A state in which one of these invariants fails differs in the
view, so no violation is hidden. `kfc` permutes the chunks, which the code never
compares by address; its properties are invariants and a safety refinement.

`CHECK_DEADLOCK FALSE` is set where the modelled activity ends: validation and
compilation of one body, loading of one file and one opcode do, and the `realloc` run
stops before the first undefined read. The other runs check for deadlock.

Fairness is assumed once, `WF_vars(Unwind)` in WasmInstance: a frame that has found
an exception after a call returns. It is straight-line code that can neither block
nor fail, on a thread that keeps running. Nothing says that a program returns or traps:
`TrapReturns` starts from the exception.

What the properties leave out, because the code is known to differ there:

* `ReferencesResolve` compares relocations with symbols unless a symbol table came after
  them (`SymbolsReplaced`), and `BlocksFreedOnce` allows for the arrays of symbols and
  relocations that a repeated section makes the module forget (`Forgotten`). Exported
  imported globals named `__heap_base` or `__data_end` (an index below zero,
  `wasm_loader.c:3142`, `:3158`), relocations whose offset wraps (`:2807`), and the
  assertions about modules that export both `malloc` and `__new` are not among the
  files.
* `VectorsAgree`: narrowing of i32 lanes off x86 (`simd_conversions.c:165` passes
  i16x8).
* `MemoryAgrees`: memory.copy and memory.fill without the sandbox, which add the
  memory's address to a pointer (`aot_emit_memory.c:1104`), and ranges of 64-bit
  memories whose end wraps.
* `CallsAgree`: indirect calls with results of several sizes in the sandbox
  (`aot_emit_function.c:790`) and with more than one result outside it (`:470`); a
  return_call with several results, whose call is marked `tail` though it passes the
  address of a local buffer (`:300`), is executed as an ordinary one. Imported
  functions have at most one result (`CallsAssumption`): how the cells of several reach
  a native is not modelled.
* `LibcAgrees`: memchr and strstr that find nothing, whose null pointer is turned into
  an address. Of printf, sprintf and snprintf, the calls that `PrintfPromised`,
  `SprintfPromised` and `SnprintfPromised` except, in each of which the code does
  something else than the reference:
  formats that do not end inside the memory (`libc_builtin_wrapper.c:310`; only their
  first word is tested, `:549`); in 64-bit modules arguments that run out of the memory,
  since `CHECK_VA_ARG` compares their first byte (`libc64_builtin_wrapper.c:213`); an
  argument behind a conversion whose format could not be copied, which is left for the
  next one (`:261`); `%c` of zero, which prints nothing (`:274`); destinations without a
  zero behind them, which are refused (`:571`, `:608`); sizes of snprintf that let it write
  beyond the memory, which it does (`:622`); and sizes from 2^32 on, cut to 32 bits
  (`libc64_builtin_wrapper.c:575`). The destination overlaps neither arguments nor
  strings. A format or an argument list of less than a word at the very end of the memory
  is refused, and the reference agrees.
* `IntegersAgree`: operands that LLVM knows to be undefined, for which division has a
  path of its own (`aot_emit_numberic.c:414`).
* `BoundsExact`: memories smaller than the access (a memory the loader shrinks to a
  `__heap_base` below 16), where `size - n` wraps (`aot_llvm.c:166`).

## 4. Findings

* Growing a block in place by the whole free chunk above it (`ems_alloc.c:484`) does
  not set the pinuse bit of the chunk that follows. A later free of that chunk takes the
  last word of the grown block for a boundary tag.
* An `if` with parameters and an else branch whose condition folds to zero has no entry
  block, and `push_aot_block_to_stack_and_pass_params` positions the builder at it
  (`aot_emit_control.c:303`).
* An `if` without else and with two parameters gets instructions behind its branch
  (`aot_emit_control.c:355`). `verify_module` would not report it, since it takes the
  answer of `LLVMVerifyModule` the wrong way round (`aot_compiler.c:2534`).
* An instance that is destroyed after memory.grow and created again keeps the grown
  size and bounds over a memory of the initial size (`aot_llvm.c:1336`).

`MemoryBacked` excludes the last one by the history variable `outgrown`; the
`realloc` run stops where the first one would read a wrong tag.

Read in the code and in no run, beside the exclusions of section 3: growing in place
changes neither `total_free_size` nor `highmark_size` (`ems_alloc.c:478`); the size
field of a heap header has 27 bits, 1 GB, while heaps of almost 4 GB are accepted
(`ems_gc_internal.h:152`); every atomic instruction is refused, because its prefix byte
is looked up instead of its opcode (`wasm_loader.c:6849`); on 32-bit targets create asks
malloc for 4 GB modulo `2^32` (`aot_llvm.c:1347`); memory.grow pops an i32 where the
loader typed an i64 (`aot_emit_memory.c:852`), and memory.fill passes an i32 length to a
64-bit memset (`:1157`); `wasm_get_exception_msg` without an exception indexes below its
table (`aot_llvm.c:2368`); a quick entry of type `(IIi)I` reads its third argument as 64
bits (`wasm_application.c:1173`); an argv above 2 GB is sign-extended
(`wasm_application.c:1780`).

## 5. Proofs

`EmsHeapProofs` proves, for every size of the heap, width of the word and set of
requests that satisfy `HeapAssumption`:

* `LayoutInvariant`: `Spec => []Layout`, where Layout is the conjunction of `TypeOK`,
  `WalkTilesHeap`, `PinuseExact`, `TagsReliable`, `NoAdjacentFree` and `KfcExact`. None
  is inductive alone: free merges below by a tag (`TagsReliable`), which it reads
  because of a bit (`PinuseExact`), and what it reads is a chunk only if the heap is
  tiled; the merged chunk has no free neighbour only if there were no two before. The
  conjunction is inductive. There is one lemma per way of changing the layout
  (`SplitKeepsLayout`, `TakeWholeKeepsLayout`, `FreeKeepsLayout`), with a step per
  conjunct.
* `HeapImplementsPool`: every step is a step of `HeapSpec` or a stutter, by
  `MallocGrants`, `FailureRefuses` and `FreeReleases`. The refusal needs that a run of
  free units lies in one chunk (`FreeRunInOneChunk`), which is where `NoAdjacentFree`
  is used, and that a request that wrapped exceeds the heap.
* `AccountingInvariant`: `total_free_size` is the number of free units and
  `highmark_size` an upper bound of what was ever used.

It also proves what realloc preserves, of `RSpecDefined`, in which free is
enabled only when the word it would take for a tag is one:

* `GrowthInvariant` (`GrowthKeepsHeap`): tiling, coalescing and linking of free chunks
  hold, and every pinuse bit that is set is true (a clear one may be stale, section 4).
  Cutting and merging of chunks are two lemmas about tilings (`CutTiles`,
  `MergeTiles`), used by malloc, free and both ways of growing.
* `AnswersCover` (`AnswerCoversRequest`): every block answered with covers its request
  and its header until it is freed.

`HeapAssumption` says that units are positive, the heap fits the word, and requests are
values of the word. The header's size field is taken to hold every size.

`EmsKfcProofs` proves, for every finite set of chunks, every set of sizes and every
number of lists (`KfcAssumption`):

* `LinksInvariant` (`LinksAgree`), `OrderInvariant` (`TreeOrdered`) and
  `KfcImplementsStore` (`ImplementsStore`), from one inductive invariant, `KInv`. The
  links name each other (`Wired`); some rank grows from each parent to its children
  (`Ranked`), so that the links have no cycle and every descent ends; some assignment of
  sets of sizes bounds each subtree (`Ordered`), which states the order of the tree link
  by link, without reference to subtrees, so that a step has to restore it only where it
  changes a link. `Listed` says the same of the lists. `Settled` says that a size kept
  in lists is in the tree only while the whole pool is one chunk, which
  `gc_init_internal` hangs there whatever its size; without it the search of the lists
  could pass over a smaller chunk of the tree.
* `Descends` is the lemma about loops: one whose steps increase a rank, or stop, ends
  at a fixed point within as many steps as there are nodes (by counting what it
  passes), and every set closed under its step holds what it ends with. The predecessor
  (`RightmostIsLargest`), the free slot (`LeafFound`), the best fit (`BestFitFits`) and
  the subtrees of `TreeOrdered` (`SubtreeLeast`) are such loops.
* Removing a node keeps the order whatever children it has (`RemoveKeeps`), the one with
  two included, whose predecessor bounds both sides anew (`TakePlaceKeeps`); so does an
  insertion (`InsertKeeps`). `ListTaken` and `TreeTaken` say that the answer is a
  smallest sufficient chunk of lists and tree together.

`WasmInstanceProofs` proves, for every page size, address space, set of programs, access
widths, depth of calls and places for malloc that satisfy `ProgramsOK`:

* `BoundsInvariant` (`BoundsExact`), `MemoryInvariant` (`MemoryBacked`),
  `AnswersInvariant` (`AnswerHonest`), `TrapsStop` (`TrapStopsCall`) and
  `TypesInvariant` (`TypeOK`).
* They share one inductive invariant, `IInv`. `Phases` ties the frames to what the host
  is doing. `Bounds` says that size, page count and bounds describe one memory that fits
  the address space; `BoundsExact` follows from it by arithmetic
  (`ChecksAreExact`), the wrap of 32-bit sums included. `Owned` extends
  `MemoryBacked` to the functions run by create, before the instance counts as created.
  `Raised` says that an exception of the call under way is still in `exception_id` and
  that its frames stand behind a call, where it is looked at; `AnswerHonest` and
  `TrapStopsCall` need it. `MemoryFits` proves what the loader and `--heap-size` make of a
  program's memory: only a memory of whole pages can grow, and never past the address
  space.

`ProgramsOK` says what the compiler enforces and that a 32-bit target's
memory is smaller than the address space, which create does not enforce.

`WasmValidatorProofs` proves, for all function and block types, limits and bodies:

* `TypesInvariant` (`TypeOK`), `WholeInvariant` (`OperandsWhole`), `AnyInvariant`
  (`AnyOnlyAtBase`) and `LowerKept` (`LowerOperandsKept`), from the inductive invariant
  `IInv`: bases of blocks rise with the nesting, an unknown operand lies only at the
  base of an unreachable block, and the cells of each block are a row of whole values
  (`WholeFrom`). The last part is what `LowerKept` rests on: drop and select cut the
  stack by a width they read from the top cell, and stay above the block's base only if
  that cell belongs to a whole value. While an opcode works, its block's cells from
  the base on are whole (`WholeAll`); pushes, pops and cuts have one lemma each, and
  each opcode follows from them.
* The helpers push and pop lists of types by recursive functions. What such a function
  computes is proved without induction over operators: the set of lengths at which the
  claim fails has a least element (`Least`, from the well-foundedness of `<`), and at the
  least one the definition contradicts it.
* `ValidatorImplementsTyping` (`ImplementsTyping`): every opcode of the walk over cells is
  a step of the typing algorithm over values, or ends with verdict "limit".
  - Cells and values: values are the only ones with their cells (`CellsOfInjective`),
    reading them back gives them (`ValuesOfCells`), and cells that are whole are the
    cells of some (`WholeCells`, which is where `WholeInvariant` is needed). A state is
    therefore split into values `L` of the enclosing blocks and `w` of the innermost one
    (`Parts`), and the typing algorithm's operands are `w` (`OperandsTyped`).
  - Pops and pushes: `Does(s, c, L, w)` says that the outcome `s` is an acceptance, if
    `c`, which leaves `w` above `L`, and a refusal otherwise. `PopAllDoes`,
    `PushAllDoes`, `CheckBlockStackDoes`, `CheckBrDoes` and `CheckTargetsDoes` state this
    of the loader's helpers, with the typing rule as `c`. The hard ones look at cells
    without popping: `TopValuesTaken` (the cells of some types are on top exactly if the
    values are) and `TopValue` (drop and select read a type off one cell).
  - One lemma per opcode (`PlainMaps` to `EndMaps`). wasm_loader_check_br pushes back
    what it popped, and in unreachable code more than it popped, so the operands it
    leaves are those of the typing rule only because that rule does the same;
    br_table undoes this after each target; and an if without else is accepted because,
    its parameters being its results, the branch it has not would leave them.
  - Beside `IInv` it needs `Rooted`: the function block starts at the bottom of the stack,
    and only an if has an else.

Two modules prove about the loader, for every set of files that satisfies
`FilesAssumption` (counts and offsets are natural numbers) and `IndicesAssumption` (so
are the indices in entries), and a `Null` that is no block (`NullAssumption`). The
first, `WasmSectionsProofs`:

* `RelocationsInvariant` (`RelocationsApplied`). The invariant
  behind it (`RInv`) says that the relocations of the code ascend, which the loader
  checks only against the entry before, and that what the cursor has passed lies before
  the instruction. A relocation is left behind only by the instruction that asks for it
  or by code the compiler skips.
* `LifetimeInvariant` (`BlocksFreedOnce`). Its invariant (`LInv`)
  has three parts. `Held`: the module points only to live blocks, and every live block
  is one it points to, a section, or an array it was made to forget. `Counted1`: the
  count of a type's block is the number of entries of `types` that point to it. And, to
  know what is forgotten, `LoadInv`: no two sections have the same kind unless they are
  custom (`OnceBefore`, from `InOrder`), a pointer is to the array of a section that was
  opened (`PtrInv`), and the entries of a kind that was not opened are none
  (`FieldInv`). There is a lemma for each kind of entry; `DroppedIsLost` is the one for
  a custom section that comes again.

The second, `WasmReferencesProofs`:

* `ReferencesInvariant` (`ReferencesResolve`). Its invariant (`XInv`) says of each entry
  already read what the loader compared it with, in terms of what the module holds now
  and not when it was read: counts only grow while sections come in order, and nothing
  read later changes the entry. Relocations are compared with sections that come before
  them; the data count and the code are compared when both are known.
* `ShrinkInvariant` (`ShrinkKeepsData`). A memory is as the file declares it until it is
  shrunk (`MemoryAsDeclared`), and what the loader took from the exported globals is what
  they say (`AuxKnown`). That the sizes of a shrunk memory hold data and stack follows
  from the comparisons that allow it.

Two modules prove about `AotControl`, for all types, opcodes, tables and bounds that
satisfy `ControlAssumption`. `AotOperandsProofs`:

* `FailsNever` (`NeverFails`) and `OperandsInvariant` (`OperandsAgree`), from `OInv`: the
  operands of each open block agree with its types one by one, an i1 standing for an
  i32 (`Agree`), a block that is reachable has an end, and an else that code has not
  come to exists or is skipped (`Opened`). The hard steps are the ones in which
  several blocks are left at once (`NextReachableKeepsStack`) and the br_if that pops
  operands and puts them back (`TakenAgree`).

`AotGraphProofs`:

* `PhisInvariant` (`PhisMatchEdges`), `EndsInvariant` (`EndsOnce`, `TypeOK` included),
  `ReachedInvariant` (`ReachedOnly`) and `ReachableInvariant` (`ReachableExact`), from one
  invariant, `GInv`. None of the four is inductive. `OpenOK` says of an open block where
  it goes on: its end and its else are not ended, are not the block the builder is in,
  and differ from those of all other open blocks (`Apart`), so that leaving one block
  leaves the others alone; its end is reached exactly if `is_reachable`; only an if has
  an end that nothing reaches, which is why nothing else is ever removed; and an if
  whose else is skipped has no else block, so that the two tests of
  handle_next_reachable_block, of which one looks at `skip_wasm_code_else`, agree.
  `BlockOK` says of each basic block that it ends once, that its phis match, and why it
  has no end or no edge yet. In the middle of an opcode blocks exist that nothing leads
  to (`new`) and the builder may be nowhere (`homes`); each helper (`Passes`, `Terminate`,
  `ToEnd`, `Enter`, `Raise`) has a lemma that says which of these it settles.
* A br_table takes its branches one after the other, by a recursive function; that the
  graph survives all of them is proved over the set of those that keep it (`UpTo`).

Only model-checked: the seven properties of AotStraight (straight-line code with its
calls, bodies and libc), which compare two evaluators, recursive over bits, bytes and
bodies, on enumerated operands; and `TrapReturns`, a liveness property.

## 6. Not modelled

* Decoding of LEB128 and UTF-8, magic number and version; 64-bit memories and tables in
  the loader (straight-line code has 64-bit addresses).
* The copying of data segments, and the constructor without the sandbox.
* Shared memory: atomics are refused by the loader. The helpers that print from
  generated code for debugging.
* The soft float library and intrinsics of targets without an FPU; SIMD without native
  vectors; rounding of floats.
* The text of numbers (printf, strtol, arguments of the command line), and that printf
  cuts it at 63 characters; `%n`, `*` and `%L`; where the characters of a format are
  overwritten by its own output; strings of 4 GB, whose length wraps; libc functions that only forward; the libc of unsandboxed modules, which is the
  host's.
* Parsing of options, detection of targets, LLVM's passes and LLVM itself beyond the
  instructions in AotScalar, AotVector and AotControl; failures of malloc in the
  compiler after loading.
* The platform layer, logging, the hash map (nothing calls it) and the list.

## 7. What would come next

1. Data segments and the unsandboxed constructor in WasmInstance.
2. LEB128 as it is read from a file that ends too early.
