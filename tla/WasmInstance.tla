---------------------------- MODULE WasmInstance ----------------------------
(***************************************************************************)
(* The life of a compiled module in sandbox mode: the code that            *)
(* aot_llvm.c generates for wasm_instance_create and wasm_instance_destroy,*)
(* the globals that hold the linear memory, the memory checks and          *)
(* memory.grow of aot_emit_memory.c, exceptions and their way back through *)
(* the callers, and the host of wasm_application.c that calls exported     *)
(* functions.  Everything runs on one thread; malloc, realloc and the      *)
(* creation of the host managed heap may fail at any time.                 *)
(***************************************************************************)
EXTENDS Integers, FiniteSets

CONSTANTS PageBytes,    \* DEFAULT_NUM_BYTES_PER_PAGE
          MaxPages,     \* DEFAULT_MAX_PAGES: they fill a 32-bit address space
          Programs,     \* the modules compiled, see IsProgram
          Widths,       \* the sizes of memory accesses, 1 to 16 bytes
          Traps,        \* the exceptions generated code and natives raise
          Blocks,       \* the places malloc can answer
          MaxDepth      \* bound on the depth of calls of generated code

AddrSpace == PageBytes * MaxPages

None == "none"
NullBlock == "null"
AllocateFailed == "EXCE_ALLOCATE_MEMORY_FAILED"
Rejected == "EXCE_LOOKUP_FUNCTION_FAILED"
Unknown == "EXCE_UNKNOWN_ERROR"
ExceptionIds == Traps \cup {AllocateFailed, Rejected, Unknown}

(* A module as the loader reads it: its declared memory, whether it holds  *)
(* memory.grow, __heap_base (0: not exported), the --heap-size option, the *)
(* number of functions instantiation calls, and the target's pointer size. *)
IsProgram(p) ==
  /\ p.pages \in 0..MaxPages /\ p.max \in p.pages..MaxPages
  /\ p.grows \in BOOLEAN /\ p.heapBase \in Nat /\ p.heapSize \in Nat
  /\ p.posts \in 0..2 /\ p.pointer \in {32, 64}

(* The loader shrinks a memory that never grows to the end of the module's *)
(* own data, and makes it one page.                                        *)
Shrunk(p) ==
  LET own == p.heapBase > 0 /\ p.heapBase <= PageBytes * p.pages IN
  IF p.grows THEN [bytes |-> PageBytes, init |-> p.pages, max |-> p.max]
  ELSE IF own THEN [bytes |-> p.heapBase, init |-> 1, max |-> 1]
  ELSE IF p.pages < MaxPages
       THEN LET one == IF p.pages > 0 THEN 1 ELSE 0
            IN [bytes |-> PageBytes * p.pages, init |-> one, max |-> one]
       ELSE [bytes |-> PageBytes, init |-> p.pages, max |-> p.max]

(* --heap-size appends the host managed heap to a memory of fixed size.    *)
Memory(p) ==
  LET m == Shrunk(p)
      size == m.bytes * m.init
  IN IF p.heapSize > 0
     THEN [bytes |-> size + p.heapSize, init |-> 1, max |-> 1, heapAt |-> size]
     ELSE [bytes |-> m.bytes, init |-> m.init, max |-> m.max, heapAt |-> 0]

(* The compiler refuses a heap beside a memory that may grow, and one that *)
(* does not fit the address space beside the memory.  On a 32-bit target   *)
(* instantiation does not refuse a memory of 4 GB, as memory.grow does;    *)
(* these programs have none.                                               *)
ASSUME ProgramsOK ==
  /\ PageBytes \in Nat \ {0} /\ MaxPages \in Nat \ {0} /\ MaxDepth \in Nat \ {0}
  /\ Widths \subseteq 1..PageBytes
  /\ \A p \in Programs :
       /\ IsProgram(p)
       /\ p.heapSize > 0 => /\ Shrunk(p).init = Shrunk(p).max
                             /\ Memory(p).bytes < AddrSpace
       /\ p.pointer = 32 => Memory(p).bytes * Memory(p).init < AddrSpace
  /\ NullBlock \notin Blocks /\ None \notin ExceptionIds

VARIABLES program,          \* what was compiled
          live,             \* the blocks malloc gave out: place to bytes
          memory_data, memory_data_size, cur_page_count,
          mem_bound_check,  \* the greatest address an access of a width may have
          heap_handle,      \* the block host_managed_heap_handle points into
          is_instance_inited, exception_id,
          phase,            \* what the host is doing: idle, creating, calling
          post,             \* how many functions instantiation has called
          depth,            \* frames of generated code on the stack
          at,               \* where the top frame is: in its body or after a call
          reported,         \* the host's last answer: created or not, called or not
          raised,           \* history: an exception in this call, or in an earlier
                            \* one of the same instantiation
          outgrown          \* history: created anew after memory.grow

globals == <<memory_data, memory_data_size, cur_page_count, mem_bound_check,
             heap_handle>>
memory == <<live, globals, outgrown>>
stack == <<phase, post, depth, at, raised>>
vars == <<program, memory, is_instance_inited, exception_id, stack, reported>>

mem == Memory(program)
InitialSize == mem.bytes * mem.init

-----------------------------------------------------------------------------
(* The checks the generated code makes                                     *)

(* Wrong: one bound for every width.                                       *)
BoundForOneByte(size, n) == size - 1

BoundAtStart(n) == IF InitialSize = 0 THEN 0 ELSE InitialSize - n
BoundAfterGrow(size, n) == size - n

(* Whether the access of n bytes at address a + o raises an exception.     *)
Refused(a, o, n) ==
  LET wide == program.pointer = 64
      sum == IF wide THEN a + o ELSE (a + o) % AddrSpace
  IN \/ mem.init = 0 /\ cur_page_count = 0
     \/ sum > mem_bound_check[n]
     \/ ~wide /\ sum < a

(* wasm_set_exception: zero clears, an unknown number becomes one known.   *)
Settled(x) == IF x \in ExceptionIds \cup {None} THEN x ELSE Unknown

-----------------------------------------------------------------------------
Init ==
  /\ program \in Programs
  /\ live = << >>
  /\ memory_data = NullBlock
  /\ memory_data_size = InitialSize
  /\ cur_page_count = mem.init
  /\ mem_bound_check = [n \in Widths |-> BoundAtStart(n)]
  /\ heap_handle = NullBlock
  /\ is_instance_inited = FALSE
  /\ exception_id = None
  /\ phase = "idle" /\ post = 0 /\ depth = 0 /\ at = "body" /\ raised = "no"
  /\ outgrown = FALSE
  /\ reported = "nothing"

Without(b) == [x \in DOMAIN live \ {b} |-> live[x]]
With(f, b, size) == [x \in DOMAIN f \cup {b} |-> IF x = b THEN size ELSE f[x]]

(* A function of the module starts on behalf of the host.                  *)
Enters == depth' = 1 /\ at' = "body"

(* wasm_instance_create without memory: no block is answered.              *)
CreateFails ==
  /\ phase = "idle" /\ ~is_instance_inited
  /\ exception_id' = AllocateFailed
  /\ reported' = "failure"
  /\ UNCHANGED <<program, memory, is_instance_inited, stack>>

(* memory_data and host_managed_heap_handle are stored; the sizes and      *)
(* bounds are left as they are.                                            *)
Allocated(b) ==
  /\ b \in Blocks \ DOMAIN live
  /\ live' = With(live, b, InitialSize)
  /\ memory_data' = b
  /\ outgrown' = (memory_data_size # InitialSize)
  /\ UNCHANGED <<memory_data_size, cur_page_count, mem_bound_check>>

CreateWithoutHeap ==
  /\ phase = "idle" /\ ~is_instance_inited
  /\ mem.heapAt > 0
  /\ \E b \in Blocks : Allocated(b)
  /\ exception_id' = AllocateFailed
  /\ reported' = "failure"
  /\ UNCHANGED <<program, heap_handle, is_instance_inited, stack>>

Create ==
  /\ phase = "idle" /\ ~is_instance_inited
  /\ \E b \in Blocks :
       /\ Allocated(b)
       /\ heap_handle' = IF mem.heapAt > 0 THEN b ELSE heap_handle
  /\ IF program.posts > 0
     THEN /\ phase' = "creating" /\ post' = 1 /\ Enters
          /\ reported' = "nothing"
          /\ UNCHANGED is_instance_inited
     ELSE /\ is_instance_inited' = TRUE
          /\ reported' = "success"
          /\ UNCHANGED <<phase, post, depth, at>>
  /\ raised' = "no"
  /\ UNCHANGED <<program, exception_id>>

(* The start function is followed by __wasm_call_ctors whatever became of  *)
(* it; the exception is looked at after both.                              *)
NextPost ==
  /\ phase = "creating" /\ depth = 0 /\ post < program.posts
  /\ post' = post + 1
  /\ Enters
  /\ raised' = IF raised = "no" THEN "no" ELSE "earlier"
  /\ UNCHANGED <<program, memory, is_instance_inited, exception_id, phase, reported>>

(* Wrong: the exception is not looked at.                                  *)
SucceededAnyway == TRUE

Succeeded == exception_id = None

CreateEnds ==
  /\ phase = "creating" /\ depth = 0 /\ post = program.posts
  /\ is_instance_inited' = Succeeded
  /\ phase' = "idle" /\ post' = 0
  /\ reported' = IF Succeeded THEN "success" ELSE "failure"
  /\ UNCHANGED <<program, memory, exception_id, depth, at, raised>>

Destroy ==
  /\ phase = "idle" /\ is_instance_inited
  /\ live' = Without(memory_data)
  /\ is_instance_inited' = FALSE
  /\ reported' = "nothing"
  /\ UNCHANGED <<program, globals, outgrown, exception_id, stack>>

-----------------------------------------------------------------------------
(* The host                                                                *)

(* The embedder sets or clears the exception.                              *)
HostSets(x) ==
  /\ phase = "idle"
  /\ exception_id' = Settled(x)
  /\ reported' = "nothing"
  /\ UNCHANGED <<program, memory, is_instance_inited, stack>>

(* execute_func and execute_main refuse what they cannot call.             *)
CallRejected ==
  /\ phase = "idle" /\ is_instance_inited
  /\ exception_id' = Rejected
  /\ reported' = "failure"
  /\ UNCHANGED <<program, memory, is_instance_inited, stack>>

(* execute_func clears the exception before the call, execute_main not.    *)
ClearedFor(caller) == IF caller = "func" THEN None ELSE exception_id

CallExport(caller) ==
  /\ phase = "idle" /\ is_instance_inited
  /\ exception_id' = ClearedFor(caller)
  /\ phase' = "calling"
  /\ reported' = "nothing"
  /\ Enters
  /\ raised' = "no"
  /\ UNCHANGED <<program, memory, is_instance_inited, post>>

CallEnds ==
  /\ phase = "calling" /\ depth = 0
  /\ phase' = "idle"
  /\ reported' = IF Succeeded THEN "success" ELSE "failure"
  /\ UNCHANGED <<program, memory, is_instance_inited, exception_id, post, depth,
                 at, raised>>

-----------------------------------------------------------------------------
(* Generated code                                                          *)

InBody == depth > 0 /\ at = "body"
(* Wrong: the caller goes on without a check.                              *)
LeavesUnchecked == depth' = depth - 1 /\ at' = "body"

Leaves == depth' = depth - 1 /\ at' = "check"

Call ==
  /\ InBody /\ depth < MaxDepth
  /\ depth' = depth + 1
  /\ UNCHANGED <<program, memory, is_instance_inited, exception_id, phase, post,
                 at, raised, reported>>

Return ==
  /\ InBody
  /\ Leaves
  /\ UNCHANGED <<program, memory, is_instance_inited, exception_id, phase, post,
                 raised, reported>>

(* aot_emit_exception: the number is stored and the function returns zero. *)
Trap(x) ==
  /\ InBody
  /\ exception_id' = x
  /\ raised' = "now"
  /\ Leaves
  /\ UNCHANGED <<program, memory, is_instance_inited, phase, post, reported>>

(* A native function may set the exception and returns to its caller.      *)
CallNative ==
  /\ InBody
  /\ \/ UNCHANGED <<exception_id, raised>>
     \/ exception_id' \in Traps /\ raised' = "now"
  /\ at' = "check"
  /\ UNCHANGED <<program, memory, is_instance_inited, phase, post, depth, reported>>

(* check_exception_thrown, after every call.                               *)
(* Wrong: only some exceptions are looked for.                             *)
MayGoOnUnlessMemory == exception_id # AllocateFailed

MayGoOn == exception_id = None

GoOn ==
  /\ depth > 0 /\ at = "check" /\ MayGoOn
  /\ at' = "body"
  /\ UNCHANGED <<program, memory, is_instance_inited, exception_id, phase, post,
                 depth, raised, reported>>

Unwind ==
  /\ depth > 0 /\ at = "check" /\ ~MayGoOn
  /\ Leaves
  /\ UNCHANGED <<program, memory, is_instance_inited, exception_id, phase, post,
                 raised, reported>>

(* Wrong: the pages there are do not count.                                *)
GrowAllowedFromNothing(inc) == inc <= mem.max

(* memory.grow past its early answers: what is left of the maximum, 4 GB   *)
(* on a 32-bit target, and realloc.                                        *)
GrowAllowed(inc) ==
  /\ inc <= mem.max - cur_page_count
  /\ program.pointer = 32 => mem.bytes * (cur_page_count + inc) # AddrSpace

GrownBounds(size) == [n \in Widths |-> BoundAfterGrow(size, n)]

(* Wrong: the answer of realloc is not stored.                             *)
ReallocatedUnstored(b, size) ==
  /\ live' = With(Without(memory_data), b, size)
  /\ UNCHANGED memory_data

Reallocated(b, size) ==
  /\ live' = With(Without(memory_data), b, size)
  /\ memory_data' = b

MemoryGrow(inc) ==
  LET size == mem.bytes * (cur_page_count + inc) IN
  /\ InBody /\ program.grows
  /\ GrowAllowed(inc)
  /\ \E b \in (Blocks \ DOMAIN live) \cup {memory_data} : Reallocated(b, size)
  /\ memory_data_size' = size
  /\ cur_page_count' = cur_page_count + inc
  /\ mem_bound_check' = GrownBounds(size)
  /\ outgrown' = FALSE
  /\ UNCHANGED <<program, heap_handle, is_instance_inited, exception_id, stack,
                 reported>>

-----------------------------------------------------------------------------
Next ==
  \/ CreateFails \/ CreateWithoutHeap \/ Create \/ NextPost \/ CreateEnds \/ Destroy
  \/ \E x \in Traps \cup {None, "a number out of range"} : HostSets(x)
  \/ CallRejected \/ CallEnds
  \/ \E caller \in {"func", "main"} : CallExport(caller)
  \/ Call \/ Return \/ CallNative \/ GoOn \/ Unwind
  \/ \E x \in Traps : Trap(x)
  \/ \E inc \in 1..MaxPages : MemoryGrow(inc)

(* A frame that saw the exception returns: nothing else can delay it.      *)
Spec == Init /\ [][Next]_vars /\ WF_vars(Unwind)

-----------------------------------------------------------------------------
Running == is_instance_inited \/ depth > 0

(* Every variable keeps its range, and the phases fit the stack: the host  *)
(* is idle exactly when it has no call under way.                          *)
TypeOK ==
  /\ program \in Programs
  /\ DOMAIN live \subseteq Blocks /\ \A b \in DOMAIN live : live[b] \in Nat
  /\ memory_data \in Blocks \cup {NullBlock}
  /\ heap_handle \in Blocks \cup {NullBlock}
  /\ memory_data_size \in 0..AddrSpace /\ cur_page_count \in 0..mem.max
  /\ mem_bound_check \in [Widths -> Int]
  /\ is_instance_inited \in BOOLEAN /\ outgrown \in BOOLEAN
  /\ exception_id \in ExceptionIds \cup {None}
  /\ raised \in {"no", "now", "earlier"}
  /\ phase \in {"idle", "creating", "calling"} /\ at \in {"body", "check"}
  /\ reported \in {"nothing", "success", "failure"}
  /\ depth \in 0..MaxDepth /\ post \in 0..program.posts
  /\ phase = "idle" => depth = 0
  /\ (phase = "creating") = (post > 0)
  /\ phase = "calling" => is_instance_inited

(* aot_check_memory_overflow refuses an access exactly when it does not    *)
(* lie within the memory's size, for every address and static offset, at   *)
(* the first size and after every memory.grow, on both kinds of target.    *)
(* A memory smaller than the access is left out: see the README.           *)
BoundsExact ==
  /\ memory_data_size = mem.bytes * cur_page_count
  /\ \A n \in Widths, a, o \in 0..(AddrSpace - 1) :
       memory_data_size = 0 \/ memory_data_size >= n =>
         (Refused(a, o, n) <=> a + o + n > memory_data_size)

(* While the instance can run, memory_data is a block that malloc or       *)
(* realloc gave out and nobody freed, as large as the checks take it to be,*)
(* and the host managed heap lies in it.  An instance created again after  *)
(* its memory had grown is the exception, see SizeOfTheMemory.             *)
MemoryBacked ==
  Running =>
    /\ memory_data \in DOMAIN live
    /\ ~outgrown => live[memory_data] = memory_data_size
    /\ mem.heapAt > 0 => heap_handle = memory_data

(* The host learns the truth: a failure to create or to call always has a  *)
(* cause in wasm_get_exception (w2n_export.h, wasm_instance_create), and a *)
(* success means that nothing the host started raised an exception.        *)
AnswerHonest ==
  /\ reported = "failure" => exception_id # None
  /\ reported = "success" => raised = "no"

(* After an exception in a call the host made no frame of it runs on: the  *)
(* memory stays as it is, no further call is made and the exception is not *)
(* replaced, until the host has control again.                             *)
TrapStopsCall ==
  [][depth > 0 /\ raised = "now"
     => UNCHANGED <<memory, exception_id>> /\ depth' <= depth]_vars

(* An exception always ends the call it was raised in.                     *)
TrapReturns == (depth > 0 /\ raised = "now") ~> (depth = 0)

(* w2n_export.h: wasm_get_memory_size gives the size of the linear memory. *)
SizeOfTheMemory == Running => live[memory_data] = memory_data_size

=============================================================================
