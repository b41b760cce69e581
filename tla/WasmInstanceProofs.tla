------------------------- MODULE WasmInstanceProofs -------------------------
(***************************************************************************)
(* The safety of an instance, for every set of programs, page size and     *)
(* address space: its checks are exact, its memory is there, its answers   *)
(* are true and an exception stops the call.                               *)
(***************************************************************************)
EXTENDS WasmInstance, TLAPS

-----------------------------------------------------------------------------
(* The memory of a program *)

\* Multiplication by a natural number keeps the order.
LEMMA TimesMonotone ==
  ASSUME NEW k \in Nat, NEW i \in Nat, NEW j \in Nat, i <= j
  PROVE  k * i \in Nat /\ k * i <= k * j
<1>1. k * j = k * i + k * (j - i)
  OBVIOUS
<1>2. k * i \in Nat /\ k * (j - i) \in Nat
  OBVIOUS
<1> QED
  BY <1>1, <1>2

LEMMA AddrSpaceType == AddrSpace \in Nat /\ AddrSpace > 0
BY ProgramsOK DEF AddrSpace

\* What the loader and --heap-size make of any program's memory: it fits the
\* address space, and only a memory of whole pages without a heap can grow.
MemoryOK(p) ==
  LET m == Memory(p) IN
  /\ m.bytes \in Nat /\ m.init \in Nat /\ m.max \in Nat /\ m.heapAt \in Nat
  /\ m.init <= m.max
  /\ m.bytes * m.init <= AddrSpace
  /\ m.bytes = 0 => m.max = 0
  /\ p.grows /\ m.init < m.max => m.bytes = PageBytes /\ m.max <= MaxPages /\ m.heapAt = 0
  /\ p.pointer = 32 => m.bytes * m.init < AddrSpace

LEMMA MemoryFits == ASSUME NEW p \in Programs PROVE MemoryOK(p)
<1>1. /\ PageBytes \in Nat \ {0} /\ MaxPages \in Nat \ {0}
      /\ p.pages \in 0 .. MaxPages /\ p.max \in p.pages .. MaxPages
      /\ p.grows \in BOOLEAN /\ p.heapBase \in Nat /\ p.heapSize \in Nat
      /\ p.heapSize > 0 => Shrunk(p).init = Shrunk(p).max /\ Memory(p).bytes < AddrSpace
      /\ p.pointer = 32 => Memory(p).bytes * Memory(p).init < AddrSpace
  BY ProgramsOK DEF IsProgram
<1>2. PageBytes * p.pages \in Nat /\ PageBytes * p.pages <= AddrSpace
  BY <1>1, TimesMonotone DEF AddrSpace
<1>3. /\ Shrunk(p).bytes \in Nat /\ Shrunk(p).init \in Nat /\ Shrunk(p).max \in Nat
      /\ Shrunk(p).init <= Shrunk(p).max
      /\ Shrunk(p).bytes * Shrunk(p).init \in Nat
      /\ Shrunk(p).bytes * Shrunk(p).init <= AddrSpace
      /\ Shrunk(p).bytes = 0 => Shrunk(p).max = 0
      /\ p.grows => Shrunk(p).bytes = PageBytes /\ Shrunk(p).max <= MaxPages
  <2>1. CASE p.grows
    BY <1>1, <1>2, <2>1 DEF Shrunk
  <2>2. CASE ~p.grows /\ p.heapBase > 0 /\ p.heapBase <= PageBytes * p.pages
    <3>1. Shrunk(p) = [bytes |-> p.heapBase, init |-> 1, max |-> 1]
      BY <2>2 DEF Shrunk
    <3>2. p.heapBase * 1 = p.heapBase /\ p.heapBase <= AddrSpace
      BY <1>1, <1>2, <2>2, AddrSpaceType
    <3> QED
      BY <1>1, <2>2, <3>1, <3>2
  <2>3. CASE ~p.grows /\ ~(p.heapBase > 0 /\ p.heapBase <= PageBytes * p.pages)
                      /\ p.pages < MaxPages
    <3> DEFINE one == IF p.pages > 0 THEN 1 ELSE 0
    <3>1. Shrunk(p) = [bytes |-> PageBytes * p.pages, init |-> one, max |-> one]
      BY <2>3 DEF Shrunk
    <3>2. PageBytes * p.pages = 0 => p.pages = 0
      BY <1>1
    <3> QED
      BY <1>1, <1>2, <2>3, <3>1, <3>2
  <2>4. CASE ~p.grows /\ ~(p.heapBase > 0 /\ p.heapBase <= PageBytes * p.pages)
                      /\ ~(p.pages < MaxPages)
    <3>1. Shrunk(p) = [bytes |-> PageBytes, init |-> p.pages, max |-> p.max]
      BY <2>4 DEF Shrunk
    <3> QED
      BY <1>1, <1>2, <2>4, <3>1
  <2> QED
    BY <1>1, <2>1, <2>2, <2>3, <2>4
<1>4. CASE p.heapSize > 0
  <2> DEFINE size == Shrunk(p).bytes * Shrunk(p).init
  <2>1. Memory(p) = [bytes |-> size + p.heapSize, init |-> 1, max |-> 1, heapAt |-> size]
    BY <1>4 DEF Memory
  <2>2. size \in Nat /\ size + p.heapSize \in Nat /\ size + p.heapSize < AddrSpace
    BY <1>1, <1>3, <1>4, <2>1
  <2>3. (size + p.heapSize) * 1 = size + p.heapSize
    BY <2>2
  <2> HIDE DEF size
  <2> QED
    BY <1>1, <1>4, <2>1, <2>2, <2>3, AddrSpaceType DEF MemoryOK
<1>5. CASE ~(p.heapSize > 0)
  <2>1. Memory(p) = [bytes |-> Shrunk(p).bytes, init |-> Shrunk(p).init,
                     max |-> Shrunk(p).max, heapAt |-> 0]
    BY <1>5 DEF Memory
  <2> QED
    BY <1>1, <1>3, <1>5, <2>1 DEF MemoryOK
<1> QED
  BY <1>4, <1>5

-----------------------------------------------------------------------------
(* The inductive invariant *)

\* Where the host is says what frames there can be.
Phases ==
  /\ program \in Programs
  /\ phase \in {"idle", "creating", "calling"}
  /\ is_instance_inited \in BOOLEAN
  /\ depth \in Nat /\ post \in Nat
  /\ phase = "idle" => depth = 0
  /\ phase = "calling" => is_instance_inited
  /\ phase = "creating" => ~is_instance_inited

\* The size, the page count and the bounds are those of one memory.
Bounds ==
  /\ cur_page_count \in Nat /\ mem.init <= cur_page_count /\ cur_page_count <= mem.max
  /\ memory_data_size = mem.bytes * cur_page_count
  /\ memory_data_size <= AddrSpace
  /\ program.pointer = 32 => memory_data_size < AddrSpace
  /\ mem_bound_check =
       [n \in Widths |-> IF memory_data_size = 0 THEN 0 ELSE memory_data_size - n]

\* The instance owns its memory from its allocation in create, on.
Owned ==
  is_instance_inited \/ phase # "idle" =>
    /\ memory_data \in DOMAIN live
    /\ ~outgrown => live[memory_data] = memory_data_size
    /\ mem.heapAt > 0 => heap_handle = memory_data

\* An exception of the call under way is still there, and its frames only
\* look at it; an answer stands while the host is idle.
Raised ==
  /\ raised # "no" /\ phase # "idle" => exception_id # None
  /\ raised = "now" /\ depth > 0 => at = "check"
  /\ reported # "nothing" => phase = "idle"

IInv == Phases /\ Bounds /\ Owned /\ Raised /\ AnswerHonest

LEMMA MemFacts ==
  ASSUME program \in Programs
  PROVE  /\ mem.bytes \in Nat /\ mem.init \in Nat /\ mem.max \in Nat /\ mem.heapAt \in Nat
         /\ mem.init <= mem.max
         /\ InitialSize = mem.bytes * mem.init /\ InitialSize \in Nat
         /\ InitialSize <= AddrSpace
         /\ mem.bytes = 0 => mem.max = 0
         /\ program.grows /\ mem.init < mem.max
              => mem.bytes = PageBytes /\ mem.max <= MaxPages /\ mem.heapAt = 0
         /\ program.pointer = 32 => InitialSize < AddrSpace
BY MemoryFits DEF MemoryOK, mem, InitialSize

LEMMA ExceptionsAreSome == \A x \in ExceptionIds : x # None
BY ProgramsOK

LEMMA InitInvariant == Init => IInv
<1> SUFFICES ASSUME Init PROVE IInv
  OBVIOUS
<1>1. program \in Programs
  BY DEF Init
<1>2. Phases
  BY DEF Init, Phases
<1>3. Bounds
  BY <1>1, MemFacts DEF Init, Bounds, BoundAtStart
<1>4. Owned /\ Raised /\ AnswerHonest
  BY DEF Init, Owned, Raised, AnswerHonest
<1> QED
  BY <1>2, <1>3, <1>4 DEF IInv

\* A step that leaves the program and its memory alone keeps the bounds, and
\* whoever owns the memory still owns it.
LEMMA MemoryKept ==
  ASSUME IInv, UNCHANGED <<program, memory>>,
         is_instance_inited' \/ phase' # "idle" => is_instance_inited \/ phase # "idle"
  PROVE  Bounds' /\ Owned'
BY DEF IInv, Bounds, Owned, memory, globals, mem

LEMMA CreateKeeps ==
  ASSUME IInv, CreateFails \/ CreateWithoutHeap \/ Create
  PROVE  IInv'
<1>1. CASE CreateFails
  <2>1. Bounds' /\ Owned'
    BY <1>1, MemoryKept DEF CreateFails, stack
  <2>2. Phases' /\ Raised' /\ AnswerHonest'
    BY <1>1, ExceptionsAreSome
    DEF CreateFails, stack, IInv, Phases, Raised, AnswerHonest, ExceptionIds
  <2> QED
    BY <2>1, <2>2 DEF IInv
<1>2. ASSUME NEW b \in Blocks, Allocated(b), program' = program
      PROVE  /\ Bounds'
             /\ memory_data' \in DOMAIN live'
             /\ ~outgrown' => live'[memory_data'] = memory_data_size'
  BY <1>2 DEF Allocated, With, IInv, Bounds, mem
<1>3. CASE CreateWithoutHeap
  <2>1. Bounds'
    BY <1>2, <1>3 DEF CreateWithoutHeap
  <2>2. Phases' /\ Raised' /\ AnswerHonest' /\ Owned'
    BY <1>3, ExceptionsAreSome
    DEF CreateWithoutHeap, stack, IInv, Phases, Raised, AnswerHonest, Owned, ExceptionIds
  <2> QED
    BY <2>1, <2>2 DEF IInv
<1>4. CASE Create
  <2>4. PICK b \in Blocks : /\ Allocated(b)
                            /\ heap_handle' = IF mem.heapAt > 0 THEN b ELSE heap_handle
    BY <1>4 DEF Create
  <2>5. program' = program /\ mem' = mem /\ memory_data' = b
    BY <1>4, <2>4 DEF Create, Allocated, mem
  <2>1. Bounds' /\ Owned'
    BY <1>2, <2>4, <2>5 DEF Owned
  <2>2. Phases'
    <3>1. /\ depth = 0 /\ post \in Nat /\ phase = "idle" /\ ~is_instance_inited
          /\ program' \in Programs
      BY <1>4, <2>5 DEF Create, IInv, Phases
    <3>2. \/ phase' = "creating" /\ post' = 1 /\ depth' = 1 /\ is_instance_inited' = FALSE
          \/ is_instance_inited' = TRUE /\ UNCHANGED <<phase, post, depth>>
      <4>1. is_instance_inited = FALSE
        BY <3>1 DEF IInv, Phases
      <4> QED
        BY <1>4, <4>1 DEF Create, Enters
    <3>3. CASE phase' = "creating" /\ post' = 1 /\ depth' = 1 /\ is_instance_inited' = FALSE
      BY <3>1, <3>3 DEF Phases
    <3>4. CASE is_instance_inited' = TRUE /\ UNCHANGED <<phase, post, depth>>
      BY <3>1, <3>4 DEF Phases
    <3> QED
      BY <3>2, <3>3, <3>4
  <2>3. Raised' /\ AnswerHonest'
    BY <1>4 DEF Create, Enters, IInv, Phases, Raised, AnswerHonest
  <2> QED
    BY <2>1, <2>2, <2>3 DEF IInv
<1> QED
  BY <1>1, <1>3, <1>4

LEMMA InstantiationKeeps ==
  ASSUME IInv, NextPost \/ CreateEnds \/ Destroy
  PROVE  IInv'
<1>1. CASE NextPost
  <2>1. Bounds' /\ Owned'
    BY <1>1, MemoryKept DEF NextPost
  <2>2. Phases' /\ Raised' /\ AnswerHonest'
    BY <1>1 DEF NextPost, Enters, IInv, Phases, Raised, AnswerHonest
  <2> QED
    BY <2>1, <2>2 DEF IInv
<1>2. CASE CreateEnds
  <2>1. Bounds' /\ Owned'
    BY <1>2, MemoryKept DEF CreateEnds
  <2>2. Phases' /\ Raised' /\ AnswerHonest'
    BY <1>2 DEF CreateEnds, Succeeded, IInv, Phases, Raised, AnswerHonest
  <2> QED
    BY <2>1, <2>2 DEF IInv
<1>3. CASE Destroy
  <2>1. Bounds'
    BY <1>3 DEF Destroy, globals, IInv, Bounds, mem
  <2>2. Owned'
    <3>1. ~is_instance_inited' /\ phase' = "idle"
      BY <1>3 DEF Destroy, stack
    <3> QED
      BY <3>1 DEF Owned
  <2>3. Phases' /\ Raised' /\ AnswerHonest'
    BY <1>3 DEF Destroy, stack, IInv, Phases, Raised, AnswerHonest
  <2> QED
    BY <2>1, <2>2, <2>3 DEF IInv
<1> QED
  BY <1>1, <1>2, <1>3

LEMMA HostKeeps ==
  ASSUME IInv,
         \/ \E x \in Traps \cup {None, "a number out of range"} : HostSets(x)
         \/ CallRejected \/ CallEnds
         \/ \E caller \in {"func", "main"} : CallExport(caller)
  PROVE  IInv'
<1>1. ASSUME NEW x \in Traps \cup {None, "a number out of range"}, HostSets(x) PROVE IInv'
  <2>1. Bounds' /\ Owned'
    BY <1>1, MemoryKept DEF HostSets, stack
  <2>2. Phases' /\ Raised' /\ AnswerHonest'
    BY <1>1 DEF HostSets, stack, IInv, Phases, Raised, AnswerHonest
  <2> QED
    BY <2>1, <2>2 DEF IInv
<1>2. CASE CallRejected
  <2>1. Bounds' /\ Owned'
    BY <1>2, MemoryKept DEF CallRejected, stack
  <2>2. Phases' /\ Raised' /\ AnswerHonest'
    BY <1>2, ExceptionsAreSome
    DEF CallRejected, stack, IInv, Phases, Raised, AnswerHonest, ExceptionIds
  <2> QED
    BY <2>1, <2>2 DEF IInv
<1>3. CASE CallEnds
  <2>1. Bounds' /\ Owned'
    BY <1>3, MemoryKept DEF CallEnds
  <2>2. Phases' /\ Raised' /\ AnswerHonest'
    BY <1>3 DEF CallEnds, Succeeded, IInv, Phases, Raised, AnswerHonest
  <2> QED
    BY <2>1, <2>2 DEF IInv
<1>4. ASSUME NEW caller \in {"func", "main"}, CallExport(caller) PROVE IInv'
  <2>1. Bounds' /\ Owned'
    BY <1>4, MemoryKept DEF CallExport
  <2>2. Phases' /\ Raised' /\ AnswerHonest'
    BY <1>4 DEF CallExport, Enters, IInv, Phases, Raised, AnswerHonest
  <2> QED
    BY <2>1, <2>2 DEF IInv
<1> QED
  BY <1>1, <1>2, <1>3, <1>4

\* Frames that call, return, trap and look for exceptions.
LEMMA FramesKeep ==
  ASSUME IInv,
         \/ Call \/ Return \/ CallNative \/ GoOn \/ Unwind
         \/ \E x \in Traps : Trap(x)
  PROVE  IInv'
<1>1. Bounds' /\ Owned'
  BY MemoryKept DEF Call, Return, CallNative, GoOn, Unwind, Trap
<1>2. Phases'
  BY DEF Call, Return, CallNative, GoOn, Unwind, Trap, InBody, Leaves, IInv, Phases
<1>3. \A x \in Traps : x # None
  BY ExceptionsAreSome DEF ExceptionIds
<1>4. depth > 0 => phase # "idle"
  BY DEF IInv, Phases
<1>5. Raised' /\ AnswerHonest'
  <2>1. CASE Call \/ Return \/ GoOn \/ Unwind
    BY <2>1, <1>4
    DEF Call, Return, GoOn, Unwind, MayGoOn, InBody, Leaves, IInv, Raised, AnswerHonest
  <2>2. CASE CallNative \/ \E x \in Traps : Trap(x)
    BY <2>2, <1>3, <1>4 DEF CallNative, Trap, InBody, Leaves, IInv, Raised, AnswerHonest
  <2> QED
    BY <2>1, <2>2
<1> QED
  BY <1>1, <1>2, <1>5 DEF IInv

\* memory.grow moves the memory and rewrites every global that describes it.
LEMMA GrowKeeps ==
  ASSUME IInv, NEW inc \in 1 .. MaxPages, MemoryGrow(inc)
  PROVE  IInv'
<1> DEFINE size == mem.bytes * (cur_page_count + inc)
<1>1. program \in Programs /\ program' = program /\ mem' = mem
  BY DEF MemoryGrow, IInv, Phases, mem
<1>2. /\ cur_page_count \in Nat /\ mem.init <= cur_page_count
      /\ inc \in Nat /\ inc > 0 /\ cur_page_count + inc <= mem.max
  BY <1>1, MemFacts, ProgramsOK DEF MemoryGrow, GrowAllowed, IInv, Bounds
<1>3. mem.bytes = PageBytes /\ mem.max <= MaxPages /\ mem.heapAt = 0
  BY <1>1, <1>2, MemFacts DEF MemoryGrow
<1>4. size \in Nat /\ size > 0 /\ size <= AddrSpace
  <2>1. cur_page_count + inc \in Nat /\ cur_page_count + inc > 0
        /\ cur_page_count + inc <= MaxPages
    BY <1>1, <1>2, <1>3, MemFacts, ProgramsOK
  <2>2. size \in Nat /\ size <= PageBytes * MaxPages
    BY <1>3, <2>1, TimesMonotone, ProgramsOK
  <2>3. PageBytes * 1 <= size
    BY <1>3, <2>1, TimesMonotone, ProgramsOK
  <2> QED
    BY <2>2, <2>3, ProgramsOK DEF AddrSpace
<1>5. Bounds'
  <2>1. /\ memory_data_size' = size /\ cur_page_count' = cur_page_count + inc
        /\ mem_bound_check' = [n \in Widths |-> size - n]
        /\ program.pointer = 32 => size # AddrSpace
    BY DEF MemoryGrow, GrownBounds, BoundAfterGrow, GrowAllowed
  <2> HIDE DEF size
  <2>2. /\ memory_data_size' <= AddrSpace
        /\ program.pointer = 32 => memory_data_size' < AddrSpace
        /\ mem_bound_check' = [n \in Widths |-> IF memory_data_size' = 0 THEN 0
                                                ELSE memory_data_size' - n]
    BY <1>4, <2>1, AddrSpaceType
  <2>3. /\ cur_page_count' \in Nat /\ mem.init <= cur_page_count' /\ cur_page_count' <= mem.max
        /\ memory_data_size' = mem.bytes * cur_page_count'
    BY <1>1, <1>2, <2>1, MemFacts DEF size
  <2> QED
    BY <1>1, <2>2, <2>3 DEF Bounds
<1>6. Owned'
  <2>1. PICK b \in (Blocks \ DOMAIN live) \cup {memory_data} : Reallocated(b, size)
    BY DEF MemoryGrow
  <2>2. memory_data' \in DOMAIN live' /\ live'[memory_data'] = size
    BY <2>1 DEF Reallocated, With
  <2> QED
    BY <1>1, <1>3, <2>2 DEF Owned, MemoryGrow
<1>7. Phases' /\ Raised' /\ AnswerHonest'
  BY DEF MemoryGrow, stack, IInv, Phases, Raised, AnswerHonest
<1> QED
  BY <1>5, <1>6, <1>7 DEF IInv

LEMMA StepInvariant == IInv /\ [Next]_vars => IInv'
<1> SUFFICES ASSUME IInv, [Next]_vars PROVE IInv'
  OBVIOUS
<1>1. CASE UNCHANGED vars
  <2>1. Bounds' /\ Owned'
    BY <1>1, MemoryKept DEF vars, stack
  <2>2. Phases' /\ Raised' /\ AnswerHonest'
    BY <1>1 DEF vars, stack, IInv, Phases, Raised, AnswerHonest
  <2> QED
    BY <2>1, <2>2 DEF IInv
<1>2. CASE Next
  BY <1>2, CreateKeeps, InstantiationKeeps, HostKeeps, FramesKeep, GrowKeeps DEF Next
<1> QED
  BY <1>1, <1>2

-----------------------------------------------------------------------------
(* What it is for *)

\* The comparison the generated code makes is right whenever the globals
\* describe one memory: in 64-bit arithmetic, and in 32-bit arithmetic, where
\* a sum that wrapped is smaller than either part.
LEMMA ChecksAreExact ==
  ASSUME IInv PROVE BoundsExact
<1>1. program \in Programs /\ AddrSpace \in Nat /\ AddrSpace > 0
  BY AddrSpaceType DEF IInv, Phases
<1>2. /\ cur_page_count \in Nat /\ mem.bytes \in Nat /\ mem.init \in Nat
      /\ mem.init <= cur_page_count /\ cur_page_count <= mem.max
      /\ mem.bytes = 0 => mem.max = 0
      /\ memory_data_size = mem.bytes * cur_page_count /\ memory_data_size \in Nat
      /\ memory_data_size <= AddrSpace
      /\ program.pointer = 32 => memory_data_size < AddrSpace
  BY <1>1, MemFacts DEF IInv, Bounds
<1>3. memory_data_size = 0 <=> mem.init = 0 /\ cur_page_count = 0
  BY <1>2, <1>1, MemFacts
<1> SUFFICES ASSUME NEW n \in Widths, NEW a \in 0 .. AddrSpace - 1,
                    NEW o \in 0 .. AddrSpace - 1,
                    memory_data_size = 0 \/ memory_data_size >= n
             PROVE  Refused(a, o, n) <=> a + o + n > memory_data_size
  BY <1>2 DEF BoundsExact
<1>4. a \in Nat /\ o \in Nat /\ a < AddrSpace /\ o < AddrSpace /\ n \in Nat /\ n > 0
  BY <1>1, ProgramsOK
<1>5. mem_bound_check[n] = IF memory_data_size = 0 THEN 0 ELSE memory_data_size - n
  BY DEF IInv, Bounds
<1>6. CASE memory_data_size = 0
  BY <1>3, <1>4, <1>6 DEF Refused
<1>7. CASE memory_data_size > 0 /\ program.pointer = 64
  BY <1>2, <1>3, <1>4, <1>5, <1>7 DEF Refused
<1>8. CASE memory_data_size > 0 /\ program.pointer = 32
  <2> DEFINE sum == (a + o) % AddrSpace
  <2>1. memory_data_size >= n /\ memory_data_size < AddrSpace
    BY <1>2, <1>8
  <2>2. Refused(a, o, n) <=> sum > memory_data_size - n \/ sum < a
    BY <1>2, <1>3, <1>4, <1>5, <1>8 DEF Refused
  <2>3. CASE a + o < AddrSpace
    <3>1. sum = a + o
      BY <1>1, <1>4, <2>3
    <3> QED
      BY <1>2, <1>4, <2>1, <2>2, <3>1
  <2>4. CASE a + o >= AddrSpace
    <3>1. sum = a + o - AddrSpace
      BY <1>1, <1>4, <2>4
    <3> QED
      BY <1>1, <1>2, <1>4, <2>1, <2>2, <2>4, <3>1
  <2> QED
    BY <1>1, <1>4, <2>3, <2>4
<1> QED
  BY <1>1, <1>2, <1>6, <1>7, <1>8, ProgramsOK DEF IsProgram

\* At every moment of every life of an instance its memory checks are exact.
THEOREM BoundsInvariant == Spec => []BoundsExact
<1>1. Spec => []IInv
  BY InitInvariant, StepInvariant, PTL DEF Spec
<1> QED
  BY <1>1, ChecksAreExact, PTL

\* A running instance has its memory, as large as its checks suppose.
THEOREM MemoryInvariant == Spec => []MemoryBacked
<1>1. IInv => MemoryBacked
  BY DEF IInv, Phases, Owned, MemoryBacked, Running
<1> QED
  BY <1>1, InitInvariant, StepInvariant, PTL DEF Spec

\* What the host is told is true.
THEOREM AnswersInvariant == Spec => []AnswerHonest
<1>1. IInv => AnswerHonest
  BY DEF IInv
<1> QED
  BY <1>1, InitInvariant, StepInvariant, PTL DEF Spec

\* Once a call has raised an exception no frame of it runs on.
THEOREM TrapsStop == Spec => TrapStopsCall
<1>1. IInv /\ [Next]_vars
        => [depth > 0 /\ raised = "now"
              => UNCHANGED <<memory, exception_id>> /\ depth' <= depth]_vars
  <2> SUFFICES ASSUME IInv, Next, depth > 0, raised = "now"
               PROVE  UNCHANGED <<memory, exception_id>> /\ depth' <= depth
    OBVIOUS
  <2>1. /\ depth \in Nat /\ at = "check" /\ exception_id # None /\ phase # "idle"
    BY DEF IInv, Phases, Raised
  <2>2. /\ ~(CreateFails \/ CreateWithoutHeap \/ Create \/ Destroy \/ CallRejected)
        /\ \A x : ~HostSets(x) /\ ~CallExport(x)
    BY <2>1 DEF CreateFails, CreateWithoutHeap, Create, Destroy, CallRejected, HostSets,
                CallExport
  <2>3. ~(NextPost \/ CreateEnds \/ CallEnds)
    BY DEF NextPost, CreateEnds, CallEnds
  <2>4. /\ ~(Call \/ Return \/ CallNative \/ GoOn)
        /\ \A x : ~Trap(x) /\ ~MemoryGrow(x)
    BY <2>1 DEF Call, Return, CallNative, GoOn, MayGoOn, Trap, MemoryGrow, InBody
  <2>5. Unwind
    BY <2>2, <2>3, <2>4 DEF Next
  <2> QED
    BY <2>1, <2>5 DEF Unwind, Leaves
<1> QED
  BY <1>1, InitInvariant, StepInvariant, PTL DEF Spec, TrapStopsCall

-----------------------------------------------------------------------------
(* Types *)

MemoryTypes ==
  /\ DOMAIN live \subseteq Blocks /\ \A b \in DOMAIN live : live[b] \in Nat
  /\ memory_data \in Blocks \cup {NullBlock}
  /\ heap_handle \in Blocks \cup {NullBlock}
  /\ outgrown \in BOOLEAN

HostTypes ==
  /\ exception_id \in ExceptionIds \cup {None}
  /\ raised \in {"no", "now", "earlier"} /\ at \in {"body", "check"}
  /\ reported \in {"nothing", "success", "failure"}
  /\ depth \in 0 .. MaxDepth /\ post \in 0 .. program.posts
  /\ (phase = "creating") = (post > 0)

LEMMA TypesFollow == IInv /\ MemoryTypes /\ HostTypes => TypeOK
<1> SUFFICES ASSUME IInv, MemoryTypes, HostTypes PROVE TypeOK
  OBVIOUS
<1>1. program \in Programs
  BY DEF IInv, Phases
<1>2. cur_page_count \in 0 .. mem.max /\ memory_data_size \in 0 .. AddrSpace
  BY <1>1, MemFacts, AddrSpaceType DEF IInv, Bounds
<1>3. mem_bound_check \in [Widths -> Int]
  BY <1>2, AddrSpaceType, ProgramsOK DEF IInv, Bounds
<1> QED
  BY <1>1, <1>2, <1>3 DEF TypeOK, MemoryTypes, HostTypes, IInv, Phases

LEMMA StepTypes ==
  ASSUME IInv, MemoryTypes, HostTypes, Next
  PROVE  MemoryTypes' /\ HostTypes'
<1>1. program \in Programs /\ program.posts \in 0 .. 2 /\ MaxDepth \in Nat \ {0}
  BY ProgramsOK DEF IInv, Phases, IsProgram
<1>2. program' = program
  BY DEF Next, CreateFails, CreateWithoutHeap, Create, NextPost, CreateEnds, Destroy,
     HostSets, CallRejected, CallEnds, CallExport, Call, Return, CallNative, GoOn, Unwind,
     Trap, MemoryGrow
<1>3. ASSUME UNCHANGED memory PROVE MemoryTypes'
  BY <1>3 DEF MemoryTypes, memory, globals
<1>4. ASSUME NEW b \in Blocks, Allocated(b), heap_handle' \in {b, heap_handle}
      PROVE  MemoryTypes'
  <2>1. InitialSize \in Nat
    BY <1>1, MemFacts
  <2> QED
    BY <1>4, <2>1 DEF MemoryTypes, Allocated, With
<1>5. MemoryTypes'
  <2>1. CASE CreateWithoutHeap
    BY <1>4, <2>1 DEF CreateWithoutHeap
  <2>2. CASE Create
    BY <1>4, <2>2 DEF Create
  <2>3. CASE Destroy
    BY <2>3 DEF Destroy, globals, MemoryTypes, Without
  <2>4. ASSUME NEW inc \in 1 .. MaxPages, MemoryGrow(inc) PROVE MemoryTypes'
    <3> DEFINE size == mem.bytes * (cur_page_count + inc)
    <3>1. size \in Nat
      BY <1>1, MemFacts, ProgramsOK DEF IInv, Bounds
    <3>2. PICK b \in (Blocks \ DOMAIN live) \cup {memory_data} : Reallocated(b, size)
      BY <2>4 DEF MemoryGrow
    <3>3. memory_data \in Blocks
      BY <2>4 DEF MemoryGrow, InBody, IInv, Phases, Owned, MemoryTypes
    <3> HIDE DEF size
    <3> QED
      BY <2>4, <3>1, <3>2, <3>3 DEF MemoryGrow, Reallocated, With, Without, MemoryTypes
  <2>5. CASE CreateFails \/ NextPost \/ CreateEnds \/ CallRejected \/ CallEnds \/ Call
             \/ Return \/ CallNative \/ GoOn \/ Unwind
    BY <1>3, <2>5 DEF CreateFails, NextPost, CreateEnds, CallRejected, CallEnds, Call,
                      Return, CallNative, GoOn, Unwind
  <2>6. ASSUME NEW x, HostSets(x) \/ CallExport(x) \/ Trap(x) PROVE MemoryTypes'
    BY <1>3, <2>6 DEF HostSets, CallExport, Trap
  <2> QED
    BY <2>1, <2>2, <2>3, <2>4, <2>5, <2>6 DEF Next
<1>6. HostTypes'
  <2>1. CASE CreateFails \/ CreateWithoutHeap \/ Destroy \/ CallRejected
    BY <1>2, <2>1 DEF CreateFails, CreateWithoutHeap, Destroy, CallRejected, stack, HostTypes,
                      ExceptionIds
  <2>2. CASE Create
    BY <1>1, <1>2, <2>2 DEF Create, Enters, HostTypes
  <2>3. CASE NextPost \/ CreateEnds \/ CallEnds
    BY <1>1, <1>2, <2>3 DEF NextPost, CreateEnds, CallEnds, Enters, HostTypes
  <2>4. CASE Call \/ Return \/ CallNative \/ GoOn \/ Unwind
    BY <1>1, <1>2, <2>4 DEF Call, Return, CallNative, GoOn, Unwind, InBody, Leaves,
                            HostTypes, ExceptionIds
  <2>5. ASSUME NEW x \in Traps, Trap(x) PROVE HostTypes'
    BY <1>1, <1>2, <2>5 DEF Trap, InBody, Leaves, HostTypes, ExceptionIds
  <2>6. ASSUME NEW x, HostSets(x) PROVE HostTypes'
    BY <1>2, <2>6 DEF HostSets, Settled, stack, HostTypes, ExceptionIds
  <2>7. ASSUME NEW x, CallExport(x) PROVE HostTypes'
    BY <1>1, <1>2, <2>7 DEF CallExport, ClearedFor, Enters, HostTypes
  <2>8. ASSUME NEW inc, MemoryGrow(inc) PROVE HostTypes'
    BY <1>2, <2>8 DEF MemoryGrow, stack, HostTypes
  <2> QED
    BY <2>1, <2>2, <2>3, <2>4, <2>5, <2>6, <2>7, <2>8 DEF Next
<1> QED
  BY <1>5, <1>6

\* Every variable keeps its range.
THEOREM TypesInvariant == Spec => []TypeOK
<1>1. Init => MemoryTypes /\ HostTypes
  <2>1. ASSUME Init PROVE MemoryTypes
    <3>1. DOMAIN live = {}
      BY <2>1 DEF Init
    <3> QED
      BY <2>1, <3>1 DEF Init, MemoryTypes
  <2>2. ASSUME Init PROVE HostTypes
    <3>1. program.posts \in Nat /\ MaxDepth \in Nat
      BY <2>2, ProgramsOK DEF Init, IsProgram
    <3> QED
      BY <2>2, <3>1 DEF Init, HostTypes
  <2> QED
    BY <2>1, <2>2
<1>2. IInv /\ MemoryTypes /\ HostTypes /\ [Next]_vars => MemoryTypes' /\ HostTypes'
  <2>1. ASSUME MemoryTypes, HostTypes, UNCHANGED vars PROVE MemoryTypes' /\ HostTypes'
    BY <2>1 DEF vars, memory, globals, stack, MemoryTypes, HostTypes
  <2> QED
    BY <2>1, StepTypes
<1> QED
  BY <1>1, <1>2, TypesFollow, InitInvariant, StepInvariant, PTL DEF Spec
=============================================================================
