--------------------------- MODULE ExecutionContext ---------------------------
(***************************************************************************)
(* mem_stack.cc, wasm_ecsact_system_execution.cc and guest_imports/env.hh: *)
(* the call memory of each thread, in which a guest's handles to execution *)
(* contexts are offsets, and the imports by which the guest calls the      *)
(* ECS runtime back; with the parts of wasm.cc that open and close the     *)
(* call memory around _initialize and around each system.                  *)
(*                                                                         *)
(* Offsets are counted in pointers, the size of everything the code        *)
(* allocates.  Component ids and data pass through unchanged and are left  *)
(* out; a pointer into the guest's memory is an index, 0 the null pointer. *)
(***************************************************************************)
EXTENDS Integers, Sequences, FiniteSets

CONSTANTS
  Threads,    \* threads of the runtime
  Loader,     \* the one the embedding program loads from
  Instances,  \* instances of the guest, each with one memory
  Contexts,   \* the runtime's ecsact_system_execution_context objects
  Live,       \* [roots -> SUBSET Contexts]: what exists while a root executes
  Parent,     \* [Contexts -> Contexts \cup {Null}]
  Others,     \* [Contexts -> SUBSET Contexts]: other contexts, by assoc id
  Null,       \* nullptr
  NoCall,     \* no call memory, no call
  Capacity,   \* pointers that fit mem_data: 4096 bytes, 512 in the code
  Pointers,   \* guest addresses
  Imports,    \* the imports that the guest's binary uses
  Checked     \* is the code built with assertions?

Roots == DOMAIN Live

\* A cell is what was allocated with its std::type_info.
MemoryCell(i) == [type |-> "memory", value |-> i]
ContextCell(c) == [type |-> "context", value |-> c]
Cells == [type: {"memory"}, value: Instances]
           \cup [type: {"context"}, value: Contexts \cup {Null}]

\* Imports that pass the runtime one pointer, or two, beside the context.
OnePointer == {"action", "add", "remove", "has"}
TwoPointers == {"get", "update"}

DataOps == OnePointer \cup TwoPointers \cup {"stream_toggle", "entity"}
Navigations == {"parent", "other"}

ImportNames == DataOps \cup Navigations \cup {"generate", "same", "wasi"}

\* A call of an import, and what the runtime is called with for it; "refused" and
\* "null" stand for imports that do not get so far.
CallRecords ==
  [op: ImportNames \cup {"refused", "null"}, handles: SUBSET (0..Capacity),
   contexts: SUBSET (Contexts \cup {Null}), memory: Instances \cup {Null},
   asked: Seq(Int), args: Seq(Int)]

\* The runtime keeps a context and what can be reached from it alive.
ASSUME ContextsOK ==
  /\ Loader \in Threads
  /\ Null \notin Contexts \cup Instances
  /\ NoCall \notin Contexts \cup Instances \cup {Null}
  /\ NoCall \notin Seq(Cells) /\ NoCall \notin CallRecords
  /\ Capacity \in Nat /\ Capacity >= 2
  /\ 0 \in Pointers /\ Pointers \subseteq Nat
  /\ Checked \in BOOLEAN
  /\ Live \in [Roots -> SUBSET Contexts]
  /\ Parent \in [Contexts -> Contexts \cup {Null}]
  /\ Others \in [Contexts -> SUBSET Contexts]
  /\ \A r \in Roots :
       /\ r \in Live[r]
       /\ \A c \in Live[r] : Others[c] \cup {Parent[c]} \subseteq Live[r] \cup {Null}

VARIABLES
  call_mem_info,  \* thread_local: the cells allocated so far, or NoCall
  pc,             \* what each thread is doing, or how the process ended
  inst,           \* the instance whose code the thread runs, or NoCall
  root,           \* the context the runtime passed to the thread's system
  known,          \* handles each instance may have kept in its memory
  given,          \* history: contexts given in this call, by their handles
  runtime_call    \* history: the thread's last call of an import in this call

vars == <<call_mem_info, pc, inst, root, known, given, runtime_call>>

-------------------------------------------------------------------------------
(* The call memory *)

Arena(t) == call_mem_info[t]

\* As if the last pointer of mem_data did not count.
FitsButOne(t, n) == Len(Arena(t)) + n < Capacity

\* As if the room were checked without what is about to be allocated.
FitsBefore(t, n) == Len(Arena(t)) <= Capacity

\* Are n more cells within mem_data?
Fits(t, n) == Len(Arena(t)) + n <= Capacity

Holds(t, h, type) == h \in 0..(Len(Arena(t)) - 1) /\ Arena(t)[h + 1].type = type

\* call_mem_read: without assertions, mem_data beyond what has been allocated
\* still has the zeros it was initialized with.
CellValue(t, h) ==
  IF h \in 0..(Len(Arena(t)) - 1) THEN Arena(t)[h + 1].value ELSE Null

Readable(t, h, type) == Checked => Holds(t, h, type)

\* get_execution_context
ContextOf(t, h) == CellValue(t, h)

\* As if the memory came after the context.
MemoryAfter(t, h) == CellValue(t, h + 1)

\* get_execution_context_memory: the pointer right before the context's.
MemoryOf(t, h) == CellValue(t, h - 1)

-------------------------------------------------------------------------------
Faults == {"no_call_mem", "mem_in_use", "bad_handle", "null_context", "overrun",
           "result_overrun", "length_error", "null_list"}
Halted == \E t \in Threads : pc[t] \in Faults

AllIdle == \A t \in Threads : pc[t] = "idle"

\* Code of the guest runs with call memory; while it is being instantiated, its
\* start function would run without.
InCall(t) == pc[t] \in {"initialize", "guest"}
InGuest(t) == ~Halted /\ pc[t] \in {"start", "initialize", "guest"}

Init ==
  /\ call_mem_info = [t \in Threads |-> NoCall]
  /\ pc = [t \in Threads |-> "idle"]
  /\ inst = [t \in Threads |-> NoCall]
  /\ root = [t \in Threads |-> NoCall]
  /\ known = [i \in Instances |-> {}]
  /\ given = [t \in Threads |-> <<>>]
  /\ runtime_call = [t \in Threads |-> NoCall]

-------------------------------------------------------------------------------
(* The calls into the guest (wasm.cc) *)

\* ecsact_si_wasm_load comes to its next instance: minst::create.
BeginInstance(i) ==
  /\ AllIdle
  /\ pc' = [pc EXCEPT ![Loader] = "start"]
  /\ inst' = [inst EXCEPT ![Loader] = i]
  /\ known' = [known EXCEPT ![i] = {}]
  /\ UNCHANGED <<call_mem_info, root, given, runtime_call>>

\* The instance is refused, or lacks an export.
AbandonInstance ==
  /\ ~Halted
  /\ pc[Loader] = "start"
  /\ pc' = [pc EXCEPT ![Loader] = "idle"]
  /\ inst' = [inst EXCEPT ![Loader] = NoCall]
  /\ UNCHANGED <<call_mem_info, root, known, given, runtime_call>>

\* set_call_mem_data(mem_data), which asserts that none is set, and what is
\* allocated before the guest is called.
OpenCallMem(t, cells, to) ==
  /\ call_mem_info' = [call_mem_info EXCEPT ![t] = cells]
  /\ pc' = [pc EXCEPT ![t] = IF Arena(t) = NoCall THEN to ELSE "mem_in_use"]

\* The load goes on to the instance's _initialize.
BeginInitialize ==
  /\ ~Halted
  /\ pc[Loader] = "start"
  /\ OpenCallMem(Loader, <<MemoryCell(inst[Loader])>>, "initialize")
  /\ UNCHANGED <<inst, root, known, given, runtime_call>>

\* As if the memory were allocated after the context.
EnterSystemContextFirst(t, r, i) ==
  /\ ~Halted
  /\ pc[Loader] \notin {"start", "initialize"}
  /\ pc[t] = "idle"
  /\ \A u \in Threads : root[u] # r
  /\ OpenCallMem(t, <<ContextCell(r), MemoryCell(i)>>, "guest")
  /\ inst' = [inst EXCEPT ![t] = i]
  /\ root' = [root EXCEPT ![t] = r]
  /\ given' = [given EXCEPT ![t] = [h \in {0} |-> r]]
  /\ known' = [known EXCEPT ![i] = @ \cup {0}]
  /\ UNCHANGED runtime_call

\* ecsact_si_wasm_system_impl, once it has an instance: the call memory is set,
\* the memory and the context are allocated in it, and the guest's function is
\* called with the context's offset.
EnterSystem(t, r, i) ==
  /\ ~Halted
  /\ pc[Loader] \notin {"start", "initialize"}
  /\ pc[t] = "idle"
  /\ \A u \in Threads : root[u] # r
  /\ OpenCallMem(t, <<MemoryCell(i), ContextCell(r)>>, "guest")
  /\ inst' = [inst EXCEPT ![t] = i]
  /\ root' = [root EXCEPT ![t] = r]
  /\ given' = [given EXCEPT ![t] = [h \in {1} |-> r]]
  /\ known' = [known EXCEPT ![i] = @ \cup {1}]
  /\ UNCHANGED runtime_call

\* As if only a normal return cleared the call memory.
EndCallLeaking(t) ==
  /\ ~Halted
  /\ InCall(t)
  /\ call_mem_info' \in {call_mem_info, [call_mem_info EXCEPT ![t] = NoCall]}
  /\ pc' = [pc EXCEPT ![t] = "idle"]
  /\ inst' = [inst EXCEPT ![t] = NoCall]
  /\ root' = [root EXCEPT ![t] = NoCall]
  /\ given' = [given EXCEPT ![t] = <<>>]
  /\ runtime_call' = [runtime_call EXCEPT ![t] = NoCall]
  /\ UNCHANGED known

\* The guest returns or traps: the deferred set_call_mem_data(nullptr, 0).
EndCall(t) ==
  /\ ~Halted
  /\ InCall(t)
  /\ call_mem_info' = [call_mem_info EXCEPT ![t] = NoCall]
  /\ pc' = [pc EXCEPT ![t] = "idle"]
  /\ inst' = [inst EXCEPT ![t] = NoCall]
  /\ root' = [root EXCEPT ![t] = NoCall]
  /\ given' = [given EXCEPT ![t] = <<>>]
  /\ runtime_call' = [runtime_call EXCEPT ![t] = NoCall]
  /\ UNCHANGED known

-------------------------------------------------------------------------------
(* The imports (wasm_ecsact_system_execution.cc) *)

\* What each is called with by the guest, after the context.
GuestArgs(op) ==
  CASE op \in OnePointer -> {<<p>> : p \in Pointers}
    [] op \in TwoPointers -> Pointers \X Pointers
    [] op = "stream_toggle" -> {0, 1} \X Pointers
    [] op = "entity" -> {<<>>}

\* What the runtime is called with for them.  A pointer is relative to the
\* memory of the call.
HostArgs(op, asked) ==
  IF op = "stream_toggle" THEN <<IF asked[1] # 0 THEN 1 ELSE 0, asked[1]>> ELSE asked

\* entity reads no memory.
MemoryFor(op, t, h) == IF op = "entity" THEN Null ELSE MemoryOf(t, h)

\* Results that the signature in env.hh declares, and those that are written.
DeclaresResult(op) == op = "entity"
WritesResult(op) == op \in {"entity", "has"}

Record(t, op, handles, contexts, memory, asked, args) ==
  runtime_call' = [runtime_call EXCEPT ![t] =
    [op |-> op, handles |-> handles, contexts |-> contexts, memory |-> memory,
     asked |-> asked, args |-> args]]

\* The handles may come from this call or be left from an earlier one.
Uses(t, h) == InGuest(t) /\ pc[t] # "start" /\ h \in known[inst[t]]

CanRead(t, h) == Readable(t, h, "context") /\ Readable(t, h - 1, "memory")

CanReadFor(op, t, h) ==
  IF op = "entity" THEN Readable(t, h, "context") ELSE CanRead(t, h)

\* One import that calls the runtime on one context.
CallRuntime(t, op, h, asked) ==
  /\ Uses(t, h)
  /\ CanReadFor(op, t, h)
  /\ ContextOf(t, h) # Null
  /\ Record(t, op, {h}, {ContextOf(t, h)}, MemoryFor(op, t, h), asked,
            HostArgs(op, asked))
  /\ UNCHANGED <<call_mem_info, pc, inst, root, known, given>>

\* results->data[0] of an import that has no result.
OverrunResults(t, op, h, asked) ==
  /\ Uses(t, h)
  /\ CanRead(t, h)
  /\ ContextOf(t, h) # Null
  /\ WritesResult(op) /\ ~DeclaresResult(op)
  /\ Record(t, op, {h}, {ContextOf(t, h)}, MemoryOf(t, h), asked, asked)
  /\ pc' = [pc EXCEPT ![t] = "result_overrun"]
  /\ UNCHANGED <<call_mem_info, inst, root, known, given>>

\* generate: the components' data is an array of guest pointers, given by its
\* own address.
CallGenerate(t, h, count, ids, list) ==
  /\ Uses(t, h)
  /\ CanRead(t, h)
  /\ ContextOf(t, h) # Null
  /\ count >= 0 /\ (count > 0 => list # 0)
  /\ Record(t, "generate", {h}, {ContextOf(t, h)}, MemoryOf(t, h),
            <<count, ids, list>>, <<count, ids, list>>)
  /\ UNCHANGED <<call_mem_info, pc, inst, root, known, given>>

\* The count is the size of a std::vector, and the array is read unchecked.
FailGenerate(t, h, count, ids, list) ==
  /\ Uses(t, h)
  /\ CanRead(t, h)
  /\ \/ count < 0 /\ pc' = [pc EXCEPT ![t] = "length_error"]
     \/ count > 0 /\ list = 0 /\ pc' = [pc EXCEPT ![t] = "null_list"]
  /\ Record(t, "generate", {h}, {}, Null, <<count, ids, list>>, <<>>)
  /\ UNCHANGED <<call_mem_info, inst, root, known, given>>

CallSame(t, h, g) ==
  /\ Uses(t, h) /\ Uses(t, g)
  /\ Readable(t, h, "context") /\ Readable(t, g, "context")
  /\ Null \notin {ContextOf(t, h), ContextOf(t, g)}
  /\ Record(t, "same", {h, g}, {ContextOf(t, h), ContextOf(t, g)}, Null, <<>>, <<>>)
  /\ UNCHANGED <<call_mem_info, pc, inst, root, known, given>>

\* parent and other find a context that the runtime answers with.
Reached(op, c) == IF op = "parent" THEN {Parent[c]} ELSE Others[c]

\* As if only the context were allocated.
NavigateWithoutMemory(t, op, h, c) ==
  /\ Uses(t, h)
  /\ CanRead(t, h)
  /\ ContextOf(t, h) # Null
  /\ c \in Reached(op, ContextOf(t, h))
  /\ Fits(t, 2)
  /\ call_mem_info' = [call_mem_info EXCEPT ![t] = Append(@, ContextCell(c))]
  /\ given' = [given EXCEPT ![t] =
                 [g \in DOMAIN @ \cup {Len(Arena(t))} |->
                    IF g = Len(Arena(t)) THEN c ELSE @[g]]]
  /\ known' = [known EXCEPT ![inst[t]] = @ \cup {Len(Arena(t))}]
  /\ Record(t, op, {h}, {ContextOf(t, h)}, MemoryOf(t, h), <<>>, <<>>)
  /\ UNCHANGED <<pc, inst, root>>

\* parent and other allocate the memory again, then the context they return.
Navigate(t, op, h, c) ==
  LET granted == Len(Arena(t)) + 1 IN
  /\ Uses(t, h)
  /\ CanRead(t, h)
  /\ ContextOf(t, h) # Null
  /\ c \in Reached(op, ContextOf(t, h))
  /\ Fits(t, 2)
  /\ call_mem_info' = [call_mem_info EXCEPT ![t] =
                         Arena(t) \o <<MemoryCell(MemoryOf(t, h)), ContextCell(c)>>]
  /\ given' = [given EXCEPT ![t] =
                 [g \in DOMAIN given[t] \cup {granted} |->
                    IF g = granted THEN c ELSE given[t][g]]]
  /\ known' = [known EXCEPT ![inst[t]] = @ \cup {granted}]
  /\ Record(t, op, {h}, {ContextOf(t, h)}, MemoryOf(t, h), <<>>, <<>>)
  /\ UNCHANGED <<pc, inst, root>>

\* The same with mem_data full: nothing checks that a cell fits.
Overrun(t, op, h) ==
  /\ Uses(t, h)
  /\ CanRead(t, h)
  /\ ContextOf(t, h) # Null
  /\ Reached(op, ContextOf(t, h)) # {}
  /\ ~Fits(t, 2)
  /\ Record(t, op, {h}, {ContextOf(t, h)}, MemoryOf(t, h), <<>>, <<>>)
  /\ pc' = [pc EXCEPT ![t] = "overrun"]
  /\ UNCHANGED <<call_mem_info, inst, root, known, given>>

\* An assertion of call_mem_read_raw fails.
RefuseHandle(t, h) ==
  /\ Uses(t, h)
  /\ ~CanRead(t, h)
  /\ Record(t, "refused", {h}, {}, Null, <<>>, <<>>)
  /\ pc' = [pc EXCEPT ![t] = "bad_handle"]
  /\ UNCHANGED <<call_mem_info, inst, root, known, given>>

\* The runtime is called with a null context.
PassNull(t, h) ==
  /\ Uses(t, h)
  /\ CanRead(t, h)
  /\ ContextOf(t, h) = Null
  /\ Record(t, "null", {h}, {}, Null, <<>>, <<>>)
  /\ pc' = [pc EXCEPT ![t] = "null_context"]
  /\ UNCHANGED <<call_mem_info, inst, root, known, given>>

\* The WASI imports read the memory at offset 0, whatever context is in use.
CallWasi(t) ==
  /\ InGuest(t)
  /\ Arena(t) # NoCall
  /\ Readable(t, 0, "memory")
  /\ Record(t, "wasi", {}, {}, CellValue(t, 0), <<>>, <<>>)
  /\ UNCHANGED <<call_mem_info, pc, inst, root, known, given>>

\* assert(call_mem_info.has_value())
MissCallMem(t) ==
  /\ InGuest(t)
  /\ Arena(t) = NoCall
  /\ pc' = [pc EXCEPT ![t] = "no_call_mem"]
  /\ UNCHANGED <<call_mem_info, inst, root, known, given, runtime_call>>

StayHalted == Halted /\ UNCHANGED vars

-------------------------------------------------------------------------------
(* The next-state relation *)

Import(t, h) ==
  \/ \E op \in Imports \cap DataOps : \E asked \in GuestArgs(op) :
       CallRuntime(t, op, h, asked) \/ OverrunResults(t, op, h, asked)
  \/ /\ "generate" \in Imports
     /\ \E count \in -1..1, ids \in Pointers, list \in Pointers :
          CallGenerate(t, h, count, ids, list) \/ FailGenerate(t, h, count, ids, list)
  \/ "same" \in Imports /\ \E g \in known[inst[t]] : CallSame(t, h, g)
  \/ \E op \in Imports \cap Navigations :
       Overrun(t, op, h) \/ (\E c \in Contexts \cup {Null} : Navigate(t, op, h, c))
  \/ Imports # {"wasi"} /\ (RefuseHandle(t, h) \/ PassNull(t, h))

Next ==
  \/ \E i \in Instances : BeginInstance(i)
  \/ AbandonInstance
  \/ BeginInitialize
  \/ \E t \in Threads :
       \/ \E r \in Roots, i \in Instances : EnterSystem(t, r, i)
       \/ EndCall(t)
       \/ InGuest(t) /\ \E h \in known[inst[t]] : Import(t, h)
       \/ "wasi" \in Imports /\ (CallWasi(t) \/ MissCallMem(t))
  \/ StayHalted

Spec == Init /\ [][Next]_vars

-------------------------------------------------------------------------------
(* Properties that hold *)

\* Every variable has its type; what has been allocated fits mem_data
\* (wasm.cc:96).
TypeOK ==
  /\ \A t \in Threads :
       call_mem_info[t] = NoCall \/
         (call_mem_info[t] \in Seq(Cells) /\ Len(call_mem_info[t]) <= Capacity)
  /\ DOMAIN call_mem_info = Threads
  /\ pc \in [Threads -> {"idle", "start", "initialize", "guest"} \cup Faults]
  /\ inst \in [Threads -> Instances \cup {NoCall}]
  /\ root \in [Threads -> Roots \cup {NoCall}]
  /\ known \in [Instances -> SUBSET (0..Capacity)]
  /\ DOMAIN given = Threads
  /\ \A t \in Threads : \A h \in DOMAIN given[t] :
       h \in 0..Capacity /\ given[t][h] \in Contexts \cup {Null}
  /\ runtime_call \in [Threads -> CallRecords \cup {NoCall}]

\* A thread has call memory exactly while it is in a call of the guest, after a
\* trap as after a return, so that no call ever finds the memory of another:
\* the assertion at mem_stack.cc:55 never fails.
CallMemOnlyInCalls ==
  \A t \in Threads :
    /\ pc[t] # "mem_in_use"
    /\ pc[t] \in {"idle", "start"} => call_mem_info[t] = NoCall
    /\ InCall(t) => call_mem_info[t] # NoCall

\* "wasm memory is always allocated right before the execution context"
\* (wasm_ecsact_system_execution.cc:36), and it is that of the instance in which
\* the thread runs.
MemoryBeforeContext ==
  \A t \in Threads : InCall(t) =>
    \A n \in 1..Len(call_mem_info[t]) :
      call_mem_info[t][n].type = "context" =>
        n > 1 /\ call_mem_info[t][n - 1] = MemoryCell(inst[t])

\* Whatever handle a guest uses, one kept from an earlier call or from a call of
\* another thread included, the runtime is only called on contexts of the
\* execution under way on this thread, and with pointers into the memory of the
\* instance that runs on it.
RuntimeCallsStayInExecution ==
  \A t \in Threads : InCall(t) /\ runtime_call[t] # NoCall =>
    /\ runtime_call[t].contexts # {} => runtime_call[t].contexts \subseteq Live[root[t]]
    /\ \/ runtime_call[t].memory = inst[t]
       \/ runtime_call[t].op \in {"entity", "same"}

\* A handle given in this call keeps working until the call ends: the process
\* fails on a handle only if the guest kept it from another call, or was given
\* a null context.
GivenHandlesWork ==
  \A t \in Threads : pc[t] \in {"bad_handle", "null_context"} =>
    \E h \in runtime_call[t].handles :
      h \notin DOMAIN given[t] \/ given[t][h] = Null

\* Call memory is exhausted only by a guest that has been given a context for
\* every two pointers of it: 256 of them in the code.
OverrunNeedsFullCallMem ==
  \A t \in Threads : pc[t] = "overrun" =>
    2 * Cardinality(DOMAIN given[t]) + 2 > Capacity

\* The instance of a call, which a failure of the process leaves as it is.
CallInstance(t) ==
  IF pc[t] \in {"idle", "start", "no_call_mem", "mem_in_use"} THEN NoCall ELSE inst[t]

CallTarget(t) ==
  IF CallInstance(t) = NoCall \/ runtime_call[t] = NoCall THEN NoCall
  ELSE [contexts |-> runtime_call[t].contexts, memory |-> runtime_call[t].memory]

Table == INSTANCE ContextTable
           WITH Handles <- 0..Capacity,
                instance <- [t \in Threads |-> CallInstance(t)],
                table <- given,
                target <- [t \in Threads |-> CallTarget(t)]

\* Offsets into call memory do what a table of handles would: each stands for
\* the context it was given for, for as long as the call lasts.
ImplementsTable == Table!Spec

-------------------------------------------------------------------------------
(* Properties that the repository states and the code does not have *)

\* "indexed field values" (wasm_ecsact_system_execution.cc:309) are what the
\* guest passes as the parameter of that name (env.hh:161).
StreamToggleTakesFields ==
  \A t \in Threads :
    runtime_call[t] # NoCall /\ runtime_call[t].op = "stream_toggle" =>
      runtime_call[t].args[2] = runtime_call[t].asked[2]
===============================================================================
