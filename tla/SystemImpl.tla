------------------------------ MODULE SystemImpl ------------------------------
(***************************************************************************)
(* ecsact/si/wasmer/detail/wasm.cc: the pool of WebAssembly instances that *)
(* ecsact_si_wasm_load builds and ecsact_si_wasm_reset drops, and the way  *)
(* each thread of the ECS runtime picks an instance of the pool and runs a *)
(* system in it (ensure_minst, ecsact_si_wasm_system_impl).                *)
(*                                                                         *)
(* The embedding program calls the API from one thread, and the runtime's  *)
(* threads run systems only while that program is inside                   *)
(* ecsact_execute_systems (test/example/example.cc): the variable "host"   *)
(* says which of the calls it is in.                                       *)
(***************************************************************************)
EXTENDS Integers, Sequences

CONSTANTS
  Threads,    \* threads of the runtime that execute systems
  Systems,    \* ecsact_system_like_id values
  Modules,    \* the wasm binaries the program may load: a set of records
  PoolSize,   \* instances per load, 100 in the code
  NoMinst,    \* an expired or never assigned pointer to an instance
  Idle,       \* the system of a thread that executes none
  MaxLoads,   \* bound on the number of loads
  MaxIndex    \* bound on next_available_minst_index when a system is entered

(***************************************************************************)
(* A binary is what wasmer and minst find in it: whether it compiles,      *)
(* whether every import is one the host provides, which systems' names it  *)
(* exports as functions and which as something else, and whether it        *)
(* exports a memory.                                                       *)
(***************************************************************************)
Binary == [compiles: BOOLEAN, resolves: BOOLEAN, memory: BOOLEAN,
           funcs: SUBSET Systems, others: SUBSET Systems]

\* minst_ecsact_system_impls.  load and slot stand for the object's identity.
Minst == [load: 1..MaxLoads, slot: 1..PoolSize, exports: SUBSET Systems]

ASSUME ConstantsOK ==
  /\ Modules \subseteq Binary
  /\ PoolSize \in Nat \ {0}
  /\ MaxLoads \in Nat
  /\ MaxIndex \in Nat
  /\ NoMinst \notin Minst
  /\ Idle \notin Systems

VARIABLES
  all_minsts,                  \* the pool
  next_available_minst_index,  \* atomic_size_t shared by all threads
  thread_minst,                \* thread_local weak_ptr of each thread
  impls,        \* systems whose execution impl in the runtime is ours
  trap_handler, \* has a trap handler been set?
  reported,     \* systems whose trap the handler has been told of
  host,         \* the API call the embedding program is in
  args,         \* binary and systems of the latest load
  loads,        \* history: loads begun
  offered,      \* history: systems of the last successful load while it stands
  result,       \* return code of the last load
  last_error_message,  \* the load that the message describes, 0 for none
  pc,           \* where each thread is in ecsact_si_wasm_system_impl
  sys,          \* system_id of the thread's current execution, or Idle
  held,         \* the local shared_ptr of ecsact_si_wasm_system_impl
  ticket        \* history: value of ++next_available_minst_index the thread drew

loaderVars == <<all_minsts, impls, args, loads, offered, result, last_error_message>>
threadVars == <<thread_minst, pc, sys, held, ticket>>
handlerVars == <<trap_handler, reported>>
vars == <<all_minsts, next_available_minst_index, thread_minst, impls,
          trap_handler, reported, host, args, loads, offered, result,
          last_error_message, pc, sys, held, ticket>>

-------------------------------------------------------------------------------
Pool == {all_minsts[i] : i \in 1..Len(all_minsts)}

\* As if threads kept shared_ptrs: an instance outlives its pool.
AliveWhileAssigned(m) == m # NoMinst

\* weak_ptr::lock succeeds while a shared_ptr to the object exists: in the
\* pool, or as the local of a thread that is executing a system in it.
Alive(m) == m \in Pool \/ \E t \in Threads : m = held[t] /\ m # NoMinst

\* The process is gone: a division by zero, or a failed assertion.
Faulted(t) == pc[t] \in {"empty_pool", "no_export"}
Halted == host \in {"no_memory", "bad_initialize"} \/ \E t \in Threads : Faulted(t)

HostCalls == host = "idle" /\ ~Halted

Init ==
  /\ all_minsts = <<>>
  /\ next_available_minst_index = 0
  /\ thread_minst = [t \in Threads |-> NoMinst]
  /\ impls = {}
  /\ trap_handler = FALSE
  /\ reported = {}
  /\ host = "idle"
  /\ args = [module |-> NoMinst, systems |-> {}]
  /\ loads = 0
  /\ offered = {}
  /\ result = "NONE"
  /\ last_error_message = 0
  /\ pc = [t \in Threads |-> "idle"]
  /\ sys = [t \in Threads |-> Idle]
  /\ held = [t \in Threads |-> NoMinst]
  /\ ticket = [t \in Threads |-> 0]

-------------------------------------------------------------------------------
(* ecsact_si_wasm_load and ecsact_si_wasm_load_file *)

\* ecsact_si_wasm_load returns early: the runtime was loaded without
\* ecsact_set_system_execution_impl.
RefuseLoad ==
  /\ HostCalls
  /\ result' = "NO_SET_SYSTEM_EXECUTION"
  /\ UNCHANGED <<all_minsts, next_available_minst_index, impls, host, args,
                 loads, offered, last_error_message, threadVars, handlerVars>>

\* ecsact_si_wasm_load_file cannot open or read the file.
RefuseFile(err) ==
  /\ HostCalls
  /\ result' = err
  /\ UNCHANGED <<all_minsts, next_available_minst_index, impls, host, args,
                 loads, offered, last_error_message, threadVars, handlerVars>>

\* As if the pool were not cleared first.
BeginLoadKeepingPool(module, systems) ==
  /\ HostCalls
  /\ loads < MaxLoads
  /\ args' = [module |-> module, systems |-> systems]
  /\ loads' = loads + 1
  /\ offered' = {}
  /\ result' = "NONE"
  /\ host' = "load"
  /\ UNCHANGED <<all_minsts, next_available_minst_index, impls,
                 last_error_message, threadVars, handlerVars>>

\* all_minsts.clear(), and the loop over the instances begins.
BeginLoad(module, systems) ==
  /\ HostCalls
  /\ loads < MaxLoads
  /\ all_minsts' = <<>>
  /\ args' = [module |-> module, systems |-> systems]
  /\ loads' = loads + 1
  /\ offered' = {}
  /\ result' = "NONE"
  /\ host' = "load"
  /\ UNCHANGED <<next_available_minst_index, impls, last_error_message,
                 threadVars, handlerVars>>

\* As if the loop ran once too often.
BuildingOneMore == host = "load" /\ Len(all_minsts) <= PoolSize

\* The loop of the load goes on.
Building == host = "load" /\ Len(all_minsts) < PoolSize
Creatable == args.module.compiles /\ args.module.resolves
Missing(s) == s \notin args.module.funcs \cup args.module.others

\* minst::create fails: the only errors that set last_error_message.  wasmer
\* may refuse to instantiate any one of the instances.
FailCreate(err) ==
  /\ Building
  /\ \/ err = "COMPILE_FAIL" /\ ~args.module.compiles
     \/ err = "GUEST_IMPORT_INVALID" /\ args.module.compiles /\ ~args.module.resolves
     \/ err = "INSTANTIATE_FAIL" /\ Creatable
  /\ last_error_message' = loads
  /\ result' = err
  /\ host' = "idle"
  /\ UNCHANGED <<all_minsts, next_available_minst_index, impls, args, loads,
                 offered, threadVars, handlerVars>>

\* get_system_impl_exports gives up at the first system of the list whose
\* export is missing or not a function.
FailExports(err) ==
  /\ Building
  /\ Creatable
  /\ \E s \in args.systems :
       \/ err = "EXPORT_NOT_FOUND" /\ Missing(s)
       \/ err = "EXPORT_INVALID" /\ ~Missing(s) /\ s \notin args.module.funcs
  /\ result' = err
  /\ host' = "idle"
  /\ UNCHANGED <<all_minsts, next_available_minst_index, impls, args, loads,
                 offered, last_error_message, threadVars, handlerVars>>

ExportsFound == Building /\ Creatable /\ args.systems \subseteq args.module.funcs

\* assert(wasm_mem)
AbortWithoutMemory ==
  /\ ExportsFound
  /\ ~args.module.memory
  /\ host' = "no_memory"
  /\ UNCHANGED <<loaderVars, next_available_minst_index, threadVars, handlerVars>>

\* The binary exports something else than a function as _initialize.
AbortInInitialize ==
  /\ ExportsFound
  /\ args.module.memory
  /\ host' = "bad_initialize"
  /\ UNCHANGED <<loaderVars, next_available_minst_index, threadVars, handlerVars>>

\* The exported _initialize traps.
FailInitialize ==
  /\ ExportsFound
  /\ args.module.memory
  /\ result' = "INITIALIZE_FAIL"
  /\ host' = "idle"
  /\ UNCHANGED <<all_minsts, next_available_minst_index, impls, args, loads,
                 offered, last_error_message, threadVars, handlerVars>>

EmplaceMinst ==
  /\ ExportsFound
  /\ args.module.memory
  /\ all_minsts' = Append(all_minsts, [load |-> loads,
                                       slot |-> Len(all_minsts) + 1,
                                       exports |-> args.systems])
  /\ UNCHANGED <<next_available_minst_index, impls, host, args, loads, offered,
                 result, last_error_message, threadVars, handlerVars>>

\* As if each instance were registered as soon as it is made.
FinishLoadEarly ==
  /\ host = "load"
  /\ impls' = impls \cup args.systems
  /\ offered' = args.systems
  /\ result' = "OK"
  /\ host' = "idle"
  /\ UNCHANGED <<all_minsts, next_available_minst_index, args, loads,
                 last_error_message, threadVars, handlerVars>>

\* The pool is complete: ecsact_set_system_execution_impl for every system.
FinishLoad ==
  /\ host = "load"
  /\ Len(all_minsts) = PoolSize
  /\ impls' = impls \cup args.systems
  /\ offered' = args.systems
  /\ result' = "OK"
  /\ host' = "idle"
  /\ UNCHANGED <<all_minsts, next_available_minst_index, args, loads,
                 last_error_message, threadVars, handlerVars>>

\* ecsact_si_wasm_reset: the impls stay registered with the runtime.
Reset ==
  /\ HostCalls
  /\ all_minsts' = <<>>
  /\ next_available_minst_index' = 0
  /\ offered' = {}
  /\ UNCHANGED <<impls, host, args, loads, result, last_error_message,
                 threadVars, handlerVars>>

SetTrapHandler(handler) ==
  /\ HostCalls
  /\ trap_handler' = handler
  /\ UNCHANGED <<loaderVars, next_available_minst_index, host, threadVars, reported>>

-------------------------------------------------------------------------------
(* ecsact_execute_systems (external) and ecsact_si_wasm_system_impl *)

BeginExecute ==
  /\ HostCalls
  /\ host' = "execute"
  /\ UNCHANGED <<loaderVars, next_available_minst_index, threadVars, handlerVars>>

EndExecute ==
  /\ host = "execute"
  /\ \A t \in Threads : pc[t] = "idle"
  /\ host' = "idle"
  /\ UNCHANGED <<loaderVars, next_available_minst_index, threadVars, handlerVars>>

Step(t, from, to) ==
  /\ ~Halted
  /\ pc[t] = from
  /\ pc' = [pc EXCEPT ![t] = to]

\* The runtime calls the impl registered for s.
Enter(t, s) ==
  /\ host = "execute"
  /\ s \in impls
  /\ next_available_minst_index < MaxIndex
  /\ Step(t, "idle", "ensure")
  /\ sys' = [sys EXCEPT ![t] = s]
  /\ UNCHANGED <<loaderVars, next_available_minst_index, host, thread_minst,
                 held, ticket, handlerVars>>

\* thread_minst.lock()
LockMinst(t) ==
  /\ Alive(thread_minst[t])
  /\ Step(t, "ensure", "find")
  /\ held' = [held EXCEPT ![t] = thread_minst[t]]
  /\ UNCHANGED <<loaderVars, next_available_minst_index, host, thread_minst,
                 sys, ticket, handlerVars>>

\* ++next_available_minst_index, an atomic increment
DrawIndex(t) ==
  /\ ~Alive(thread_minst[t])
  /\ Step(t, "ensure", "claim")
  /\ next_available_minst_index' = next_available_minst_index + 1
  /\ ticket' = [ticket EXCEPT ![t] = next_available_minst_index + 1]
  /\ UNCHANGED <<loaderVars, host, thread_minst, sys, held, handlerVars>>

\* The instance at an index, in the code's order.
Slot(n) == (n % Len(all_minsts)) + 1

\* As if the shared index were read again after the increment.
ClaimMinstRereading(t) ==
  /\ all_minsts # <<>>
  /\ Step(t, "claim", "find")
  /\ held' = [held EXCEPT ![t] = all_minsts[Slot(next_available_minst_index)]]
  /\ thread_minst' = [thread_minst EXCEPT ![t] = held'[t]]
  /\ UNCHANGED <<loaderVars, next_available_minst_index, host, sys, ticket,
                 handlerVars>>

\* all_minsts[index]; thread_minst = minst
ClaimMinst(t) ==
  /\ all_minsts # <<>>
  /\ Step(t, "claim", "find")
  /\ held' = [held EXCEPT ![t] = all_minsts[Slot(ticket[t])]]
  /\ thread_minst' = [thread_minst EXCEPT ![t] = all_minsts[Slot(ticket[t])]]
  /\ UNCHANGED <<loaderVars, next_available_minst_index, host, sys, ticket,
                 handlerVars>>

\* % all_minsts.size() with an empty pool
DivideByZero(t) ==
  /\ all_minsts = <<>>
  /\ Step(t, "claim", "empty_pool")
  /\ UNCHANGED <<loaderVars, next_available_minst_index, host, thread_minst,
                 sys, held, ticket, handlerVars>>

\* sys_impl_exports.find(system_id), and func_call with the context
CallGuest(t) ==
  /\ pc[t] = "find"
  /\ sys[t] \in held[t].exports
  /\ Step(t, "find", "guest")
  /\ UNCHANGED <<loaderVars, next_available_minst_index, host, thread_minst,
                 sys, held, ticket, handlerVars>>

\* assert(itr != end()) fails
MissExport(t) ==
  /\ pc[t] = "find"
  /\ sys[t] \notin held[t].exports
  /\ Step(t, "find", "no_export")
  /\ UNCHANGED <<loaderVars, next_available_minst_index, host, thread_minst,
                 sys, held, ticket, handlerVars>>

\* The guest function returns.
ReturnFromGuest(t) ==
  /\ Step(t, "guest", "idle")
  /\ held' = [held EXCEPT ![t] = NoMinst]
  /\ sys' = [sys EXCEPT ![t] = Idle]
  /\ UNCHANGED <<loaderVars, next_available_minst_index, host, thread_minst,
                 ticket, handlerVars>>

\* The guest function traps: func_call returns the trap.
TrapInGuest(t) ==
  /\ Step(t, "guest", "trapped")
  /\ UNCHANGED <<loaderVars, next_available_minst_index, host, thread_minst,
                 sys, held, ticket, handlerVars>>

\* ecsact_si_wasm_system_impl drops that result and returns.
DropTrap(t) ==
  /\ Step(t, "trapped", "idle")
  /\ held' = [held EXCEPT ![t] = NoMinst]
  /\ sys' = [sys EXCEPT ![t] = Idle]
  /\ UNCHANGED <<loaderVars, next_available_minst_index, host, thread_minst,
                 ticket, handlerVars>>

\* A thread of the runtime ends and another takes its place: a new, empty
\* thread_minst.
ReplaceThread(t) ==
  /\ pc[t] = "idle"
  /\ ~Halted
  /\ thread_minst[t] # NoMinst
  /\ thread_minst' = [thread_minst EXCEPT ![t] = NoMinst]
  /\ UNCHANGED <<loaderVars, next_available_minst_index, host, pc, sys, held,
                 ticket, handlerVars>>

\* Nothing follows an abort.
StayHalted == Halted /\ UNCHANGED vars

-------------------------------------------------------------------------------
(* The next-state relation *)

FileErrors == {"FILE_OPEN_FAIL", "FILE_READ_FAIL"}
CreateErrors == {"COMPILE_FAIL", "GUEST_IMPORT_INVALID", "INSTANTIATE_FAIL"}
ExportErrors == {"EXPORT_NOT_FOUND", "EXPORT_INVALID"}
LoadErrors ==
  FileErrors \cup CreateErrors \cup ExportErrors
    \cup {"NO_SET_SYSTEM_EXECUTION", "INITIALIZE_FAIL"}

HostStep ==
  \/ RefuseLoad
  \/ \E err \in FileErrors : RefuseFile(err)
  \/ \E module \in Modules, systems \in SUBSET Systems : BeginLoad(module, systems)
  \/ \E err \in CreateErrors : FailCreate(err)
  \/ \E err \in ExportErrors : FailExports(err)
  \/ AbortWithoutMemory \/ AbortInInitialize \/ FailInitialize \/ EmplaceMinst \/ FinishLoad
  \/ Reset
  \/ \E handler \in BOOLEAN : SetTrapHandler(handler)
  \/ BeginExecute \/ EndExecute

ThreadStep(t) ==
  \/ \E s \in Systems : Enter(t, s)
  \/ LockMinst(t) \/ DrawIndex(t) \/ ClaimMinst(t) \/ DivideByZero(t)
  \/ CallGuest(t) \/ MissExport(t) \/ ReturnFromGuest(t)
  \/ TrapInGuest(t) \/ DropTrap(t) \/ ReplaceThread(t)

Next == HostStep \/ (\E t \in Threads : ThreadStep(t)) \/ StayHalted

Spec == Init /\ [][Next]_vars

-------------------------------------------------------------------------------
(* Properties that hold *)

Results == {"NONE", "OK"} \cup LoadErrors
HostCallNames == {"idle", "load", "execute", "no_memory", "bad_initialize"}
Steps == {"idle", "ensure", "claim", "find", "guest", "trapped",
          "empty_pool", "no_export"}
LoadArgs == [module: Modules \cup {NoMinst}, systems: SUBSET Systems]

\* Every variable has its type; the pool never outgrows what load reserves for
\* it (wasm.cc:197).
TypeOK ==
  /\ all_minsts \in Seq(Minst)
  /\ Len(all_minsts) <= PoolSize
  /\ next_available_minst_index \in Nat
  /\ thread_minst \in [Threads -> Minst \cup {NoMinst}]
  /\ impls \subseteq Systems
  /\ trap_handler \in BOOLEAN
  /\ reported \subseteq Systems
  /\ host \in HostCallNames
  /\ args \in LoadArgs
  /\ loads \in 0..MaxLoads
  /\ offered \subseteq Systems
  /\ result \in Results
  /\ last_error_message \in 0..MaxLoads
  /\ pc \in [Threads -> Steps]
  /\ sys \in [Threads -> Systems \cup {Idle}]
  /\ held \in [Threads -> Minst \cup {NoMinst}]
  /\ ticket \in [Threads -> Nat]

\* A system of the load that stands never hits the modulo by an empty pool
\* (wasm.cc:82) nor the export assertion (wasm.cc:94), whatever was loaded,
\* reset or left half loaded before and whatever the threads had cached.
OfferedSystemsRun ==
  \A t \in Threads : Faulted(t) => sys[t] \notin offered

InInstance(t) == pc[t] \in {"find", "guest", "trapped"}

\* A thread never runs an instance of an earlier load, though thread_minst
\* outlives loads and resets (wasm.cc:77): what it runs is in the pool.
FreshInstance ==
  \A t \in Threads : InInstance(t) => held[t] \in Pool /\ held[t].load = loads

\* Two threads run one instance only if a whole round of the pool was handed
\* out between them: the increment of wasm.cc:82 gives every thread an index of
\* its own, and indices that differ by less than the pool's size an instance
\* of their own.
SharedOnlyAfterFullRound ==
  \A t, u \in Threads :
    t # u /\ InInstance(t) /\ InInstance(u) /\ held[t] = held[u] =>
      \/ ticket[t] + Len(all_minsts) <= ticket[u]
      \/ ticket[u] + Len(all_minsts) <= ticket[t]

\* Systems are registered with the runtime only when the pool is complete and
\* each of its instances exports them: a load that fails half way registers
\* nothing (wasm.cc:269).
RegistersOnlyCompletePool ==
  [][impls' # impls =>
       /\ Len(all_minsts) = PoolSize
       /\ \A m \in Pool : impls' \ impls \subseteq m.exports]_vars

\* The job of SystemHost that a thread is at.
HostJob(t) ==
  CASE pc[t] = "idle" -> Idle
    [] pc[t] \in {"ensure", "claim", "find"} ->
         [step |-> "asked", system |-> sys[t], epoch |-> 0]
    [] pc[t] \in {"guest", "trapped"} ->
         [step |-> "running", system |-> sys[t], epoch |-> held[t].load]
    [] OTHER -> [step |-> "lost", system |-> sys[t], epoch |-> 0]

Host == INSTANCE SystemHost
          WITH epoch <- loads, offer <- offered,
               job <- [t \in Threads |-> HostJob(t)]

\* What the pool, the weak pointers and the shared index do is what SystemHost
\* promises: systems on offer run the implementation of the load that offered
\* them, on every thread (wasm.cc:79-103 implements the abstract Start).
ImplementsHost == Host!Spec

-------------------------------------------------------------------------------
(* Properties that the repository states and the code does not have *)

\* The assertion of wasm.cc:94: the instance exports the system that the
\* runtime asks it to run.
ExportAlwaysFound == \A t \in Threads : pc[t] # "no_export"

\* A trap is reported to the trap handler (test/example/example.cc:124 counts
\* on it to fail the run).
TrapIsReported ==
  [][\A t \in Threads :
       pc[t] = "trapped" /\ pc'[t] = "idle" /\ trap_handler =>
         sys[t] \in reported']_vars
===============================================================================
