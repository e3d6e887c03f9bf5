-------------------------------- MODULE Minst --------------------------------
(***************************************************************************)
(* minst/minst.cc, with the resolver and the loop of ecsact_si_wasm_load   *)
(* (wasm.cc) that use it: the wasmer objects that make up the instances of *)
(* a pool, from minst::create through its error returns, the moves of a    *)
(* minst from one place to the next, and its destructor.                   *)
(*                                                                         *)
(* A handle is a wasmer object: its kind, and which call of create it was  *)
(* made for.  A minst owns its store, its module and its instance; its     *)
(* exports are pointers into lists that nobody owns once create returns.   *)
(* A system's export has the system's name.                                *)
(***************************************************************************)
EXTENDS Integers, Sequences

CONSTANTS
  Systems,    \* ecsact_system_like_id values
  Modules,    \* the wasm binaries the program may load
  Lists,      \* the lists of systems it may load them with
  PoolSize,   \* instances per load, 100 in the code
  Null,       \* a null pointer
  NoModule,   \* the binary before the first load
  MaxLoads    \* bound on the number of loads

Kinds == {"func", "global", "table", "memory"}
Objects == {"store", "module", "instance", "trap", "types", "funcs", "externs"}

\* A signature: its parameters' types, and how many i32 it returns.
I32(n) == [k \in 1..n |-> "i32"]
Takes(params, results) == [params |-> params, results |-> results]

\* guest_env_module_imports, each with the prefix ecsact_system_execution_context_
EnvImports ==
  [action |-> Takes(I32(2), 0), parent |-> Takes(I32(1), 1), same |-> Takes(I32(2), 1),
   get |-> Takes(I32(4), 0), update |-> Takes(I32(4), 0), has |-> Takes(I32(3), 0),
   generate |-> Takes(I32(4), 0), add |-> Takes(I32(3), 0), remove |-> Takes(I32(3), 0),
   other |-> Takes(I32(2), 1), entity |-> Takes(I32(1), 1),
   stream_toggle |-> Takes(I32(4), 0)]

\* guest_wasi_module_imports
WasiImports ==
  [proc_exit |-> Takes(I32(1), 0),
   fd_seek |-> Takes(<<"i32", "i64", "i32", "i32">>, 1),
   fd_write |-> Takes(I32(4), 1), fd_read |-> Takes(I32(4), 1),
   fd_close |-> Takes(I32(1), 1), environ_sizes_get |-> Takes(I32(2), 1),
   environ_get |-> Takes(I32(2), 1), fd_fdstat_get |-> Takes(I32(2), 1)]

HostModules == [env |-> EnvImports, wasi_snapshot_preview1 |-> WasiImports]

\* A binary: what wasmer finds in it.
Imports == [module: STRING, name: STRING, kind: Kinds,
            type: [params: Seq(STRING), results: Nat]]
Binary == [compiles: BOOLEAN, imports: Seq(Imports),
           exports: Seq([name: Systems \cup {"_initialize", "other"}, kind: Kinds])]

\* import_resolver: by the names only.
Resolved(imp) ==
  imp.module \in DOMAIN HostModules /\ imp.name \in DOMAIN HostModules[imp.module]

\* wasmer compares the kind and the type.
Fitting(imp) == imp.kind = "func" /\ imp.type = HostModules[imp.module][imp.name]

ASSUME ConstantsOK ==
  /\ \A b \in Modules : b \in Binary
  /\ Lists \subseteq Seq(Systems)
  /\ PoolSize \in Nat \ {0}
  /\ MaxLoads \in Nat
  /\ "_initialize" \notin Systems
  /\ Null \notin [kind: Objects, of: Nat]

VARIABLES
  live,       \* the wasmer objects that have been made and not deleted
  pc,         \* where the embedding program is in load or reset
  args,       \* binary and list of systems of the latest load
  next,       \* imports resolved so far
  self,       \* the local minst of minst::create
  inst,       \* the minst in the local "result" of load
  pool,       \* all_minsts
  trap,       \* a minst_trap that is about to be destroyed
  dying,      \* a minst whose destructor runs
  made,       \* number of calls of create
  loads, impls, result, last_error_message   \* as in SystemImpl

minstVars == <<self, inst, pool>>
destroyVars == <<trap, dying>>
loadVars == <<args, made, loads, impls, result, last_error_message>>
vars == <<live, pc, args, next, self, inst, pool, trap, dying, made, loads,
          impls, result, last_error_message>>

Handle(kind) == [kind |-> kind, of |-> made]
NoParts == [store |-> Null, module |-> Null, instance |-> Null, exports |-> <<>>]

\* What the destructor deletes.
Owned(m) == {m.store, m.module, m.instance} \ {Null}

\* The destructors are done, and the program is at a step of load or reset.
At(step) == pc = step /\ trap = Null /\ Owned(dying) = {}

Init ==
  /\ live = {}
  /\ pc = "idle"
  /\ args = [module |-> NoModule, systems |-> <<>>]
  /\ next = 0
  /\ self = NoParts /\ inst = NoParts /\ dying = NoParts
  /\ pool = <<>>
  /\ trap = Null
  /\ made = 0
  /\ loads = 0 /\ impls = {} /\ result = "NONE" /\ last_error_message = 0

-------------------------------------------------------------------------------
(* Moves and destructors *)

\* As if the move constructor left the pointers of what it moves from.
MovedFromKept(m) == m

\* What minst(minst&& other) leaves in other.
MovedFrom(m) == NoParts

\* As if the destructor did nothing for a minst without an instance.
DestroyWhole(m) == dying' = IF m.instance = Null THEN NoParts ELSE m

Destroy(m) == dying' = m

Delete(h) == live' = live \ {h} /\ UNCHANGED <<pc, next, minstVars, loadVars>>

DeleteTrap ==
  /\ trap # Null
  /\ Delete(trap)
  /\ trap' = Null
  /\ UNCHANGED dying

DeleteInstance ==
  /\ trap = Null /\ dying.instance # Null
  /\ Delete(dying.instance)
  /\ dying' = [dying EXCEPT !.instance = Null]
  /\ UNCHANGED trap

\* As if the module were deleted before the instance.
DeleteModuleFirst ==
  /\ trap = Null /\ dying.module # Null
  /\ Delete(dying.module)
  /\ dying' = [dying EXCEPT !.module = Null]
  /\ UNCHANGED trap

DeleteModule ==
  /\ trap = Null /\ dying.instance = Null /\ dying.module # Null
  /\ Delete(dying.module)
  /\ dying' = [dying EXCEPT !.module = Null]
  /\ UNCHANGED trap

DeleteStore ==
  /\ trap = Null /\ dying.instance = Null /\ dying.module = Null
  /\ dying.store # Null
  /\ Delete(dying.store)
  /\ dying' = NoParts
  /\ UNCHANGED trap

-------------------------------------------------------------------------------
(* all_minsts.clear() *)

BeginLoad(module, systems) ==
  /\ At("idle")
  /\ loads < MaxLoads
  /\ args' = [module |-> module, systems |-> systems]
  /\ loads' = loads + 1
  /\ result' = "NONE"
  /\ pc' = "clear"
  /\ UNCHANGED <<live, next, minstVars, destroyVars, made, impls,
                 last_error_message>>

\* ecsact_si_wasm_reset
Reset ==
  /\ At("idle")
  /\ pc' = "reset"
  /\ UNCHANGED <<live, next, minstVars, destroyVars, loadVars>>

ClearMinst ==
  /\ At("clear") \/ At("reset")
  /\ pool # <<>>
  /\ pool' = Tail(pool)
  /\ Destroy(Head(pool).minst)
  /\ UNCHANGED <<live, pc, next, self, inst, trap, loadVars>>

EndClear ==
  /\ At("clear") \/ At("reset")
  /\ pool = <<>>
  /\ pc' = IF pc = "clear" THEN "create" ELSE "idle"
  /\ UNCHANGED <<live, next, minstVars, destroyVars, loadVars>>

-------------------------------------------------------------------------------
(* minst::create *)

\* As if the loop of load ran once too often.
BuildingOneMore == Len(pool) <= PoolSize

Building == Len(pool) < PoolSize

\* wasm_store_new
NewStore ==
  /\ At("create")
  /\ Building
  /\ made' = made + 1
  /\ self' = [self EXCEPT !.store = [kind |-> "store", of |-> made']]
  /\ live' = live \cup {self'.store}
  /\ pc' = "compile"
  /\ UNCHANGED <<next, inst, pool, destroyVars, args, loads, impls, result,
                 last_error_message>>

\* wasm_module_new, and the lists of its imports and exports
CompileModule ==
  /\ At("compile")
  /\ args.module.compiles
  /\ self' = [self EXCEPT !.module = Handle("module"),
                          !.exports = [i \in DOMAIN args.module.exports |->
                            [name |-> args.module.exports[i].name,
                             kind |-> args.module.exports[i].kind,
                             type |-> Handle("types"), object |-> Null]]]
  /\ live' = live \cup {Handle("module"), Handle("types")}
  /\ next' = 0
  /\ pc' = "resolve"
  /\ UNCHANGED <<inst, pool, destroyVars, loadVars>>

\* import_resolver finds the next import, and as_extern makes it a function.
ResolveImport ==
  /\ At("resolve")
  /\ next < Len(args.module.imports)
  /\ Resolved(args.module.imports[next + 1])
  /\ next' = next + 1
  /\ live' = live \cup {Handle("funcs")}
  /\ UNCHANGED <<pc, minstVars, destroyVars, loadVars>>

\* create returns an error, which load reports; the local minst is destroyed.
FailCreate(err) ==
  /\ \/ At("compile") /\ ~args.module.compiles /\ err = "COMPILE_FAIL"
     \/ /\ At("resolve") /\ next < Len(args.module.imports)
        /\ ~Resolved(args.module.imports[next + 1])
        /\ err = "GUEST_IMPORT_INVALID"
     \/ /\ At("resolve") /\ next = Len(args.module.imports)
        /\ err = "INSTANTIATE_FAIL"
  /\ Destroy(self)
  /\ self' = NoParts
  /\ last_error_message' = loads
  /\ result' = err
  /\ pc' = "idle"
  /\ UNCHANGED <<live, next, inst, pool, trap, args, made, loads, impls>>

\* As if create deleted the lists of types when it was done with them.
KeptFreeing == live \ {Handle("types")}

\* Nothing is deleted when create is done.
Kept == live

\* wasm_instance_new, wasm_instance_exports, and the pointers to them in _exports
Instantiate ==
  /\ At("resolve")
  /\ next = Len(args.module.imports)
  /\ \A i \in DOMAIN args.module.imports : Fitting(args.module.imports[i])
  /\ self' = [self EXCEPT !.instance = Handle("instance"),
                          !.exports = [i \in DOMAIN @ |->
                            [@[i] EXCEPT !.object = Handle("externs")]]]
  /\ live' = Kept \cup {Handle("instance"), Handle("externs")}
  /\ pc' = "created"
  /\ UNCHANGED <<next, inst, pool, destroyVars, loadVars>>

\* return self
ReturnMinst ==
  /\ At("created")
  /\ inst' = self
  /\ Destroy(MovedFrom(self))
  /\ self' = NoParts
  /\ pc' = "exports"
  /\ UNCHANGED <<live, next, pool, trap, loadVars>>

-------------------------------------------------------------------------------
(* The rest of the loop of ecsact_si_wasm_load *)

\* The first of some indices, if there is one.
First(S) == {i \in S : \A j \in S : i <= j}
ExportAt(S) == inst.exports[CHOOSE i \in S : TRUE]

\* minst::find_export
Named(name) == First({i \in DOMAIN inst.exports : inst.exports[i].name = name})
FindExport(name) == ExportAt(Named(name))

\* As if any export would do.
CallableAnyKind(s) == Named(s) # {}

Callable(s) == Named(s) # {} /\ FindExport(s).kind = "func"

\* load returns: its result, with the minst in it, is destroyed.
FailLoad(err) ==
  /\ Destroy(inst)
  /\ inst' = NoParts
  /\ result' = err
  /\ pc' = "idle"
  /\ UNCHANGED <<next, self, pool, args, made, loads, impls, last_error_message>>

\* get_system_impl_exports gives up at the first system it has no function for.
FailExports ==
  /\ At("exports")
  /\ \E n \in DOMAIN args.systems :
       /\ ~Callable(args.systems[n])
       /\ \A k \in 1..(n - 1) : Callable(args.systems[k])
       /\ FailLoad(IF Named(args.systems[n]) = {} THEN "EXPORT_NOT_FOUND"
                   ELSE "EXPORT_INVALID")
  /\ UNCHANGED <<live, trap>>

Memories == First({i \in DOMAIN inst.exports : inst.exports[i].kind = "memory"})

\* Every system has its function, and the instance exports a memory.
FindExports ==
  /\ At("exports")
  /\ \A n \in DOMAIN args.systems : Callable(args.systems[n])
  /\ pc' = IF Memories # {} THEN "initialize" ELSE "no_memory"
  /\ UNCHANGED <<live, next, minstVars, destroyVars, loadVars>>

\* minst::initialize: there is no _initialize, or it returns.
Initialize ==
  /\ At("initialize")
  /\ Named("_initialize") # {} => Callable("_initialize")
  /\ pc' = "emplace"
  /\ UNCHANGED <<live, next, minstVars, destroyVars, loadVars>>

\* It traps; the trap is destroyed before the minst.
FailInitialize ==
  /\ At("initialize")
  /\ Callable("_initialize")
  /\ trap' = Handle("trap")
  /\ live' = live \cup {trap'}
  /\ FailLoad("INITIALIZE_FAIL")

\* initialize looks for the name alone, and func_call asserts that it has found a
\* function.
AbortInInitialize ==
  /\ At("initialize")
  /\ Named("_initialize") # {} /\ ~Callable("_initialize")
  /\ pc' = "bad_initialize"
  /\ UNCHANGED <<live, next, minstVars, destroyVars, loadVars>>

\* As if wasm_mem kept its value from one instance to the next.
FirstMemory == IF pool = <<>> THEN ExportAt(Memories) ELSE pool[1].memory

WasmMem == ExportAt(Memories)

\* all_minsts.emplace_back: the minst is moved, its exports are copied.
EmplaceMinst ==
  /\ At("emplace")
  /\ pool' = Append(pool, [minst |-> inst, memory |-> WasmMem,
                           sys_impl_exports |->
                             [s \in {args.systems[n] : n \in DOMAIN args.systems} |->
                                FindExport(s)]])
  /\ Destroy(MovedFrom(inst))
  /\ inst' = NoParts
  /\ pc' = "create"
  /\ UNCHANGED <<live, next, self, trap, loadVars>>

FinishLoad ==
  /\ At("create")
  /\ Len(pool) = PoolSize
  /\ impls' = impls \cup {args.systems[n] : n \in DOMAIN args.systems}
  /\ result' = "OK"
  /\ pc' = "idle"
  /\ UNCHANGED <<live, next, minstVars, destroyVars, args, made, loads,
                 last_error_message>>

\* A system runs in an instance and traps; the trap is dropped with the result of
\* func_call.
TrapInSystem(k) ==
  /\ At("idle")
  /\ trap' = [kind |-> "trap", of |-> pool[k].minst.store.of]
  /\ live' = live \cup {trap'}
  /\ UNCHANGED <<pc, next, minstVars, dying, loadVars>>

Halted == pc \in {"no_memory", "bad_initialize"}
StayHalted == Halted /\ UNCHANGED vars

-------------------------------------------------------------------------------
CreateErrors == {"COMPILE_FAIL", "GUEST_IMPORT_INVALID", "INSTANTIATE_FAIL"}

Create ==
  \/ NewStore \/ CompileModule \/ ResolveImport \/ Instantiate \/ ReturnMinst
  \/ \E err \in CreateErrors : FailCreate(err)

Next ==
  \/ DeleteTrap \/ DeleteInstance \/ DeleteModule \/ DeleteStore
  \/ \E module \in Modules, systems \in Lists : BeginLoad(module, systems)
  \/ Reset \/ ClearMinst \/ EndClear
  \/ Create
  \/ FailExports \/ FindExports
  \/ Initialize \/ FailInitialize \/ AbortInInitialize
  \/ EmplaceMinst \/ FinishLoad
  \/ \E k \in DOMAIN pool : TrapInSystem(k)
  \/ StayHalted

Spec == Init /\ [][Next]_vars

-------------------------------------------------------------------------------
Loading == {"clear", "create", "compile", "resolve", "created", "exports",
            "initialize", "emplace"}
Handles == [kind: Objects, of: 1..made]
Pointers == Handles \cup {Null}
Exports == [name: Systems \cup {"_initialize", "other"}, kind: Kinds,
            type: Handles, object: Pointers]
Minsts == [store: Pointers, module: Pointers, instance: Pointers,
           exports: Seq(Exports)]

\* Every variable has its type; load makes no instance more than the pool holds
\* (wasm.cc:199).
TypeOK ==
  /\ live \subseteq Handles
  /\ pc \in Loading \cup {"idle", "reset", "no_memory", "bad_initialize"}
  /\ args \in [module: Modules \cup {NoModule}, systems: Lists \cup {<<>>}]
  /\ next \in Nat
  /\ self \in Minsts /\ inst \in Minsts /\ dying \in Minsts
  /\ pool \in Seq({pool[k] : k \in DOMAIN pool}) /\ Len(pool) <= PoolSize
  /\ \A k \in DOMAIN pool :
       /\ pool[k].minst \in Minsts
       /\ pool[k].memory \in Exports
       /\ \A s \in DOMAIN pool[k].sys_impl_exports :
            pool[k].sys_impl_exports[s] \in Exports
  /\ trap \in Pointers
  /\ made \in 0..(MaxLoads * PoolSize)
  /\ loads \in 0..MaxLoads
  /\ impls \subseteq Systems
  /\ last_error_message \in 0..MaxLoads

\* The places that a minst can be in.
Places == <<self, inst, dying>> \o [k \in DOMAIN pool |-> pool[k].minst]

\* Through moves, errors and destructors, what a minst would delete exists, and
\* no two of them would delete the same (minst.cc:224-255).
ReleasedOnce ==
  /\ \A p \in DOMAIN Places : Owned(Places[p]) \subseteq live
  /\ \A p, q \in DOMAIN Places :
       p # q => Owned(Places[p]) \cap Owned(Places[q]) = {}
  /\ trap # Null => trap \in live

\* On every way out of create and load (minst.cc:134-196, wasm.cc:209-260), each
\* store, module, instance and trap is still owned by what will delete it: what
\* nobody deletes are lists of types, exports, and functions made for imports.
NothingLeaked ==
  \A h \in live :
    \/ h.kind \in {"types", "funcs", "externs"}
    \/ h = trap
    \/ \E p \in DOMAIN Places : h \in Owned(Places[p])

\* An instance is deleted before its module, a module before its store, and a
\* trap before the store it is in (minst.cc:240-255).
StoreOutlivesItsParts ==
  \A h \in live :
    /\ h.kind = "instance" => [h EXCEPT !.kind = "module"] \in live
    /\ h.kind \in {"module", "instance", "trap"} => [h EXCEPT !.kind = "store"] \in live

\* The pointers that a minst does not own, and their copies in the pool, are good
\* for as long as the minst: name() and kind() read the type lists of create, and
\* calls use the externs, long after create has returned (minst.cc:143-217).
BorrowedStayValid ==
  LET Valid(e) == e.type \in live /\ (e.object # Null => e.object \in live) IN
  /\ \A p \in DOMAIN Places : \A i \in DOMAIN Places[p].exports :
       Valid(Places[p].exports[i])
  /\ \A k \in DOMAIN pool :
       /\ Valid(pool[k].memory)
       /\ \A s \in DOMAIN pool[k].sys_impl_exports : Valid(pool[k].sys_impl_exports[s])

\* What a system is called with in an instance of the pool is that instance's
\* own: the function of that name, and a memory of the same instance, by which
\* the imports resolve its pointers (wasm.cc:101-102).
SystemsUseOwnInstance ==
  \A k \in DOMAIN pool :
    /\ pool[k].memory.kind = "memory"
    /\ pool[k].memory.object = [kind |-> "externs", of |-> pool[k].minst.instance.of]
    /\ \A s \in DOMAIN pool[k].sys_impl_exports :
         LET e == pool[k].sys_impl_exports[s] IN
         e.name = s /\ e.kind = "func" /\ e.object = pool[k].memory.object

Listed == {args.systems[n] : n \in DOMAIN args.systems}

\* The kind of the export of a name that find_export would find in a binary.
Found(b, name) ==
  {b.exports[i].kind : i \in First({j \in DOMAIN b.exports : b.exports[j].name = name})}

\* What SystemImpl knows of a binary.
Outline(b) ==
  [compiles |-> b.compiles,
   resolves |-> \A i \in DOMAIN b.imports : Resolved(b.imports[i]),
   memory |-> \E i \in DOMAIN b.exports : b.exports[i].kind = "memory",
   funcs |-> {s \in Systems : Found(b, s) = {"func"}},
   others |-> {s \in Systems : Found(b, s) \notin {{}, {"func"}}}]

\* SystemImpl clears the pool, and resets, in one step.
LoadedPool ==
  IF pc \in {"clear", "reset"} THEN <<>>
  ELSE [k \in DOMAIN pool |-> [load |-> loads, slot |-> k,
                              exports |-> DOMAIN pool[k].sys_impl_exports]]
LoadCall == IF pc \in Loading THEN "load" ELSE IF Halted THEN pc ELSE "idle"
LoadArgs == [module |-> IF loads = 0 THEN NoModule ELSE Outline(args.module),
             systems |-> Listed]
Offered == IF pc = "idle" /\ result = "OK" /\ Len(pool) = PoolSize THEN Listed ELSE {}

Load == INSTANCE SystemImpl
  WITH Threads <- {}, Modules <- {Outline(b) : b \in Modules}, NoMinst <- NoModule,
       Idle <- Null, MaxIndex <- 0, next_available_minst_index <- 0, thread_minst <- <<>>,
       trap_handler <- FALSE, reported <- {}, pc <- <<>>, sys <- <<>>, held <- <<>>,
       ticket <- <<>>, all_minsts <- LoadedPool, host <- LoadCall, args <- LoadArgs,
       offered <- Offered

\* What SystemImpl takes for one step of a load, an instance or an error, is what
\* create, the lookup of exports and _initialize amount to, with the code, the
\* message and the pool that it leaves (minst.cc:117-220, wasm.cc:196-277).
ImplementsLoad == Load!Spec
===============================================================================
