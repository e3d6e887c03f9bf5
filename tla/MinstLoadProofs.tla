--------------------------- MODULE MinstLoadProofs ---------------------------
(***************************************************************************)
(* Proof that Minst implements the loads of SystemImpl: every object that  *)
(* create makes, every lookup among exports and every destructor is part   *)
(* of one step of a load there, with the same outcome, or is not seen.     *)
(***************************************************************************)
EXTENDS MinstProofs, WellFoundedInduction

-------------------------------------------------------------------------------
(* What the instance under construction says of its binary *)

\* The exports of a minst are those of the binary that is being loaded.
Describes(m) ==
  /\ DOMAIN m.exports = DOMAIN args.module.exports
  /\ \A i \in DOMAIN m.exports :
       /\ m.exports[i].name = args.module.exports[i].name
       /\ m.exports[i].kind = args.module.exports[i].kind

ResolvedUpTo(n) ==
  n <= Len(args.module.imports) /\ \A i \in 1..n : Resolved(args.module.imports[i])

AfterCreate == {"created", "exports", "initialize", "emplace"}

\* What load has found out about the binary by the time it is at a step.
Examined ==
  /\ pc \in {"resolve"} \cup AfterCreate => args.module.compiles
  /\ pc = "resolve" => ResolvedUpTo(next)
  /\ pc \in AfterCreate => ResolvedUpTo(Len(args.module.imports))
  /\ pc \in {"resolve", "created"} => Describes(self)
  /\ pc \in AfterCreate \ {"created"} => Describes(inst)

LInv == IInv /\ Examined

LEMMA BinaryTyped ==
  ASSUME IInv, pc \notin {"idle", "reset"}
  PROVE  /\ args.module \in Modules /\ args.module \in Binary
         /\ args.systems \in Seq(Systems) /\ args.systems \in Lists /\ loads # 0
         /\ loads > 0
<1>1. args \in [module: Modules, systems: Lists] /\ loads > 0
  BY DEF IInv, Calls
<1>2. QED
  BY <1>1, ConstantsOK

LEMMA ExaminedKept ==
  ASSUME Examined, UNCHANGED <<pc, args, self, inst, next>>
  PROVE  Examined'
BY DEF Examined, Describes, ResolvedUpTo

LEMMA ExaminedNext == LInv /\ [Next]_vars => Examined'
<1> SUFFICES ASSUME LInv, [Next]_vars PROVE Examined'
  OBVIOUS
<1>0. IInv /\ Examined
  BY DEF LInv
<1> USE DEF loadVars, minstVars, destroyVars
<1>1. CASE CompileModule
  <2>1. /\ args' = args /\ args.module.compiles /\ next' = 0 /\ pc' = "resolve"
        /\ args.module \in Binary
    BY <1>0, <1>1, BinaryTyped DEF CompileModule, At
  <2>2. Len(args.module.imports) \in Nat
    BY <2>1 DEF Binary
  <2>3. ResolvedUpTo(next)'
    BY <2>1, <2>2 DEF ResolvedUpTo
  <2>4. self \in Minsts
    BY <1>0, Facts
  <2>5. self'.exports = [i \in DOMAIN args.module.exports |->
                           [name |-> args.module.exports[i].name,
                            kind |-> args.module.exports[i].kind,
                            type |-> Handle("types"), object |-> Null]]
    BY <1>1, <2>4 DEF CompileModule, Minsts
  <2>6. Describes(self)'
    BY <2>1, <2>5 DEF Describes
  <2>7. QED
    BY <2>1, <2>3, <2>6 DEF Examined, AfterCreate
<1>2. CASE ResolveImport
  <2>1. /\ UNCHANGED <<args, self>> /\ pc = "resolve" /\ pc' = "resolve"
        /\ next' = next + 1 /\ next < Len(args.module.imports)
        /\ Resolved(args.module.imports[next + 1]) /\ args.module \in Binary
    BY <1>0, <1>2, BinaryTyped DEF ResolveImport, At
  <2>2. Len(args.module.imports) \in Nat /\ next \in Nat
    BY <1>0, <2>1 DEF Binary, IInv, TypeOK
  <2>3. \A i \in 1..next' : i \in 1..next \/ i = next + 1
    BY <2>1, <2>2
  <2>4. ResolvedUpTo(next)'
    BY <1>0, <2>1, <2>2, <2>3 DEF ResolvedUpTo, Examined
  <2>5. QED
    BY <1>0, <2>1, <2>4 DEF Examined, Describes, AfterCreate
<1>3. CASE Instantiate
  <2>1. /\ args' = args /\ pc = "resolve" /\ pc' = "created"
        /\ next = Len(args.module.imports)
    BY <1>3 DEF Instantiate, At
  <2>2. ResolvedUpTo(Len(args.module.imports))'
    BY <1>0, <2>1 DEF Examined, ResolvedUpTo
  <2>3. self \in Minsts /\ \A i \in DOMAIN self.exports : self.exports[i] \in Exports
    BY <1>0, Facts DEF Minsts
  <2>4. self'.exports = [i \in DOMAIN self.exports |->
                           [self.exports[i] EXCEPT !.object = Handle("externs")]]
    BY <1>3, <2>3 DEF Instantiate, Minsts
  <2>5. \A i \in DOMAIN self.exports :
          self'.exports[i].name = self.exports[i].name
          /\ self'.exports[i].kind = self.exports[i].kind
    BY <2>3, <2>4 DEF Exports
  <2>6. Describes(self)
    BY <1>0, <2>1 DEF Examined
  <2>7. Describes(self)'
    BY <2>1, <2>4, <2>5, <2>6 DEF Describes
  <2>8. QED
    BY <1>0, <2>1, <2>2, <2>7 DEF Examined, AfterCreate
<1>4. CASE ReturnMinst
  <2>1. args' = args /\ pc = "created" /\ pc' = "exports" /\ inst' = self
    BY <1>4 DEF ReturnMinst, At
  <2>2. QED
    BY <1>0, <2>1 DEF Examined, Describes, ResolvedUpTo, AfterCreate
<1>5. CASE FindExports \/ Initialize
  <2>1. /\ UNCHANGED <<args, inst>> /\ pc \in {"exports", "initialize"}
        /\ pc' \in {"initialize", "no_memory", "emplace"}
    BY <1>5 DEF FindExports, Initialize, At
  <2>2. QED
    BY <1>0, <2>1 DEF Examined, Describes, ResolvedUpTo, AfterCreate
<1>6. CASE \/ (\E module \in Modules, systems \in Lists : BeginLoad(module, systems))
           \/ Reset \/ ClearMinst \/ EndClear \/ NewStore
           \/ (\E err \in CreateErrors : FailCreate(err))
           \/ FailExports \/ FailInitialize \/ AbortInInitialize \/ EmplaceMinst
           \/ FinishLoad \/ (\E k \in DOMAIN pool : TrapInSystem(k))
  <2>1. pc' \in {"clear", "reset", "idle", "create", "compile", "bad_initialize"}
    BY <1>6 DEF BeginLoad, Reset, ClearMinst, EndClear, NewStore, FailCreate, FailExports,
                FailInitialize, AbortInInitialize, EmplaceMinst, FinishLoad, TrapInSystem,
                FailLoad, At
  <2>2. QED
    BY <2>1 DEF Examined, AfterCreate
<1>7. CASE \/ DeleteTrap \/ DeleteInstance \/ DeleteModule \/ DeleteStore
           \/ StayHalted \/ UNCHANGED vars
  <2>1. UNCHANGED <<pc, args, self, inst, next>>
    BY <1>7 DEF DeleteTrap, DeleteInstance, DeleteModule, DeleteStore, Delete,
                StayHalted, vars
  <2>2. QED
    BY <1>0, <2>1, ExaminedKept
<1>8. QED
  BY <1>1, <1>2, <1>3, <1>4, <1>5, <1>6, <1>7 DEF Next, Create

\* At each step, load has found the binary to be what it has checked so far.
THEOREM LoadExamines == Spec => []LInv
<1>1. Init => LInv
  BY InvInit DEF LInv, Init, Examined, AfterCreate
<1>2. LInv /\ [Next]_vars => LInv'
  <2>1. IInv /\ [Next]_vars => IInv'
    BY TypeNext, CallsNext, HeapNext, TrappedNext, ApartNext, PoolReadyNext, PhaseNext
       DEF IInv
  <2>2. QED
    BY <2>1, ExaminedNext DEF LInv
<1>3. QED
  BY <1>1, <1>2, PTL DEF Spec

-------------------------------------------------------------------------------
(* What load finds, and what the binary's outline says *)

\* A set of numbers that is not empty has a first one.
LEMMA FirstExists ==
  ASSUME NEW S \in SUBSET Nat, S # {}
  PROVE  First(S) # {}
<1>1. PICK x \in S : \A y \in S : ~ (<<y, x>> \in OpToRel(<, Nat))
  BY NatLessThanWellFounded, WFMin
<1>2. \A y \in S : ~ (y < x)
  BY <1>1 DEF OpToRel
<1>3. \A y \in S : x <= y
  BY <1>2
<1>4. QED
  BY <1>3 DEF First

LEMMA FirstUnique ==
  ASSUME NEW S \in SUBSET Nat, NEW i \in First(S), NEW j \in First(S)
  PROVE  i = j
BY DEF First

\* find_export gives what the binary has under the name.
LEMMA FoundIsNamed ==
  ASSUME TypeOK, Describes(inst), NEW name
  PROVE  /\ Named(name) = {} => Found(args.module, name) = {}
         /\ Named(name) # {} => Found(args.module, name) = {FindExport(name).kind}
<1>1. DOMAIN inst.exports \subseteq Nat
  BY DEF TypeOK, Minsts
<1>2. {j \in DOMAIN args.module.exports : args.module.exports[j].name = name}
        = {i \in DOMAIN inst.exports : inst.exports[i].name = name}
  BY DEF Describes
<1>3. Found(args.module, name) = {args.module.exports[i].kind : i \in Named(name)}
  BY <1>2 DEF Found, Named
<1>4. \A i \in Named(name) : inst.exports[i].kind = args.module.exports[i].kind
  BY DEF Named, First, Describes
<1>5. ASSUME Named(name) # {}
      PROVE  Found(args.module, name) = {FindExport(name).kind}
  <2>1. PICK i \in Named(name) : FindExport(name) = inst.exports[i]
    BY <1>5 DEF FindExport, ExportAt
  <2>2. \A j \in Named(name) : j = i
    BY <1>1, FirstUnique DEF Named
  <2>3. QED
    BY <1>3, <1>4, <2>1, <2>2
<1>6. QED
  BY <1>3, <1>5

LEMMA CallableInOutline ==
  ASSUME TypeOK, Describes(inst), NEW s \in Systems
  PROVE  LET o == Outline(args.module) IN
         /\ Callable(s) <=> s \in o.funcs
         /\ Named(s) = {} => s \notin o.funcs \cup o.others
         /\ Named(s) # {} => s \in o.funcs \cup o.others
<1>1. /\ Named(s) = {} => Found(args.module, s) = {}
      /\ Named(s) # {} => Found(args.module, s) = {FindExport(s).kind}
  BY FoundIsNamed
<1>2. QED
  BY <1>1 DEF Outline, Callable

LEMMA MemoryInOutline ==
  ASSUME TypeOK, Describes(inst)
  PROVE  Memories # {} <=> Outline(args.module).memory
<1>1. Memories # {} <=> \E i \in DOMAIN inst.exports : inst.exports[i].kind = "memory"
  <2> DEFINE S == {i \in DOMAIN inst.exports : inst.exports[i].kind = "memory"}
  <2>1. S \in SUBSET Nat
    BY DEF TypeOK, Minsts
  <2>2. Memories = First(S)
    BY DEF Memories
  <2>3. S # {} => First(S) # {}
    <3> HIDE DEF S
    <3>1. QED
      BY <2>1, FirstExists
  <2>4. First(S) \subseteq S
    BY DEF First
  <2>5. QED
    BY <2>2, <2>3, <2>4
<1>2. (\E i \in DOMAIN inst.exports : inst.exports[i].kind = "memory")
        <=> \E i \in DOMAIN args.module.exports : args.module.exports[i].kind = "memory"
  BY DEF Describes
<1>3. QED
  BY <1>1, <1>2 DEF Outline

-------------------------------------------------------------------------------
(* What SystemImpl sees *)

Seen == <<LoadedPool, LoadCall, LoadArgs, Offered, impls, loads, result, last_error_message>>

LEMMA SeenStutters == UNCHANGED Seen => UNCHANGED Load!vars
BY DEF Seen, Load!vars

LEMMA OutlineTyped ==
  ASSUME IInv, pc \notin {"idle", "reset"}
  PROVE  /\ LoadArgs = [module |-> Outline(args.module), systems |-> Listed]
         /\ Outline(args.module) \in {Outline(b) : b \in Modules}
         /\ Listed \subseteq Systems
<1>1. /\ args.module \in Modules /\ loads # 0 /\ args.systems \in Seq(Systems)
  BY BinaryTyped
<1>2. QED
  BY <1>1 DEF LoadArgs, Listed

\* The pool is seen as it is, except while it is cleared.
LEMMA PoolSeen ==
  ASSUME IInv
  PROVE  /\ pc \notin {"clear", "reset"} => Len(LoadedPool) = Len(pool)
         /\ pc \in {"clear", "reset"} \/ pool = <<>> => LoadedPool = <<>>
<1>1. pool \in Seq({pool[k] : k \in DOMAIN pool})
  BY Facts
<1>2. Len(pool) \in Nat /\ DOMAIN pool = 1..Len(pool)
  BY <1>1
<1>3. ASSUME pc \notin {"clear", "reset"}
      PROVE  Len(LoadedPool) = Len(pool)
  <2>1. LoadedPool = [k \in 1..Len(pool) |-> [load |-> loads, slot |-> k,
                                             exports |-> DOMAIN pool[k].sys_impl_exports]]
    BY <1>2, <1>3 DEF LoadedPool
  <2>2. QED
    BY <1>2, <2>1
<1>4. ASSUME pool = <<>>, pc \notin {"clear", "reset"}
      PROVE  LoadedPool = <<>>
  <2>1. LoadedPool = [k \in {} |-> [load |-> loads, slot |-> k,
                                   exports |-> DOMAIN pool[k].sys_impl_exports]]
    BY <1>4 DEF LoadedPool
  <2>2. QED
    BY <2>1
<1>5. QED
  BY <1>3, <1>4 DEF LoadedPool

\* A step within load, or within a reset, that is not seen.
LEMMA HiddenSteps ==
  ASSUME IInv,
         \/ DeleteTrap \/ DeleteInstance \/ DeleteModule \/ DeleteStore
         \/ ClearMinst \/ EndClear
         \/ NewStore \/ CompileModule \/ ResolveImport \/ Instantiate \/ ReturnMinst
         \/ (FindExports /\ pc' = "initialize") \/ Initialize
         \/ (\E k \in DOMAIN pool : TrapInSystem(k))
         \/ StayHalted \/ UNCHANGED vars
  PROVE  UNCHANGED Seen
<1> USE DEF loadVars, minstVars, destroyVars
<1>1. CASE \/ DeleteTrap \/ DeleteInstance \/ DeleteModule \/ DeleteStore
           \/ (\E k \in DOMAIN pool : TrapInSystem(k)) \/ StayHalted \/ UNCHANGED vars
  <2>1. UNCHANGED <<pc, pool, args, loads, impls, result, last_error_message>>
    BY <1>1 DEF DeleteTrap, DeleteInstance, DeleteModule, DeleteStore, Delete,
                TrapInSystem, StayHalted, vars
  <2>2. QED
    BY <2>1 DEF Seen, LoadedPool, LoadCall, LoadArgs, Offered, Listed, Halted
<1>2. CASE ClearMinst
  <2>1. /\ UNCHANGED <<pc, args, loads, impls, result, last_error_message>>
        /\ pc \in {"clear", "reset"}
    BY <1>2 DEF ClearMinst, At
  <2>2. QED
    BY <2>1 DEF Seen, LoadedPool, LoadCall, LoadArgs, Offered, Listed, Halted
<1>3. CASE EndClear
  <2>1. /\ UNCHANGED <<pool, args, loads, impls, result, last_error_message>>
        /\ pool = <<>> /\ LoadedPool = <<>>
        /\ \/ pc = "clear" /\ pc' = "create"
           \/ pc = "reset" /\ pc' = "idle"
    BY <1>3, PoolSeen DEF EndClear, At
  <2>3. LoadedPool' = <<>>
    <3>1. LoadedPool' = [k \in {} |-> [load |-> loads, slot |-> k,
                                      exports |-> DOMAIN pool[k].sys_impl_exports]]
      BY <2>1 DEF LoadedPool
    <3>2. QED
      BY <3>1
  <2>4. PoolSize # 0 /\ Len(<<>>) = 0
    BY ConstantsOK
  <2>5. Offered = {} /\ Offered' = {}
    BY <2>1, <2>4 DEF Offered
  <2>6. LoadCall' = LoadCall /\ LoadArgs' = LoadArgs
    BY <2>1 DEF LoadCall, LoadArgs, Listed, Halted, Loading
  <2>7. QED
    BY <2>1, <2>3, <2>5, <2>6 DEF Seen
<1>4. CASE \/ NewStore \/ CompileModule \/ ResolveImport \/ Instantiate \/ ReturnMinst
           \/ (FindExports /\ pc' = "initialize") \/ Initialize
  <2>1. /\ UNCHANGED <<pool, args, loads, impls, result, last_error_message>>
        /\ {pc, pc'} \subseteq Loading \ {"clear"}
    BY <1>4 DEF NewStore, CompileModule, ResolveImport, Instantiate, ReturnMinst,
                FindExports, Initialize, At, Loading
  <2>2. QED
    BY <2>1 DEF Seen, LoadedPool, LoadCall, LoadArgs, Offered, Listed, Loading
<1>5. QED
  BY <1>1, <1>2, <1>3, <1>4

\* The frame of the actions of SystemImpl: what a load has no part in.
LEMMA ThreadsUnseen == UNCHANGED <<Load!threadVars, Load!handlerVars>>
BY DEF Load!threadVars, Load!handlerVars

LEMMA BeginIsSeen ==
  ASSUME LInv, NEW module \in Modules, NEW systems \in Lists, BeginLoad(module, systems)
  PROVE  Load!Next
<1> DEFINE listed == {systems[n] : n \in DOMAIN systems}
<1>1. /\ pc = "idle" /\ pc' = "clear" /\ loads' = loads + 1 /\ loads < MaxLoads
      /\ args' = [module |-> module, systems |-> systems] /\ result' = "NONE"
      /\ UNCHANGED <<pool, impls, last_error_message>> /\ loads' # 0
  BY ConstantsOK DEF BeginLoad, At, LInv, IInv, TypeOK, minstVars, destroyVars
<1>2. LoadCall = "idle" /\ LoadCall' = "load" /\ LoadedPool' = <<>> /\ Offered' = {}
  BY <1>1 DEF LoadCall, LoadedPool, Offered, Halted, Loading
<1>3. LoadArgs' = [module |-> Outline(module), systems |-> listed]
  BY <1>1 DEF LoadArgs, Listed
<1>4. Outline(module) \in {Outline(b) : b \in Modules} /\ listed \in SUBSET Systems
  BY ConstantsOK
<1>5. Load!BeginLoad(Outline(module), listed)
  BY <1>1, <1>2, <1>3, ThreadsUnseen DEF Load!BeginLoad, Load!HostCalls, Load!Halted
<1>6. QED
  BY <1>4, <1>5 DEF Load!Next, Load!HostStep

LEMMA ResetIsSeen ==
  ASSUME LInv, Reset
  PROVE  Load!Next
<1>1. /\ pc = "idle" /\ pc' = "reset"
      /\ UNCHANGED <<pool, impls, args, loads, result, last_error_message>>
  BY DEF Reset, At, minstVars, destroyVars, loadVars
<1>2. /\ LoadCall = "idle" /\ LoadCall' = LoadCall /\ LoadArgs' = LoadArgs
      /\ LoadedPool' = <<>> /\ Offered' = {}
  BY <1>1 DEF LoadCall, LoadArgs, LoadedPool, Offered, Halted, Loading, Listed
<1>3. Load!Reset
  BY <1>1, <1>2, ThreadsUnseen DEF Load!Reset, Load!HostCalls, Load!Halted
<1>4. QED
  BY <1>3 DEF Load!Next, Load!HostStep

\* An instance is being created, or being looked at.
LEMMA BuildingSeen ==
  ASSUME LInv, pc \in {"compile", "resolve"} \cup AfterCreate
  PROVE  /\ LoadCall = "load" /\ Load!Building /\ Offered = {}
         /\ LoadArgs.module = Outline(args.module) /\ LoadArgs.systems = Listed
         /\ Len(LoadedPool) = Len(pool)
<1>1. Len(pool) < PoolSize /\ Len(LoadedPool) = Len(pool) /\ LoadCall = "load"
  BY PoolSeen DEF LInv, IInv, Calls, AfterCreate, LoadCall, Loading
<1>2. QED
  BY <1>1, OutlineTyped DEF LInv, Load!Building, Offered, AfterCreate

\* Once create has returned, the binary has compiled and resolved.
LEMMA CreatableSeen ==
  ASSUME LInv, pc \in AfterCreate
  PROVE  Load!Creatable
<1>1. args.module \in Binary /\ args.module.compiles
  BY BinaryTyped DEF LInv, Examined, AfterCreate
<1>2. \A i \in DOMAIN args.module.imports : Resolved(args.module.imports[i])
  BY <1>1 DEF Binary, LInv, Examined, ResolvedUpTo
<1>3. QED
  BY <1>1, <1>2, BuildingSeen DEF Load!Creatable, Outline

\* An error return leaves the pool and the load as they are.
LEMMA FailSeen ==
  ASSUME LInv, pc \in {"compile", "resolve"} \cup AfterCreate, pc' = "idle", result' # "OK",
         UNCHANGED <<pool, args, loads>>
  PROVE  /\ LoadCall' = "idle" /\ LoadedPool' = LoadedPool /\ LoadArgs' = LoadArgs
         /\ Offered' = Offered
<1>1. Offered = {}
  BY BuildingSeen
<1>2. QED
  BY <1>1 DEF LoadCall, LoadedPool, LoadArgs, Offered, Listed, Halted, Loading, AfterCreate

LEMMA FailCreateIsSeen ==
  ASSUME LInv, NEW err \in CreateErrors, FailCreate(err)
  PROVE  Load!Next
<1>1. /\ pc \in {"compile", "resolve"} /\ pc' = "idle" /\ result' = err /\ err # "OK"
      /\ last_error_message' = loads /\ UNCHANGED <<pool, args, loads, impls>>
  BY DEF FailCreate, At, CreateErrors
<1>2. args.module \in Binary
  BY <1>1, BinaryTyped DEF LInv
<1>3. LoadArgs.module = Outline(args.module) /\ Load!Building
  BY <1>1, BuildingSeen
<1>4. \/ err = "COMPILE_FAIL" /\ ~LoadArgs.module.compiles
      \/ err = "GUEST_IMPORT_INVALID" /\ LoadArgs.module.compiles /\ ~LoadArgs.module.resolves
      \/ err = "INSTANTIATE_FAIL" /\ LoadArgs.module.compiles /\ LoadArgs.module.resolves
  <2>1. CASE At("compile") /\ ~args.module.compiles /\ err = "COMPILE_FAIL"
    BY <1>3, <2>1 DEF Outline
  <2>2. CASE /\ At("resolve") /\ next < Len(args.module.imports)
             /\ ~Resolved(args.module.imports[next + 1])
             /\ err = "GUEST_IMPORT_INVALID"
    <3>1. next + 1 \in DOMAIN args.module.imports
      BY <1>2, <2>2 DEF Binary, LInv, IInv, TypeOK
    <3>2. args.module.compiles
      BY <2>2 DEF At, LInv, Examined
    <3>3. QED
      BY <1>3, <2>2, <3>1, <3>2 DEF Outline
  <2>3. CASE At("resolve") /\ next = Len(args.module.imports) /\ err = "INSTANTIATE_FAIL"
    <3>1. args.module.compiles /\ ResolvedUpTo(Len(args.module.imports))
      BY <2>3 DEF At, LInv, Examined
    <3>2. \A i \in DOMAIN args.module.imports : Resolved(args.module.imports[i])
      BY <1>2, <3>1 DEF Binary, ResolvedUpTo
    <3>3. QED
      BY <1>3, <2>3, <3>1, <3>2 DEF Outline
  <2>4. QED
    BY <2>1, <2>2, <2>3 DEF FailCreate
<1>5. Load!FailCreate(err)
  BY <1>1, <1>3, <1>4, FailSeen, ThreadsUnseen DEF Load!FailCreate, Load!Creatable
<1>6. QED
  BY <1>5 DEF Load!Next, Load!HostStep, CreateErrors, Load!CreateErrors

LEMMA FailExportsIsSeen ==
  ASSUME LInv, FailExports
  PROVE  Load!Next
<1>1. PICK n \in DOMAIN args.systems :
        /\ ~Callable(args.systems[n])
        /\ FailLoad(IF Named(args.systems[n]) = {} THEN "EXPORT_NOT_FOUND"
                    ELSE "EXPORT_INVALID")
  BY DEF FailExports
<1> DEFINE s == args.systems[n]
           err == IF Named(s) = {} THEN "EXPORT_NOT_FOUND" ELSE "EXPORT_INVALID"
<1>2. /\ pc = "exports" /\ pc' = "idle" /\ result' = err
      /\ UNCHANGED <<pool, args, loads, impls, last_error_message>>
  BY <1>1 DEF FailExports, FailLoad, At
<1>3. s \in Systems /\ s \in Listed
  BY <1>2, BinaryTyped DEF LInv, Listed
<1>4. TypeOK /\ Describes(inst) /\ pc \in AfterCreate
  BY <1>2 DEF LInv, IInv, Examined, AfterCreate
<1>5. /\ s \notin Outline(args.module).funcs
      /\ Named(s) = {} => s \notin Outline(args.module).funcs \cup Outline(args.module).others
      /\ Named(s) # {} => s \in Outline(args.module).funcs \cup Outline(args.module).others
  BY <1>1, <1>3, <1>4, CallableInOutline
<1>6. Load!Building /\ Load!Creatable /\ LoadArgs.module = Outline(args.module)
      /\ LoadArgs.systems = Listed
  BY <1>4, BuildingSeen, CreatableSeen
<1>7. \/ err = "EXPORT_NOT_FOUND" /\ Load!Missing(s)
      \/ err = "EXPORT_INVALID" /\ ~Load!Missing(s) /\ s \notin LoadArgs.module.funcs
  BY <1>5, <1>6 DEF Load!Missing
<1>8. /\ LoadCall' = "idle" /\ LoadedPool' = LoadedPool /\ LoadArgs' = LoadArgs
      /\ Offered' = Offered
  BY <1>2, <1>4, FailSeen
<1>9. Load!FailExports(err)
  <2> HIDE DEF err
  <2>1. QED
    BY <1>2, <1>3, <1>6, <1>7, <1>8, ThreadsUnseen DEF Load!FailExports
<1>10. err \in Load!ExportErrors
  BY DEF Load!ExportErrors
<1>11. QED
  <2> HIDE DEF err
  <2>1. QED
    BY <1>9, <1>10 DEF Load!Next, Load!HostStep

\* When all systems of the list have been found.
LEMMA ExportsFoundSeen ==
  ASSUME LInv, pc \in AfterCreate \ {"created"},
         \A n \in DOMAIN args.systems : Callable(args.systems[n])
  PROVE  Load!ExportsFound /\ (LoadArgs.module.memory <=> Memories # {})
<1>1. TypeOK /\ Describes(inst) /\ args.systems \in Seq(Systems)
  BY BinaryTyped DEF LInv, IInv, Examined, AfterCreate
<1>2. ASSUME NEW n \in DOMAIN args.systems
      PROVE  args.systems[n] \in Outline(args.module).funcs
  <2>1. args.systems[n] \in Systems
    BY <1>1
  <2>2. QED
    BY <1>1, <1>2, <2>1, CallableInOutline
<1>3. Listed \subseteq Outline(args.module).funcs
  BY <1>2 DEF Listed
<1>4. QED
  BY <1>1, <1>3, BuildingSeen, CreatableSeen, MemoryInOutline DEF Load!ExportsFound, AfterCreate

\* An assertion of load, or of func_call, ends the process.
LEMMA AbortIsSeen ==
  ASSUME LInv, (FindExports /\ pc' # "initialize") \/ AbortInInitialize
  PROVE  Load!Next
<1> USE DEF minstVars, destroyVars, loadVars
<1>1. /\ pc \in AfterCreate \ {"created"} /\ pc' \in {"no_memory", "bad_initialize"}
      /\ UNCHANGED <<pool, args, loads, impls, result, last_error_message>>
  BY DEF FindExports, AbortInInitialize, At, AfterCreate
<1>2. \A n \in DOMAIN args.systems : Callable(args.systems[n])
  BY DEF FindExports, AbortInInitialize, At, LInv, IInv, Phase
<1>3. Load!ExportsFound /\ (LoadArgs.module.memory <=> Memories # {})
  BY <1>1, <1>2, ExportsFoundSeen
<1>4. /\ LoadCall' = pc' /\ LoadedPool' = LoadedPool /\ LoadArgs' = LoadArgs
      /\ Offered' = Offered
  BY <1>1 DEF LoadCall, LoadedPool, LoadArgs, Offered, Listed, Halted, Loading, AfterCreate
<1>5. CASE FindExports /\ pc' # "initialize"
  <2>1. pc' = "no_memory" /\ Memories = {}
    BY <1>5 DEF FindExports
  <2>2. Load!AbortWithoutMemory
    BY <1>1, <1>3, <1>4, <2>1, ThreadsUnseen DEF Load!AbortWithoutMemory, Load!loaderVars
  <2>3. QED
    BY <2>2 DEF Load!Next, Load!HostStep
<1>6. CASE AbortInInitialize
  <2>1. pc' = "bad_initialize" /\ Memories # {}
    BY <1>6 DEF AbortInInitialize, At, LInv, IInv, Phase
  <2>2. Load!AbortInInitialize
    BY <1>1, <1>3, <1>4, <2>1, ThreadsUnseen DEF Load!AbortInInitialize, Load!loaderVars
  <2>3. QED
    BY <2>2 DEF Load!Next, Load!HostStep
<1>7. QED
  BY <1>5, <1>6

LEMMA FailInitializeIsSeen ==
  ASSUME LInv, FailInitialize
  PROVE  Load!Next
<1>1. /\ pc = "initialize" /\ pc' = "idle" /\ result' = "INITIALIZE_FAIL"
      /\ UNCHANGED <<pool, args, loads, impls, last_error_message>>
  BY DEF FailInitialize, FailLoad, At
<1>2. /\ Memories # {} /\ \A n \in DOMAIN args.systems : Callable(args.systems[n])
      /\ pc \in AfterCreate \ {"created"}
  BY <1>1 DEF LInv, IInv, Phase, AfterCreate
<1>3. Load!ExportsFound /\ LoadArgs.module.memory
  BY <1>2, ExportsFoundSeen
<1>4. /\ LoadCall' = "idle" /\ LoadedPool' = LoadedPool /\ LoadArgs' = LoadArgs
      /\ Offered' = Offered
  BY <1>1, <1>2, FailSeen
<1>5. Load!FailInitialize
  BY <1>1, <1>3, <1>4, ThreadsUnseen DEF Load!FailInitialize
<1>6. QED
  BY <1>5 DEF Load!Next, Load!HostStep

\* The pool grows by the instance that has been made.
LEMMA PoolGrows ==
  ASSUME LInv, EmplaceMinst
  PROVE  LoadedPool' = Append(LoadedPool, [load |-> loads, slot |-> Len(LoadedPool) + 1,
                                           exports |-> Listed])
<1> DEFINE View(n, q) == [load |-> n, slot |-> q, exports |-> DOMAIN pool'[q].sys_impl_exports]
           N == Len(pool)
           p == [minst |-> inst, memory |-> WasmMem,
                 sys_impl_exports |-> [s \in Listed |-> FindExport(s)]]
<1>1. /\ pool \in Seq({pool[k] : k \in DOMAIN pool}) /\ pc = "emplace" /\ pc' = "create"
      /\ UNCHANGED <<loads, args>>
  BY Facts DEF EmplaceMinst, At, LInv, loadVars
<1>2. pool' = Append(pool, p) /\ DOMAIN p.sys_impl_exports = Listed
  BY DEF EmplaceMinst, Listed
<1> HIDE DEF p
<1>3. /\ N \in Nat /\ DOMAIN pool = 1..N /\ DOMAIN pool' = 1..(N + 1) /\ pool'[N + 1] = p
      /\ \A k \in 1..N : pool'[k] = pool[k]
  BY <1>1, <1>2
<1>4. LoadedPool = [k \in 1..N |-> View(loads, k)]
  BY <1>1, <1>3 DEF LoadedPool
<1>5. LoadedPool' = [k \in 1..(N + 1) |-> View(loads, k)]
  BY <1>1, <1>3 DEF LoadedPool
<1>6. View(loads, N + 1) = [load |-> loads, slot |-> N + 1, exports |-> Listed]
  BY <1>2, <1>3
<1>7. Append([k \in 1..N |-> View(loads, k)], View(loads, N + 1))
        = [k \in 1..(N + 1) |-> View(loads, k)]
  <2> HIDE DEF View
  <2>1. [k \in 1..N |-> View(loads, k)] \in Seq({View(loads, k) : k \in 1..(N + 1)})
    BY <1>3
  <2>2. QED
    BY <1>3, <2>1
<1>8. Len(LoadedPool) = N
  BY <1>1, PoolSeen DEF LInv
<1>9. QED
  BY <1>4, <1>5, <1>6, <1>7, <1>8

LEMMA EmplaceIsSeen ==
  ASSUME LInv, EmplaceMinst
  PROVE  Load!Next
<1>1. /\ pc = "emplace" /\ pc' = "create"
      /\ UNCHANGED <<args, loads, impls, result, last_error_message>>
  BY DEF EmplaceMinst, At, loadVars
<1>2. /\ Memories # {} /\ \A n \in DOMAIN args.systems : Callable(args.systems[n])
      /\ pc \in AfterCreate \ {"created"}
  BY <1>1 DEF LInv, IInv, Phase, AfterCreate
<1>3. Load!ExportsFound /\ LoadArgs.module.memory /\ LoadArgs.systems = Listed
  BY <1>2, ExportsFoundSeen, BuildingSeen
<1>4. LoadCall' = LoadCall /\ LoadArgs' = LoadArgs /\ Offered' = Offered
  BY <1>1 DEF LoadCall, LoadArgs, Offered, Listed, Halted, Loading
<1>5. Load!EmplaceMinst
  BY <1>1, <1>3, <1>4, PoolGrows, ThreadsUnseen DEF Load!EmplaceMinst
<1>6. QED
  BY <1>5 DEF Load!Next, Load!HostStep

LEMMA FinishIsSeen ==
  ASSUME LInv, FinishLoad
  PROVE  Load!Next
<1>1. /\ pc = "create" /\ pc' = "idle" /\ Len(pool) = PoolSize /\ result' = "OK"
      /\ impls' = impls \cup Listed
      /\ UNCHANGED <<pool, args, loads, last_error_message>>
  BY DEF FinishLoad, At, Listed, minstVars, destroyVars
<1>2. LoadCall = "load" /\ Len(LoadedPool) = PoolSize /\ LoadArgs.systems = Listed
  BY <1>1, PoolSeen, OutlineTyped DEF LInv, LoadCall, Loading
<1>3. /\ LoadCall' = "idle" /\ LoadedPool' = LoadedPool /\ LoadArgs' = LoadArgs
      /\ Offered' = Listed
  BY <1>1 DEF LoadCall, LoadedPool, LoadArgs, Offered, Listed, Halted, Loading
<1>4. Load!FinishLoad
  BY <1>1, <1>2, <1>3, ThreadsUnseen DEF Load!FinishLoad
<1>5. QED
  BY <1>4 DEF Load!Next, Load!HostStep

-------------------------------------------------------------------------------
(* The theorem *)

\* Creating an instance object by object, looking up its exports by name,
\* moving it into the pool and destroying it on every error return is what
\* SystemImpl takes for one step of a load, with the same code, message and
\* pool (minst.cc:117-220, wasm.cc:196-277).
THEOREM MinstImplementsLoad == Spec => ImplementsLoad
<1>1. Init => Load!Init
  <2> SUFFICES ASSUME Init PROVE Load!Init
    OBVIOUS
  <2>1. /\ pc = "idle" /\ pool = <<>> /\ loads = 0 /\ impls = {} /\ result = "NONE"
        /\ last_error_message = 0 /\ args.systems = <<>>
    BY DEF Init
  <2>2. LoadCall = "idle" /\ Offered = {}
    BY <2>1 DEF LoadCall, Offered, Halted, Loading
  <2>3. LoadedPool = <<>>
    BY <2>1, InvInit, PoolSeen
  <2>4. LoadArgs = [module |-> NoModule, systems |-> {}]
    BY <2>1 DEF LoadArgs, Listed
  <2>5. \A x : [t \in {} |-> x] = <<>>
    OBVIOUS
  <2>6. QED
    BY <2>1, <2>2, <2>3, <2>4, <2>5 DEF Load!Init
<1>2. LInv /\ [Next]_vars => [Load!Next]_(Load!vars)
  <2> SUFFICES ASSUME LInv, [Next]_vars PROVE [Load!Next]_(Load!vars)
    OBVIOUS
  <2>1. CASE \/ DeleteTrap \/ DeleteInstance \/ DeleteModule \/ DeleteStore
             \/ ClearMinst \/ EndClear
             \/ NewStore \/ CompileModule \/ ResolveImport \/ Instantiate \/ ReturnMinst
             \/ (FindExports /\ pc' = "initialize") \/ Initialize
             \/ (\E k \in DOMAIN pool : TrapInSystem(k))
             \/ StayHalted \/ UNCHANGED vars
    BY <2>1, HiddenSteps, SeenStutters DEF LInv
  <2>2. CASE \E module \in Modules, systems \in Lists : BeginLoad(module, systems)
    BY <2>2, BeginIsSeen
  <2>3. CASE \E err \in CreateErrors : FailCreate(err)
    BY <2>3, FailCreateIsSeen
  <2>4. CASE \/ Reset \/ FailExports \/ (FindExports /\ pc' # "initialize")
             \/ AbortInInitialize \/ FailInitialize \/ EmplaceMinst \/ FinishLoad
    BY <2>4, ResetIsSeen, FailExportsIsSeen, AbortIsSeen, FailInitializeIsSeen, EmplaceIsSeen,
       FinishIsSeen
  <2>5. QED
    BY <2>1, <2>2, <2>3, <2>4 DEF Next, Create
<1>3. QED
  BY <1>1, <1>2, LoadExamines, PTL DEF Spec, ImplementsLoad, Load!Spec
===============================================================================
