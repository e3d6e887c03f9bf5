----------------------------- MODULE MinstProofs -----------------------------
(***************************************************************************)
(* Proofs about Minst: for every set of binaries, every size of the pool   *)
(* and every number of loads.                                              *)
(***************************************************************************)
EXTENDS Minst, TLAPS

-------------------------------------------------------------------------------
(* The inductive invariant *)

Object(kind, n) == [kind |-> kind, of |-> n]

\* What create has built of a minst, or its destructor has left: all of it was
\* made for one store.
Formed(m) ==
  /\ m.store = Null => m = NoParts
  /\ m.module = Null => m.instance = Null
  /\ m.store # Null =>
       /\ m.store \in [kind: {"store"}, of: 1..made]
       /\ m.module \in {Null, Object("module", m.store.of)}
       /\ m.instance \in {Null, Object("instance", m.store.of)}

\* What an export points to, if it has been linked to the instance of m.
Valid(e) ==
  /\ e.type \in live /\ e.type.kind = "types"
  /\ e.object # Null => e.object \in live /\ e.object.kind = "externs"
Linked(e, m) == e.object = Object("externs", m.store.of)
Whole(m) == m.instance # Null /\ \A i \in DOMAIN m.exports : Linked(m.exports[i], m)

\* All minsts that exist.
Roles == {self, inst, dying} \cup {pool[k].minst : k \in DOMAIN pool}

HasOwner(h) ==
  \/ h.kind \in {"types", "funcs", "externs"}
  \/ h = trap
  \/ \E m \in Roles : h \in Owned(m)

Heap ==
  /\ \A m \in Roles : Formed(m)
  /\ \A m \in Roles : Owned(m) \subseteq live
  /\ \A m \in Roles : \A i \in DOMAIN m.exports : Valid(m.exports[i])
  /\ \A h \in live : HasOwner(h)

Trapped ==
  trap # Null =>
    /\ pc = "idle" /\ trap \in live
    /\ \E m \in Roles : m.store # Null /\ trap = Object("trap", m.store.of)

\* Each minst of the pool has a store of its own.
Apart ==
  /\ \A k, l \in DOMAIN pool : pool[k].minst.store = pool[l].minst.store => k = l
  /\ \A k \in DOMAIN pool : pool[k].minst.store \notin {self.store, inst.store, dying.store}

\* A member of the pool is complete and refers to its own instance.
Ready(p) ==
  /\ Whole(p.minst)
  /\ Valid(p.memory) /\ Linked(p.memory, p.minst) /\ p.memory.kind = "memory"
  /\ \A s \in DOMAIN p.sys_impl_exports :
       LET e == p.sys_impl_exports[s] IN
       Valid(e) /\ Linked(e, p.minst) /\ e.kind = "func" /\ e.name = s

PoolReady == \A k \in DOMAIN pool : Ready(pool[k])

\* Where the minst that is being made or destroyed is, by the step of load.
Phase ==
  /\ pc = "compile" => self.store = Object("store", made) /\ self.module = Null
  /\ pc = "resolve" => self.store = Object("store", made) /\ self.module # Null
                       /\ self.instance = Null
  /\ pc = "created" => self.store = Object("store", made) /\ Whole(self)
  /\ pc \notin {"compile", "resolve", "created"} => self = NoParts
  /\ IF pc \in {"exports", "initialize", "emplace", "no_memory", "bad_initialize"}
     THEN inst.store = Object("store", made) /\ Whole(inst)
     ELSE inst = NoParts
  /\ pc \notin {"idle", "clear", "reset"} => dying = NoParts
  /\ pc \in {"initialize", "emplace"} =>
       /\ Memories # {}
       /\ \A n \in DOMAIN args.systems : Callable(args.systems[n])

\* create is called at most once for each place in the pool of each load.
Calls ==
  /\ pc \notin {"idle", "reset"} =>
       loads > 0 /\ args \in [module: Modules, systems: Lists]
  /\ pc \in {"idle", "clear", "reset"} => made <= loads * PoolSize
  /\ pc = "clear" => made <= (loads - 1) * PoolSize
  /\ pc = "create" => made <= (loads - 1) * PoolSize + Len(pool)
  /\ pc \notin {"idle", "clear", "reset", "create"} =>
       made <= (loads - 1) * PoolSize + Len(pool) + 1 /\ Len(pool) < PoolSize

IInv == TypeOK /\ Calls /\ Heap /\ Trapped /\ Apart /\ PoolReady /\ Phase

-------------------------------------------------------------------------------
(* Type correctness *)

LEMMA NoPartsTyped == NoParts \in Minsts /\ Owned(NoParts) = {}
<1>1. <<>> \in Seq(Exports)
  OBVIOUS
<1>2. QED
  BY <1>1 DEF NoParts, Minsts, Pointers, Owned

\* Objects are numbered upwards: what has its type keeps it.
LEMMA TypesGrow ==
  ASSUME made \in Nat, made' \in Nat, made <= made'
  PROVE  /\ Handles \subseteq Handles' /\ Exports \subseteq Exports'
         /\ Minsts \subseteq Minsts'
<1>1. Handles \subseteq Handles' /\ Pointers \subseteq Pointers'
  BY DEF Handles, Pointers
<1>2. Exports \subseteq Exports'
  BY <1>1 DEF Exports
<1>3. Seq(Exports) \subseteq Seq(Exports')
  BY <1>2
<1>4. Minsts \subseteq Minsts'
  BY <1>1, <1>3 DEF Minsts
<1>5. QED
  BY <1>1, <1>2, <1>4

\* Null is not the object of anything.
LEMMA ObjectsAreSet ==
  ASSUME NEW kind \in Objects, NEW n \in Nat
  PROVE  Object(kind, n) # Null
BY ConstantsOK DEF Object

\* The pool holds nothing but typed minsts.
PoolTyped ==
  \A k \in DOMAIN pool :
    /\ pool[k].minst \in Minsts
    /\ pool[k].memory \in Exports
    /\ \A s \in DOMAIN pool[k].sys_impl_exports :
         pool[k].sys_impl_exports[s] \in Exports

LEMMA SeqOfItsElements ==
  ASSUME NEW S, NEW s \in Seq(S)
  PROVE  s \in Seq({s[k] : k \in DOMAIN s})
OBVIOUS

PoolIsSeq == pool \in Seq({pool[k] : k \in DOMAIN pool})

LEMMA PoolStaysTyped ==
  ASSUME TypeOK, made' \in Nat, made <= made', UNCHANGED pool
  PROVE  PoolTyped' /\ PoolIsSeq'
<1>1. PoolTyped'
  BY TypesGrow DEF TypeOK, PoolTyped
<1>2. PoolIsSeq
  BY DEF TypeOK, PoolIsSeq
<1>4. PoolIsSeq'
  BY <1>2, SeqOfItsElements DEF PoolIsSeq
<1>5. QED
  BY <1>1, <1>4

\* A step that leaves the pool and calls no create has the rest to type.
LEMMA TypeKept ==
  ASSUME TypeOK, UNCHANGED <<made, pool>>,
         live' \subseteq Handles,
         pc' \in Loading \cup {"idle", "reset", "no_memory", "bad_initialize"},
         args' \in [module: Modules \cup {NoModule}, systems: Lists \cup {<<>>}],
         next' \in Nat, self' \in Minsts, inst' \in Minsts, dying' \in Minsts,
         trap' \in Pointers, loads' \in 0..MaxLoads, impls' \subseteq Systems,
         last_error_message' \in 0..MaxLoads
  PROVE  TypeOK'
<1>1. made \in Nat /\ made <= made'
  <2>1. MaxLoads * PoolSize \in Nat
    BY ConstantsOK
  <2>2. QED
    BY <2>1 DEF TypeOK
<1>2. PoolTyped' /\ PoolIsSeq'
  BY <1>1, PoolStaysTyped
<1>3. Handles' = Handles /\ Pointers' = Pointers /\ Minsts' = Minsts
  BY DEF Handles, Pointers, Exports, Minsts
<1>4. made' \in 0..(MaxLoads * PoolSize) /\ Len(pool') <= PoolSize
  BY DEF TypeOK
<1>5. QED
  BY <1>2, <1>3, <1>4 DEF TypeOK, PoolTyped, PoolIsSeq, Loading

LEMMA TypeInit == Init => TypeOK /\ Calls
<1>1. <<>> \in Seq({}) /\ Len(<<>>) = 0 /\ DOMAIN <<>> = {}
  OBVIOUS
<1>2. ASSUME Init PROVE made = 0 /\ loads = 0 /\ pool = <<>> /\ 0 \in 0..(MaxLoads * PoolSize)
  <2>1. MaxLoads * PoolSize \in Nat
    BY ConstantsOK
  <2>2. QED
    BY <1>2, <2>1 DEF Init
<1>3. QED
  BY <1>1, <1>2, NoPartsTyped, ConstantsOK DEF Init, TypeOK, Calls, Pointers, Loading

LEMMA Products ==
  ASSUME NEW n \in Nat, NEW m \in Nat, n <= m
  PROVE  /\ n * PoolSize \in Nat /\ (n - 1) * PoolSize \in Int
         /\ (n - 1) * PoolSize + PoolSize = n * PoolSize
         /\ n * PoolSize <= m * PoolSize
<1>1. PoolSize \in Nat
  BY ConstantsOK
<1>2. m = n + (m - n) /\ m - n \in Nat
  OBVIOUS
<1>3. (n + (m - n)) * PoolSize = n * PoolSize + (m - n) * PoolSize
  BY <1>1
<1>4. (m - n) * PoolSize >= 0
  BY <1>1, <1>2
<1>5. n * PoolSize \in Nat /\ (n - 1) * PoolSize \in Int /\ (m - n) * PoolSize \in Int
  BY <1>1
<1>6. (n - 1) * PoolSize + PoolSize = n * PoolSize
  BY <1>1
<1>7. m * PoolSize = n * PoolSize + (m - n) * PoolSize
  BY <1>2, <1>3
<1>8. QED
  BY <1>4, <1>5, <1>6, <1>7

LEMMA CallsNext == IInv /\ [Next]_vars => Calls' /\ made' \in 0..(MaxLoads * PoolSize)
<1> SUFFICES ASSUME IInv, [Next]_vars
             PROVE  Calls' /\ made' \in 0..(MaxLoads * PoolSize)
  OBVIOUS
<1>0. /\ loads \in Nat /\ MaxLoads \in Nat /\ loads <= MaxLoads /\ made \in Nat
      /\ made <= MaxLoads * PoolSize /\ PoolSize \in Nat
      /\ pool \in Seq({pool[k] : k \in DOMAIN pool}) /\ Len(pool) \in Nat
      /\ Len(pool) <= PoolSize
  BY ConstantsOK DEF IInv, TypeOK
<1>a. /\ (loads - 1) * PoolSize \in Int /\ loads * PoolSize \in Int
      /\ (loads - 1) * PoolSize + PoolSize = loads * PoolSize
      /\ loads * PoolSize <= MaxLoads * PoolSize /\ MaxLoads * PoolSize \in Nat
  BY <1>0, Products
<1> USE DEF loadVars, minstVars, destroyVars
<1>1. CASE \E module \in Modules, systems \in Lists : BeginLoad(module, systems)
  <2>1. PICK module \in Modules, systems \in Lists : BeginLoad(module, systems)
    BY <1>1
  <2>2. (loads' - 1) * PoolSize = loads * PoolSize /\ loads' > 0
        /\ pc' = "clear" /\ made' = made /\ made <= loads * PoolSize
    BY <2>1, <1>0 DEF BeginLoad, At, IInv, Calls
  <2>3. loads' * PoolSize = (loads' - 1) * PoolSize + PoolSize
    BY <2>1, <1>0 DEF BeginLoad
  <2>4. made' <= loads' * PoolSize
    BY <2>2, <2>3, <1>0, <1>a
  <2>5. args' \in [module: Modules, systems: Lists]
    BY <2>1 DEF BeginLoad
  <2>6. QED
    BY <2>2, <2>4, <2>5, <1>0, <1>a DEF Calls
<1>2. CASE NewStore
  <2>1. /\ loads > 0 /\ args \in [module: Modules, systems: Lists]
        /\ made <= (loads - 1) * PoolSize + Len(pool) /\ Len(pool) < PoolSize
    BY <1>2, <1>0 DEF NewStore, Building, At, IInv, Calls
  <2>2. /\ made' = made + 1 /\ pc' = "compile" /\ UNCHANGED <<pool, loads, args>>
    BY <1>2 DEF NewStore
  <2>3. made' <= (loads - 1) * PoolSize + Len(pool) + 1
    BY <2>1, <2>2, <1>0, <1>a
  <2>4. made' <= loads * PoolSize
    BY <2>3, <2>1, <2>2, <1>0, <1>a
  <2>5. made' \in 0..(MaxLoads * PoolSize)
    BY <2>4, <2>2, <1>0, <1>a
  <2>6. QED
    BY <2>1, <2>2, <2>3, <2>5 DEF Calls
<1>3. CASE EndClear
  <2>1. pool = <<>> /\ Len(<<>>) = 0 /\ UNCHANGED <<pool, made, loads, args>>
    BY <1>3 DEF EndClear
  <2>2. \/ pc = "clear" /\ pc' = "create"
        \/ pc = "reset" /\ pc' = "idle"
    BY <1>3 DEF EndClear, At
  <2>3. CASE pc = "clear"
    BY <2>1, <2>2, <2>3, <1>0, <1>a DEF IInv, Calls
  <2>4. CASE pc = "reset"
    BY <2>1, <2>2, <2>4, <1>0, <1>a DEF IInv, Calls
  <2>5. QED
    BY <2>2, <2>3, <2>4
<1>4. CASE EmplaceMinst
  <2>1. pc = "emplace" /\ pc' = "create" /\ Len(pool') = Len(pool) + 1
        /\ UNCHANGED <<made, loads, args>>
    BY <1>4, <1>0 DEF EmplaceMinst, At
  <2>2. QED
    BY <2>1, <1>0, <1>a DEF IInv, Calls
<1>5. CASE ClearMinst
  <2>1. pc \in {"clear", "reset"} /\ UNCHANGED <<pc, made, loads, args>>
    BY <1>5 DEF ClearMinst, At
  <2>2. QED
    BY <2>1, <1>0, <1>a DEF IInv, Calls
<1>6. CASE FinishLoad \/ \E err \in CreateErrors : FailCreate(err)
  <2>1. pc \in {"create", "compile", "resolve"} /\ pc' = "idle"
        /\ UNCHANGED <<pool, made, loads, args>>
    BY <1>6 DEF FinishLoad, FailCreate, At
  <2>2. made <= (loads - 1) * PoolSize + PoolSize
    BY <2>1, <1>0, <1>a DEF IInv, Calls
  <2>3. QED
    BY <2>1, <2>2, <1>0, <1>a DEF Calls
<1>7. CASE FailExports \/ FailInitialize
  <2>1. pc \in {"exports", "initialize"} /\ pc' = "idle"
        /\ UNCHANGED <<pool, made, loads, args>>
    BY <1>7 DEF FailExports, FailInitialize, FailLoad, At
  <2>2. made <= (loads - 1) * PoolSize + PoolSize
    BY <2>1, <1>0, <1>a DEF IInv, Calls
  <2>3. QED
    BY <2>1, <2>2, <1>0, <1>a DEF Calls
<1>8. CASE Reset
  <2>1. pc = "idle" /\ pc' = "reset" /\ UNCHANGED <<pool, made, loads, args>>
    BY <1>8 DEF Reset, At
  <2>2. QED
    BY <2>1, <1>0, <1>a DEF IInv, Calls
<1>9. CASE \/ CompileModule \/ ResolveImport \/ Instantiate \/ ReturnMinst
           \/ FindExports \/ Initialize \/ AbortInInitialize
  <2>1. /\ pc \in {"compile", "resolve", "created", "exports", "initialize"}
        /\ pc' \in {"compile", "resolve", "created", "exports", "initialize", "no_memory",
                    "bad_initialize", "emplace"}
        /\ UNCHANGED <<pool, made, loads, args>>
    BY <1>9 DEF CompileModule, ResolveImport, Instantiate, ReturnMinst, FindExports,
                Initialize, AbortInInitialize, At
  <2>2. QED
    BY <2>1, <1>0, <1>a DEF IInv, Calls
<1>10. CASE \/ DeleteTrap \/ DeleteInstance \/ DeleteModule \/ DeleteStore
            \/ StayHalted \/ UNCHANGED vars \/ \E k \in DOMAIN pool : TrapInSystem(k)
  <2>1. UNCHANGED <<pc, pool, made, loads, args>>
    BY <1>10 DEF DeleteTrap, DeleteInstance, DeleteModule, DeleteStore, Delete,
                 StayHalted, TrapInSystem, vars
  <2>2. QED
    BY <2>1, <1>0, <1>a DEF IInv, Calls
<1>11. QED
  BY <1>1, <1>2, <1>3, <1>4, <1>5, <1>6, <1>7, <1>8, <1>9, <1>10 DEF Next, Create

\* What create made for the store it is at is typed.
LEMMA HandleTyped ==
  ASSUME TypeOK, made > 0, NEW kind \in Objects
  PROVE  Handle(kind) \in Handles /\ Handle(kind) = Object(kind, made)
BY DEF TypeOK, Handle, Handles, Object

LEMMA Making ==
  ASSUME IInv, pc \notin {"idle", "reset", "clear", "create"}
  PROVE  made > 0
<1>1. self.store = Object("store", made) \/ inst.store = Object("store", made)
  BY DEF IInv, Phase, TypeOK, Loading
<1>2. self.store \in Pointers /\ inst.store \in Pointers /\ made \in Nat
  BY DEF IInv, TypeOK, Minsts
<1>3. Object("store", made) # Null
  BY <1>2, ObjectsAreSet DEF Objects
<1>4. QED
  BY <1>1, <1>2, <1>3 DEF Object, Pointers, Handles

LEMMA FoundTyped ==
  ASSUME TypeOK, NEW S, S \subseteq DOMAIN inst.exports, S # {}
  PROVE  /\ ExportAt(S) \in Exports
         /\ \E i \in S : ExportAt(S) = inst.exports[i]
<1>1. PICK i \in S : ExportAt(S) = inst.exports[i]
  BY DEF ExportAt
<1>2. inst.exports \in Seq(Exports)
  BY DEF TypeOK, Minsts
<1>3. QED
  BY <1>1, <1>2

\* What find_export finds is an export, with the name that was asked for.
LEMMA CallableFound ==
  ASSUME TypeOK, NEW name, Callable(name)
  PROVE  /\ FindExport(name) \in Exports
         /\ FindExport(name).name = name /\ FindExport(name).kind = "func"
         /\ \E i \in DOMAIN inst.exports : FindExport(name) = inst.exports[i]
<1>1. Named(name) \subseteq DOMAIN inst.exports /\ Named(name) # {}
      /\ \A i \in Named(name) : inst.exports[i].name = name
  BY DEF Named, First, Callable
<1>2. QED
  BY <1>1, FoundTyped DEF FindExport, Callable

LEMMA MemoryFound ==
  ASSUME TypeOK, Memories # {}
  PROVE  /\ WasmMem \in Exports /\ WasmMem.kind = "memory"
         /\ \E i \in DOMAIN inst.exports : WasmMem = inst.exports[i]
<1>1. Memories \subseteq DOMAIN inst.exports
      /\ \A i \in Memories : inst.exports[i].kind = "memory"
  BY DEF Memories, First
<1>2. QED
  BY <1>1, FoundTyped DEF WasmMem

LEMMA TypeNext == IInv /\ [Next]_vars => TypeOK'
<1> SUFFICES ASSUME IInv, [Next]_vars PROVE TypeOK'
  OBVIOUS
<1>0. TypeOK /\ made' \in 0..(MaxLoads * PoolSize)
  BY CallsNext DEF IInv
<1>n. MaxLoads * PoolSize \in Nat /\ PoolSize \in Nat /\ made \in Nat
  BY <1>0, ConstantsOK DEF TypeOK
<1> USE DEF loadVars, minstVars, destroyVars
<1>1. CASE \E module \in Modules, systems \in Lists : BeginLoad(module, systems)
  <2>1. loads' \in 0..MaxLoads /\ made' = made /\ pool' = pool /\ pc' = "clear"
        /\ args' \in [module: Modules, systems: Lists]
    BY <1>0, <1>1, ConstantsOK DEF BeginLoad, TypeOK
  <2>2. UNCHANGED <<live, next, self, inst, dying, trap, impls, last_error_message>>
    BY <1>1 DEF BeginLoad
  <2>3. QED
    BY <1>0, <2>1, <2>2, TypeKept DEF TypeOK, Loading
<1>2. CASE NewStore
  <2>1. made' = made + 1 /\ self'.store = [kind |-> "store", of |-> made']
    BY <1>0, <1>2 DEF NewStore, TypeOK, Minsts
  <2>2. self'.store \in Handles' /\ self'.store \in Pointers'
    BY <1>n, <2>1 DEF Handles, Pointers, Objects
  <2>3. Handles \subseteq Handles' /\ Minsts \subseteq Minsts' /\ Exports \subseteq Exports'
    BY <1>n, <2>1, TypesGrow
  <2>4. live' \subseteq Handles' /\ self' \in Minsts'
    BY <1>0, <1>2, <2>2, <2>3 DEF NewStore, TypeOK, Minsts
  <2>5. PoolTyped' /\ PoolIsSeq'
    BY <1>0, <1>2, <1>n, <2>1, PoolStaysTyped DEF NewStore
  <2>6. QED
    BY <1>0, <1>2, <2>3, <2>4, <2>5 DEF NewStore, TypeOK, PoolTyped, PoolIsSeq, Loading, Pointers
<1>3. CASE CompileModule
  <2>1. made > 0
    BY <1>3, Making DEF CompileModule, At
  <2>2. Handle("module") \in Handles /\ Handle("types") \in Handles
    BY <1>0, <2>1, HandleTyped DEF Objects
  <2>3. args.module \in Binary
    BY <1>3, ConstantsOK DEF CompileModule, At, IInv, Calls
  <2>4. self'.exports \in Seq(Exports)
    <3> DEFINE T == [name: Systems \cup {"_initialize", "other"}, kind: Kinds]
               e == args.module.exports
               f == [i \in DOMAIN e |-> [name |-> e[i].name, kind |-> e[i].kind,
                                        type |-> Handle("types"), object |-> Null]]
    <3>1. e \in Seq(T)
      BY <2>3 DEF Binary
    <3>2. DOMAIN e = 1..Len(e) /\ Len(e) \in Nat
      BY <3>1
    <3>3. \A i \in DOMAIN e : f[i] \in Exports
      <4> HIDE DEF e, T
      <4>1. \A i \in DOMAIN e : e[i] \in T
        BY <3>1
      <4> USE DEF T
      <4>2. QED
        BY <4>1, <2>2 DEF Exports, Pointers
    <3>4. f \in Seq(Exports)
      <4> HIDE DEF e
      <4>1. f = [i \in 1..Len(e) |-> f[i]]
        BY <3>2
      <4> HIDE DEF f
      <4>2. QED
        BY <4>1, <3>2, <3>3
    <3>5. self'.exports = f
      BY <1>0, <1>3 DEF CompileModule, TypeOK, Minsts
    <3>6. QED
      BY <3>4, <3>5
  <2>5. self' \in Minsts
    BY <1>0, <1>3, <2>2, <2>4 DEF CompileModule, TypeOK, Minsts, Pointers
  <2>6. live' \subseteq Handles /\ made' = made /\ UNCHANGED pool
    BY <1>0, <1>3, <2>2 DEF CompileModule, TypeOK
  <2>7. QED
    BY <1>0, <1>3, <2>5, <2>6, TypeKept DEF CompileModule, TypeOK, Loading
<1>4. CASE ResolveImport
  <2>1. Handle("funcs") \in Handles
    BY <1>0, <1>4, Making, HandleTyped DEF Objects, ResolveImport, At
  <2>2. QED
    BY <1>0, <1>4, <2>1, TypeKept DEF ResolveImport, TypeOK, Loading
<1>5. CASE Instantiate
  <2>1. Handle("instance") \in Handles /\ Handle("externs") \in Handles
    BY <1>0, <1>5, Making, HandleTyped DEF Objects, Instantiate, At
  <2>2. self'.exports = [i \in DOMAIN self.exports |->
                           [self.exports[i] EXCEPT !.object = Handle("externs")]]
    BY <1>0, <1>5 DEF Instantiate, TypeOK, Minsts
  <2>3. self'.exports \in Seq(Exports)
    <3> DEFINE e == self.exports
               f == [i \in DOMAIN e |-> [e[i] EXCEPT !.object = Handle("externs")]]
    <3>1. e \in Seq(Exports)
      BY <1>0 DEF TypeOK, Minsts
    <3>2. DOMAIN e = 1..Len(e) /\ Len(e) \in Nat
      BY <3>1
    <3>3. \A i \in DOMAIN e : f[i] \in Exports
      <4>1. \A i \in DOMAIN e : e[i] \in Exports
        BY <3>1
      <4> HIDE DEF e
      <4>2. QED
        BY <4>1, <2>1 DEF Exports, Pointers
    <3>4. f \in Seq(Exports)
      <4> HIDE DEF e
      <4>1. f = [i \in 1..Len(e) |-> f[i]]
        BY <3>2
      <4> HIDE DEF f
      <4>2. QED
        BY <4>1, <3>2, <3>3
    <3>5. QED
      BY <2>2, <3>4
  <2>4. self' \in Minsts
    BY <1>0, <1>5, <2>1, <2>3 DEF Instantiate, TypeOK, Minsts, Pointers
  <2>5. live' \subseteq Handles /\ made' = made /\ UNCHANGED pool
    BY <1>0, <1>5, <2>1 DEF Instantiate, TypeOK, Kept
  <2>6. QED
    BY <1>0, <1>5, <2>4, <2>5, TypeKept DEF Instantiate, TypeOK, Loading
<1>6. CASE \/ ReturnMinst \/ (\E err \in CreateErrors : FailCreate(err)) \/ FailExports
  <2>1. /\ self' \in {self, NoParts} /\ inst' \in {self, inst, NoParts}
        /\ dying' \in {self, inst, NoParts} /\ UNCHANGED <<live, made, pool, trap>>
        /\ pc' \in {"exports", "idle"}
    BY <1>6 DEF ReturnMinst, FailCreate, FailExports, FailLoad, Destroy, MovedFrom
  <2>2. self' \in Minsts /\ inst' \in Minsts /\ dying' \in Minsts
    BY <1>0, <2>1, NoPartsTyped DEF TypeOK
  <2>3. UNCHANGED <<args, next, loads, impls>> /\ last_error_message' \in 0..MaxLoads
    BY <1>0, <1>6 DEF ReturnMinst, FailCreate, FailExports, FailLoad, TypeOK
  <2>4. QED
    BY <1>0, <2>1, <2>2, <2>3, TypeKept DEF TypeOK, Loading
<1>7. CASE FailInitialize
  <2>1. trap' \in Handles
    BY <1>0, <1>7, Making, HandleTyped DEF Objects, FailInitialize, At
  <2>2. dying' \in Minsts /\ inst' \in Minsts
    BY <1>0, <1>7, NoPartsTyped DEF FailInitialize, FailLoad, Destroy, TypeOK
  <2>3. QED
    BY <1>0, <1>7, <2>1, <2>2, TypeKept
       DEF FailInitialize, FailLoad, TypeOK, Loading, Pointers
<1>8. CASE EmplaceMinst
  <2> DEFINE new == [minst |-> inst, memory |-> WasmMem,
                     sys_impl_exports |->
                       [s \in {args.systems[n] : n \in DOMAIN args.systems} |-> FindExport(s)]]
  <2>1. Memories # {} /\ \A n \in DOMAIN args.systems : Callable(args.systems[n])
    BY <1>8 DEF EmplaceMinst, At, IInv, Phase
  <2>2. /\ new.minst \in Minsts /\ new.memory \in Exports
        /\ \A s \in DOMAIN new.sys_impl_exports : new.sys_impl_exports[s] \in Exports
    BY <1>0, <2>1, MemoryFound, CallableFound DEF TypeOK
  <2> HIDE DEF new
  <2>3. pool' = Append(pool, new) /\ Len(pool) < PoolSize
    BY <1>8 DEF EmplaceMinst, new, At, IInv, Calls
  <2>4. pool \in Seq({pool[k] : k \in DOMAIN pool} \cup {new})
    BY <1>0 DEF TypeOK
  <2>5. /\ Len(pool') = Len(pool) + 1 /\ DOMAIN pool' = 1..(Len(pool) + 1)
        /\ \A k \in DOMAIN pool' : pool'[k] = new \/ (k \in DOMAIN pool /\ pool'[k] = pool[k])
    BY <2>3, <2>4
  <2>6. PoolTyped' /\ PoolIsSeq'
    <3>1. made' = made /\ Minsts' = Minsts /\ Exports' = Exports
      BY <1>8 DEF EmplaceMinst, Minsts, Exports, Pointers, Handles
    <3>2. PoolTyped'
      BY <1>0, <2>2, <2>5, <3>1 DEF TypeOK, PoolTyped
    <3>3. pool' \in Seq({pool[k] : k \in DOMAIN pool} \cup {new})
      BY <2>3, <2>4
    <3>4. QED
      BY <3>2, <3>3, SeqOfItsElements DEF PoolIsSeq
  <2>7. inst' \in Minsts /\ dying' \in Minsts /\ Len(pool') <= PoolSize
    BY <1>0, <1>8, <2>3, <2>4, <1>n, NoPartsTyped DEF EmplaceMinst, Destroy, MovedFrom
  <2>8. QED
    <3>1. Handles' = Handles /\ Minsts' = Minsts
      BY <1>8 DEF EmplaceMinst, Minsts, Exports, Pointers, Handles
    <3>2. UNCHANGED <<live, args, next, self, trap, made, loads, impls, last_error_message>>
          /\ pc' = "create"
      BY <1>8 DEF EmplaceMinst
    <3>3. QED
      BY <1>0, <2>6, <2>7, <3>1, <3>2 DEF TypeOK, PoolTyped, PoolIsSeq, Loading, Pointers
<1>9. CASE ClearMinst
  <2>1. /\ Len(pool) > 0 /\ pool' = Tail(pool) /\ Len(pool') = Len(pool) - 1
        /\ DOMAIN pool' = 1..(Len(pool) - 1)
        /\ \A k \in DOMAIN pool' : k + 1 \in DOMAIN pool /\ pool'[k] = pool[k + 1]
        /\ Head(pool) = pool[1] /\ 1 \in DOMAIN pool
    BY <1>0, <1>9 DEF ClearMinst, TypeOK
  <2>2. PoolIsSeq'
    <3>1. pool' \in Seq({pool[k] : k \in DOMAIN pool})
      BY <1>0, <2>1 DEF TypeOK
    <3>2. QED
      BY <3>1, SeqOfItsElements DEF PoolIsSeq
  <2>3. made' = made /\ Minsts' = Minsts /\ Exports' = Exports
    BY <1>9 DEF ClearMinst, Minsts, Exports, Pointers, Handles
  <2>4. PoolTyped'
    BY <1>0, <2>1, <2>3 DEF TypeOK, PoolTyped
  <2>5. dying' \in Minsts /\ Len(pool') <= PoolSize
    BY <1>0, <1>9, <2>1, <1>n DEF ClearMinst, Destroy, TypeOK
  <2>6. QED
    BY <1>0, <1>9, <2>2, <2>3, <2>4, <2>5
       DEF ClearMinst, TypeOK, PoolTyped, PoolIsSeq, Loading, Handles, Pointers
<1>10. CASE DeleteTrap \/ DeleteInstance \/ DeleteModule \/ DeleteStore
  <2>1. live' \subseteq live /\ trap' \in Pointers /\ dying' \in Minsts
    BY <1>0, <1>10, NoPartsTyped DEF DeleteTrap, DeleteInstance, DeleteModule, DeleteStore,
                          Delete, TypeOK, Minsts, Pointers
  <2>2. UNCHANGED <<pc, next, self, inst, pool, args, made, loads, impls, last_error_message>>
    BY <1>10 DEF DeleteTrap, DeleteInstance, DeleteModule, DeleteStore, Delete
  <2>3. QED
    BY <1>0, <2>1, <2>2, TypeKept DEF TypeOK, Loading
<1>11. CASE \E k \in DOMAIN pool : TrapInSystem(k)
  <2>1. PICK k \in DOMAIN pool : TrapInSystem(k)
    BY <1>11
  <2>2. pool[k].minst.store \in Handles
    <3>1. Whole(pool[k].minst) /\ Formed(pool[k].minst)
      BY DEF IInv, PoolReady, Ready, Heap, Roles
    <3>2. pool[k].minst.store # Null
      BY <3>1 DEF Whole, Formed, NoParts
    <3>3. QED
      BY <1>0, <3>2 DEF TypeOK, Minsts, Pointers
  <2>3. trap' \in Handles
    BY <2>1, <2>2 DEF TrapInSystem, Handles, Objects
  <2>4. QED
    BY <1>0, <2>1, <2>3, TypeKept DEF TrapInSystem, TypeOK, Pointers
<1>12. CASE \/ Reset \/ EndClear \/ FindExports \/ Initialize \/ AbortInInitialize
            \/ FinishLoad \/ StayHalted \/ UNCHANGED vars
  <2>1. /\ UNCHANGED <<live, self, inst, dying, pool, trap, args, next, made, loads,
                       last_error_message>>
        /\ pc' \in {pc, "reset", "create", "idle", "initialize", "no_memory", "emplace",
                    "bad_initialize"}
    BY <1>12 DEF Reset, EndClear, FindExports, Initialize, AbortInInitialize, FinishLoad,
                 StayHalted, vars
  <2>2. impls' \subseteq Systems
    <3>1. CASE FinishLoad
      <4>1. args.systems \in Seq(Systems)
        BY <3>1, ConstantsOK DEF FinishLoad, At, IInv, Calls
      <4>2. QED
        BY <1>0, <3>1, <4>1 DEF FinishLoad, TypeOK
    <3>2. CASE UNCHANGED impls
      BY <1>0, <3>2 DEF TypeOK
    <3>3. QED
      BY <1>12, <3>1, <3>2 DEF Reset, EndClear, FindExports, Initialize, AbortInInitialize,
                               StayHalted, vars
  <2>3. QED
    BY <1>0, <2>1, <2>2, TypeKept DEF TypeOK, Loading
<1>13. QED
  BY <1>1, <1>2, <1>3, <1>4, <1>5, <1>6, <1>7, <1>8, <1>9, <1>10, <1>11, <1>12
     DEF Next, Create

-------------------------------------------------------------------------------
(* What exists and who owns it *)

LEMMA NoPartsFormed ==
  /\ Formed(NoParts) /\ Formed(NoParts)'
  /\ Owned(NoParts) = {} /\ DOMAIN NoParts.exports = {}
BY DEF Formed, NoParts, Owned

LEMMA FormedGrows ==
  ASSUME made \in Nat, made' \in Nat, made <= made', NEW m, Formed(m)
  PROVE  Formed(m)'
<1>1. [kind: {"store"}, of: 1..made] \subseteq [kind: {"store"}, of: 1..made']
  OBVIOUS
<1>2. QED
  BY <1>1 DEF Formed

\* Minsts are moved; there may be new objects that nobody owns, or a trap.
LEMMA HeapMoved ==
  ASSUME Heap, UNCHANGED made, live \subseteq live', trap \in {Null, trap'}, Null \notin live,
         Roles' \subseteq Roles \cup {NoParts}, Roles \subseteq Roles' \cup {NoParts},
         \A h \in live' : h \in live \/ h.kind \in {"types", "funcs", "externs"} \/ h = trap'
  PROVE  Heap'
<1>1. ASSUME NEW m \in Roles'
      PROVE  Formed(m)' /\ Owned(m) \subseteq live' /\ \A i \in DOMAIN m.exports : Valid(m.exports[i])'
  <2>1. CASE m = NoParts
    BY <2>1, NoPartsFormed
  <2>2. CASE m \in Roles
    BY <2>2 DEF Heap, Formed, Valid
  <2>3. QED
    BY <1>1, <2>1, <2>2
<1>2. ASSUME NEW h \in live' PROVE HasOwner(h)'
  <2>1. CASE h \in live
    <3>1. HasOwner(h)
      BY <2>1 DEF Heap
    <3>2. QED
      BY <2>1, <3>1, NoPartsFormed DEF HasOwner
  <2>2. CASE h \notin live
    BY <1>2, <2>2 DEF HasOwner
  <2>3. QED
    BY <2>1, <2>2
<1>3. QED
  BY <1>1, <1>2 DEF Heap, Owned

\* create adds a part to the minst it builds.
LEMMA HeapBuilt ==
  ASSUME Heap, made \in Nat, made' \in Nat, made <= made', live \subseteq live',
         UNCHANGED <<inst, dying, pool, trap>>,
         Formed(self)', Owned(self) \subseteq Owned(self'), Owned(self') \subseteq live',
         \A i \in DOMAIN self'.exports : Valid(self.exports[i])',
         \A h \in live' :
           h \in live \/ h.kind \in {"types", "funcs", "externs"} \/ h \in Owned(self')
  PROVE  Heap'
<1>1. \A m \in Roles' : m = self' \/ m \in Roles
  BY DEF Roles
<1>2. \A m \in Roles : m = self \/ m \in Roles'
  BY DEF Roles
<1>3. self' \in Roles'
  BY DEF Roles
<1>4. ASSUME NEW m \in Roles'
      PROVE  Formed(m)' /\ Owned(m) \subseteq live' /\ \A i \in DOMAIN m.exports : Valid(m.exports[i])'
  <2>1. CASE m = self'
    <3>1. Formed(m)'
      BY <2>1 DEF Formed
    <3>2. \A i \in DOMAIN m.exports : Valid(m.exports[i])'
      BY <2>1 DEF Valid
    <3>3. QED
      BY <2>1, <3>1, <3>2
  <2>2. CASE m \in Roles
    BY <2>2, FormedGrows DEF Heap, Valid
  <2>3. QED
    BY <1>1, <1>4, <2>1, <2>2
<1>5. ASSUME NEW h \in live' PROVE HasOwner(h)'
  <2>1. CASE h \in live
    <3>1. HasOwner(h)
      BY <2>1 DEF Heap
    <3>2. QED
      BY <3>1, <1>2, <1>3 DEF HasOwner
  <2>2. CASE h \notin live
    BY <1>3, <1>5, <2>2 DEF HasOwner
  <2>3. QED
    BY <2>1, <2>2
<1>6. QED
  BY <1>4, <1>5 DEF Heap

\* The destructor deletes a part of a minst that no other owns; what is left of
\* that minst is formed.
LEMMA HeapDeleted ==
  ASSUME Heap, NEW h \in live, live' = live \ {h}, UNCHANGED <<made, self, inst, pool>>,
         h.kind \notin {"types", "funcs", "externs"},
         trap' = trap \/ trap = h,
         \A m \in Roles' : h \notin Owned(m),
         Formed(dying)', Owned(dying') = Owned(dying) \ {h},
         dying'.exports \in {dying.exports, <<>>}
  PROVE  Heap'
<1>1. \A m \in Roles' : m = dying' \/ m \in Roles
  BY DEF Roles
<1>2. \A m \in Roles : m = dying \/ m \in Roles'
  BY DEF Roles
<1>3. dying' \in Roles' /\ dying \in Roles
  BY DEF Roles
<1>4. ASSUME NEW e, Valid(e), e.type # h, e.object # h PROVE Valid(e)'
  BY <1>4 DEF Valid
<1>5. ASSUME NEW m \in Roles'
      PROVE  Formed(m)' /\ Owned(m) \subseteq live' /\ \A i \in DOMAIN m.exports : Valid(m.exports[i])'
  <2>1. CASE m = dying'
    <3>1. \A i \in DOMAIN m.exports : Valid(m.exports[i])
      BY <1>3, <2>1 DEF Heap
    <3>2. Owned(m) \subseteq live'
      BY <1>3, <2>1 DEF Heap
    <3>3. Formed(m)'
      BY <2>1 DEF Formed
    <3>4. QED
      BY <3>1, <3>2, <3>3 DEF Valid
  <2>2. CASE m \in Roles
    BY <1>5, <2>2 DEF Heap, Valid, Formed
  <2>3. QED
    BY <1>1, <1>5, <2>1, <2>2
<1>6. ASSUME NEW g \in live' PROVE HasOwner(g)'
  <2>1. HasOwner(g) /\ g # h
    BY <1>6 DEF Heap
  <2>2. CASE \E m \in Roles : g \in Owned(m)
    BY <2>1, <2>2, <1>2, <1>3 DEF HasOwner
  <2>3. QED
    BY <2>1, <2>2 DEF HasOwner
<1>7. QED
  BY <1>5, <1>6 DEF Heap

\* Between destructors there is nothing left to destroy.
LEMMA Settled ==
  ASSUME IInv, NEW step, At(step)
  PROVE  dying = NoParts /\ trap = Null /\ pc = step
BY DEF At, Owned, IInv, Heap, Roles, Formed

LEMMA Facts ==
  ASSUME IInv
  PROVE  /\ Heap /\ TypeOK /\ Null \notin live /\ made \in Nat
         /\ self \in Minsts /\ inst \in Minsts /\ dying \in Minsts
         /\ Formed(self) /\ Formed(inst) /\ Formed(dying)
         /\ pool \in Seq({pool[k] : k \in DOMAIN pool})
<1>1. MaxLoads * PoolSize \in Nat
  BY ConstantsOK
<1>2. Null \notin Handles
  BY ConstantsOK DEF Handles
<1>3. QED
  BY <1>1, <1>2 DEF IInv, TypeOK, Heap, Roles

LEMMA HeapBuildNext ==
  IInv /\ (NewStore \/ CompileModule \/ ResolveImport \/ Instantiate) => Heap'
<1> SUFFICES ASSUME IInv, NewStore \/ CompileModule \/ ResolveImport \/ Instantiate
             PROVE  Heap'
  OBVIOUS
<1>0. /\ Heap /\ TypeOK /\ Null \notin live /\ made \in Nat
      /\ self \in Minsts /\ Formed(self)
  BY Facts
<1> USE DEF loadVars, minstVars, destroyVars
<1>1. CASE NewStore
  <2>1. self = NoParts /\ made' = made + 1
    BY <1>1 DEF NewStore, At, IInv, Phase
  <2>2. self' = [store |-> Object("store", made'), module |-> Null, instance |-> Null,
                 exports |-> <<>>]
    BY <1>1, <2>1 DEF NewStore, NoParts, Object
  <2>3. Object("store", made') # Null /\ Object("store", made') \in [kind: {"store"}, of: 1..made']
    BY <1>0, <2>1, ObjectsAreSet DEF Objects, Object
  <2>4. Owned(self) = {} /\ Owned(self') = {self'.store}
    BY <2>1, <2>2, <2>3 DEF Owned, NoParts
  <2>5. Formed(self)'
    BY <2>2, <2>3 DEF Formed
  <2>6. live' = live \cup {self'.store} /\ UNCHANGED <<inst, dying, pool, trap>>
    BY <1>1 DEF NewStore
  <2>7. DOMAIN self'.exports = {}
    BY <2>2
  <2>8. QED
    BY <1>0, <2>1, <2>4, <2>5, <2>6, <2>7, HeapBuilt
<1>2. CASE CompileModule
  <2>1. self.store = Object("store", made) /\ self.module = Null /\ self.instance = Null
        /\ self.store # Null
    BY <1>2, <1>0, ObjectsAreSet DEF CompileModule, At, IInv, Phase, Formed, Objects
  <2>2. /\ self'.store = self.store /\ self'.module = Object("module", made)
        /\ self'.instance = self.instance
        /\ \A i \in DOMAIN self'.exports :
             self'.exports[i].type = Object("types", made) /\ self'.exports[i].object = Null
    BY <1>0, <1>2 DEF CompileModule, Minsts, Object, Handle
  <2>3. Object("module", made) # Null
    BY <1>0, ObjectsAreSet DEF Objects
  <2>4. Owned(self) = {self.store} /\ Owned(self') = {self.store, Object("module", made)}
    BY <2>1, <2>2, <2>3 DEF Owned
  <2>5. made' = made /\ live' = live \cup {Object("module", made), Object("types", made)}
        /\ UNCHANGED <<inst, dying, pool, trap>>
    BY <1>2 DEF CompileModule, Object, Handle
  <2>6. Formed(self)'
    BY <1>0, <2>1, <2>2, <2>3, <2>5 DEF Formed, Object
  <2>7. \A i \in DOMAIN self'.exports : Valid(self.exports[i])'
    BY <2>2, <2>5 DEF Valid, Object
  <2>8. Object("types", made).kind = "types" /\ self.store \in live
    BY <1>0, <2>4 DEF Object, Heap, Roles
  <2>9. QED
    BY <1>0, <2>4, <2>5, <2>6, <2>7, <2>8, HeapBuilt
<1>3. CASE ResolveImport
  <2>1. live' = live \cup {Handle("funcs")} /\ UNCHANGED <<self, inst, dying, pool, trap, made>>
    BY <1>3 DEF ResolveImport
  <2>2. Handle("funcs").kind = "funcs" /\ Roles' = Roles
    BY <2>1 DEF Handle, Roles
  <2>3. QED
    BY <1>0, <2>1, <2>2, HeapMoved
<1>4. CASE Instantiate
  <2>1. self.store = Object("store", made) /\ self.module # Null /\ self.instance = Null
        /\ self.store # Null
    BY <1>4, <1>0, ObjectsAreSet DEF Instantiate, At, IInv, Phase, Formed, Objects
  <2>2. /\ self'.store = self.store /\ self'.module = self.module
        /\ self'.instance = Object("instance", made)
        /\ DOMAIN self'.exports = DOMAIN self.exports
        /\ \A i \in DOMAIN self.exports :
             self'.exports[i] = [self.exports[i] EXCEPT !.object = Object("externs", made)]
    BY <1>0, <1>4 DEF Instantiate, Minsts, Object, Handle
  <2>3. Object("instance", made) # Null
    BY <1>0, ObjectsAreSet DEF Objects
  <2>4. /\ Owned(self) = {self.store, self.module}
        /\ Owned(self') = {self.store, self.module, Object("instance", made)}
    BY <2>1, <2>2, <2>3 DEF Owned
  <2>5. made' = made /\ live' = live \cup {Object("instance", made), Object("externs", made)}
        /\ UNCHANGED <<inst, dying, pool, trap>>
    BY <1>4 DEF Instantiate, Object, Handle, Kept
  <2>6. Formed(self)'
    BY <1>0, <2>1, <2>2, <2>3, <2>5 DEF Formed, Object
  <2>7. \A i \in DOMAIN self.exports :
          self.exports[i] \in Exports /\ Valid(self.exports[i])
    BY <1>0 DEF Heap, Roles, Minsts
  <2>8. \A i \in DOMAIN self'.exports : Valid(self.exports[i])'
    <3>1. ASSUME NEW i \in DOMAIN self.exports
          PROVE  /\ self'.exports[i].type = self.exports[i].type
                 /\ self'.exports[i].object = Object("externs", made)
      BY <2>2, <2>7 DEF Exports
    <3>2. Object("externs", made) \in live' /\ Object("externs", made).kind = "externs"
      BY <2>5 DEF Object
    <3>3. QED
      BY <2>2, <2>5, <2>7, <3>1, <3>2 DEF Valid
  <2>9. Object("externs", made).kind = "externs" /\ {self.store, self.module} \subseteq live
    BY <1>0, <2>4 DEF Object, Heap, Roles
  <2>10. QED
    BY <1>0, <2>4, <2>5, <2>6, <2>8, <2>9, HeapBuilt
<1>5. QED
  BY <1>1, <1>2, <1>3, <1>4

\* The members of the pool, as they come and go.
LEMMA PoolAppended ==
  ASSUME NEW S, NEW p \in Seq(S), NEW x
  PROVE  /\ DOMAIN Append(p, x) = DOMAIN p \cup {Len(p) + 1} /\ Len(p) + 1 \notin DOMAIN p
         /\ Append(p, x)[Len(p) + 1] = x
         /\ \A k \in DOMAIN p : Append(p, x)[k] = p[k]
OBVIOUS

LEMMA PoolTail ==
  ASSUME NEW S, NEW p \in Seq(S), p # <<>>
  PROVE  /\ 1 \in DOMAIN p /\ Head(p) = p[1]
         /\ \A k \in DOMAIN Tail(p) : k + 1 \in DOMAIN p /\ Tail(p)[k] = p[k + 1] /\ k \in Int
         /\ \A k \in DOMAIN p : p[k] = Head(p) \/ \E j \in DOMAIN Tail(p) : Tail(p)[j] = p[k]
<1>1. /\ 1 \in DOMAIN p /\ Head(p) = p[1]
      /\ \A k \in DOMAIN Tail(p) : k + 1 \in DOMAIN p /\ Tail(p)[k] = p[k + 1] /\ k \in Int
  OBVIOUS
<1>2. ASSUME NEW k \in DOMAIN p, k # 1 PROVE \E j \in DOMAIN Tail(p) : Tail(p)[j] = p[k]
  <2>1. k \in 1..Len(p) /\ Len(p) \in Nat /\ DOMAIN Tail(p) = 1..(Len(p) - 1)
    OBVIOUS
  <2>2. k - 1 \in DOMAIN Tail(p) /\ (k - 1) + 1 = k
    BY <1>2, <2>1
  <2>3. QED
    BY <1>1, <2>2
<1>3. QED
  BY <1>1, <1>2

LEMMA HeapMoveNext ==
  ASSUME IInv,
         \/ (\E err \in CreateErrors : FailCreate(err)) \/ ReturnMinst \/ FailExports
         \/ FailInitialize \/ EmplaceMinst \/ ClearMinst
         \/ (\E k \in DOMAIN pool : TrapInSystem(k))
  PROVE  Heap'
<1>0. /\ Heap /\ TypeOK /\ Null \notin live /\ made \in Nat
      /\ pool \in Seq({pool[k] : k \in DOMAIN pool})
  BY Facts
<1> USE DEF loadVars, minstVars, destroyVars
<1>1. CASE \E err \in CreateErrors : FailCreate(err)
  <2>1. /\ UNCHANGED <<live, inst, pool, trap, made>>
        /\ dying = NoParts /\ dying' = self /\ self' = NoParts
    BY <1>1, Settled DEF FailCreate, Destroy
  <2>2. Roles' \subseteq Roles \cup {NoParts} /\ Roles \subseteq Roles' \cup {NoParts}
    BY <2>1 DEF Roles
  <2>3. QED
    BY <1>0, <2>1, <2>2, HeapMoved
<1>2. CASE ReturnMinst
  <2>1. /\ UNCHANGED <<live, pool, trap, made>> /\ inst = NoParts
        /\ inst' = self /\ self' = NoParts /\ dying = NoParts /\ dying' = NoParts
    BY <1>2, Settled DEF ReturnMinst, Destroy, MovedFrom, At, IInv, Phase
  <2>2. Roles' \subseteq Roles \cup {NoParts} /\ Roles \subseteq Roles' \cup {NoParts}
    BY <2>1 DEF Roles
  <2>3. QED
    BY <1>0, <2>1, <2>2, HeapMoved
<1>3. CASE FailExports
  <2>1. /\ UNCHANGED <<live, self, pool, trap, made>>
        /\ dying = NoParts /\ dying' = inst /\ inst' = NoParts
    BY <1>3, Settled DEF FailExports, FailLoad, Destroy
  <2>2. Roles' \subseteq Roles \cup {NoParts} /\ Roles \subseteq Roles' \cup {NoParts}
    BY <2>1 DEF Roles
  <2>3. QED
    BY <1>0, <2>1, <2>2, HeapMoved
<1>4. CASE FailInitialize
  <2>1. /\ UNCHANGED <<self, pool, made>> /\ trap = Null /\ live' = live \cup {trap'}
        /\ dying = NoParts /\ dying' = inst /\ inst' = NoParts
    BY <1>4, Settled DEF FailInitialize, FailLoad, Destroy
  <2>2. Roles' \subseteq Roles \cup {NoParts} /\ Roles \subseteq Roles' \cup {NoParts}
    BY <2>1 DEF Roles
  <2>3. QED
    BY <1>0, <2>1, <2>2, HeapMoved
<1>5. CASE EmplaceMinst
  <2> DEFINE new == [minst |-> inst, memory |-> WasmMem,
                     sys_impl_exports |->
                       [s \in {args.systems[n] : n \in DOMAIN args.systems} |-> FindExport(s)]]
  <2>1. /\ UNCHANGED <<live, self, trap, made>> /\ pool' = Append(pool, new)
        /\ dying = NoParts /\ dying' = NoParts /\ inst' = NoParts
    BY <1>5, Settled DEF EmplaceMinst, Destroy, MovedFrom
  <2>2. new.minst = inst
    OBVIOUS
  <2> HIDE DEF new
  <2>3. Roles' \subseteq Roles \cup {NoParts} /\ Roles \subseteq Roles' \cup {NoParts}
    BY <1>0, <2>1, <2>2, PoolAppended DEF Roles
  <2>4. QED
    BY <1>0, <2>1, <2>3, HeapMoved
<1>6. CASE ClearMinst
  <2>1. /\ UNCHANGED <<live, self, inst, trap, made>> /\ pool # <<>> /\ pool' = Tail(pool)
        /\ dying = NoParts /\ dying' = Head(pool).minst
    BY <1>6, Settled DEF ClearMinst, Destroy
  <2>2. Roles' \subseteq Roles \cup {NoParts}
    BY <1>0, <2>1, PoolTail DEF Roles
  <2>3. Roles \subseteq Roles' \cup {NoParts}
    BY <1>0, <2>1, PoolTail DEF Roles
  <2>4. QED
    BY <1>0, <2>1, <2>2, <2>3, HeapMoved
<1>7. CASE \E k \in DOMAIN pool : TrapInSystem(k)
  <2>1. /\ UNCHANGED <<self, inst, dying, pool, made>> /\ trap = Null
        /\ live' = live \cup {trap'}
    BY <1>7, Settled DEF TrapInSystem
  <2>2. Roles' = Roles
    BY <2>1 DEF Roles
  <2>3. QED
    BY <1>0, <2>1, <2>2, HeapMoved
<1>8. QED
  BY <1>1, <1>2, <1>3, <1>4, <1>5, <1>6, <1>7

\* What was made for one store is not owned with another.
LEMMA OwnedApart ==
  ASSUME NEW a, NEW b, Formed(a), Formed(b), a.store # b.store \/ a.store = Null
  PROVE  Owned(a) \cap Owned(b) = {}
<1>1. CASE a.store = Null \/ b.store = Null
  BY <1>1, NoPartsFormed DEF Formed
<1>2. CASE a.store # Null /\ b.store # Null
  <2>1. a.store.of # b.store.of
    BY <1>2 DEF Formed
  <2>2. /\ Owned(a) \subseteq {Object("store", a.store.of), Object("module", a.store.of),
                            Object("instance", a.store.of)}
        /\ Owned(b) \subseteq {Object("store", b.store.of), Object("module", b.store.of),
                            Object("instance", b.store.of)}
    BY <1>2 DEF Formed, Owned, Object
  <2>3. QED
    BY <2>1, <2>2 DEF Object
<1>3. QED
  BY <1>1, <1>2

LEMMA OwnedKinds ==
  ASSUME NEW m, Formed(m), NEW h \in Owned(m)
  PROVE  h.kind \in {"store", "module", "instance"}
<1>1. m.store # Null
  BY NoPartsFormed DEF Formed
<1>2. \/ h = m.store \/ h = Object("module", m.store.of)
      \/ h = Object("instance", m.store.of)
  BY <1>1 DEF Owned, Formed
<1>3. QED
  BY <1>1, <1>2 DEF Formed, Object

\* No other minst owns what the destructor deletes.
LEMMA DyingApart ==
  ASSUME IInv, Owned(dying) # {}
  PROVE  /\ pc \in {"idle", "clear", "reset"} /\ self = NoParts /\ inst = NoParts
         /\ dying.store # Null
         /\ \A k \in DOMAIN pool : Owned(pool[k].minst) \cap Owned(dying) = {}
<1>1. dying # NoParts /\ dying.store # Null
  BY Facts, NoPartsFormed DEF Formed
<1>2. pc \in {"idle", "clear", "reset"}
  BY <1>1 DEF IInv, Phase
<1>3. self = NoParts /\ inst = NoParts
  BY <1>2 DEF IInv, Phase
<1>4. \A k \in DOMAIN pool : Formed(pool[k].minst) /\ pool[k].minst.store # dying.store
  BY DEF IInv, Heap, Roles, Apart
<1>5. \A k \in DOMAIN pool : Owned(pool[k].minst) \cap Owned(dying) = {}
  BY <1>4, OwnedApart, Facts
<1>6. QED
  BY <1>1, <1>2, <1>3, <1>5

LEMMA HeapDeleteNext ==
  ASSUME IInv, DeleteTrap \/ DeleteInstance \/ DeleteModule \/ DeleteStore
  PROVE  Heap'
<1>0. /\ Heap /\ TypeOK /\ Null \notin live /\ made \in Nat
      /\ dying \in Minsts /\ Formed(dying) /\ Owned(dying) \subseteq live
  BY Facts DEF Heap, Roles
<1>1. UNCHANGED <<made, self, inst, pool>>
  BY DEF DeleteTrap, DeleteInstance, DeleteModule, DeleteStore, Delete, minstVars, loadVars
<1>2. CASE DeleteTrap
  <2>1. /\ trap \in live /\ trap.kind = "trap" /\ live' = live \ {trap} /\ dying' = dying
        /\ trap # Null
    BY <1>2 DEF DeleteTrap, Delete, IInv, Trapped, Object
  <2>2. \A m \in Roles : trap \notin Owned(m)
    BY <1>0, <2>1, OwnedKinds DEF Heap
  <2>3. Roles' = Roles /\ dying \in Roles
    BY <1>1, <2>1 DEF Roles
  <2>4. Formed(dying)'
    BY <1>0, <1>1, <2>1 DEF Formed
  <2>5. QED
    BY <1>0, <1>1, <2>1, <2>2, <2>3, <2>4, HeapDeleted
<1>3. ASSUME DeleteInstance \/ DeleteModule \/ DeleteStore,
             NEW h \in Owned(dying), live' = live \ {h}, trap' = trap,
             Formed(dying)', Owned(dying') = Owned(dying) \ {h},
             dying'.exports \in {dying.exports, <<>>}
      PROVE  Heap'
  <2>1. h \in live /\ h.kind \notin {"types", "funcs", "externs"}
    BY <1>0, <1>3, OwnedKinds
  <2>2. self = NoParts /\ inst = NoParts
        /\ \A k \in DOMAIN pool : Owned(pool[k].minst) \cap Owned(dying) = {}
    BY <1>3, DyingApart
  <2>3. \A m \in Roles' : h \notin Owned(m)
    BY <1>1, <1>3, <2>2, NoPartsFormed DEF Roles
  <2>4. QED
    BY <1>0, <1>1, <1>3, <2>1, <2>3, HeapDeleted
<1>4. CASE DeleteInstance
  <2>1. /\ dying.instance # Null /\ live' = live \ {dying.instance} /\ trap' = trap
        /\ dying'.store = dying.store /\ dying'.module = dying.module
        /\ dying'.instance = Null /\ dying'.exports = dying.exports
    BY <1>0, <1>4 DEF DeleteInstance, Delete, Minsts
  <2>2. /\ dying.store = Object("store", dying.store.of)
        /\ dying.module = Object("module", dying.store.of)
        /\ dying.instance = Object("instance", dying.store.of)
    BY <1>0, <2>1 DEF Formed, NoParts, Object
  <2>3. Owned(dying') = Owned(dying) \ {dying.instance} /\ dying.instance \in Owned(dying)
    BY <2>1, <2>2 DEF Owned, Object
  <2>4. Formed(dying)'
    BY <1>0, <1>1, <2>1 DEF Formed, NoParts
  <2>5. QED
    BY <1>3, <1>4, <2>1, <2>3, <2>4
<1>5. CASE DeleteModule
  <2>1. /\ dying.module # Null /\ dying.instance = Null /\ live' = live \ {dying.module}
        /\ trap' = trap /\ dying'.store = dying.store /\ dying'.module = Null
        /\ dying'.instance = Null /\ dying'.exports = dying.exports
    BY <1>0, <1>5 DEF DeleteModule, Delete, Minsts
  <2>2. /\ dying.store = Object("store", dying.store.of)
        /\ dying.module = Object("module", dying.store.of)
    BY <1>0, <2>1 DEF Formed, NoParts, Object
  <2>3. Owned(dying') = Owned(dying) \ {dying.module} /\ dying.module \in Owned(dying)
    BY <2>1, <2>2 DEF Owned, Object
  <2>4. Formed(dying)'
    BY <1>0, <1>1, <2>1 DEF Formed, NoParts
  <2>5. QED
    BY <1>3, <1>5, <2>1, <2>3, <2>4
<1>6. CASE DeleteStore
  <2>1. /\ dying.store # Null /\ dying.module = Null /\ dying.instance = Null
        /\ live' = live \ {dying.store} /\ trap' = trap /\ dying' = NoParts
    BY <1>6 DEF DeleteStore, Delete
  <2>2. Owned(dying') = Owned(dying) \ {dying.store} /\ dying.store \in Owned(dying)
    BY <2>1, NoPartsFormed DEF Owned
  <2>3. Formed(dying)' /\ dying'.exports = <<>>
    BY <2>1 DEF Formed, NoParts
  <2>4. QED
    BY <1>3, <1>6, <2>1, <2>2, <2>3
<1>7. QED
  BY <1>2, <1>4, <1>5, <1>6

\* The steps that neither make, nor move, nor delete anything.
Still ==
  \/ \E module \in Modules, systems \in Lists : BeginLoad(module, systems)
  \/ Reset \/ EndClear \/ FindExports \/ Initialize \/ AbortInInitialize
  \/ FinishLoad \/ StayHalted \/ UNCHANGED vars

LEMMA StillKeeps ==
  ASSUME Still
  PROVE  /\ UNCHANGED <<live, self, inst, dying, pool, trap, made>>
         /\ Roles' = Roles
<1>1. UNCHANGED <<live, self, inst, dying, pool, trap, made>>
  BY DEF Still, BeginLoad, Reset, EndClear, FindExports, Initialize, AbortInInitialize,
         FinishLoad, StayHalted, vars, minstVars, destroyVars, loadVars
<1>2. QED
  BY <1>1 DEF Roles

LEMMA HeapNext == IInv /\ [Next]_vars => Heap'
<1> SUFFICES ASSUME IInv, [Next]_vars PROVE Heap'
  OBVIOUS
<1>1. CASE Still
  BY <1>1, StillKeeps, Facts, HeapMoved
<1>2. QED
  BY <1>1, HeapBuildNext, HeapMoveNext, HeapDeleteNext DEF Next, Create, Still

-------------------------------------------------------------------------------
(* Traps, stores and the members of the pool *)

LEMMA PoolStores ==
  ASSUME IInv, NEW k \in DOMAIN pool
  PROVE  /\ pool[k].minst \in Roles /\ Formed(pool[k].minst)
         /\ pool[k].minst.store # Null /\ pool[k].minst.instance # Null
         /\ pool[k].minst.store \in [kind: {"store"}, of: 1..made]
<1>1. pool[k].minst \in Roles /\ Formed(pool[k].minst) /\ Whole(pool[k].minst)
  BY DEF IInv, Heap, Roles, PoolReady, Ready
<1>2. QED
  BY <1>1 DEF Formed, Whole, NoParts

LEMMA TrappedNext == IInv /\ [Next]_vars => Trapped'
<1> SUFFICES ASSUME IInv, [Next]_vars, trap' # Null
             PROVE  /\ pc' = "idle" /\ trap' \in live'
                    /\ \E m \in Roles' : m.store # Null /\ trap' = Object("trap", m.store.of)
  BY DEF Trapped
<1> USE DEF loadVars, minstVars, destroyVars
<1>1. CASE \E k \in DOMAIN pool : TrapInSystem(k)
  <2>1. PICK k \in DOMAIN pool : TrapInSystem(k)
    BY <1>1
  <2>2. /\ pc' = "idle" /\ trap' \in live' /\ pool' = pool
        /\ trap' = Object("trap", pool[k].minst.store.of)
    BY <2>1 DEF TrapInSystem, At, Object
  <2>3. pool'[k].minst \in Roles' /\ k \in DOMAIN pool'
    BY <2>2 DEF Roles
  <2>4. QED
    BY <2>2, <2>3, PoolStores
<1>2. CASE FailInitialize
  <2>1. /\ pc' = "idle" /\ trap' \in live' /\ dying' = inst
        /\ trap' = Object("trap", made)
    BY <1>2 DEF FailInitialize, FailLoad, Destroy, Handle, Object
  <2>2. inst.store = Object("store", made) /\ inst.store # Null
    BY <1>2, Facts, ObjectsAreSet DEF FailInitialize, At, IInv, Phase, Objects
  <2>3. dying' \in Roles' /\ inst.store.of = made
    BY <2>2 DEF Roles, Object
  <2>4. QED
    BY <2>1, <2>2, <2>3
<1>3. CASE UNCHANGED <<live, pc, trap, self, inst, dying, pool>>
  <2>1. Roles' = Roles
    BY <1>3 DEF Roles
  <2>2. QED
    BY <1>3, <2>1 DEF IInv, Trapped
<1>4. trap = Null /\ trap' = trap => FALSE
  OBVIOUS
<1>5. CASE DeleteTrap \/ DeleteInstance \/ DeleteModule \/ DeleteStore
  BY <1>5, <1>4 DEF DeleteTrap, DeleteInstance, DeleteModule, DeleteStore
<1>6. CASE Create
  BY <1>6, <1>4 DEF Create, NewStore, CompileModule, ResolveImport, Instantiate, ReturnMinst,
                    FailCreate, At
<1>7. CASE Still
  BY <1>7, <1>3, <1>4 DEF Still, BeginLoad, Reset, EndClear, FindExports, Initialize,
       AbortInInitialize, FinishLoad, StayHalted, vars, At
<1>8. CASE FailExports \/ EmplaceMinst \/ ClearMinst
  BY <1>8, <1>4 DEF FailExports, EmplaceMinst, ClearMinst, At
<1>9. QED
  BY <1>1, <1>2, <1>5, <1>6, <1>7, <1>8 DEF Next, Still

LEMMA ApartNext == IInv /\ [Next]_vars => Apart'
<1> SUFFICES ASSUME IInv, [Next]_vars PROVE Apart'
  OBVIOUS
<1>0. /\ made \in Nat /\ pool \in Seq({pool[k] : k \in DOMAIN pool}) /\ Apart
      /\ \A k \in DOMAIN pool : /\ pool[k].minst.store # Null
                               /\ pool[k].minst.store \in [kind: {"store"}, of: 1..made]
  BY Facts, PoolStores DEF IInv
<1> USE DEF loadVars, minstVars, destroyVars
<1>1. ASSUME UNCHANGED pool,
             {self'.store, inst'.store, dying'.store}
               \subseteq {self.store, inst.store, dying.store, Null}
      PROVE  Apart'
  BY <1>0, <1>1 DEF Apart
<1>2. CASE NewStore
  <2>1. /\ UNCHANGED <<pool, inst, dying>>
        /\ self'.store = [kind |-> "store", of |-> made + 1]
    BY <1>2, Facts DEF NewStore, Minsts
  <2>2. \A k \in DOMAIN pool : pool[k].minst.store # self'.store
    BY <1>0, <2>1
  <2>3. QED
    BY <1>0, <2>1, <2>2 DEF Apart
<1>3. CASE CompileModule \/ ResolveImport \/ Instantiate
  <2>1. UNCHANGED <<pool, inst, dying>> /\ self'.store = self.store
    BY <1>3, Facts DEF CompileModule, ResolveImport, Instantiate, Minsts
  <2>2. QED
    BY <1>1, <2>1
<1>4. CASE (\E err \in CreateErrors : FailCreate(err)) \/ ReturnMinst \/ FailExports \/ FailInitialize
  <2>1. UNCHANGED pool /\ self' \in {self, NoParts} /\ inst' \in {self, inst, NoParts}
        /\ dying' \in {self, inst, NoParts}
    BY <1>4 DEF FailCreate, ReturnMinst, FailExports, FailInitialize, FailLoad, Destroy, MovedFrom
  <2>2. NoParts.store = Null
    BY DEF NoParts
  <2>3. QED
    BY <1>1, <2>1, <2>2
<1>5. CASE EmplaceMinst
  <2> DEFINE new == [minst |-> inst, memory |-> WasmMem,
                     sys_impl_exports |->
                       [s \in {args.systems[n] : n \in DOMAIN args.systems} |-> FindExport(s)]]
  <2>1. pool' = Append(pool, new) /\ self' = NoParts /\ inst' = NoParts /\ dying' = NoParts
    BY <1>5 DEF EmplaceMinst, Destroy, MovedFrom, At, IInv, Phase
  <2>2. new.minst = inst /\ inst.store # Null /\ NoParts.store = Null
    BY <1>5, Facts, ObjectsAreSet DEF EmplaceMinst, At, IInv, Phase, Objects, NoParts
  <2> HIDE DEF new
  <2>3. \A k \in DOMAIN pool : pool[k].minst.store # new.minst.store
    BY <1>0, <2>2 DEF Apart
  <2>4. /\ DOMAIN pool' = DOMAIN pool \cup {Len(pool) + 1}
        /\ pool'[Len(pool) + 1] = new
        /\ \A k \in DOMAIN pool : pool'[k] = pool[k]
    BY <1>0, <2>1, PoolAppended
  <2>5. QED
    BY <1>0, <2>1, <2>2, <2>3, <2>4 DEF Apart
<1>6. CASE ClearMinst
  <2>1. /\ pool # <<>> /\ pool' = Tail(pool) /\ UNCHANGED <<self, inst>>
        /\ dying' = Head(pool).minst
    BY <1>6 DEF ClearMinst, Destroy
  <2>2. /\ 1 \in DOMAIN pool /\ Head(pool) = pool[1]
        /\ \A k \in DOMAIN pool' : k + 1 \in DOMAIN pool /\ pool'[k] = pool[k + 1] /\ k \in Int
    BY <1>0, <2>1, PoolTail
  <2>3. \A k \in DOMAIN pool' : k + 1 # 1
    BY <1>0, <2>1
  <2>4. QED
    BY <1>0, <2>1, <2>2, <2>3 DEF Apart
<1>7. CASE DeleteTrap \/ DeleteInstance \/ DeleteModule \/ DeleteStore
  <2>1. UNCHANGED <<pool, self, inst>> /\ dying'.store \in {dying.store, Null}
    BY <1>7, Facts DEF DeleteTrap, DeleteInstance, DeleteModule, DeleteStore, Delete, Minsts, NoParts
  <2>2. QED
    BY <1>1, <2>1
<1>8. CASE Still \/ \E k \in DOMAIN pool : TrapInSystem(k)
  <2>1. UNCHANGED <<pool, self, inst, dying>>
    BY <1>8, StillKeeps DEF TrapInSystem
  <2>2. QED
    BY <1>1, <2>1
<1>9. QED
  BY <1>2, <1>3, <1>4, <1>5, <1>6, <1>7, <1>8 DEF Next, Create, Still

\* The lists that exports point into are never deleted.
LEMMA ValidStays ==
  ASSUME IInv, [Next]_vars, NEW e, Valid(e)
  PROVE  Valid(e)'
<1>0. Formed(dying) /\ Null \notin live
  BY Facts
<1>1. CASE DeleteTrap
  BY <1>1 DEF DeleteTrap, Delete, IInv, Trapped, Object, Valid
<1>2. CASE DeleteInstance \/ DeleteModule \/ DeleteStore
  <2>1. PICK h \in Owned(dying) : live' = live \ {h}
    BY <1>2 DEF DeleteInstance, DeleteModule, DeleteStore, Delete, Owned
  <2>2. h.kind \in {"store", "module", "instance"}
    BY <1>0, <2>1, OwnedKinds
  <2>3. QED
    BY <2>1, <2>2 DEF Valid
<1>3. CASE live \subseteq live'
  BY <1>3 DEF Valid
<1>4. CASE Still
  BY <1>3, <1>4, StillKeeps
<1>5. CASE Create
  BY <1>3, <1>5 DEF Create, NewStore, CompileModule, ResolveImport, Instantiate, ReturnMinst,
                    FailCreate, Kept
<1>6. CASE \/ FailExports \/ FailInitialize \/ EmplaceMinst \/ ClearMinst
           \/ \E k \in DOMAIN pool : TrapInSystem(k)
  BY <1>3, <1>6 DEF FailExports, FailInitialize, EmplaceMinst, ClearMinst, TrapInSystem
<1>7. QED
  BY <1>1, <1>2, <1>4, <1>5, <1>6 DEF Next, Still

LEMMA PoolReadyNext == IInv /\ [Next]_vars => PoolReady'
<1> SUFFICES ASSUME IInv, [Next]_vars PROVE PoolReady'
  OBVIOUS
<1>0. pool \in Seq({pool[k] : k \in DOMAIN pool}) /\ PoolReady /\ TypeOK
  BY Facts DEF IInv
<1>1. ASSUME NEW p, Ready(p) PROVE Ready(p)'
  <2>1. \A e : Valid(e) => Valid(e)'
    BY ValidStays
  <2>2. QED
    BY <1>1, <2>1 DEF Ready, Whole, Linked
<1>2. CASE UNCHANGED pool
  BY <1>0, <1>1, <1>2 DEF PoolReady, Ready
<1>3. CASE ClearMinst
  <2>1. pool # <<>> /\ pool' = Tail(pool)
    BY <1>3 DEF ClearMinst
  <2>2. \A k \in DOMAIN pool' : k + 1 \in DOMAIN pool /\ pool'[k] = pool[k + 1]
    BY <1>0, <2>1, PoolTail
  <2>3. ASSUME NEW k \in DOMAIN pool' PROVE Ready(pool[k])'
    <3>1. Ready(pool[k + 1]) /\ pool'[k] = pool[k + 1]
      BY <1>0, <2>2, <2>3 DEF PoolReady
    <3>2. QED
      BY <3>1, <1>1
  <2>4. QED
    BY <2>3 DEF PoolReady
<1>4. CASE EmplaceMinst
  <2> DEFINE new == [minst |-> inst, memory |-> WasmMem,
                     sys_impl_exports |->
                       [s \in {args.systems[n] : n \in DOMAIN args.systems} |-> FindExport(s)]]
  <2>1. /\ Whole(inst) /\ Memories # {} /\ pool' = Append(pool, new)
        /\ \A n \in DOMAIN args.systems : Callable(args.systems[n])
    BY <1>4 DEF EmplaceMinst, At, IInv, Phase
  <2>2. \A i \in DOMAIN inst.exports : Valid(inst.exports[i]) /\ Linked(inst.exports[i], inst)
    BY <2>1 DEF IInv, Heap, Roles, Whole
  <2>3. Valid(WasmMem) /\ Linked(WasmMem, inst) /\ WasmMem.kind = "memory"
    BY <1>0, <2>1, <2>2, MemoryFound
  <2>4. \A s \in DOMAIN new.sys_impl_exports :
          /\ new.sys_impl_exports[s] = FindExport(s) /\ Valid(FindExport(s))
          /\ Linked(FindExport(s), inst) /\ FindExport(s).kind = "func" /\ FindExport(s).name = s
    BY <1>0, <2>1, <2>2, CallableFound
  <2>5. Ready(new)
    BY <2>1, <2>3, <2>4 DEF Ready
  <2> HIDE DEF new
  <2>6. /\ DOMAIN pool' = DOMAIN pool \cup {Len(pool) + 1}
        /\ pool'[Len(pool) + 1] = new
        /\ \A k \in DOMAIN pool : pool'[k] = pool[k]
    BY <1>0, <2>1, PoolAppended
  <2>7. \A k \in DOMAIN pool' : Ready(pool'[k])
    BY <1>0, <2>5, <2>6 DEF PoolReady
  <2>8. QED
    BY <2>7, <1>1 DEF PoolReady
<1>5. CASE Create
  BY <1>2, <1>5 DEF Create, NewStore, CompileModule, ResolveImport, Instantiate, ReturnMinst,
                    FailCreate, minstVars
<1>6. CASE \/ FailExports \/ FailInitialize \/ (\E k \in DOMAIN pool : TrapInSystem(k))
           \/ DeleteTrap \/ DeleteInstance \/ DeleteModule \/ DeleteStore
  BY <1>2, <1>6 DEF FailExports, FailInitialize, FailLoad, TrapInSystem, DeleteTrap,
                    DeleteInstance, DeleteModule, DeleteStore, Delete, minstVars
<1>7. CASE Still
  BY <1>2, <1>7, StillKeeps
<1>8. QED
  BY <1>3, <1>4, <1>5, <1>6, <1>7 DEF Next, Still

LEMMA PhaseNext == IInv /\ [Next]_vars => Phase'
<1> SUFFICES ASSUME IInv, [Next]_vars PROVE Phase'
  OBVIOUS
<1>0. /\ self \in Minsts /\ inst \in Minsts /\ dying \in Minsts
      /\ Formed(self) /\ Formed(inst) /\ Formed(dying) /\ made \in Nat /\ Phase
  BY Facts DEF IInv
<1> USE DEF loadVars, minstVars, destroyVars
<1>1. CASE NewStore
  <2>1. self = NoParts /\ inst = NoParts /\ dying = NoParts
    BY <1>1, <1>0, Settled DEF NewStore, At, Phase
  <2>2. /\ self' = [NoParts EXCEPT !.store = Object("store", made')] /\ pc' = "compile"
        /\ inst' = NoParts /\ dying' = NoParts
    BY <1>1, <2>1 DEF NewStore, Object
  <2>3. QED
    BY <2>2 DEF Phase, NoParts
<1>2. CASE CompileModule
  <2>1. /\ self.store = Object("store", made) /\ self.instance = Null
        /\ inst = NoParts /\ dying = NoParts
    BY <1>2, <1>0, Settled DEF CompileModule, At, Phase, Formed
  <2>2. /\ self'.store = self.store /\ self'.module = Object("module", made)
        /\ self'.instance = Null /\ pc' = "resolve" /\ UNCHANGED <<inst, dying, made>>
    BY <1>0, <1>2, <2>1 DEF CompileModule, Minsts, Handle, Object
  <2>3. Object("module", made) # Null
    BY <1>0, ObjectsAreSet DEF Objects
  <2>4. QED
    BY <2>1, <2>2, <2>3 DEF Phase
<1>3. CASE ResolveImport
  BY <1>0, <1>3 DEF ResolveImport, Phase, At
<1>4. CASE Instantiate
  <2>1. /\ self.store = Object("store", made) /\ inst = NoParts /\ dying = NoParts
    BY <1>4, <1>0, Settled DEF Instantiate, At, Phase
  <2>2. /\ self'.store = self.store /\ self'.instance = Object("instance", made)
        /\ DOMAIN self'.exports = DOMAIN self.exports
        /\ \A i \in DOMAIN self.exports :
             self'.exports[i] = [self.exports[i] EXCEPT !.object = Object("externs", made)]
        /\ pc' = "created" /\ UNCHANGED <<inst, dying, made>>
    BY <1>0, <1>4 DEF Instantiate, Minsts, Handle, Object
  <2>3. \A i \in DOMAIN self.exports : self.exports[i] \in Exports
    BY <1>0 DEF Minsts
  <2>4. \A i \in DOMAIN self'.exports : self'.exports[i].object = Object("externs", made)
    <3>1. ASSUME NEW i \in DOMAIN self.exports
          PROVE  self'.exports[i].object = Object("externs", made)
      BY <2>2, <2>3 DEF Exports
    <3>2. QED
      BY <2>2, <3>1
  <2>5. Object("instance", made) # Null /\ self'.store.of = made
    BY <1>0, <2>1, <2>2, ObjectsAreSet DEF Objects, Object
  <2>6. Whole(self')
    BY <2>2, <2>4, <2>5 DEF Whole, Linked
  <2>7. Whole(self)'
    BY <2>6 DEF Whole, Linked
  <2>8. QED
    BY <2>1, <2>2, <2>7 DEF Phase
<1>5. CASE ReturnMinst
  <2>1. /\ self.store = Object("store", made) /\ Whole(self)
        /\ inst' = self /\ self' = NoParts /\ dying' = NoParts /\ pc' = "exports" /\ made' = made
    BY <1>5, <1>0 DEF ReturnMinst, Destroy, MovedFrom, At, Phase
  <2>2. QED
    BY <2>1 DEF Phase, Whole, Linked
<1>6. CASE (\E err \in CreateErrors : FailCreate(err)) \/ FailExports \/ FailInitialize
  <2>1. pc' = "idle" /\ self' = NoParts /\ inst' = NoParts
    BY <1>6, <1>0 DEF FailCreate, FailExports, FailInitialize, FailLoad, At, Phase
  <2>2. QED
    BY <2>1 DEF Phase
<1>7. CASE EmplaceMinst
  <2>1. pc' = "create" /\ self' = NoParts /\ inst' = NoParts /\ dying' = NoParts
    BY <1>7, <1>0 DEF EmplaceMinst, Destroy, MovedFrom, At, Phase
  <2>2. QED
    BY <2>1 DEF Phase
<1>8. CASE ClearMinst
  <2>1. pc' = pc /\ pc \in {"clear", "reset"} /\ UNCHANGED <<self, inst>>
    BY <1>8 DEF ClearMinst, At
  <2>2. QED
    BY <1>0, <2>1 DEF Phase
<1>9. CASE DeleteTrap \/ DeleteInstance \/ DeleteModule \/ DeleteStore
  <2>1. UNCHANGED <<pc, self, inst, made>>
    BY <1>9 DEF DeleteTrap, DeleteInstance, DeleteModule, DeleteStore, Delete
  <2>2. pc \in {"idle", "clear", "reset"}
    <3>1. CASE DeleteTrap
      BY <3>1 DEF DeleteTrap, IInv, Trapped
    <3>2. CASE DeleteInstance \/ DeleteModule \/ DeleteStore
      BY <3>2, DyingApart DEF DeleteInstance, DeleteModule, DeleteStore, Owned
    <3>3. QED
      BY <1>9, <3>1, <3>2
  <2>3. QED
    BY <1>0, <2>1, <2>2 DEF Phase
<1>10. CASE FindExports \/ Initialize
  <2>1. /\ UNCHANGED <<self, inst, dying, made, args>> /\ dying = NoParts /\ self = NoParts
        /\ inst.store = Object("store", made) /\ Whole(inst)
        /\ pc' \in {"no_memory", "initialize", "emplace"}
    BY <1>10, <1>0, Settled DEF FindExports, Initialize, At, Phase
  <2>2. /\ \A n \in DOMAIN args.systems : Callable(args.systems[n])
        /\ pc' # "no_memory" => Memories # {}
    BY <1>10, <1>0 DEF FindExports, Initialize, At, Phase
  <2>3. QED
    BY <2>1, <2>2 DEF Phase, Whole, Linked, Memories, Callable, FindExport, ExportAt, Named
<1>11. CASE AbortInInitialize
  <2>1. /\ UNCHANGED <<self, inst, dying, made>> /\ dying = NoParts /\ self = NoParts
        /\ inst.store = Object("store", made) /\ Whole(inst) /\ pc' = "bad_initialize"
    BY <1>11, <1>0, Settled DEF AbortInInitialize, At, Phase
  <2>2. QED
    BY <2>1 DEF Phase, Whole, Linked
<1>12. CASE \/ (\E module \in Modules, systems \in Lists : BeginLoad(module, systems))
            \/ Reset \/ EndClear \/ FinishLoad \/ \E k \in DOMAIN pool : TrapInSystem(k)
  <2>1. /\ UNCHANGED <<self, inst, dying>> /\ dying = NoParts /\ self = NoParts /\ inst = NoParts
        /\ pc' \in {"idle", "clear", "reset", "create"}
    BY <1>12, <1>0, Settled DEF BeginLoad, Reset, EndClear, FinishLoad, TrapInSystem, At, Phase
  <2>2. QED
    BY <2>1 DEF Phase
<1>13. CASE StayHalted \/ UNCHANGED vars
  <2>1. UNCHANGED vars
    BY <1>13 DEF StayHalted
  <2>2. QED
    BY <1>0, <2>1 DEF vars, Phase, Whole, Linked, Memories, Callable, FindExport, ExportAt, Named
<1>14. QED
  BY <1>1, <1>2, <1>3, <1>4, <1>5, <1>6, <1>7, <1>8, <1>9, <1>10, <1>11, <1>12, <1>13
     DEF Next, Create

-------------------------------------------------------------------------------
(* The theorems *)

LEMMA InvInit == Init => IInv
<1> SUFFICES ASSUME Init PROVE IInv
  OBVIOUS
<1>1. self = NoParts /\ inst = NoParts /\ dying = NoParts /\ pool = <<>> /\ DOMAIN pool = {}
      /\ live = {} /\ trap = Null /\ pc = "idle"
  BY DEF Init
<1>2. Roles = {NoParts}
  BY <1>1 DEF Roles
<1>3. Heap /\ Trapped /\ Apart /\ PoolReady
  BY <1>1, <1>2, NoPartsFormed DEF Heap, Trapped, Apart, PoolReady
<1>4. Phase
  BY <1>1 DEF Phase
<1>5. QED
  BY <1>3, <1>4, TypeInit DEF IInv

\* Through every step of load, of reset and of the destructors, what exists is
\* what the minsts own and what they borrow.
THEOREM Invariance == Spec => []IInv
<1>1. IInv /\ [Next]_vars => IInv'
  BY TypeNext, CallsNext, HeapNext, TrappedNext, ApartNext, PoolReadyNext, PhaseNext DEF IInv
<1>2. QED
  BY InvInit, <1>1, PTL DEF Spec

\* Every variable has its type, and load makes no more instances than the pool
\* holds (wasm.cc:199).
THEOREM TypeCorrect == Spec => []TypeOK
<1>1. IInv => TypeOK
  BY DEF IInv
<1>2. QED
  BY Invariance, <1>1, PTL

LEMMA PlacesAre ==
  ASSUME IInv
  PROVE  /\ DOMAIN Places = 1..(3 + Len(pool)) /\ Len(pool) \in Nat /\ DOMAIN pool = 1..Len(pool)
         /\ Places[1] = self /\ Places[2] = inst /\ Places[3] = dying
         /\ \A p \in DOMAIN Places :
              p > 3 => p - 3 \in DOMAIN pool /\ Places[p] = pool[p - 3].minst
<1> DEFINE s == <<self, inst, dying>>
           q == [k \in DOMAIN pool |-> pool[k].minst]
<1>1. Len(pool) \in Nat /\ DOMAIN pool = 1..Len(pool)
  BY Facts
<1>2. q \in Seq(Roles) /\ Len(q) = Len(pool)
  BY <1>1 DEF Roles
<1>3. s \in Seq(Roles) /\ Len(s) = 3
  BY DEF Roles
<1>4. s[1] = self /\ s[2] = inst /\ s[3] = dying
  OBVIOUS
<1>5. \A k \in DOMAIN pool : q[k] = pool[k].minst
  OBVIOUS
<1>6. Places = s \o q
  BY DEF Places
<1> HIDE DEF s, q
<1>7. ASSUME NEW S, NEW a \in Seq(S), NEW b \in Seq(S)
      PROVE  /\ Len(a \o b) = Len(a) + Len(b) /\ DOMAIN (a \o b) = 1..(Len(a) + Len(b))
             /\ \A p \in 1..(Len(a) + Len(b)) :
                  (a \o b)[p] = IF p <= Len(a) THEN a[p] ELSE b[p - Len(a)]
  OBVIOUS
<1>8. /\ Len(s \o q) = Len(s) + Len(q) /\ DOMAIN (s \o q) = 1..(Len(s) + Len(q))
      /\ \A p \in 1..(Len(s) + Len(q)) :
           (s \o q)[p] = IF p <= Len(s) THEN s[p] ELSE q[p - Len(s)]
  BY <1>2, <1>3, <1>7, Zenon
<1>9. \A p \in 1..(3 + Len(pool)) : (s \o q)[p] = IF p <= 3 THEN s[p] ELSE q[p - 3]
  BY <1>1, <1>2, <1>3, <1>8
<1>10. DOMAIN (s \o q) = 1..(3 + Len(pool))
  BY <1>1, <1>2, <1>3, <1>8
<1>11. 1 \in DOMAIN Places /\ 2 \in DOMAIN Places /\ 3 \in DOMAIN Places
  BY <1>1, <1>6, <1>10
<1>12. \A p \in DOMAIN Places :
         p > 3 => p - 3 \in DOMAIN pool /\ Places[p] = pool[p - 3].minst
  BY <1>1, <1>5, <1>6, <1>9, <1>10
<1>13. QED
  BY <1>1, <1>4, <1>6, <1>9, <1>10, <1>11, <1>12

\* Two places never own the same.
LEMMA PlacesApart ==
  ASSUME IInv, NEW p \in DOMAIN Places, NEW q \in DOMAIN Places, p # q
  PROVE  Owned(Places[p]) \cap Owned(Places[q]) = {}
<1>1. \A n \in DOMAIN Places : n \in Int /\ (n \in {1, 2, 3} \/ n > 3)
  BY PlacesAre
<1>2. Formed(self) /\ Formed(inst) /\ Formed(dying)
  BY Facts
<1>3. \A k \in DOMAIN pool : Formed(pool[k].minst)
  BY PoolStores
<1>4. /\ self = NoParts \/ inst = NoParts
      /\ self = NoParts \/ dying = NoParts
      /\ inst = NoParts \/ dying = NoParts
  BY DEF IInv, Phase
<1>5. CASE p \in {1, 2, 3} /\ q \in {1, 2, 3}
  BY <1>4, <1>5, PlacesAre, NoPartsFormed
<1>6. ASSUME NEW m \in {self, inst, dying}, NEW k \in DOMAIN pool
      PROVE  Owned(m) \cap Owned(pool[k].minst) = {}
  <2>1. m.store # pool[k].minst.store
    BY <1>6 DEF IInv, Apart
  <2>2. QED
    BY <1>2, <1>3, <2>1, OwnedApart
<1>7. CASE p \in {1, 2, 3} /\ q > 3
  BY <1>6, <1>7, PlacesAre
<1>8. CASE p > 3 /\ q \in {1, 2, 3}
  BY <1>6, <1>8, PlacesAre
<1>9. CASE p > 3 /\ q > 3
  <2>1. p - 3 \in DOMAIN pool /\ q - 3 \in DOMAIN pool /\ p - 3 # q - 3
        /\ Places[p] = pool[p - 3].minst /\ Places[q] = pool[q - 3].minst
    BY <1>1, <1>9, PlacesAre
  <2>2. pool[p - 3].minst.store # pool[q - 3].minst.store
    BY <2>1 DEF IInv, Apart
  <2>3. QED
    BY <1>3, <2>1, <2>2, OwnedApart
<1>10. QED
  BY <1>1, <1>5, <1>7, <1>8, <1>9

LEMMA RolesHavePlaces ==
  ASSUME IInv
  PROVE  /\ \A p \in DOMAIN Places : Places[p] \in Roles
         /\ \A m \in Roles : \E p \in DOMAIN Places : Places[p] = m
<1>1. \A p \in DOMAIN Places : Places[p] \in Roles
  BY PlacesAre DEF Roles
<1>2. ASSUME NEW k \in DOMAIN pool
      PROVE  \E p \in DOMAIN Places : Places[p] = pool[k].minst
  <2>1. k + 3 \in DOMAIN Places /\ k + 3 > 3 /\ (k + 3) - 3 = k
    BY PlacesAre
  <2>2. QED
    BY <2>1, PlacesAre
<1>3. 1 \in DOMAIN Places /\ 2 \in DOMAIN Places /\ 3 \in DOMAIN Places
  BY PlacesAre
<1>4. QED
  BY <1>1, <1>2, <1>3, PlacesAre DEF Roles

\* Whatever fails, what a minst would delete exists and is deleted by nobody else:
\* no destructor, of a moved minst or of one that create gave up, deletes twice
\* (minst.cc:224-255).
THEOREM DeletedOnce == Spec => []ReleasedOnce
<1>1. IInv => ReleasedOnce
  <2> SUFFICES ASSUME IInv PROVE ReleasedOnce
    OBVIOUS
  <2>1. \A p \in DOMAIN Places : Owned(Places[p]) \subseteq live
    BY RolesHavePlaces DEF IInv, Heap
  <2>2. trap # Null => trap \in live
    BY DEF IInv, Trapped
  <2>3. QED
    BY <2>1, <2>2, PlacesApart DEF ReleasedOnce
<1>2. QED
  BY Invariance, <1>1, PTL

\* On no way out of create and load is a store, a module, an instance or a trap
\* left that nothing will delete (minst.cc:134-196).
THEOREM NothingIsLeaked == Spec => []NothingLeaked
<1>1. IInv => NothingLeaked
  BY RolesHavePlaces DEF IInv, Heap, HasOwner, NothingLeaked
<1>2. QED
  BY Invariance, <1>1, PTL

\* Instances are deleted before modules, modules and traps before stores
\* (minst.cc:240-255).
THEOREM StoresOutlive == Spec => []StoreOutlivesItsParts
<1>1. IInv => StoreOutlivesItsParts
  <2> SUFFICES ASSUME IInv, NEW h \in live
               PROVE  /\ h.kind = "instance" => [h EXCEPT !.kind = "module"] \in live
                      /\ h.kind \in {"module", "instance", "trap"} =>
                           [h EXCEPT !.kind = "store"] \in live
    BY DEF StoreOutlivesItsParts
  <2>1. HasOwner(h) /\ h \in [kind: Objects, of: 1..made]
    BY DEF IInv, Heap, TypeOK, Handles
  <2>2. h = Object(h.kind, h.of) /\ \A kind : [h EXCEPT !.kind = kind] = Object(kind, h.of)
    BY <2>1 DEF Object
  <2>3. CASE h.kind \in {"module", "instance"}
    <3>1. h # trap
      BY <2>3, Facts DEF IInv, Trapped, Object
    <3>2. PICK m \in Roles : h \in Owned(m)
      BY <2>1, <2>3, <3>1 DEF HasOwner
    <3>3. Formed(m) /\ Owned(m) \subseteq live
      BY <3>2 DEF IInv, Heap
    <3>4. m.store # Null
      BY <3>2, <3>3, NoPartsFormed DEF Formed
    <3>5. m.store = Object("store", h.of)
      BY <2>3, <3>2, <3>3, <3>4 DEF Formed, Owned, Object
    <3>6. h.kind = "instance" => m.module = Object("module", h.of) /\ m.module # Null
      BY <2>3, <3>2, <3>3, <3>4 DEF Formed, Owned, Object
    <3>7. QED
      BY <2>2, <3>3, <3>4, <3>5, <3>6 DEF Owned
  <2>4. CASE h.kind = "trap"
    <3>1. h = trap /\ trap # Null
      <4>1. \A m \in Roles : h \notin Owned(m)
        BY <2>4, OwnedKinds DEF IInv, Heap
      <4>2. QED
        BY <2>1, <2>4, <4>1, Facts DEF HasOwner
    <3>2. PICK m \in Roles : m.store # Null /\ trap = Object("trap", m.store.of)
      BY <3>1 DEF IInv, Trapped
    <3>3. Formed(m) /\ m.store \in live
      BY <3>2 DEF IInv, Heap, Owned
    <3>4. m.store = Object("store", h.of)
      BY <3>1, <3>2, <3>3 DEF Formed, Object
    <3>5. QED
      BY <2>2, <2>4, <3>3, <3>4
  <2>5. QED
    BY <2>3, <2>4
<1>2. QED
  BY Invariance, <1>1, PTL

\* Pointers to type lists and externs are good as long as the minst or the member
\* of the pool that holds them (minst.cc:143-217).
THEOREM BorrowsAreValid == Spec => []BorrowedStayValid
<1>1. IInv => BorrowedStayValid
  BY RolesHavePlaces DEF IInv, Heap, PoolReady, Ready, Valid, BorrowedStayValid
<1>2. QED
  BY Invariance, <1>1, PTL

\* A system that runs in a member of the pool is given the function of that name
\* and the memory of one and the same instance (wasm.cc:101-102).
THEOREM OwnInstances == Spec => []SystemsUseOwnInstance
<1>1. IInv => SystemsUseOwnInstance
  <2> SUFFICES ASSUME IInv, NEW k \in DOMAIN pool
               PROVE  /\ pool[k].memory.kind = "memory"
                      /\ pool[k].memory.object = [kind |-> "externs", of |-> pool[k].minst.instance.of]
                      /\ \A s \in DOMAIN pool[k].sys_impl_exports :
                           LET e == pool[k].sys_impl_exports[s] IN
                           e.name = s /\ e.kind = "func" /\ e.object = pool[k].memory.object
    BY DEF SystemsUseOwnInstance
  <2>1. Ready(pool[k])
    BY DEF IInv, PoolReady
  <2>2. pool[k].minst.instance.of = pool[k].minst.store.of
    BY PoolStores DEF Formed, Object
  <2>3. QED
    BY <2>1, <2>2 DEF Ready, Linked, Object
<1>2. QED
  BY Invariance, <1>1, PTL
==============================================================================
