--------------------------- MODULE SystemImplProofs ---------------------------
(***************************************************************************)
(* Proofs about SystemImpl: for every number of threads, every set of      *)
(* systems and binaries and every size of the pool.                        *)
(***************************************************************************)
EXTENDS SystemImpl, TLAPS

-------------------------------------------------------------------------------
(* Arithmetic of the round robin *)

\* Division with remainder.
LEMMA DivMod ==
  ASSUME NEW n \in Nat \ {0}, NEW a \in Nat
  PROVE  /\ a = n * (a \div n) + (a % n)
         /\ a \div n \in Nat
         /\ a % n \in Nat
         /\ a % n < n
BY SMT

\* The next multiple of n is n further on.
LEMMA NextMultiple ==
  ASSUME NEW n \in Nat \ {0}, NEW p \in Int, NEW q \in Int, p < q
  PROVE  n * p + n <= n * q
<1>1. n * (p + 1) <= n * q
  BY SMT
<1>2. n * (p + 1) = n * p + n
  BY SMT
<1>3. QED
  BY <1>1, <1>2

\* Two indices that fall on one slot of a pool of n are at least n apart
\* (wasm.cc:82).
LEMMA SameSlot ==
  ASSUME NEW n \in Nat \ {0}, NEW a \in Nat, NEW b \in Nat,
         a < b, a % n = b % n
  PROVE  a + n <= b
<1> DEFINE p == a \div n
           q == b \div n
<1>1. a = n * p + (a % n) /\ p \in Nat /\ a % n \in Nat
  BY DivMod
<1>2. b = n * q + (b % n) /\ q \in Nat
  BY DivMod
<1>3. n * p \in Nat /\ n * q \in Nat
  BY <1>1, <1>2
<1> HIDE DEF p, q
<1>4. p < q
  <2>1. SUFFICES ASSUME q <= p PROVE FALSE
    BY <1>1, <1>2
  <2>2. n * q <= n * p
    BY <2>1, <1>1, <1>2
  <2>3. QED
    BY <2>2, <1>1, <1>2, <1>3
<1>5. n * p + n <= n * q
  BY <1>4, NextMultiple, <1>1, <1>2
<1>6. QED
  BY <1>1, <1>2, <1>3, <1>5

\* The slot of an index lies in the pool, unless the pool is empty.
LEMMA SlotInPool ==
  ASSUME all_minsts \in Seq(Minst), all_minsts # <<>>, NEW n \in Nat
  PROVE  Slot(n) \in 1..Len(all_minsts)
<1>1. Len(all_minsts) \in Nat \ {0}
  OBVIOUS
<1>2. QED
  BY <1>1, DivMod DEF Slot

-------------------------------------------------------------------------------
(* Type correctness *)

\* A pool is built only by a load that has been counted.
LoadCounted == host = "load" => loads > 0

LEMMA TypeInit == Init => TypeOK /\ LoadCounted
<1>1. <<>> \in Seq(Minst) /\ Len(<<>>) = 0
  OBVIOUS
<1>2. [module |-> NoMinst, systems |-> {}] \in LoadArgs
  BY DEF LoadArgs
<1>3. Init => /\ all_minsts \in Seq(Minst) /\ Len(all_minsts) <= PoolSize
              /\ args \in LoadArgs
  BY <1>1, <1>2, ConstantsOK DEF Init
<1>4. Init => /\ thread_minst \in [Threads -> Minst \cup {NoMinst}]
              /\ held \in [Threads -> Minst \cup {NoMinst}]
              /\ pc \in [Threads -> Steps]
              /\ sys \in [Threads -> Systems \cup {Idle}]
              /\ ticket \in [Threads -> Nat]
  BY DEF Init, Steps
<1>5. Init => /\ next_available_minst_index \in Nat
              /\ loads \in 0..MaxLoads
              /\ last_error_message \in 0..MaxLoads
  BY ConstantsOK DEF Init
<1>6. Init => /\ impls \subseteq Systems /\ offered \subseteq Systems
              /\ reported \subseteq Systems
              /\ trap_handler \in BOOLEAN
              /\ host \in HostCallNames /\ LoadCounted
              /\ result \in Results
  BY DEF Init, LoadCounted, Results, HostCallNames
<1>7. QED
  BY <1>3, <1>4, <1>5, <1>6 DEF TypeOK

LEMMA TypeNext == TypeOK /\ LoadCounted /\ [Next]_vars => TypeOK' /\ LoadCounted'
<1> SUFFICES ASSUME TypeOK, LoadCounted, [Next]_vars
             PROVE  TypeOK' /\ LoadCounted'
  OBVIOUS
<1> USE DEF TypeOK, LoadCounted, loaderVars, threadVars, handlerVars
<1>0. ASSUME RefuseLoad
      PROVE  TypeOK' /\ LoadCounted'
  BY <1>0 DEF RefuseLoad, Results, LoadErrors
<1>1. ASSUME NEW err \in FileErrors, RefuseFile(err)
      PROVE  TypeOK' /\ LoadCounted'
  BY <1>1 DEF RefuseFile, Results, LoadErrors
<1>2. ASSUME NEW module \in Modules, NEW systems \in SUBSET Systems,
             BeginLoad(module, systems)
      PROVE  TypeOK' /\ LoadCounted'
  BY <1>2, ConstantsOK DEF BeginLoad, HostCallNames, LoadArgs, Results
<1>3. ASSUME NEW err \in CreateErrors, FailCreate(err)
      PROVE  TypeOK' /\ LoadCounted'
  BY <1>3 DEF FailCreate, CreateErrors, Results, LoadErrors, HostCallNames
<1>4. ASSUME NEW err \in ExportErrors, FailExports(err)
      PROVE  TypeOK' /\ LoadCounted'
  BY <1>4 DEF FailExports, ExportErrors, Results, LoadErrors, HostCallNames
<1>5. CASE AbortWithoutMemory \/ AbortInInitialize
  BY <1>5 DEF AbortWithoutMemory, AbortInInitialize, HostCallNames
<1>6. CASE FailInitialize
  BY <1>6 DEF FailInitialize, HostCallNames, Results, LoadErrors
<1>7. CASE EmplaceMinst
  <2>1. [load |-> loads, slot |-> Len(all_minsts) + 1, exports |-> args.systems]
          \in Minst
    BY <1>7, ConstantsOK DEF EmplaceMinst, ExportsFound, Building, Minst, LoadArgs
  <2>2. all_minsts' \in Seq(Minst) /\ Len(all_minsts') <= PoolSize
    BY <1>7, <2>1, ConstantsOK DEF EmplaceMinst, ExportsFound, Building
  <2>3. QED
    BY <1>7, <2>2 DEF EmplaceMinst
<1>8. CASE FinishLoad
  BY <1>8 DEF FinishLoad, HostCallNames, Results, LoadArgs
<1>9. CASE Reset
  <2>1. all_minsts' \in Seq(Minst) /\ Len(all_minsts') = 0
    BY <1>9 DEF Reset
  <2>2. QED
    BY <1>9, <2>1, ConstantsOK DEF Reset
<1>10. ASSUME NEW handler \in BOOLEAN, SetTrapHandler(handler)
       PROVE  TypeOK' /\ LoadCounted'
  BY <1>10 DEF SetTrapHandler
<1>11. CASE BeginExecute
  BY <1>11 DEF BeginExecute, HostCallNames
<1>12. CASE EndExecute
  BY <1>12 DEF EndExecute, HostCallNames
<1>13. ASSUME NEW t \in Threads, NEW s \in Systems, Enter(t, s)
       PROVE  TypeOK' /\ LoadCounted'
  BY <1>13 DEF Enter, Step, Steps
<1>14. ASSUME NEW t \in Threads, LockMinst(t)
       PROVE  TypeOK' /\ LoadCounted'
  BY <1>14 DEF LockMinst, Step, Steps
<1>15. ASSUME NEW t \in Threads, DrawIndex(t)
       PROVE  TypeOK' /\ LoadCounted'
  BY <1>15 DEF DrawIndex, Step, Steps
<1>16. ASSUME NEW t \in Threads, ClaimMinst(t)
       PROVE  TypeOK' /\ LoadCounted'
  <2>1. Slot(ticket[t]) \in 1..Len(all_minsts)
    BY <1>16, SlotInPool DEF ClaimMinst
  <2>2. all_minsts[Slot(ticket[t])] \in Minst
    BY <2>1
  <2>3. QED
    BY <1>16, <2>2 DEF ClaimMinst, Step, Steps
<1>17. ASSUME NEW t \in Threads, DivideByZero(t)
       PROVE  TypeOK' /\ LoadCounted'
  BY <1>17 DEF DivideByZero, Step, Steps
<1>18. ASSUME NEW t \in Threads, CallGuest(t)
       PROVE  TypeOK' /\ LoadCounted'
  BY <1>18 DEF CallGuest, Step, Steps
<1>19. ASSUME NEW t \in Threads, MissExport(t)
       PROVE  TypeOK' /\ LoadCounted'
  BY <1>19 DEF MissExport, Step, Steps
<1>20. ASSUME NEW t \in Threads, ReturnFromGuest(t)
       PROVE  TypeOK' /\ LoadCounted'
  BY <1>20 DEF ReturnFromGuest, Step, Steps
<1>21. ASSUME NEW t \in Threads, TrapInGuest(t)
       PROVE  TypeOK' /\ LoadCounted'
  BY <1>21 DEF TrapInGuest, Step, Steps
<1>22. ASSUME NEW t \in Threads, DropTrap(t)
       PROVE  TypeOK' /\ LoadCounted'
  BY <1>22 DEF DropTrap, Step, Steps
<1>23. ASSUME NEW t \in Threads, ReplaceThread(t)
       PROVE  TypeOK' /\ LoadCounted'
  BY <1>23 DEF ReplaceThread
<1>24. CASE UNCHANGED vars
  BY <1>24 DEF vars
<1>25. QED
  BY <1>0, <1>1, <1>2, <1>3, <1>4, <1>5, <1>6, <1>7, <1>8, <1>9, <1>10, <1>11, <1>12,
     <1>13, <1>14, <1>15, <1>16, <1>17, <1>18, <1>19, <1>20, <1>21, <1>22,
     <1>23, <1>24
  DEF Next, HostStep, ThreadStep, StayHalted

\* Every variable keeps its type, and the pool its bound.
THEOREM TypeCorrect == Spec => []TypeOK
<1>1. TypeOK /\ LoadCounted => TypeOK
  OBVIOUS
<1>2. QED
  BY TypeInit, TypeNext, <1>1, PTL DEF Spec

-------------------------------------------------------------------------------
(* What the steps of one side leave alone *)

LEMMA ThreadStepFrame ==
  ASSUME NEW t \in Threads, ThreadStep(t)
  PROVE  UNCHANGED <<loaderVars, host>>
BY DEF ThreadStep, Enter, LockMinst, DrawIndex, ClaimMinst, DivideByZero,
       CallGuest, MissExport, ReturnFromGuest, TrapInGuest, DropTrap, ReplaceThread

LEMMA HostStepFrame ==
  ASSUME HostStep
  PROVE  UNCHANGED threadVars
BY DEF HostStep, RefuseLoad, RefuseFile, BeginLoad, FailCreate, FailExports,
       AbortWithoutMemory, AbortInInitialize, FailInitialize, EmplaceMinst, FinishLoad, Reset,
       SetTrapHandler, BeginExecute, EndExecute, threadVars

\* The host enters and leaves ecsact_execute_systems only while every thread is
\* idle, and otherwise acts outside of it.
LEMMA HostStepGuard ==
  ASSUME HostStep
  PROVE  \/ host # "execute"
         \/ \A t \in Threads : pc[t] = "idle"
BY DEF HostStep, RefuseLoad, RefuseFile, BeginLoad, FailCreate, FailExports,
       AbortWithoutMemory, AbortInInitialize, FailInitialize, EmplaceMinst, FinishLoad, Reset,
       SetTrapHandler, BeginExecute, EndExecute, HostCalls, Building,
       ExportsFound

-------------------------------------------------------------------------------
(* The pool *)

\* The pool holds instances of the latest load only, in their order, and each
\* of them exports the systems of that load.
PoolIsOfThisLoad ==
  \A i \in 1..Len(all_minsts) :
    all_minsts[i] = [load |-> loads, slot |-> i, exports |-> args.systems]

\* What is on offer is what a complete pool exports.
OfferIsPool ==
  offered # {} => Len(all_minsts) = PoolSize /\ offered = args.systems

PoolInv == PoolIsOfThisLoad /\ OfferIsPool

LEMMA PoolMember ==
  ASSUME PoolInv, NEW m \in Pool
  PROVE  m.load = loads /\ m.exports = args.systems
<1>1. PICK i \in 1..Len(all_minsts) : m = all_minsts[i]
  BY DEF Pool
<1>2. m = [load |-> loads, slot |-> i, exports |-> args.systems]
  BY <1>1 DEF PoolInv, PoolIsOfThisLoad
<1>3. QED
  BY <1>2

LEMMA PoolInit == Init => PoolInv
BY DEF Init, PoolInv, PoolIsOfThisLoad, OfferIsPool

LEMMA PoolNext == TypeOK /\ PoolInv /\ [Next]_vars => PoolInv'
<1> SUFFICES ASSUME TypeOK, PoolInv, [Next]_vars
             PROVE  PoolInv'
  OBVIOUS
<1> USE DEF PoolInv, PoolIsOfThisLoad, OfferIsPool
<1>1. ASSUME NEW module \in Modules, NEW systems \in SUBSET Systems,
             BeginLoad(module, systems)
      PROVE  PoolInv'
  BY <1>1 DEF BeginLoad
<1>2. CASE EmplaceMinst
  <2> DEFINE m == [load |-> loads, slot |-> Len(all_minsts) + 1,
                   exports |-> args.systems]
  <2>1. all_minsts' = Append(all_minsts, m) /\ UNCHANGED <<args, loads, offered>>
    BY <1>2 DEF EmplaceMinst
  <2>2. Len(all_minsts) \in Nat /\ Len(all_minsts') = Len(all_minsts) + 1
    BY <2>1 DEF TypeOK
  <2>3. ASSUME NEW i \in 1..Len(all_minsts')
        PROVE  all_minsts'[i] = [load |-> loads', slot |-> i,
                                 exports |-> args'.systems]
    <3>1. CASE i = Len(all_minsts) + 1
      BY <3>1, <2>1, <2>2 DEF TypeOK
    <3>2. CASE i \in 1..Len(all_minsts)
      BY <3>2, <2>1, <2>2 DEF TypeOK
    <3>3. QED
      BY <3>1, <3>2, <2>2
  <2>4. offered = {}
    BY <1>2, <2>2, ConstantsOK DEF EmplaceMinst, ExportsFound, Building, TypeOK
  <2>5. QED
    BY <2>1, <2>3, <2>4
<1>3. CASE FinishLoad
  BY <1>3 DEF FinishLoad
<1>4. CASE Reset
  BY <1>4 DEF Reset
<1>5. CASE UNCHANGED <<all_minsts, args, loads, offered>>
  BY <1>5
<1>6. CASE HostStep
  BY <1>1, <1>2, <1>3, <1>4, <1>5, <1>6
  DEF HostStep, RefuseLoad, RefuseFile, FailCreate, FailExports,
      AbortWithoutMemory, AbortInInitialize, FailInitialize, SetTrapHandler, BeginExecute, EndExecute, loaderVars
<1>7. ASSUME NEW t \in Threads, ThreadStep(t) PROVE PoolInv'
  BY <1>5, <1>7, ThreadStepFrame DEF loaderVars
<1>8. CASE UNCHANGED vars
  BY <1>5, <1>8 DEF vars
<1>9. QED
  BY <1>6, <1>7, <1>8 DEF Next, StayHalted

-------------------------------------------------------------------------------
(* The calls of the threads *)

\* Threads execute systems only inside ecsact_execute_systems.
BusyInExecute == \A t \in Threads : pc[t] # "idle" => host = "execute"

\* What each step of a call knows of its locals and of the pool.
CallShape ==
  \A t \in Threads :
    /\ pc[t] = "idle" => sys[t] = Idle
    /\ pc[t] # "idle" => sys[t] \in Systems
    /\ pc[t] \in {"idle", "ensure", "claim", "empty_pool"} => held[t] = NoMinst
    /\ InInstance(t) \/ pc[t] = "no_export" =>
         held[t] \in Pool /\ held[t] = thread_minst[t]
    /\ pc[t] = "empty_pool" => all_minsts = <<>>
    /\ pc[t] = "no_export" => sys[t] \notin args.systems

CallInv == BusyInExecute /\ CallShape

LEMMA CallInit == Init => CallInv
BY DEF Init, CallInv, BusyInExecute, CallShape, InInstance

\* While no thread executes, nothing but pc, sys and held matters.
LEMMA CallHostStep == TypeOK /\ CallInv /\ HostStep => CallInv'
<1> SUFFICES ASSUME TypeOK, CallInv, HostStep
             PROVE  CallInv'
  OBVIOUS
<1>1. \A t \in Threads : pc[t] = "idle"
  BY HostStepGuard DEF CallInv, BusyInExecute
<1>2. UNCHANGED threadVars
  BY HostStepFrame
<1>3. QED
  BY <1>1, <1>2 DEF CallInv, BusyInExecute, CallShape, InInstance, threadVars

\* An instance that a weak pointer still reaches while threads execute is in
\* the pool.
LEMMA AliveInPool ==
  ASSUME TypeOK, CallInv, NEW m, Alive(m)
  PROVE  m \in Pool
<1>1. ASSUME NEW t \in Threads, m = held[t], m # NoMinst
      PROVE  m \in Pool
  BY <1>1 DEF TypeOK, Steps, CallInv, CallShape, InInstance
<1>2. QED
  BY <1>1 DEF Alive

LEMMA CallThreadStep ==
  ASSUME TypeOK, PoolInv, CallInv, NEW t \in Threads, ThreadStep(t)
  PROVE  CallInv'
<1> USE DEF TypeOK, CallInv, BusyInExecute, CallShape, InInstance, Step
<1>1. /\ UNCHANGED <<all_minsts, args, host>>
      /\ Pool' = Pool
  BY ThreadStepFrame DEF loaderVars, Pool
<1>2. ASSUME NEW s \in Systems, Enter(t, s) PROVE CallInv'
  BY <1>1, <1>2 DEF Enter
<1>3. CASE LockMinst(t)
  <2>1. thread_minst[t] \in Pool
    BY <1>3, AliveInPool DEF LockMinst
  <2>2. QED
    BY <1>1, <1>3, <2>1 DEF LockMinst
<1>4. CASE DrawIndex(t)
  BY <1>1, <1>4 DEF DrawIndex
<1>5. CASE ClaimMinst(t)
  <2>1. all_minsts[Slot(ticket[t])] \in Pool
    BY <1>5, SlotInPool DEF ClaimMinst, Pool
  <2>2. QED
    BY <1>1, <1>5, <2>1 DEF ClaimMinst
<1>6. CASE DivideByZero(t)
  BY <1>1, <1>6 DEF DivideByZero
<1>7. CASE CallGuest(t)
  BY <1>1, <1>7 DEF CallGuest
<1>8. CASE MissExport(t)
  <2>1. held[t].exports = args.systems
    BY <1>8, PoolMember DEF MissExport
  <2>2. QED
    BY <1>1, <1>8, <2>1 DEF MissExport
<1>9. CASE ReturnFromGuest(t)
  BY <1>1, <1>9 DEF ReturnFromGuest
<1>10. CASE TrapInGuest(t)
  BY <1>1, <1>10 DEF TrapInGuest
<1>11. CASE DropTrap(t)
  BY <1>1, <1>11 DEF DropTrap
<1>12. CASE ReplaceThread(t)
  BY <1>1, <1>12 DEF ReplaceThread
<1>13. QED
  BY <1>2, <1>3, <1>4, <1>5, <1>6, <1>7, <1>8, <1>9, <1>10, <1>11, <1>12
  DEF ThreadStep

LEMMA CallNext == TypeOK /\ PoolInv /\ CallInv /\ [Next]_vars => CallInv'
<1>1. TypeOK /\ CallInv /\ UNCHANGED vars => CallInv'
  BY DEF CallInv, BusyInExecute, CallShape, InInstance, Pool, vars
<1>2. QED
  BY <1>1, CallHostStep, CallThreadStep DEF Next, StayHalted

-------------------------------------------------------------------------------
(* The safety invariants *)

Inv == TypeOK /\ LoadCounted /\ PoolInv /\ CallInv

\* The strengthening is an invariant.
THEOREM Invariance == Spec => []Inv
<1>1. Init => Inv
  BY TypeInit, PoolInit, CallInit DEF Inv
<1>2. Inv /\ [Next]_vars => Inv'
  BY TypeNext, PoolNext, CallNext DEF Inv
<1>3. QED
  BY <1>1, <1>2, PTL DEF Spec

\* A system on offer never meets an empty pool or a missing export, for any
\* number of threads, systems and loads.
THEOREM OfferedSystemsAlwaysRun == Spec => []OfferedSystemsRun
<1>1. Inv => OfferedSystemsRun
  <2>1. SUFFICES ASSUME Inv, NEW t \in Threads, Faulted(t), sys[t] \in offered
                 PROVE  FALSE
    BY DEF OfferedSystemsRun
  <2>2. Len(all_minsts) = PoolSize /\ offered = args.systems
    BY <2>1 DEF Inv, PoolInv, OfferIsPool
  <2>3. CASE pc[t] = "empty_pool"
    BY <2>1, <2>2, <2>3, ConstantsOK DEF Inv, CallInv, CallShape
  <2>4. CASE pc[t] = "no_export"
    BY <2>1, <2>2, <2>4 DEF Inv, CallInv, CallShape
  <2>5. QED
    BY <2>1, <2>3, <2>4 DEF Faulted
<1>2. QED
  BY <1>1, Invariance, PTL

\* No thread ever runs an instance of an earlier load.
THEOREM InstancesAreFresh == Spec => []FreshInstance
<1>1. Inv => FreshInstance
  BY PoolMember DEF Inv, FreshInstance, CallInv, CallShape
<1>2. QED
  BY <1>1, Invariance, PTL

\* A load registers systems only with a complete pool that exports them.
THEOREM LoadsRegisterCompletePools == Spec => RegistersOnlyCompletePool
<1>1. ASSUME Inv, [Next]_vars, impls' # impls
      PROVE  /\ Len(all_minsts) = PoolSize
             /\ \A m \in Pool : impls' \ impls \subseteq m.exports
  <2>1. FinishLoad
    <3>1. HostStep
      BY <1>1, ThreadStepFrame DEF Next, StayHalted, vars, loaderVars
    <3>2. QED
      BY <1>1, <3>1
      DEF HostStep, RefuseLoad, RefuseFile, BeginLoad, FailCreate, FailExports,
          AbortWithoutMemory, AbortInInitialize, FailInitialize, EmplaceMinst, Reset,
          SetTrapHandler, BeginExecute, EndExecute, loaderVars
  <2>2. \A m \in Pool : m.exports = args.systems
    BY <1>1, PoolMember DEF Inv
  <2>3. QED
    BY <2>1, <2>2 DEF FinishLoad
<1>2. QED
  BY <1>1, Invariance, PTL DEF Spec, RegistersOnlyCompletePool

-------------------------------------------------------------------------------
(* The pool implements SystemHost *)

LEMMA JobOfStep ==
  ASSUME NEW t \in Threads
  PROVE  /\ pc[t] = "idle" => HostJob(t) = Idle
         /\ pc[t] \in {"ensure", "claim", "find"} => HostJob(t) = Host!Asked(sys[t])
         /\ pc[t] \in {"guest", "trapped"} =>
              HostJob(t) = Host!Running(sys[t], held[t].load)
         /\ pc[t] \in {"empty_pool", "no_export"} => HostJob(t) = Host!Lost(sys[t])
BY DEF HostJob, Host!Asked, Host!Running, Host!Lost

LEMMA HostRefinesHost ==
  ASSUME Inv, HostStep
  PROVE  [Host!Next]_(Host!hostVars)
<1>1. UNCHANGED threadVars
  BY HostStepFrame
<1>2. UNCHANGED [t \in Threads |-> HostJob(t)]
  BY <1>1 DEF HostJob, threadVars
<1>3. (\A t \in Threads : pc[t] = "idle") => Host!AllIdle
  BY JobOfStep DEF Host!AllIdle
<1>4. ASSUME NEW module \in Modules, NEW systems \in SUBSET Systems,
             BeginLoad(module, systems)
      PROVE  Host!Next
  <2>1. \A t \in Threads : pc[t] = "idle"
    BY <1>4 DEF Inv, CallInv, BusyInExecute, BeginLoad, HostCalls
  <2>2. Host!Withdraw
    BY <1>2, <1>3, <1>4, <2>1 DEF Host!Withdraw, BeginLoad
  <2>3. QED
    BY <2>2 DEF Host!Next
<1>5. CASE Reset
  <2>1. \A t \in Threads : pc[t] = "idle"
    BY <1>5 DEF Inv, CallInv, BusyInExecute, Reset, HostCalls
  <2>2. Host!Withdraw
    BY <1>2, <1>3, <1>5, <2>1 DEF Host!Withdraw, Reset
  <2>3. QED
    BY <2>2 DEF Host!Next
<1>6. CASE FinishLoad
  <2>1. \A t \in Threads : pc[t] = "idle"
    BY <1>6 DEF Inv, CallInv, BusyInExecute, FinishLoad
  <2>2. Host!Offer(args.systems)
    BY <1>2, <1>3, <1>6, <2>1 DEF Host!Offer, FinishLoad
  <2>3. args.systems \in SUBSET Systems
    BY DEF Inv, TypeOK, LoadArgs
  <2>4. QED
    BY <2>2, <2>3 DEF Host!Next
<1>7. CASE UNCHANGED <<loads, offered>>
  BY <1>2, <1>7 DEF Host!hostVars
<1>8. QED
  BY <1>4, <1>5, <1>6, <1>7
  DEF HostStep, RefuseLoad, RefuseFile, FailCreate, FailExports,
      AbortWithoutMemory, AbortInInitialize, FailInitialize, EmplaceMinst, SetTrapHandler, BeginExecute, EndExecute,
      loaderVars

LEMMA ThreadRefinesHost ==
  ASSUME Inv, NEW t \in Threads, ThreadStep(t)
  PROVE  [Host!Next]_(Host!hostVars)
<1> DEFINE job == [u \in Threads |-> HostJob(u)]
<1>1. UNCHANGED <<loads, offered>>
  BY ThreadStepFrame DEF loaderVars
<1>2. ASSUME NEW u \in Threads, u # t
      PROVE  pc'[u] = pc[u] /\ sys'[u] = sys[u] /\ held'[u] = held[u]
  BY <1>2 DEF Inv, TypeOK, ThreadStep, Enter, LockMinst, DrawIndex, ClaimMinst,
     DivideByZero, CallGuest, MissExport, ReturnFromGuest, TrapInGuest, DropTrap,
     ReplaceThread, Step
<1>3. \A u \in Threads : u # t => HostJob(u)' = HostJob(u)
  BY <1>2 DEF HostJob
<1>4. job' = [job EXCEPT ![t] = HostJob(t)']
  BY <1>3
<1>5. /\ pc \in [Threads -> Steps] /\ sys \in [Threads -> Systems \cup {Idle}]
      /\ held \in [Threads -> Minst \cup {NoMinst}]
  BY DEF Inv, TypeOK
<1>6. job[t] = HostJob(t)
  OBVIOUS
<1> HIDE DEF job
<1>7. ASSUME HostJob(t)' = HostJob(t)
      PROVE  UNCHANGED Host!hostVars
  <2>1. \A u \in Threads : HostJob(u)' = HostJob(u)
    BY <1>3, <1>7
  <2>2. QED
    BY <1>1, <2>1 DEF Host!hostVars
<1>8. ASSUME NEW s \in Systems, Enter(t, s)
      PROVE  Host!Next
  <2>1. HostJob(t) = Idle /\ HostJob(t)' = Host!Asked(s)
    BY <1>5, <1>8 DEF Enter, Step, HostJob, Host!Asked
  <2>2. Host!Ask(t, s)
    BY <1>1, <1>4, <1>6, <2>1 DEF Host!Ask, job
  <2>3. QED
    BY <2>2 DEF Host!Next
<1>9. CASE LockMinst(t) \/ DrawIndex(t) \/ ClaimMinst(t)
  <2>1. HostJob(t)' = HostJob(t)
    BY <1>5, <1>9 DEF LockMinst, DrawIndex, ClaimMinst, Step, HostJob
  <2>2. QED
    BY <1>7, <2>1
<1>10. CASE DivideByZero(t) \/ MissExport(t)
  <2>1. /\ HostJob(t) = Host!Asked(sys[t])
        /\ HostJob(t)' = Host!Lost(sys[t])
        /\ sys[t] \in Systems
    BY <1>5, <1>10
    DEF DivideByZero, MissExport, Step, HostJob, Host!Asked, Host!Lost, Inv,
        CallInv, CallShape
  <2>2. sys[t] \notin offered
    <3>1. CASE DivideByZero(t)
      BY <3>1, ConstantsOK DEF DivideByZero, Inv, PoolInv, OfferIsPool
    <3>2. CASE MissExport(t)
      BY <3>2, PoolMember
      DEF MissExport, Inv, PoolInv, OfferIsPool, CallInv, CallShape, InInstance
    <3>3. QED
      BY <1>10, <3>1, <3>2
  <2>3. Host!Lose(t, sys[t])
    BY <1>1, <1>4, <1>6, <2>1, <2>2 DEF Host!Lose, job
  <2>4. QED
    BY <2>1, <2>3 DEF Host!Next
<1>11. CASE CallGuest(t)
  <2>1. held[t].load = loads /\ sys[t] \in Systems
    BY <1>11, PoolMember DEF CallGuest, Inv, CallInv, CallShape, InInstance
  <2>2. /\ HostJob(t) = Host!Asked(sys[t])
        /\ HostJob(t)' = Host!Running(sys[t], loads)
    BY <1>5, <1>11, <2>1
    DEF CallGuest, Step, HostJob, Host!Asked, Host!Running
  <2>3. Host!Start(t, sys[t])
    BY <1>1, <1>4, <1>6, <2>2 DEF Host!Start, job
  <2>4. QED
    BY <2>1, <2>3 DEF Host!Next
<1>12. CASE ReturnFromGuest(t) \/ DropTrap(t)
  <2>1. held[t].load = loads /\ sys[t] \in Systems
    BY <1>12, PoolMember
    DEF ReturnFromGuest, DropTrap, Step, Inv, CallInv, CallShape, InInstance
  <2>2. /\ HostJob(t) = Host!Running(sys[t], loads)
        /\ HostJob(t)' = Idle
    BY <1>5, <1>12, <2>1
    DEF ReturnFromGuest, DropTrap, Step, HostJob, Host!Running
  <2>3. Host!Finish(t, sys[t])
    BY <1>1, <1>4, <1>6, <2>2 DEF Host!Finish, job
  <2>4. QED
    BY <2>1, <2>3 DEF Host!Next
<1>13. CASE TrapInGuest(t) \/ ReplaceThread(t)
  <2>1. HostJob(t)' = HostJob(t)
    BY <1>5, <1>13 DEF TrapInGuest, ReplaceThread, Step, HostJob
  <2>2. QED
    BY <1>7, <2>1
<1>14. QED
  BY <1>8, <1>9, <1>10, <1>11, <1>12, <1>13 DEF ThreadStep

\* The pool, with its weak pointers, shared index and half finished loads, does
\* only what SystemHost allows.
THEOREM PoolImplementsHost == Spec => ImplementsHost
<1>1. Init => Host!Init
  BY DEF Init, Host!Init, Host!AllIdle, HostJob
<1>2. Inv /\ [Next]_vars => [Host!Next]_(Host!hostVars)
  <2>1. Inv /\ UNCHANGED vars => UNCHANGED Host!hostVars
    BY DEF vars, Host!hostVars, HostJob
  <2>2. QED
    BY <2>1, HostRefinesHost, ThreadRefinesHost DEF Next, StayHalted
<1>3. QED
  BY <1>1, <1>2, Invariance, PTL DEF Spec, ImplementsHost, Host!Spec

-------------------------------------------------------------------------------
(* The round robin *)

\* The thread has drawn an index that counts: its instance is in the pool, or
\* it is about to pick it.
Bound(t) == thread_minst[t] \in Pool
Drawn(t) == Bound(t) \/ pc[t] = "claim"

\* What a thread has cached comes from a load that has begun, and while a new
\* pool is being built from an earlier one.
CachesAreOlder ==
  \A t \in Threads :
    thread_minst[t] # NoMinst =>
      /\ thread_minst[t].load <= loads
      /\ host = "load" => thread_minst[t].load < loads

\* The instance a thread is bound to is the one its index designates, and no
\* two threads have drawn the same index.
TicketInv ==
  /\ CachesAreOlder
  /\ \A t \in Threads :
       /\ Drawn(t) => ticket[t] <= next_available_minst_index
       /\ Bound(t) => thread_minst[t] = all_minsts[Slot(ticket[t])]
       /\ pc[t] = "claim" => ~Bound(t)
  /\ \A t, u \in Threads : t # u /\ Drawn(t) /\ Drawn(u) => ticket[t] # ticket[u]

LEMMA TicketInit == Init => TicketInv
BY DEF Init, TicketInv, CachesAreOlder, Bound, Drawn, Pool

\* While a pool is built, or when it is empty, no thread is bound.
LEMMA UnboundWhileLoading ==
  ASSUME TypeOK, PoolInv, TicketInv, NEW t \in Threads,
         host = "load" \/ all_minsts = <<>>
  PROVE  ~Bound(t)
<1>1. CASE all_minsts = <<>>
  BY <1>1 DEF Bound, Pool
<1>2. CASE host = "load"
  <2>1. SUFFICES ASSUME Bound(t) PROVE FALSE
    OBVIOUS
  <2>2. PICK i \in 1..Len(all_minsts) : thread_minst[t] = all_minsts[i]
    BY <2>1 DEF Bound, Pool
  <2>3. thread_minst[t] \in Minst /\ thread_minst[t].load \in Nat
    <3>1. all_minsts[i] \in Minst
      BY <2>2 DEF TypeOK
    <3>2. QED
      BY <2>2, <3>1 DEF Minst
  <2>4. thread_minst[t] # NoMinst
    BY <2>3, ConstantsOK
  <2>5. thread_minst[t].load < loads
    BY <1>2, <2>4 DEF TicketInv, CachesAreOlder
  <2>6. thread_minst[t].load = loads
    BY <2>1, PoolMember DEF Bound
  <2>7. QED
    BY <2>3, <2>5, <2>6
<1>3. QED
  BY <1>1, <1>2

LEMMA TicketHostStep ==
  ASSUME TypeOK, LoadCounted, PoolInv, CallInv, TicketInv, HostStep
  PROVE  TicketInv'
<1>1. UNCHANGED <<thread_minst, pc, ticket>>
  BY HostStepFrame DEF threadVars
<1>2. host # "execute" => \A t \in Threads : pc[t] = "idle"
  BY DEF CallInv, BusyInExecute
<1>3. \A t \in Threads : thread_minst[t] # NoMinst => thread_minst[t].load \in Nat
  BY DEF TypeOK, Minst
<1>4. ASSUME NEW module \in Modules, NEW systems \in SUBSET Systems,
             BeginLoad(module, systems)
      PROVE  TicketInv'
  <2>1. all_minsts' = <<>> /\ loads' = loads + 1 /\ loads \in Nat
    BY <1>4 DEF BeginLoad, TypeOK
  <2>2. CachesAreOlder'
    BY <1>1, <1>3, <2>1 DEF TicketInv, CachesAreOlder
  <2>3. \A t \in Threads : pc[t] = "idle"
    BY <1>2, <1>4 DEF BeginLoad, HostCalls
  <2>4. \A t \in Threads : ~Drawn(t)'
    BY <1>1, <2>1, <2>3 DEF Drawn, Bound, Pool
  <2>5. QED
    BY <2>2, <2>4, <2>3, <1>1 DEF TicketInv, Drawn
<1>5. CASE Reset
  <2>1. all_minsts' = <<>> /\ UNCHANGED <<loads, host>>
    BY <1>5 DEF Reset
  <2>2. CachesAreOlder'
    BY <1>1, <2>1 DEF TicketInv, CachesAreOlder
  <2>3. \A t \in Threads : pc[t] = "idle"
    BY <1>2, <1>5 DEF Reset, HostCalls
  <2>4. \A t \in Threads : ~Drawn(t)'
    BY <1>1, <2>1, <2>3 DEF Drawn, Bound, Pool
  <2>5. QED
    BY <2>2, <2>4, <2>3, <1>1 DEF TicketInv, Drawn
<1>6. CASE EmplaceMinst
  <2>1. host = "load" /\ UNCHANGED <<loads, host>>
    BY <1>6 DEF EmplaceMinst, ExportsFound, Building
  <2>2. CachesAreOlder'
    BY <1>1, <2>1 DEF TicketInv, CachesAreOlder
  <2>3. PoolInv' /\ TypeOK'
    BY <1>6, PoolNext, TypeNext DEF Next
  <2>4. ASSUME NEW t \in Threads PROVE ~Bound(t)'
    <3>1. SUFFICES ASSUME Bound(t)' PROVE FALSE
      OBVIOUS
    <3>2. PICK i \in 1..Len(all_minsts') : thread_minst[t] = all_minsts'[i]
      BY <1>1, <3>1 DEF Bound, Pool
    <3>3. thread_minst[t] = [load |-> loads, slot |-> i, exports |-> args'.systems]
      BY <2>1, <2>3, <3>2 DEF PoolInv, PoolIsOfThisLoad
    <3>4. thread_minst[t] \in Minst
      BY <2>3, <3>2 DEF TypeOK
    <3>5. thread_minst[t].load < loads
      BY <2>1, <3>4, ConstantsOK DEF TicketInv, CachesAreOlder
    <3>6. QED
      BY <3>3, <3>5 DEF TypeOK
  <2>5. \A t \in Threads : pc[t] = "idle"
    BY <1>2, <2>1
  <2>6. QED
    BY <2>2, <2>4, <2>5, <1>1 DEF TicketInv, Drawn
<1>7. ASSUME UNCHANGED <<all_minsts, next_available_minst_index, loads>>,
             host' = "load" => host = "load"
      PROVE  TicketInv'
  BY <1>1, <1>7 DEF TicketInv, CachesAreOlder, Drawn, Bound, Pool, Slot
<1>8. QED
  BY <1>4, <1>5, <1>6, <1>7
  DEF HostStep, RefuseLoad, RefuseFile, FailCreate, FailExports,
      AbortWithoutMemory, AbortInInitialize, FailInitialize, FinishLoad, SetTrapHandler, BeginExecute, EndExecute,
      loaderVars

LEMMA TicketThreadStep ==
  ASSUME TypeOK, PoolInv, CallInv, TicketInv, NEW t \in Threads, ThreadStep(t)
  PROVE  TicketInv'
<1>1. UNCHANGED <<all_minsts, loads, host>> /\ Pool' = Pool
  BY ThreadStepFrame DEF loaderVars, Pool
<1>2. /\ thread_minst \in [Threads -> Minst \cup {NoMinst}]
      /\ pc \in [Threads -> Steps]
      /\ ticket \in [Threads -> Nat]
      /\ next_available_minst_index \in Nat
      /\ all_minsts \in Seq(Minst)
  BY DEF TypeOK
<1>3. CASE DrawIndex(t)
  <2>1. ~Bound(t)
    BY <1>3 DEF DrawIndex, Alive, Bound
  <2>2. /\ next_available_minst_index' = next_available_minst_index + 1
        /\ ticket' = [ticket EXCEPT ![t] = next_available_minst_index + 1]
        /\ pc' = [pc EXCEPT ![t] = "claim"]
        /\ UNCHANGED thread_minst
    BY <1>3 DEF DrawIndex, Step
  <2>3. CachesAreOlder'
    BY <1>1, <2>2 DEF TicketInv, CachesAreOlder
  <2>4. ASSUME NEW u \in Threads, u # t
        PROVE  /\ ticket'[u] = ticket[u] /\ Bound(u)' = Bound(u)
               /\ Drawn(u)' = Drawn(u)
    BY <1>1, <1>2, <2>2, <2>4 DEF Bound, Drawn
  <2>5. ~Bound(t)' /\ ticket'[t] = next_available_minst_index + 1
    BY <1>1, <1>2, <2>1, <2>2 DEF Bound
  <2>6. \A n : Slot(n)' = Slot(n)
    BY <1>1 DEF Slot
  <2>7. ASSUME NEW u \in Threads
        PROVE  /\ Drawn(u)' => ticket'[u] <= next_available_minst_index'
               /\ Bound(u)' => thread_minst'[u] = all_minsts'[Slot(ticket[u])']
               /\ pc'[u] = "claim" => ~Bound(u)'
    BY <1>1, <1>2, <2>2, <2>4, <2>5 DEF TicketInv, Slot
  <2>8. ASSUME NEW u \in Threads, NEW v \in Threads, u # v, Drawn(u)', Drawn(v)'
        PROVE  ticket'[u] # ticket'[v]
    BY <1>2, <2>2, <2>4, <2>5, <2>8 DEF TicketInv
  <2>9. QED
    BY <2>3, <2>7, <2>8 DEF TicketInv
<1>4. CASE ClaimMinst(t)
  <2> DEFINE m == all_minsts[Slot(ticket[t])]
  <2>1. m \in Pool /\ m \in Minst
    BY <1>2, <1>4, SlotInPool DEF ClaimMinst, Pool
  <2>2. m.load = loads
    BY <2>1, PoolMember
  <2>3. /\ thread_minst' = [thread_minst EXCEPT ![t] = m]
        /\ pc[t] = "claim" /\ pc' = [pc EXCEPT ![t] = "find"]
        /\ UNCHANGED <<ticket, next_available_minst_index>>
    BY <1>4 DEF ClaimMinst, Step
  <2>4. host = "execute"
    BY <2>3 DEF CallInv, BusyInExecute
  <2> HIDE DEF m
  <2>5. CachesAreOlder'
    BY <1>1, <1>2, <2>2, <2>3, <2>4 DEF TicketInv, CachesAreOlder, TypeOK
  <2>6. ASSUME NEW u \in Threads, u # t
        PROVE  /\ thread_minst'[u] = thread_minst[u] /\ Bound(u)' = Bound(u)
               /\ Drawn(u)' = Drawn(u) /\ pc'[u] = pc[u]
    BY <1>1, <1>2, <2>3, <2>6 DEF Bound, Drawn
  <2>7. Drawn(t) /\ thread_minst'[t] = m /\ pc'[t] = "find"
    BY <1>2, <2>3 DEF Drawn
  <2>8. ASSUME NEW u \in Threads
        PROVE  /\ Drawn(u)' => ticket'[u] <= next_available_minst_index'
               /\ Bound(u)' => thread_minst'[u] = all_minsts'[Slot(ticket[u])']
               /\ pc'[u] = "claim" => ~Bound(u)'
    BY <1>1, <2>3, <2>6, <2>7 DEF TicketInv, Slot, m
  <2>9. ASSUME NEW u \in Threads, NEW v \in Threads, u # v, Drawn(u)', Drawn(v)'
        PROVE  ticket'[u] # ticket'[v]
    BY <2>3, <2>6, <2>7, <2>9 DEF TicketInv
  <2>10. QED
    BY <2>5, <2>8, <2>9 DEF TicketInv
<1>5. CASE ReplaceThread(t)
  <2>1. /\ thread_minst' = [thread_minst EXCEPT ![t] = NoMinst]
        /\ pc[t] = "idle"
        /\ UNCHANGED <<pc, ticket, next_available_minst_index>>
    BY <1>5 DEF ReplaceThread
  <2>2. NoMinst \notin Pool
    BY <1>2, ConstantsOK DEF Pool
  <2>3. ASSUME NEW u \in Threads
        PROVE  Bound(u)' => Bound(u) /\ thread_minst'[u] = thread_minst[u]
    BY <1>1, <1>2, <2>1, <2>2 DEF Bound
  <2>4. CachesAreOlder'
    BY <1>1, <1>2, <2>1 DEF TicketInv, CachesAreOlder
  <2>5. QED
    BY <1>1, <2>1, <2>3, <2>4 DEF TicketInv, Drawn, Slot
<1>6. ASSUME UNCHANGED <<thread_minst, ticket, next_available_minst_index>>,
             \A u \in Threads : pc'[u] = "claim" => pc[u] = "claim"
      PROVE  TicketInv'
  BY <1>1, <1>6 DEF TicketInv, CachesAreOlder, Drawn, Bound, Slot
<1>7. CASE \/ \E s \in Systems : Enter(t, s)
           \/ LockMinst(t) \/ DivideByZero(t) \/ CallGuest(t) \/ MissExport(t)
           \/ ReturnFromGuest(t) \/ TrapInGuest(t) \/ DropTrap(t)
  BY <1>2, <1>6, <1>7
  DEF Enter, LockMinst, DivideByZero, CallGuest, MissExport, ReturnFromGuest,
      TrapInGuest, DropTrap, Step
<1>8. QED
  BY <1>3, <1>4, <1>5, <1>7 DEF ThreadStep

\* Instances of one pool differ by their slots, and a slot comes round again
\* only after a whole round.
LEMMA SharedIsRoundApart ==
  ASSUME TypeOK, PoolInv, CallInv, TicketInv,
         NEW t \in Threads, NEW u \in Threads, t # u,
         InInstance(t), InInstance(u), held[t] = held[u]
  PROVE  \/ ticket[t] + Len(all_minsts) <= ticket[u]
         \/ ticket[u] + Len(all_minsts) <= ticket[t]
<1>1. /\ held[t] \in Pool /\ held[t] = thread_minst[t]
      /\ held[u] \in Pool /\ held[u] = thread_minst[u]
  BY DEF CallInv, CallShape
<1>2. Bound(t) /\ Bound(u)
  BY <1>1 DEF Bound
<1>3. ticket[t] # ticket[u] /\ ticket[t] \in Nat /\ ticket[u] \in Nat
  BY <1>2 DEF TicketInv, Drawn, TypeOK
<1>4. all_minsts[Slot(ticket[t])] = all_minsts[Slot(ticket[u])]
  BY <1>1, <1>2 DEF TicketInv
<1>5. Len(all_minsts) \in Nat \ {0} /\ all_minsts # <<>>
  BY <1>1 DEF Pool, TypeOK
<1>6. /\ Slot(ticket[t]) \in 1..Len(all_minsts)
      /\ Slot(ticket[u]) \in 1..Len(all_minsts)
  BY <1>3, <1>5, SlotInPool DEF TypeOK
<1>7. Slot(ticket[t]) = Slot(ticket[u])
  <2>1. ASSUME NEW i \in 1..Len(all_minsts)
        PROVE  all_minsts[i].slot = i
    <3>1. all_minsts[i] = [load |-> loads, slot |-> i, exports |-> args.systems]
      BY <2>1 DEF PoolInv, PoolIsOfThisLoad
    <3>2. QED
      BY <3>1
  <2>2. QED
    BY <1>4, <1>6, <2>1
<1>8. ticket[t] % Len(all_minsts) = ticket[u] % Len(all_minsts)
  BY <1>3, <1>5, <1>7, DivMod DEF Slot
<1>9. QED
  BY <1>3, <1>5, <1>8, SameSlot

\* Two threads run one instance only if a whole round of the pool was handed
\* out between the two.
THEOREM SharingTakesARound == Spec => []SharedOnlyAfterFullRound
<1>1. Init => TicketInv
  BY TicketInit
<1>2. Inv /\ TicketInv /\ [Next]_vars => TicketInv'
  <2>1. TypeOK /\ TicketInv /\ UNCHANGED vars => TicketInv'
    BY DEF TicketInv, CachesAreOlder, Drawn, Bound, Pool, Slot, vars
  <2>2. QED
    BY <2>1, TicketHostStep, TicketThreadStep DEF Inv, Next, StayHalted
<1>3. Inv /\ TicketInv => SharedOnlyAfterFullRound
  BY SharedIsRoundApart DEF Inv, SharedOnlyAfterFullRound
<1>4. QED
  BY <1>1, <1>2, <1>3, Invariance, PTL DEF Spec
===============================================================================
