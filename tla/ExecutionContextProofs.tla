------------------------ MODULE ExecutionContextProofs ------------------------
(***************************************************************************)
(* Proofs about ExecutionContext: for every number of threads, instances   *)
(* and contexts, every shape of the context graph, every size of the call  *)
(* memory, and builds with assertions as without.                          *)
(***************************************************************************)
EXTENDS ExecutionContext, FiniteSetTheorems, TLAPS

-------------------------------------------------------------------------------
(* The inductive invariant *)

\* The parts of the type invariant that the proofs need.
Shapes ==
  /\ DOMAIN call_mem_info = Threads
  /\ pc \in [Threads -> {"idle", "start", "initialize", "guest"} \cup Faults]
  /\ inst \in [Threads -> Instances \cup {NoCall}]
  /\ root \in [Threads -> Roots \cup {NoCall}]
  /\ known = [i \in Instances |-> known[i]]
  /\ given = [t \in Threads |-> given[t]]
  /\ runtime_call = [t \in Threads |-> runtime_call[t]]

\* Handles are odd, for the memory lies before each context, and within mem_data.
KnownAreOdd ==
  \A i \in Instances : \A h \in known[i] : h \in 0..Capacity /\ h % 2 = 1

\* A load is not concurrent with anything, and its instance knows no handle yet.
LoadAlone ==
  /\ \A t \in Threads : pc[t] \in {"start", "initialize"} => t = Loader
  /\ pc[Loader] \in {"start", "initialize"} =>
       /\ \A t \in Threads : t # Loader => pc[t] = "idle"
       /\ inst[Loader] \in Instances
       /\ known[inst[Loader]] = {}

\* Outside of a call of the guest there is nothing in the thread's locals.
Outside(t) ==
  /\ call_mem_info[t] = NoCall
  /\ given[t] = <<>>
  /\ runtime_call[t] = NoCall

\* During _initialize there is the memory and nothing else.
Initializing(t) ==
  /\ inst[t] \in Instances
  /\ call_mem_info[t] = <<MemoryCell(inst[t])>>
  /\ given[t] = <<>>

\* During a system memories and contexts alternate, and the contexts are those
\* given to the guest, under the offsets that are its handles.
InSystem(t) ==
  /\ inst[t] \in Instances
  /\ root[t] \in Roots
  /\ call_mem_info[t] \in Seq(Cells)
  /\ Len(call_mem_info[t]) \in 2..Capacity
  /\ Len(call_mem_info[t]) % 2 = 0
  /\ \A n \in 1..Len(call_mem_info[t]) :
       call_mem_info[t][n] = IF n % 2 = 1 THEN MemoryCell(inst[t])
                                          ELSE ContextCell(given[t][n - 1])
  /\ DOMAIN given[t] = {h \in 0..(Len(call_mem_info[t]) - 1) : h % 2 = 1}
  /\ \A h \in DOMAIN given[t] : given[t][h] \in Live[root[t]] \cup {Null}

ThreadInv(t) ==
  /\ pc[t] \in {"idle", "start"} => Outside(t)
  /\ pc[t] = "initialize" => Initializing(t)
  /\ pc[t] = "guest" => InSystem(t)
  /\ pc[t] # "mem_in_use"

ArenaInv == \A t \in Threads : ThreadInv(t)

Inv == Shapes /\ KnownAreOdd /\ LoadAlone /\ ArenaInv

-------------------------------------------------------------------------------
(* Reading the call memory *)

\* In a system a handle of the guest resolves to the context it was given for in
\* this call, and the pointer before it to the memory of the instance.
LEMMA HandleResolves ==
  ASSUME Inv, NEW t \in Threads, pc[t] = "guest",
         NEW h \in Nat, h % 2 = 1, h < Len(call_mem_info[t])
  PROVE  /\ h \in DOMAIN given[t]
         /\ ContextOf(t, h) = given[t][h]
         /\ MemoryOf(t, h) = inst[t]
         /\ CanRead(t, h)
<1>1. InSystem(t)
  BY DEF Inv, ArenaInv, ThreadInv
<1>2. Len(call_mem_info[t]) \in Nat
  BY <1>1 DEF InSystem
<1>3. h \in 0..(Len(call_mem_info[t]) - 1) /\ h - 1 \in 0..(Len(call_mem_info[t]) - 1)
  BY <1>2
<1>4. h \in DOMAIN given[t]
  BY <1>1, <1>3 DEF InSystem
<1>5. (h + 1) % 2 = 0 /\ (h + 1) - 1 = h
  OBVIOUS
<1>6. call_mem_info[t][h + 1] = ContextCell(given[t][h])
  BY <1>1, <1>2, <1>3, <1>5 DEF InSystem
<1>7. (h - 1) + 1 = h
  OBVIOUS
<1>8. call_mem_info[t][h] = MemoryCell(inst[t])
  BY <1>1, <1>2, <1>3 DEF InSystem
<1>9. QED
  BY <1>3, <1>4, <1>6, <1>7, <1>8
  DEF ContextOf, MemoryOf, CellValue, CanRead, Readable, Holds, Arena,
      ContextCell, MemoryCell

\* A handle beyond what has been allocated reads as null, if it reads at all.
LEMMA StaleHandle ==
  ASSUME Inv, NEW t \in Threads, pc[t] = "guest",
         NEW h \in Nat, ~(h < Len(call_mem_info[t]))
  PROVE  /\ ContextOf(t, h) = Null
         /\ h \notin DOMAIN given[t]
<1>1. InSystem(t)
  BY DEF Inv, ArenaInv, ThreadInv
<1>2. QED
  BY <1>1 DEF InSystem, ContextOf, CellValue, Arena

\* Guests use handles only in a system.
LEMMA UsesInSystem ==
  ASSUME Inv, NEW t \in Threads, NEW h, Uses(t, h)
  PROVE  /\ pc[t] = "guest" /\ InSystem(t) /\ ~Halted
         /\ h \in Nat /\ h % 2 = 1 /\ h \in 0..Capacity
<1>1. pc[t] \in {"initialize", "guest"} /\ h \in known[inst[t]] /\ ~Halted
  BY DEF Uses, InGuest
<1>2. pc[t] # "initialize"
  BY <1>1 DEF Inv, LoadAlone
<1>3. InSystem(t)
  BY <1>1, <1>2 DEF Inv, ArenaInv, ThreadInv
<1>4. h \in 0..Capacity /\ h % 2 = 1
  BY <1>1, <1>3 DEF Inv, KnownAreOdd, InSystem
<1>5. h \in Nat
  BY <1>4
<1>6. QED
  BY <1>1, <1>2, <1>3, <1>4, <1>5

\* Whatever handle a guest uses with success is one it was given in this call.
LEMMA UsedHandle ==
  ASSUME Inv, NEW t \in Threads, NEW h, Uses(t, h), ContextOf(t, h) # Null
  PROVE  /\ h \in DOMAIN given[t]
         /\ ContextOf(t, h) = given[t][h]
         /\ MemoryOf(t, h) = inst[t]
         /\ given[t][h] \in Live[root[t]]
<1>1. pc[t] = "guest" /\ InSystem(t) /\ h \in Nat /\ h % 2 = 1
  BY UsesInSystem
<1>2. h < Len(call_mem_info[t])
  BY <1>1, StaleHandle
<1>3. QED
  BY <1>1, <1>2, HandleResolves DEF InSystem

-------------------------------------------------------------------------------
(* The invariant holds *)

\* What a step leaves alone of a thread keeps the thread's part.
LEMMA KeepsThread ==
  ASSUME NEW u \in Threads, ThreadInv(u),
         pc'[u] = pc[u], call_mem_info'[u] = call_mem_info[u], inst'[u] = inst[u],
         root'[u] = root[u], given'[u] = given[u], runtime_call'[u] = runtime_call[u]
  PROVE  ThreadInv(u)'
<1>1. InSystem(u)' = InSystem(u)
  BY DEF InSystem
<1>2. QED
  BY <1>1 DEF ThreadInv, Outside, Initializing

LEMMA InvInit == Init => Inv
BY ContextsOK
DEF Init, Inv, Shapes, KnownAreOdd, LoadAlone, ArenaInv, ThreadInv, Outside, Faults

\* Imports that leave the call memory alone keep the invariant.
LEMMA FrameInv ==
  ASSUME Inv,
         NEW t \in Threads, pc[t] \in {"initialize", "guest"} \cup Faults \cup {"start"},
         UNCHANGED <<call_mem_info, inst, root, known, given>>,
         \/ pc' = pc
         \/ \E f \in Faults \ {"mem_in_use"} : pc' = [pc EXCEPT ![t] = f],
         \/ runtime_call' = runtime_call
         \/ pc[t] \notin {"idle", "start"} /\ \E r : runtime_call' = [runtime_call EXCEPT ![t] = r]
  PROVE  Inv'
<1> USE DEF Inv
<1>1. Shapes'
  BY DEF Shapes
<1>2. KnownAreOdd'
  BY DEF KnownAreOdd
<1>3. \A u \in Threads : u # t => pc'[u] = pc[u]
  BY DEF Shapes
<1>4. pc'[t] = pc[t] \/ pc'[t] \in Faults \ {"mem_in_use"}
  BY DEF Shapes
<1>5. LoadAlone'
  <2>1. \A u \in Threads : pc'[u] \in {"start", "initialize"} => pc'[u] = pc[u]
    BY <1>3, <1>4 DEF Faults
  <2>2. \A u \in Threads : pc[u] = "idle" => pc'[u] = pc[u]
    BY <1>3 DEF Faults
  <2>3. Loader \in Threads
    BY ContextsOK
  <2>4. QED
    BY <2>1, <2>2, <2>3 DEF LoadAlone
<1>6. ArenaInv'
  <2>1. ASSUME NEW u \in Threads
        PROVE  /\ pc'[u] \in {"idle", "start"} => Outside(u)'
               /\ pc'[u] = "initialize" => Initializing(u)'
               /\ pc'[u] = "guest" => InSystem(u)'
               /\ pc'[u] # "mem_in_use"
    <3>1. pc'[u] = pc[u] \/ pc'[u] \in Faults \ {"mem_in_use"}
      BY <1>3, <1>4
    <3>2. pc'[u] \in {"idle", "start"} => runtime_call'[u] = runtime_call[u]
      BY <1>3, <1>4 DEF Shapes, Faults
    <3>3. Initializing(u)' = Initializing(u) /\ InSystem(u)' = InSystem(u)
      BY DEF Initializing, InSystem
    <3>4. QED
      BY <3>1, <3>2, <3>3 DEF ArenaInv, ThreadInv, Outside, Faults
  <2>2. QED
    BY <2>1 DEF ArenaInv, ThreadInv
<1>7. QED
  BY <1>1, <1>2, <1>5, <1>6

\* The imports that do not allocate, whether the process survives them or not.
Frames(t) ==
  \/ \E op \in DataOps : \E h \in known[inst[t]], asked \in GuestArgs(op) :
       CallRuntime(t, op, h, asked) \/ OverrunResults(t, op, h, asked)
  \/ \E h \in known[inst[t]], count \in -1..1, ids \in Pointers, list \in Pointers :
       CallGenerate(t, h, count, ids, list) \/ FailGenerate(t, h, count, ids, list)
  \/ \E h \in known[inst[t]], g \in known[inst[t]] : CallSame(t, h, g)
  \/ \E op \in Navigations, h \in known[inst[t]] : Overrun(t, op, h)
  \/ \E h \in known[inst[t]] : RefuseHandle(t, h) \/ PassNull(t, h)
  \/ CallWasi(t)
  \/ MissCallMem(t)

LEMMA FramesLeave ==
  ASSUME NEW t \in Threads, Frames(t)
  PROVE  /\ UNCHANGED <<call_mem_info, inst, root, known, given>>
         /\ pc[t] \in {"start", "initialize", "guest"}
         /\ ~Halted
         /\ \/ pc' = pc
            \/ \E f \in Faults \ {"mem_in_use"} : pc' = [pc EXCEPT ![t] = f]
<1>1. UNCHANGED <<call_mem_info, inst, root, known, given>>
  BY DEF Frames, CallRuntime, OverrunResults, CallGenerate, FailGenerate, CallSame,
         Overrun, RefuseHandle, PassNull, CallWasi, MissCallMem
<1>2. pc[t] \in {"start", "initialize", "guest"} /\ ~Halted
  BY DEF Frames, CallRuntime, OverrunResults, CallGenerate, FailGenerate, CallSame,
         Overrun, RefuseHandle, PassNull, CallWasi, MissCallMem, Uses, InGuest
<1>3. \/ pc' = pc
      \/ \E f \in Faults \ {"mem_in_use"} : pc' = [pc EXCEPT ![t] = f]
  BY DEF Frames, CallRuntime, OverrunResults, CallGenerate, FailGenerate, CallSame,
         Overrun, RefuseHandle, PassNull, CallWasi, MissCallMem, Faults
<1>4. QED
  BY <1>1, <1>2, <1>3

LEMMA FramesInv ==
  ASSUME Inv, NEW t \in Threads, Frames(t)
  PROVE  Inv'
<1>1. /\ UNCHANGED <<call_mem_info, inst, root, known, given>>
      /\ pc[t] \in {"start", "initialize", "guest"}
      /\ \/ pc' = pc
         \/ \E f \in Faults \ {"mem_in_use"} : pc' = [pc EXCEPT ![t] = f]
  BY FramesLeave
<1>4. ASSUME ~ MissCallMem(t)
      PROVE  pc[t] # "start" /\ \E r : runtime_call' = [runtime_call EXCEPT ![t] = r]
  <2>1. CASE CallWasi(t)
    <3>1. pc[t] # "start"
      BY <2>1 DEF CallWasi, Inv, ArenaInv, ThreadInv, Outside, Arena
    <3>2. QED
      BY <2>1, <3>1 DEF CallWasi, Record
  <2>2. CASE ~ CallWasi(t)
    BY <1>4, <2>2
    DEF Frames, CallRuntime, OverrunResults, CallGenerate, FailGenerate, CallSame,
        Overrun, RefuseHandle, PassNull, Uses, Record
  <2>3. QED
    BY <2>1, <2>2
<1>5. MissCallMem(t) => runtime_call' = runtime_call
  BY DEF MissCallMem
<1>6. QED
  BY <1>1, <1>4, <1>5, FrameInv

LEMMA BeginInstanceInv ==
  ASSUME Inv, NEW i \in Instances, BeginInstance(i)
  PROVE  Inv'
<1> USE DEF Inv
<1>0. Loader \in Threads
  BY ContextsOK
<1>1. \A t \in Threads : pc[t] = "idle" /\ Outside(t)
  BY DEF BeginInstance, AllIdle, ArenaInv, ThreadInv
<1>2. Shapes'
  BY DEF Shapes, BeginInstance
<1>3. KnownAreOdd'
  BY DEF KnownAreOdd, Shapes, BeginInstance
<1>4. LoadAlone'
  BY <1>0, <1>1 DEF LoadAlone, Shapes, BeginInstance
<1>5. ArenaInv'
  BY <1>0, <1>1 DEF ArenaInv, ThreadInv, Shapes, BeginInstance, Outside
<1>6. QED
  BY <1>2, <1>3, <1>4, <1>5

LEMMA AbandonInstanceInv ==
  ASSUME Inv, AbandonInstance
  PROVE  Inv'
<1> USE DEF Inv
<1>0. Loader \in Threads
  BY ContextsOK
<1>1. \A t \in Threads : pc[t] \in {"idle", "start"} /\ Outside(t)
  BY <1>0 DEF AbandonInstance, LoadAlone, ArenaInv, ThreadInv
<1>2. Shapes'
  BY DEF Shapes, AbandonInstance
<1>3. KnownAreOdd'
  BY DEF KnownAreOdd, AbandonInstance
<1>4. \A t \in Threads : pc'[t] = "idle"
  BY <1>0 DEF AbandonInstance, LoadAlone, Shapes
<1>5. LoadAlone'
  BY <1>0, <1>4 DEF LoadAlone
<1>6. ArenaInv'
  BY <1>1, <1>4 DEF ArenaInv, ThreadInv, Outside, AbandonInstance
<1>7. QED
  BY <1>2, <1>3, <1>5, <1>6

LEMMA BeginInitializeInv ==
  ASSUME Inv, BeginInitialize
  PROVE  Inv'
<1> USE DEF Inv
<1>0. Loader \in Threads
  BY ContextsOK
<1>1. /\ pc[Loader] = "start" /\ Outside(Loader)
      /\ inst[Loader] \in Instances /\ known[inst[Loader]] = {}
      /\ \A t \in Threads : t # Loader => pc[t] = "idle" /\ Outside(t)
  BY <1>0 DEF BeginInitialize, LoadAlone, ArenaInv, ThreadInv
<1>2. /\ call_mem_info' = [call_mem_info EXCEPT ![Loader] = <<MemoryCell(inst[Loader])>>]
      /\ pc' = [pc EXCEPT ![Loader] = "initialize"]
  BY <1>1 DEF BeginInitialize, OpenCallMem, Outside, Arena
<1>3. Shapes'
  BY <1>2 DEF Shapes, BeginInitialize
<1>4. KnownAreOdd'
  BY DEF KnownAreOdd, BeginInitialize
<1>5. LoadAlone'
  BY <1>0, <1>1, <1>2 DEF LoadAlone, Shapes, BeginInitialize
<1>6. ArenaInv'
  BY <1>0, <1>1, <1>2 DEF ArenaInv, ThreadInv, Shapes, BeginInitialize, Outside, Initializing
<1>7. QED
  BY <1>3, <1>4, <1>5, <1>6

LEMMA EnterSystemInv ==
  ASSUME Inv, NEW t \in Threads, NEW r \in Roots, NEW i \in Instances,
         EnterSystem(t, r, i)
  PROVE  Inv'
<1> USE DEF Inv
<1> DEFINE cells == <<MemoryCell(i), ContextCell(r)>>
<1>0. Loader \in Threads
  BY ContextsOK
<1>1. /\ pc[t] = "idle" /\ Outside(t) /\ r \in Contexts
      /\ pc[Loader] \notin {"start", "initialize"}
  BY ContextsOK DEF EnterSystem, ArenaInv, ThreadInv, Roots
<1>2. /\ call_mem_info' = [call_mem_info EXCEPT ![t] = cells]
      /\ pc' = [pc EXCEPT ![t] = "guest"]
  BY <1>1 DEF EnterSystem, OpenCallMem, Outside, Arena
<1>3. Shapes'
  BY <1>2 DEF Shapes, EnterSystem
<1>4. KnownAreOdd'
  BY ContextsOK DEF KnownAreOdd, Shapes, EnterSystem
<1>5. LoadAlone'
  BY <1>0, <1>1, <1>2 DEF LoadAlone, Shapes, EnterSystem
<1>6. InSystem(t)'
  <2>1. inst'[t] = i /\ root'[t] = r /\ call_mem_info'[t] = cells
        /\ given'[t] = [h \in {1} |-> r]
    BY <1>2 DEF Shapes, EnterSystem
  <2>2. MemoryCell(i) \in Cells /\ ContextCell(r) \in Cells
    BY <1>1 DEF Cells, MemoryCell, ContextCell
  <2>3. cells \in Seq(Cells) /\ Len(cells) = 2 /\ cells[1] = MemoryCell(i)
        /\ cells[2] = ContextCell(r)
    BY <2>2
  <2>4. \A n \in 1..2 : cells[n] = IF n % 2 = 1 THEN MemoryCell(i)
                                   ELSE ContextCell([h \in {1} |-> r][n - 1])
    BY <2>3
  <2>5. {1} = {h \in 0..(2 - 1) : h % 2 = 1}
    OBVIOUS
  <2>6. r \in Live[r] /\ 2 \in 2..Capacity
    BY ContextsOK
  <2> HIDE DEF cells
  <2>7. QED
    BY <2>1, <2>3, <2>4, <2>5, <2>6 DEF InSystem
<1>7. ArenaInv'
  <2>1. \A u \in Threads : u # t =>
          /\ pc'[u] = pc[u] /\ call_mem_info'[u] = call_mem_info[u]
          /\ inst'[u] = inst[u] /\ root'[u] = root[u] /\ given'[u] = given[u]
          /\ runtime_call'[u] = runtime_call[u]
    BY <1>2 DEF Shapes, EnterSystem
  <2>2. ThreadInv(t)'
    BY <1>2, <1>6 DEF Shapes, ThreadInv
  <2>3. QED
    BY <2>1, <2>2, KeepsThread DEF ArenaInv
<1>8. QED
  BY <1>3, <1>4, <1>5, <1>7

LEMMA EndCallInv ==
  ASSUME Inv, NEW t \in Threads, EndCall(t)
  PROVE  Inv'
<1> USE DEF Inv
<1>0. Loader \in Threads
  BY ContextsOK
<1>1. Shapes'
  BY DEF Shapes, EndCall
<1>2. KnownAreOdd'
  BY DEF KnownAreOdd, EndCall
<1>3. LoadAlone'
  BY <1>0 DEF LoadAlone, Shapes, EndCall
<1>4. \A u \in Threads : u # t =>
          /\ pc'[u] = pc[u] /\ call_mem_info'[u] = call_mem_info[u]
          /\ inst'[u] = inst[u] /\ root'[u] = root[u] /\ given'[u] = given[u]
          /\ runtime_call'[u] = runtime_call[u]
  BY DEF Shapes, EndCall
<1>5. pc'[t] = "idle" /\ Outside(t)'
  BY DEF Shapes, EndCall, Outside
<1>6. ThreadInv(t)'
  BY <1>5 DEF ThreadInv
<1>7. ArenaInv'
  BY <1>4, <1>6, KeepsThread DEF ArenaInv
<1>8. QED
  BY <1>1, <1>2, <1>3, <1>7

\* Arithmetic of handles.
LEMMA NextHandle ==
  ASSUME NEW len \in Nat, len % 2 = 0
  PROVE  /\ (len + 1) % 2 = 1
         /\ (len + 2) % 2 = 0
         /\ (len + 2) - 1 = len + 1
         /\ {h \in 0..(len - 1) : h % 2 = 1} \cup {len + 1}
              = {h \in 0..((len + 2) - 1) : h % 2 = 1}
<1>1. (len + 1) % 2 = 1 /\ (len + 2) % 2 = 0 /\ (len + 2) - 1 = len + 1
  OBVIOUS
<1>2. ASSUME NEW h \in Int
      PROVE  h \in 0..((len + 2) - 1) <=> h \in 0..(len - 1) \/ h = len \/ h = len + 1
  OBVIOUS
<1>3. QED
  BY <1>1, <1>2

LEMMA PreviousHandle ==
  ASSUME NEW len \in Nat, NEW n \in 1..len, n % 2 # 1
  PROVE  n - 1 \in 0..(len - 1) /\ (n - 1) % 2 = 1
OBVIOUS

LEMMA AppendTwo ==
  ASSUME NEW S, NEW s \in Seq(S), NEW a \in S, NEW b \in S
  PROVE  /\ s \o <<a, b>> \in Seq(S)
         /\ Len(s \o <<a, b>>) = Len(s) + 2
         /\ \A n \in 1..Len(s) : (s \o <<a, b>>)[n] = s[n]
         /\ (s \o <<a, b>>)[Len(s) + 1] = a
         /\ (s \o <<a, b>>)[Len(s) + 2] = b
<1>1. <<a, b>> \in Seq(S) /\ Len(<<a, b>>) = 2
  OBVIOUS
<1>2. s \o <<a, b>> \in Seq(S) /\ Len(s \o <<a, b>>) = Len(s) + 2
  BY <1>1
<1>3. \A n \in 1..Len(s) : (s \o <<a, b>>)[n] = s[n]
  BY <1>1
<1>4. (s \o <<a, b>>)[Len(s) + 1] = a /\ (s \o <<a, b>>)[Len(s) + 2] = b
  BY <1>1
<1>5. QED
  BY <1>2, <1>3, <1>4

LEMMA ArenaLength ==
  ASSUME NEW t \in Threads, InSystem(t)
  PROVE  Len(call_mem_info[t]) \in Nat /\ Len(call_mem_info[t]) % 2 = 0
<1>1. Len(call_mem_info[t]) \in Nat
  BY DEF InSystem
<1>2. Len(call_mem_info[t]) % 2 = 0
  BY DEF InSystem
<1>3. QED
  BY <1>1, <1>2

\* What an import finds for a handle exists as long as the call does.
LEMMA ReachedIsLive ==
  ASSUME NEW r \in Roots, NEW c \in Live[r], NEW op \in Navigations,
         NEW d \in Reached(op, c)
  PROVE  d \in Live[r] \cup {Null}
BY ContextsOK DEF Reached, Navigations

\* A context granted goes after the others, and its memory before it.
LEMMA GrantInSystem ==
  ASSUME NEW t \in Threads, InSystem(t), NEW c \in Live[root[t]] \cup {Null},
         Len(call_mem_info[t]) + 2 <= Capacity,
         inst'[t] = inst[t], root'[t] = root[t],
         call_mem_info'[t] =
           call_mem_info[t] \o <<MemoryCell(inst[t]), ContextCell(c)>>,
         given'[t] = [g \in DOMAIN given[t] \cup {Len(call_mem_info[t]) + 1} |->
                        IF g = Len(call_mem_info[t]) + 1 THEN c ELSE given[t][g]]
  PROVE  InSystem(t)'
<1> DEFINE mem == call_mem_info[t]
           len == Len(call_mem_info[t])
           new == call_mem_info[t] \o <<MemoryCell(inst[t]), ContextCell(c)>>
<1>1. mem \in Seq(Cells) /\ inst[t] \in Instances /\ root[t] \in Roots
  BY DEF InSystem
<1>2. len \in Nat /\ len % 2 = 0
  BY ArenaLength
<1>3. c \in Contexts \cup {Null}
  BY <1>1, ContextsOK DEF Roots
<1>4. MemoryCell(inst[t]) \in Cells /\ ContextCell(c) \in Cells
  BY <1>1, <1>3 DEF Cells, MemoryCell, ContextCell
<1>5. /\ new \in Seq(Cells) /\ Len(new) = len + 2
      /\ \A n \in 1..len : new[n] = mem[n]
      /\ new[len + 1] = MemoryCell(inst[t])
      /\ new[len + 2] = ContextCell(c)
  BY <1>1, <1>4, AppendTwo
<1>6. DOMAIN given[t] = {h \in 0..(len - 1) : h % 2 = 1}
  BY DEF InSystem
<1>7. \A n \in 1..len : mem[n] = IF n % 2 = 1 THEN MemoryCell(inst[t])
                                            ELSE ContextCell(given[t][n - 1])
  BY DEF InSystem
<1>8. \A h \in DOMAIN given[t] : given[t][h] \in Live[root[t]] \cup {Null}
  BY DEF InSystem
<1>9. /\ call_mem_info'[t] = new
      /\ given'[t] = [g \in DOMAIN given[t] \cup {len + 1} |->
                        IF g = len + 1 THEN c ELSE given[t][g]]
      /\ len + 2 \in 2..Capacity
  BY <1>2, ContextsOK
<1> HIDE DEF mem, len, new
<1>10. /\ (len + 1) % 2 = 1 /\ (len + 2) % 2 = 0 /\ (len + 2) - 1 = len + 1
       /\ DOMAIN given'[t] = {h \in 0..((len + 2) - 1) : h % 2 = 1}
  BY <1>2, <1>6, <1>9, NextHandle
<1>11. ASSUME NEW n \in 1..(len + 2)
       PROVE  new[n] = IF n % 2 = 1 THEN MemoryCell(inst[t])
                                    ELSE ContextCell(given'[t][n - 1])
  <2>1. CASE n \in 1..len /\ n % 2 = 1
    BY <2>1, <1>5, <1>7
  <2>2. CASE n \in 1..len /\ n % 2 # 1
    <3>1. n - 1 \in DOMAIN given[t]
      BY <2>2, <1>2, <1>6, PreviousHandle
    <3>2. n - 1 # len + 1
      BY <2>2, <1>2
    <3>3. given'[t][n - 1] = given[t][n - 1]
      BY <3>1, <3>2, <1>9
    <3>4. QED
      BY <2>2, <3>3, <1>5, <1>7
  <2>3. CASE n = len + 1
    BY <2>3, <1>5, <1>10
  <2>4. CASE n = len + 2
    <3>1. given'[t][n - 1] = c
      BY <2>4, <1>9, <1>10
    <3>2. QED
      BY <2>4, <3>1, <1>5, <1>10
  <2>5. n \in 1..len \/ n = len + 1 \/ n = len + 2
    BY <1>2
  <2>6. QED
    BY <2>1, <2>2, <2>3, <2>4, <2>5
<1>12. \A h \in DOMAIN given'[t] : given'[t][h] \in Live[root[t]] \cup {Null}
  BY <1>8, <1>9
<1>13. Len(new) \in 2..Capacity /\ Len(new) % 2 = 0
  BY <1>5, <1>9, <1>10
<1>14. QED
  BY <1>1, <1>5, <1>9, <1>10, <1>11, <1>12, <1>13 DEF InSystem

LEMMA NavigateInv ==
  ASSUME Inv, NEW t \in Threads, NEW op \in Navigations, NEW h,
         NEW c \in Contexts \cup {Null}, Navigate(t, op, h, c)
  PROVE  Inv'
<1> USE DEF Inv
<1>1. Uses(t, h) /\ ContextOf(t, h) # Null /\ c \in Reached(op, ContextOf(t, h))
      /\ Len(call_mem_info[t]) + 2 <= Capacity
  BY DEF Navigate, Fits, Arena
<1>2. pc[t] = "guest" /\ InSystem(t) /\ h \in Nat
  BY <1>1, UsesInSystem
<1>3. ContextOf(t, h) \in Live[root[t]] /\ MemoryOf(t, h) = inst[t]
  BY <1>1, UsedHandle
<1>4. c \in Live[root[t]] \cup {Null}
  BY <1>1, <1>2, <1>3, ReachedIsLive DEF InSystem
<1>5. Len(call_mem_info[t]) + 1 \in 0..Capacity /\ (Len(call_mem_info[t]) + 1) % 2 = 1
  <2>1. Len(call_mem_info[t]) \in Nat /\ Len(call_mem_info[t]) % 2 = 0
    BY <1>2, ArenaLength
  <2> DEFINE len == Len(call_mem_info[t])
  <2>2. len \in Nat /\ len % 2 = 0
    BY <2>1
  <2> HIDE DEF len
  <2>3. len + 1 \in 0..Capacity /\ (len + 1) % 2 = 1
    <3>1. len + 2 <= Capacity
      BY <1>1 DEF len
    <3>2. QED
      BY <2>2, <3>1, ContextsOK
  <2>4. QED
    BY <2>3 DEF len
<1>6. Shapes'
  BY DEF Shapes, Navigate, Record
<1>7. KnownAreOdd'
  <2>1. known' = [known EXCEPT ![inst[t]] = @ \cup {Len(call_mem_info[t]) + 1}]
    BY DEF Navigate, Arena
  <2>2. QED
    BY <1>5, <2>1 DEF KnownAreOdd, Shapes
<1>8. LoadAlone'
  <2>1. pc[Loader] \notin {"start", "initialize"}
    BY <1>2, ContextsOK DEF LoadAlone
  <2>2. QED
    BY <2>1 DEF LoadAlone, Navigate
<1>9. InSystem(t)'
  <2>1. call_mem_info'[t] =
           call_mem_info[t] \o <<MemoryCell(inst[t]), ContextCell(c)>>
    BY <1>3 DEF Navigate, Shapes, Arena
  <2>2. given'[t] = [g \in DOMAIN given[t] \cup {Len(call_mem_info[t]) + 1} |->
                       IF g = Len(call_mem_info[t]) + 1 THEN c ELSE given[t][g]]
    BY DEF Navigate, Shapes, Arena
  <2>3. inst'[t] = inst[t] /\ root'[t] = root[t]
    BY DEF Navigate
  <2>4. QED
    BY <1>1, <1>2, <1>4, <2>1, <2>2, <2>3, GrantInSystem
<1>10. ThreadInv(t)'
  BY <1>2, <1>9 DEF ThreadInv, Navigate
<1>11. ASSUME NEW u \in Threads, u # t
       PROVE  ThreadInv(u)'
  <2>1. /\ pc'[u] = pc[u] /\ call_mem_info'[u] = call_mem_info[u]
        /\ inst'[u] = inst[u] /\ root'[u] = root[u] /\ given'[u] = given[u]
        /\ runtime_call'[u] = runtime_call[u]
    BY <1>11 DEF Shapes, Navigate, Record
  <2>2. QED
    BY <2>1, KeepsThread DEF ArenaInv
<1>12. ArenaInv'
  BY <1>10, <1>11 DEF ArenaInv
<1>13. QED
  BY <1>6, <1>7, <1>8, <1>12

\* Every import is one of these.
LEMMA ImportCases ==
  ASSUME NEW t \in Threads, NEW h \in known[inst[t]], Import(t, h)
  PROVE  \/ Frames(t)
         \/ \E op \in Navigations, c \in Contexts \cup {Null} : Navigate(t, op, h, c)
<1>1. ASSUME NEW op \in Imports \cap DataOps, NEW asked \in GuestArgs(op),
             CallRuntime(t, op, h, asked) \/ OverrunResults(t, op, h, asked)
      PROVE  Frames(t)
  BY <1>1 DEF Frames
<1>2. ASSUME NEW count \in -1..1, NEW ids \in Pointers, NEW list \in Pointers,
             CallGenerate(t, h, count, ids, list) \/ FailGenerate(t, h, count, ids, list)
      PROVE  Frames(t)
  BY <1>2 DEF Frames
<1>3. ASSUME NEW g \in known[inst[t]], CallSame(t, h, g)
      PROVE  Frames(t)
  BY <1>3 DEF Frames
<1>4. ASSUME NEW op \in Imports \cap Navigations, Overrun(t, op, h)
      PROVE  Frames(t)
  BY <1>4 DEF Frames
<1>5. ASSUME RefuseHandle(t, h) \/ PassNull(t, h)
      PROVE  Frames(t)
  BY <1>5 DEF Frames
<1>6. QED
  BY <1>1, <1>2, <1>3, <1>4, <1>5 DEF Import

LEMMA InvNext == Inv /\ [Next]_vars => Inv'
<1> SUFFICES ASSUME Inv, [Next]_vars
             PROVE  Inv'
  OBVIOUS
<1>1. CASE \E i \in Instances : BeginInstance(i)
  BY <1>1, BeginInstanceInv
<1>2. CASE AbandonInstance
  BY <1>2, AbandonInstanceInv
<1>3. CASE BeginInitialize
  BY <1>3, BeginInitializeInv
<1>4. ASSUME NEW t \in Threads, NEW r \in Roots, NEW i \in Instances,
             EnterSystem(t, r, i)
      PROVE  Inv'
  BY <1>4, EnterSystemInv
<1>5. ASSUME NEW t \in Threads, EndCall(t)
      PROVE  Inv'
  BY <1>5, EndCallInv
<1>6. ASSUME NEW t \in Threads, NEW h \in known[inst[t]], Import(t, h)
      PROVE  Inv'
  BY <1>6, ImportCases, FramesInv, NavigateInv
<1>7. ASSUME NEW t \in Threads, CallWasi(t) \/ MissCallMem(t)
      PROVE  Inv'
  BY <1>7, FramesInv DEF Frames
<1>8. CASE UNCHANGED vars
  <2>1. \A t \in Threads : ThreadInv(t)'
    BY <1>8, KeepsThread DEF Inv, ArenaInv, vars
  <2>2. Shapes' /\ KnownAreOdd' /\ LoadAlone'
    BY <1>8 DEF vars, Inv, Shapes, KnownAreOdd, LoadAlone
  <2>3. QED
    BY <2>1, <2>2 DEF Inv, ArenaInv
<1>9. QED
  BY <1>1, <1>2, <1>3, <1>4, <1>5, <1>6, <1>7, <1>8 DEF Next, StayHalted

\* In every reachable state memories and contexts alternate in the call memory
\* of each thread that runs a system, the contexts being those given in this
\* call, and there is no call memory anywhere else.
THEOREM Invariance == Spec => []Inv
BY InvInit, InvNext, PTL DEF Spec

-------------------------------------------------------------------------------
(* The call memory *)

LEMMA NoCallIsNoMemory ==
  ASSUME NEW t \in Threads
  PROVE  /\ InSystem(t) => call_mem_info[t] # NoCall
         /\ Initializing(t) => call_mem_info[t] # NoCall
<1>1. InSystem(t) => call_mem_info[t] # NoCall
  BY ContextsOK DEF InSystem
<1>2. ASSUME Initializing(t)
      PROVE  call_mem_info[t] \in Seq(Cells)
  <2>1. MemoryCell(inst[t]) \in Cells
    BY <1>2 DEF Initializing, MemoryCell, Cells
  <2>2. QED
    BY <1>2, <2>1 DEF Initializing
<1>3. QED
  BY <1>1, <1>2, ContextsOK

\* set_call_mem_data never finds call memory that an earlier call left, and code
\* of the guest runs with call memory, but for start functions.
THEOREM CallMemOnlyDuringCalls == Spec => []CallMemOnlyInCalls
<1>1. Inv => CallMemOnlyInCalls
  <2> SUFFICES ASSUME Inv, NEW t \in Threads
               PROVE  /\ pc[t] # "mem_in_use"
                      /\ pc[t] \in {"idle", "start"} => call_mem_info[t] = NoCall
                      /\ InCall(t) => call_mem_info[t] # NoCall
    BY DEF CallMemOnlyInCalls
  <2>1. ThreadInv(t)
    BY DEF Inv, ArenaInv
  <2>2. QED
    BY <2>1, NoCallIsNoMemory DEF ThreadInv, Outside, InCall
<1>2. QED
  BY Invariance, <1>1, PTL

\* What get_execution_context_memory reads before a context is the memory of the
\* instance that runs on the thread.
THEOREM MemoryIsBeforeContext == Spec => []MemoryBeforeContext
<1>1. Inv => MemoryBeforeContext
  <2> SUFFICES ASSUME Inv, NEW t \in Threads, InCall(t),
                      NEW n \in 1..Len(call_mem_info[t]),
                      call_mem_info[t][n].type = "context"
               PROVE  n > 1 /\ call_mem_info[t][n - 1] = MemoryCell(inst[t])
    BY DEF MemoryBeforeContext
  <2>1. ThreadInv(t)
    BY DEF Inv, ArenaInv
  <2>2. CASE pc[t] = "initialize"
    <3>1. call_mem_info[t] = <<MemoryCell(inst[t])>>
      BY <2>1, <2>2 DEF ThreadInv, Initializing
    <3>2. QED
      BY <3>1 DEF MemoryCell
  <2>3. CASE pc[t] = "guest"
    <3> DEFINE mem == call_mem_info[t]
               len == Len(call_mem_info[t])
    <3>1. InSystem(t)
      BY <2>1, <2>3 DEF ThreadInv
    <3>2. len \in Nat
      BY <3>1, ArenaLength
    <3>3. \A m \in 1..len : mem[m] = IF m % 2 = 1 THEN MemoryCell(inst[t])
                                                 ELSE ContextCell(given[t][m - 1])
      BY <3>1 DEF InSystem
    <3> HIDE DEF mem, len
    <3>4. n \in 1..len /\ mem[n].type = "context"
      BY DEF mem, len
    <3>5. n % 2 # 1
      BY <3>3, <3>4 DEF MemoryCell
    <3>6. n - 1 \in 1..len /\ (n - 1) % 2 = 1 /\ n > 1
      BY <3>2, <3>4, <3>5
    <3>7. mem[n - 1] = MemoryCell(inst[t])
      BY <3>3, <3>6
    <3>8. QED
      BY <3>6, <3>7 DEF mem
  <2>4. QED
    BY <2>2, <2>3 DEF InCall
<1>2. QED
  BY Invariance, <1>1, PTL

-------------------------------------------------------------------------------
(* The calls of the runtime *)

\* The runtime is called on contexts given to the guest in this call and with
\* the memory of its instance, or the process has failed before.
Sound(t, call) ==
  /\ \E handles \in SUBSET DOMAIN given[t] :
       /\ call.contexts = {given[t][h] : h \in handles}
       /\ call.contexts \subseteq Live[root[t]]
  /\ \/ call.memory = inst[t]
     \/ call.memory = Null /\ (call.op \in {"entity", "same"} \/ pc'[t] \in Faults)

\* A failure on a handle is one on a handle that was not given in this call, or
\* was given for a null context.
FailsSoundly(t, call) ==
  pc'[t] \in {"bad_handle", "null_context"} =>
    \E h \in call.handles : h \notin DOMAIN given[t] \/ given[t][h] = Null

LEMMA CallTyped ==
  ASSUME Inv, NEW t \in Threads, pc[t] \in {"initialize", "guest"},
         NEW op \in ImportNames \cup {"refused", "null"},
         NEW handles \in SUBSET (0..Capacity), NEW contexts, NEW memory,
         NEW asked \in Seq(Int), NEW args \in Seq(Int),
         Sound(t, [op |-> op, handles |-> handles, contexts |-> contexts,
                   memory |-> memory, asked |-> asked, args |-> args])
  PROVE  [op |-> op, handles |-> handles, contexts |-> contexts, memory |-> memory,
          asked |-> asked, args |-> args] \in CallRecords
<1>1. ThreadInv(t) /\ inst[t] \in Instances
  BY DEF Inv, ArenaInv, ThreadInv, Initializing, InSystem
<1>2. memory \in Instances \cup {Null}
  BY <1>1 DEF Sound
<1>3. contexts \subseteq Contexts \cup {Null}
  <2>1. CASE pc[t] = "guest"
    <3>1. root[t] \in Roots
      BY <1>1, <2>1 DEF ThreadInv, InSystem
    <3>2. Live[root[t]] \subseteq Contexts
      BY <3>1, ContextsOK
    <3>3. QED
      BY <3>2 DEF Sound
  <2>2. CASE pc[t] = "initialize"
    <3>1. DOMAIN given[t] = {}
      BY <1>1, <2>2 DEF ThreadInv, Initializing
    <3>2. QED
      BY <3>1 DEF Sound
  <2>3. QED
    BY <2>1, <2>2
<1>4. QED
  BY <1>2, <1>3 DEF CallRecords

\* What the guest passes to the imports, and the runtime for it, are integers.
LEMMA ArgsTyped ==
  ASSUME NEW op \in DataOps, NEW asked \in GuestArgs(op)
  PROVE  asked \in Seq(Int) /\ HostArgs(op, asked) \in Seq(Int)
<1>0. \A p \in Pointers : p \in Int
  BY ContextsOK
<1>1. CASE op \in OnePointer
  <2>1. PICK p \in Pointers : asked = <<p>>
    BY <1>1 DEF GuestArgs, OnePointer, TwoPointers
  <2>2. QED
    BY <1>0, <1>1, <2>1 DEF HostArgs, OnePointer
<1>2. CASE op \in TwoPointers
  <2>1. PICK p \in Pointers, q \in Pointers : asked = <<p, q>>
    BY <1>2 DEF GuestArgs, OnePointer, TwoPointers
  <2>2. QED
    BY <1>0, <1>2, <2>1 DEF HostArgs, TwoPointers
<1>3. CASE op = "stream_toggle"
  <2>1. PICK e \in {0, 1}, p \in Pointers : asked = <<e, p>>
    BY <1>3 DEF GuestArgs, OnePointer, TwoPointers
  <2>2. asked \in Seq(Int) /\ asked[1] \in Int
    BY <1>0, <2>1
  <2>3. HostArgs(op, asked) = <<IF asked[1] # 0 THEN 1 ELSE 0, asked[1]>>
    BY <1>3 DEF HostArgs
  <2>4. QED
    BY <2>2, <2>3
<1>4. CASE op = "entity"
  BY <1>4 DEF GuestArgs, HostArgs, OnePointer, TwoPointers
<1>5. QED
  BY <1>1, <1>2, <1>3, <1>4 DEF DataOps

LEMMA OneHandle ==
  ASSUME Inv, NEW t \in Threads, NEW h, Uses(t, h), ContextOf(t, h) # Null,
         NEW call, call.contexts = {ContextOf(t, h)},
         call.memory = MemoryOf(t, h) \/ (call.memory = Null /\ call.op = "entity")
  PROVE  Sound(t, call)
<1>1. /\ h \in DOMAIN given[t]
      /\ ContextOf(t, h) = given[t][h]
      /\ MemoryOf(t, h) = inst[t]
      /\ given[t][h] \in Live[root[t]]
  BY UsedHandle
<1>2. {h} \in SUBSET DOMAIN given[t] /\ call.contexts = {given[t][g] : g \in {h}}
  BY <1>1
<1>3. QED
  BY <1>1, <1>2 DEF Sound

LEMMA NoHandle ==
  ASSUME NEW t \in Threads, NEW call, call.contexts = {},
         call.memory = inst[t] \/ (call.memory = Null /\ pc'[t] \in Faults)
  PROVE  Sound(t, call)
<1>1. {} \in SUBSET DOMAIN given[t] /\ call.contexts = {given[t][g] : g \in {}}
  OBVIOUS
<1>2. QED
  BY <1>1 DEF Sound

\* The memory at offset 0 is that of the instance, in a system and in _initialize.
LEMMA WasiMemory ==
  ASSUME Inv, NEW t \in Threads, pc[t] \in {"initialize", "guest"}
  PROVE  CellValue(t, 0) = inst[t]
<1>1. ThreadInv(t)
  BY DEF Inv, ArenaInv
<1>2. CASE pc[t] = "initialize"
  BY <1>1, <1>2 DEF ThreadInv, Initializing, CellValue, Arena, MemoryCell
<1>3. CASE pc[t] = "guest"
  <2>1. InSystem(t)
    BY <1>1, <1>3 DEF ThreadInv
  <2>2. Len(call_mem_info[t]) \in Nat /\ Len(call_mem_info[t]) >= 2
    BY <2>1, ContextsOK DEF InSystem
  <2>3. call_mem_info[t][1] = MemoryCell(inst[t])
    BY <2>1, <2>2 DEF InSystem
  <2>4. QED
    BY <2>2, <2>3 DEF CellValue, Arena, MemoryCell
<1>4. QED
  BY <1>2, <1>3

\* Why RefuseHandle fails: a handle that is not given in this call.
LEMMA RefusedHandle ==
  ASSUME Inv, NEW t \in Threads, NEW h, Uses(t, h), ~CanRead(t, h)
  PROVE  h \notin DOMAIN given[t]
<1>1. pc[t] = "guest" /\ h \in Nat /\ h % 2 = 1
  BY UsesInSystem
<1>2. ~(h < Len(call_mem_info[t]))
  BY <1>1, HandleResolves
<1>3. QED
  BY <1>1, <1>2, StaleHandle

\* Why PassNull fails: as well, or the handle of the parent of a root.
LEMMA NullHandle ==
  ASSUME Inv, NEW t \in Threads, NEW h, Uses(t, h), ContextOf(t, h) = Null
  PROVE  h \notin DOMAIN given[t] \/ given[t][h] = Null
<1>1. pc[t] = "guest" /\ h \in Nat /\ h % 2 = 1
  BY UsesInSystem
<1>2. QED
  BY <1>1, StaleHandle, HandleResolves

\* What an import other than a navigation leaves behind.
LEMMA FramesSound ==
  ASSUME Inv, NEW t \in Threads, Frames(t), ~MissCallMem(t)
  PROVE  \E call : /\ runtime_call' = [runtime_call EXCEPT ![t] = call]
                   /\ call \in CallRecords
                   /\ Sound(t, call) /\ FailsSoundly(t, call)
<1> USE DEF Record
<1>1. ASSUME NEW op \in DataOps, NEW h \in known[inst[t]], NEW asked \in GuestArgs(op),
             CallRuntime(t, op, h, asked)
      PROVE  \E call : /\ runtime_call' = [runtime_call EXCEPT ![t] = call]
                       /\ call \in CallRecords
                       /\ Sound(t, call) /\ FailsSoundly(t, call)
  <2> DEFINE call == [op |-> op, handles |-> {h}, contexts |-> {ContextOf(t, h)},
                      memory |-> MemoryFor(op, t, h), asked |-> asked,
                      args |-> HostArgs(op, asked)]
  <2>1. Sound(t, call)
    BY <1>1, OneHandle DEF CallRuntime, MemoryFor
  <2>2. FailsSoundly(t, call)
    BY <1>1 DEF CallRuntime, FailsSoundly, Uses, InGuest, Halted, Faults
  <2>3. call \in CallRecords
    <3>1. Uses(t, h)
      BY <1>1 DEF CallRuntime
    <3>2. pc[t] = "guest" /\ {h} \in SUBSET (0..Capacity)
      BY <3>1, UsesInSystem
    <3>3. asked \in Seq(Int) /\ HostArgs(op, asked) \in Seq(Int)
      BY ArgsTyped
    <3>4. QED
      BY <2>1, <3>2, <3>3, CallTyped DEF ImportNames
  <2>4. QED
    BY <2>3, <1>1, <2>1, <2>2 DEF CallRuntime
<1>2. ASSUME NEW op \in DataOps, NEW h \in known[inst[t]], NEW asked \in GuestArgs(op),
             OverrunResults(t, op, h, asked)
      PROVE  \E call : /\ runtime_call' = [runtime_call EXCEPT ![t] = call]
                       /\ call \in CallRecords
                       /\ Sound(t, call) /\ FailsSoundly(t, call)
  <2> DEFINE call == [op |-> op, handles |-> {h}, contexts |-> {ContextOf(t, h)},
                      memory |-> MemoryOf(t, h), asked |-> asked, args |-> asked]
  <2>1. Sound(t, call)
    BY <1>2, OneHandle DEF OverrunResults
  <2>2. FailsSoundly(t, call)
    BY <1>2 DEF OverrunResults, FailsSoundly, Inv, Shapes
  <2>3. call \in CallRecords
    <3>1. Uses(t, h)
      BY <1>2 DEF OverrunResults
    <3>2. pc[t] = "guest" /\ {h} \in SUBSET (0..Capacity)
      BY <3>1, UsesInSystem
    <3>3. asked \in Seq(Int)
      BY ArgsTyped
    <3>4. QED
      BY <2>1, <3>2, <3>3, CallTyped DEF ImportNames
  <2>4. QED
    BY <2>3, <1>2, <2>1, <2>2 DEF OverrunResults
<1>3. ASSUME NEW h \in known[inst[t]], NEW count \in -1..1, NEW ids \in Pointers,
             NEW list \in Pointers,
             CallGenerate(t, h, count, ids, list)
      PROVE  \E call : /\ runtime_call' = [runtime_call EXCEPT ![t] = call]
                       /\ call \in CallRecords
                       /\ Sound(t, call) /\ FailsSoundly(t, call)
  <2> DEFINE call == [op |-> "generate", handles |-> {h},
                      contexts |-> {ContextOf(t, h)}, memory |-> MemoryOf(t, h),
                      asked |-> <<count, ids, list>>, args |-> <<count, ids, list>>]
  <2>1. Sound(t, call)
    BY <1>3, OneHandle DEF CallGenerate
  <2>2. FailsSoundly(t, call)
    BY <1>3 DEF CallGenerate, FailsSoundly, Uses, InGuest
  <2>3. call \in CallRecords
    <3>1. Uses(t, h)
      BY <1>3 DEF CallGenerate
    <3>2. pc[t] = "guest" /\ {h} \in SUBSET (0..Capacity)
      BY <3>1, UsesInSystem
    <3>3. <<count, ids, list>> \in Seq(Int)
      BY ContextsOK
    <3>4. QED
      BY <2>1, <3>2, <3>3, CallTyped DEF ImportNames
  <2>4. QED
    BY <2>3, <1>3, <2>1, <2>2 DEF CallGenerate
<1>4. ASSUME NEW h \in known[inst[t]], NEW count \in -1..1, NEW ids \in Pointers,
             NEW list \in Pointers,
             FailGenerate(t, h, count, ids, list)
      PROVE  \E call : /\ runtime_call' = [runtime_call EXCEPT ![t] = call]
                       /\ call \in CallRecords
                       /\ Sound(t, call) /\ FailsSoundly(t, call)
  <2> DEFINE call == [op |-> "generate", handles |-> {h}, contexts |-> {},
                      memory |-> Null, asked |-> <<count, ids, list>>, args |-> <<>>]
  <2>1. pc'[t] \in {"length_error", "null_list"}
    BY <1>4 DEF FailGenerate, Inv, Shapes
  <2>2. Sound(t, call)
    BY <2>1, NoHandle DEF Faults
  <2>3. FailsSoundly(t, call)
    BY <2>1 DEF FailsSoundly
  <2>4. call \in CallRecords
    <3>1. Uses(t, h)
      BY <1>4 DEF FailGenerate
    <3>2. pc[t] = "guest" /\ {h} \in SUBSET (0..Capacity)
      BY <3>1, UsesInSystem
    <3>3. <<count, ids, list>> \in Seq(Int) /\ <<>> \in Seq(Int)
      BY ContextsOK
    <3>4. QED
      BY <2>2, <3>2, <3>3, CallTyped DEF ImportNames
  <2>5. QED
    BY <2>4, <1>4, <2>2, <2>3 DEF FailGenerate
<1>5. ASSUME NEW h \in known[inst[t]], NEW g \in known[inst[t]], CallSame(t, h, g)
      PROVE  \E call : /\ runtime_call' = [runtime_call EXCEPT ![t] = call]
                       /\ call \in CallRecords
                       /\ Sound(t, call) /\ FailsSoundly(t, call)
  <2> DEFINE call == [op |-> "same", handles |-> {h, g},
                      contexts |-> {ContextOf(t, h), ContextOf(t, g)},
                      memory |-> Null, asked |-> <<>>, args |-> <<>>]
  <2>1. /\ h \in DOMAIN given[t] /\ ContextOf(t, h) = given[t][h]
        /\ g \in DOMAIN given[t] /\ ContextOf(t, g) = given[t][g]
        /\ given[t][h] \in Live[root[t]] /\ given[t][g] \in Live[root[t]]
    BY <1>5, UsedHandle DEF CallSame
  <2>2. {h, g} \in SUBSET DOMAIN given[t]
        /\ call.contexts = {given[t][k] : k \in {h, g}}
    BY <2>1
  <2>3. Sound(t, call)
    BY <2>1, <2>2 DEF Sound
  <2>4. FailsSoundly(t, call)
    BY <1>5 DEF CallSame, FailsSoundly, Uses, InGuest
  <2>5. call \in CallRecords
    <3>1. Uses(t, h) /\ Uses(t, g)
      BY <1>5 DEF CallSame
    <3>2. pc[t] = "guest" /\ {h, g} \in SUBSET (0..Capacity)
      BY <3>1, UsesInSystem
    <3>3. <<>> \in Seq(Int)
      OBVIOUS
    <3>4. QED
      BY <2>3, <3>2, <3>3, CallTyped DEF ImportNames
  <2>6. QED
    BY <2>5, <1>5, <2>3, <2>4 DEF CallSame
<1>6. ASSUME NEW op \in Navigations, NEW h \in known[inst[t]], Overrun(t, op, h)
      PROVE  \E call : /\ runtime_call' = [runtime_call EXCEPT ![t] = call]
                       /\ call \in CallRecords
                       /\ Sound(t, call) /\ FailsSoundly(t, call)
  <2> DEFINE call == [op |-> op, handles |-> {h}, contexts |-> {ContextOf(t, h)},
                      memory |-> MemoryOf(t, h), asked |-> <<>>, args |-> <<>>]
  <2>1. Sound(t, call)
    BY <1>6, OneHandle DEF Overrun
  <2>2. FailsSoundly(t, call)
    BY <1>6 DEF Overrun, FailsSoundly, Inv, Shapes
  <2>3. call \in CallRecords
    <3>1. Uses(t, h)
      BY <1>6 DEF Overrun
    <3>2. pc[t] = "guest" /\ {h} \in SUBSET (0..Capacity)
      BY <3>1, UsesInSystem
    <3>3. <<>> \in Seq(Int)
      OBVIOUS
    <3>4. QED
      BY <2>1, <3>2, <3>3, CallTyped DEF ImportNames
  <2>4. QED
    BY <2>3, <1>6, <2>1, <2>2 DEF Overrun
<1>7. ASSUME NEW h \in known[inst[t]], RefuseHandle(t, h)
      PROVE  \E call : /\ runtime_call' = [runtime_call EXCEPT ![t] = call]
                       /\ call \in CallRecords
                       /\ Sound(t, call) /\ FailsSoundly(t, call)
  <2> DEFINE call == [op |-> "refused", handles |-> {h}, contexts |-> {},
                      memory |-> Null, asked |-> <<>>, args |-> <<>>]
  <2>1. pc'[t] = "bad_handle"
    BY <1>7 DEF RefuseHandle, Inv, Shapes
  <2>2. Sound(t, call)
    BY <2>1, NoHandle DEF Faults
  <2>3. FailsSoundly(t, call)
    BY <1>7, RefusedHandle DEF RefuseHandle, FailsSoundly
  <2>4. call \in CallRecords
    <3>1. Uses(t, h)
      BY <1>7 DEF RefuseHandle
    <3>2. pc[t] = "guest" /\ {h} \in SUBSET (0..Capacity)
      BY <3>1, UsesInSystem
    <3>3. <<>> \in Seq(Int)
      OBVIOUS
    <3>4. QED
      BY <2>2, <3>2, <3>3, CallTyped DEF ImportNames
  <2>5. QED
    BY <2>4, <1>7, <2>2, <2>3 DEF RefuseHandle
<1>8. ASSUME NEW h \in known[inst[t]], PassNull(t, h)
      PROVE  \E call : /\ runtime_call' = [runtime_call EXCEPT ![t] = call]
                       /\ call \in CallRecords
                       /\ Sound(t, call) /\ FailsSoundly(t, call)
  <2> DEFINE call == [op |-> "null", handles |-> {h}, contexts |-> {},
                      memory |-> Null, asked |-> <<>>, args |-> <<>>]
  <2>1. pc'[t] = "null_context"
    BY <1>8 DEF PassNull, Inv, Shapes
  <2>2. Sound(t, call)
    BY <2>1, NoHandle DEF Faults
  <2>3. FailsSoundly(t, call)
    BY <1>8, NullHandle DEF PassNull, FailsSoundly
  <2>4. call \in CallRecords
    <3>1. Uses(t, h)
      BY <1>8 DEF PassNull
    <3>2. pc[t] = "guest" /\ {h} \in SUBSET (0..Capacity)
      BY <3>1, UsesInSystem
    <3>3. <<>> \in Seq(Int)
      OBVIOUS
    <3>4. QED
      BY <2>2, <3>2, <3>3, CallTyped DEF ImportNames
  <2>5. QED
    BY <2>4, <1>8, <2>2, <2>3 DEF PassNull
<1>9. ASSUME CallWasi(t)
      PROVE  \E call : /\ runtime_call' = [runtime_call EXCEPT ![t] = call]
                       /\ call \in CallRecords
                       /\ Sound(t, call) /\ FailsSoundly(t, call)
  <2> DEFINE call == [op |-> "wasi", handles |-> {}, contexts |-> {},
                      memory |-> CellValue(t, 0), asked |-> <<>>, args |-> <<>>]
  <2>1. pc[t] \in {"initialize", "guest"} /\ pc' = pc
    BY <1>9 DEF CallWasi, InGuest, Inv, ArenaInv, ThreadInv, Outside, Arena
  <2>2. Sound(t, call)
    BY <2>1, WasiMemory, NoHandle
  <2>3. FailsSoundly(t, call)
    BY <2>1 DEF FailsSoundly
  <2>4. call \in CallRecords
    <3>1. {} \in SUBSET (0..Capacity) /\ <<>> \in Seq(Int)
      OBVIOUS
    <3>2. QED
      BY <2>1, <2>2, <3>1, CallTyped DEF ImportNames
  <2>5. QED
    BY <2>4, <1>9, <2>2, <2>3 DEF CallWasi
<1>10. QED
  BY <1>1, <1>2, <1>3, <1>4, <1>5, <1>6, <1>7, <1>8, <1>9 DEF Frames

LEMMA NavigateSound ==
  ASSUME Inv, NEW t \in Threads, NEW op \in Navigations, NEW h,
         NEW c \in Contexts \cup {Null}, Navigate(t, op, h, c)
  PROVE  \E call : /\ runtime_call' = [runtime_call EXCEPT ![t] = call]
                   /\ call \in CallRecords
                   /\ Sound(t, call)
                   /\ call.contexts = {given[t][h]} /\ call.memory = inst[t]
                   /\ h \in DOMAIN given[t]
<1> DEFINE call == [op |-> op, handles |-> {h}, contexts |-> {ContextOf(t, h)},
                    memory |-> MemoryOf(t, h), asked |-> <<>>, args |-> <<>>]
<1>1. Uses(t, h) /\ ContextOf(t, h) # Null
  BY DEF Navigate
<1>2. Sound(t, call)
  BY <1>1, OneHandle
<1>3. h \in DOMAIN given[t] /\ ContextOf(t, h) = given[t][h] /\ MemoryOf(t, h) = inst[t]
  BY <1>1, UsedHandle
<1>4. call \in CallRecords
  <2>1. pc[t] = "guest" /\ {h} \in SUBSET (0..Capacity)
    BY <1>1, UsesInSystem
  <2>2. <<>> \in Seq(Int)
    OBVIOUS
  <2>3. QED
    BY <1>2, <2>1, <2>2, CallTyped DEF ImportNames
<1>5. QED
  BY <1>2, <1>3, <1>4 DEF Navigate, Record

\* The kinds of steps.
LEMMA NextCases ==
  ASSUME [Next]_vars
  PROVE  \/ \E i \in Instances : BeginInstance(i)
         \/ AbandonInstance
         \/ BeginInitialize
         \/ \E t \in Threads, r \in Roots, i \in Instances : EnterSystem(t, r, i)
         \/ \E t \in Threads : EndCall(t)
         \/ \E t \in Threads : Frames(t)
         \/ \E t \in Threads : \E op \in Navigations, h \in known[inst[t]],
               c \in Contexts \cup {Null} : Navigate(t, op, h, c)
         \/ UNCHANGED vars
<1>1. ASSUME NEW t \in Threads, NEW h \in known[inst[t]], Import(t, h)
      PROVE  \/ Frames(t)
             \/ \E op \in Navigations, c \in Contexts \cup {Null} : Navigate(t, op, h, c)
  BY <1>1, ImportCases
<1>2. ASSUME NEW t \in Threads, CallWasi(t) \/ MissCallMem(t)
      PROVE  Frames(t)
  BY <1>2 DEF Frames
<1>3. QED
  BY <1>1, <1>2 DEF Next, StayHalted

LEMMA CallsNext ==
  ASSUME Inv, Inv', RuntimeCallsStayInExecution, [Next]_vars
  PROVE  RuntimeCallsStayInExecution'
<1> DEFINE Stays(u) ==
             InCall(u) /\ runtime_call[u] # NoCall =>
               /\ runtime_call[u].contexts # {} =>
                    runtime_call[u].contexts \subseteq Live[root[u]]
               /\ \/ runtime_call[u].memory = inst[u]
                  \/ runtime_call[u].op \in {"entity", "same"}
<1> SUFFICES ASSUME NEW u \in Threads
             PROVE  Stays(u)'
  BY DEF RuntimeCallsStayInExecution
<1>1. Stays(u)
  BY DEF RuntimeCallsStayInExecution
<1>2. ASSUME runtime_call'[u] = runtime_call[u], inst'[u] = inst[u],
             root'[u] = root[u], InCall(u)' => InCall(u)
      PROVE  Stays(u)'
  BY <1>1, <1>2
<1>3. runtime_call'[u] = NoCall => Stays(u)'
  OBVIOUS
<1>4. ASSUME NEW call, runtime_call'[u] = call, inst'[u] = inst[u], root'[u] = root[u],
             Sound(u, call)
      PROVE  Stays(u)'
  <2>1. InCall(u)' => pc'[u] \notin Faults
    BY DEF InCall, Faults
  <2>2. QED
    BY <1>4, <2>1 DEF Sound
<1> HIDE DEF Stays
<1>5. CASE \E i \in Instances : BeginInstance(i)
  <2>1. runtime_call'[u] = NoCall
    BY <1>5 DEF BeginInstance, AllIdle, Inv, ArenaInv, ThreadInv, Outside
  <2>2. QED
    BY <2>1, <1>3
<1>6. CASE AbandonInstance
  <2>1. runtime_call'[u] = runtime_call[u] /\ pc'[u] = "idle"
    BY <1>6, ContextsOK DEF AbandonInstance, Inv, LoadAlone, Shapes
  <2>2. runtime_call'[u] = NoCall
    BY <2>1 DEF Inv, ArenaInv, ThreadInv, Outside
  <2>3. QED
    BY <2>2, <1>3
<1>7. CASE BeginInitialize
  <2>1. pc[u] \in {"idle", "start"}
    BY <1>7, ContextsOK DEF BeginInitialize, Inv, LoadAlone
  <2>2. runtime_call'[u] = NoCall
    BY <1>7, <2>1 DEF BeginInitialize, Inv, ArenaInv, ThreadInv, Outside
  <2>3. QED
    BY <2>2, <1>3
<1>8. ASSUME NEW t \in Threads, NEW r \in Roots, NEW i \in Instances,
             EnterSystem(t, r, i)
      PROVE  Stays(u)'
  <2>1. CASE u = t
    <3>1. runtime_call'[u] = NoCall
      BY <1>8, <2>1 DEF EnterSystem, Inv, ArenaInv, ThreadInv, Outside
    <3>2. QED
      BY <3>1, <1>3
  <2>2. CASE u # t
    BY <1>8, <2>2, <1>2 DEF EnterSystem, OpenCallMem, InCall, Inv, Shapes
  <2>3. QED
    BY <2>1, <2>2
<1>9. ASSUME NEW t \in Threads, EndCall(t)
      PROVE  Stays(u)'
  <2>1. CASE u = t
    BY <1>9, <2>1, <1>3 DEF EndCall, Inv, Shapes
  <2>2. CASE u # t
    BY <1>9, <2>2, <1>2 DEF EndCall, InCall, Inv, Shapes
  <2>3. QED
    BY <2>1, <2>2
<1>10. ASSUME NEW t \in Threads, Frames(t)
       PROVE  Stays(u)'
  <2>1. inst' = inst /\ root' = root
    BY <1>10, FramesLeave
  <2>2. InCall(u)' => InCall(u)
    BY <1>10, FramesLeave DEF Inv, Shapes, InCall, Faults
  <2>3. CASE MissCallMem(t)
    BY <2>1, <2>2, <2>3, <1>2 DEF MissCallMem
  <2>4. CASE ~MissCallMem(t)
    <3>1. PICK call : runtime_call' = [runtime_call EXCEPT ![t] = call] /\ Sound(t, call)
      BY <1>10, <2>4, FramesSound
    <3>2. CASE u = t
      <4>1. runtime_call'[u] = call
        BY <3>1, <3>2 DEF Inv, Shapes
      <4>2. QED
        BY <2>1, <3>1, <3>2, <4>1, <1>4
    <3>3. CASE u # t
      BY <2>1, <2>2, <3>1, <3>3, <1>2 DEF Inv, Shapes
    <3>4. QED
      BY <3>2, <3>3
  <2>5. QED
    BY <2>3, <2>4
<1>11. ASSUME NEW t \in Threads, NEW op \in Navigations, NEW h \in known[inst[t]],
              NEW c \in Contexts \cup {Null}, Navigate(t, op, h, c)
       PROVE  Stays(u)'
  <2>1. inst' = inst /\ root' = root /\ pc' = pc
    BY <1>11 DEF Navigate
  <2>2. PICK call : runtime_call' = [runtime_call EXCEPT ![t] = call] /\ Sound(t, call)
    BY <1>11, NavigateSound
  <2>3. CASE u = t
    <3>1. runtime_call'[u] = call
      BY <2>2, <2>3 DEF Inv, Shapes
    <3>2. QED
      BY <2>1, <2>2, <2>3, <3>1, <1>4
  <2>4. CASE u # t
    BY <2>1, <2>2, <2>4, <1>2 DEF Inv, Shapes, InCall
  <2>5. QED
    BY <2>3, <2>4
<1>12. CASE UNCHANGED vars
  BY <1>12, <1>2 DEF vars, InCall
<1>13. QED
  BY <1>5, <1>6, <1>7, <1>8, <1>9, <1>10, <1>11, <1>12, NextCases

\* Whatever handles a guest uses, and with assertions or without, the runtime is
\* called on contexts of the execution under way and with the right memory.
THEOREM CallsStayInExecution == Spec => []RuntimeCallsStayInExecution
<1>1. Init => RuntimeCallsStayInExecution
  BY DEF Init, RuntimeCallsStayInExecution
<1>2. Inv /\ Inv' /\ RuntimeCallsStayInExecution /\ [Next]_vars
        => RuntimeCallsStayInExecution'
  BY CallsNext
<1>3. QED
  BY Invariance, <1>1, <1>2, PTL DEF Spec

LEMMA HandlesNext ==
  ASSUME Inv, GivenHandlesWork, [Next]_vars
  PROVE  GivenHandlesWork'
<1> SUFFICES ASSUME NEW u \in Threads, pc'[u] \in {"bad_handle", "null_context"}
             PROVE  \E h \in runtime_call'[u].handles :
                      h \notin DOMAIN given'[u] \/ given'[u][h] = Null
  BY DEF GivenHandlesWork
<1>1. CASE UNCHANGED vars
  BY <1>1 DEF GivenHandlesWork, vars
<1>2. ASSUME NEW t \in Threads, Frames(t)
      PROVE  \E h \in runtime_call'[u].handles :
               h \notin DOMAIN given'[u] \/ given'[u][h] = Null
  <2>1. pc[u] \notin {"bad_handle", "null_context"}
    BY <1>2, FramesLeave DEF Halted, Faults
  <2>2. \A v \in Threads : v # t => pc'[v] = pc[v]
    BY <1>2, FramesLeave DEF Inv, Shapes
  <2>3. u = t
    BY <2>1, <2>2
  <2>4. ~MissCallMem(t)
    BY <2>3 DEF MissCallMem, Inv, Shapes
  <2>5. PICK call : runtime_call' = [runtime_call EXCEPT ![t] = call]
                      /\ FailsSoundly(t, call)
    BY <1>2, <2>4, FramesSound
  <2>6. given' = given
    BY <1>2, FramesLeave
  <2>7. runtime_call'[u] = call
    BY <2>3, <2>5 DEF Inv, Shapes
  <2>8. QED
    BY <2>3, <2>5, <2>6, <2>7 DEF FailsSoundly
<1>3. ASSUME \A v \in Threads : pc[v] \notin Faults
      PROVE  \/ \E t \in Threads : Frames(t)
             \/ UNCHANGED vars
  <2>1. pc'[u] # pc[u] /\ pc'[u] \notin {"idle", "start", "initialize", "guest"}
    BY <1>3 DEF Faults
  <2>2. ~ \E i \in Instances : BeginInstance(i)
    BY <2>1 DEF BeginInstance, Inv, Shapes
  <2>3. ~ AbandonInstance
    BY <2>1 DEF AbandonInstance, Inv, Shapes
  <2>4. ~ BeginInitialize
    BY <2>1 DEF BeginInitialize, OpenCallMem, Inv, Shapes
  <2>5. ~ \E t \in Threads, r \in Roots, i \in Instances : EnterSystem(t, r, i)
    BY <2>1 DEF EnterSystem, OpenCallMem, Inv, Shapes
  <2>6. ~ \E t \in Threads : EndCall(t)
    BY <2>1 DEF EndCall, Inv, Shapes
  <2>7. ~ \E t \in Threads : \E op \in Navigations, h \in known[inst[t]],
               c \in Contexts \cup {Null} : Navigate(t, op, h, c)
    BY <2>1 DEF Navigate
  <2>8. QED
    BY <2>2, <2>3, <2>4, <2>5, <2>6, <2>7, NextCases
<1>4. ASSUME NEW v \in Threads, pc[v] \in Faults
      PROVE  UNCHANGED vars
  <2>1. Halted /\ pc[v] # "idle"
    BY <1>4 DEF Halted, Faults
  <2>2. QED
    BY <2>1 DEF Next, BeginInstance, AllIdle, AbandonInstance, BeginInitialize,
                EnterSystem, EndCall, InGuest, CallWasi, MissCallMem, StayHalted
<1>5. QED
  BY <1>1, <1>2, <1>3, <1>4

\* The process fails on a handle only if the guest kept it from another call or
\* had it from the parent of a root.
THEOREM HandlesWork == Spec => []GivenHandlesWork
<1>1. Init => GivenHandlesWork
  BY DEF Init, GivenHandlesWork
<1>2. Inv /\ GivenHandlesWork /\ [Next]_vars => GivenHandlesWork'
  BY HandlesNext
<1>3. QED
  BY Invariance, <1>1, <1>2, PTL DEF Spec

-------------------------------------------------------------------------------
(* Types *)

ArenaTyped(t) ==
  /\ \/ call_mem_info[t] = NoCall
     \/ call_mem_info[t] \in Seq(Cells) /\ Len(call_mem_info[t]) <= Capacity
  /\ \A h \in DOMAIN given[t] : h \in 0..Capacity /\ given[t][h] \in Contexts \cup {Null}

RunningTyped == \A t \in Threads : pc[t] \notin Faults => ArenaTyped(t)

LEMMA RunningIsTyped == Inv => RunningTyped
<1> SUFFICES ASSUME Inv, NEW t \in Threads, pc[t] \notin Faults
             PROVE  ArenaTyped(t)
  BY DEF RunningTyped
<1>1. ThreadInv(t)
  BY DEF Inv, ArenaInv
<1>2. CASE pc[t] \in {"idle", "start"}
  BY <1>1, <1>2 DEF ThreadInv, Outside, ArenaTyped
<1>3. CASE pc[t] = "initialize"
  <2>1. Initializing(t)
    BY <1>1, <1>3 DEF ThreadInv
  <2>2. MemoryCell(inst[t]) \in Cells
    BY <2>1 DEF Initializing, MemoryCell, Cells
  <2>3. <<MemoryCell(inst[t])>> \in Seq(Cells) /\ Len(<<MemoryCell(inst[t])>>) <= Capacity
    BY <2>2, ContextsOK
  <2>4. DOMAIN given[t] = {}
    BY <2>1 DEF Initializing
  <2>5. QED
    BY <2>1, <2>3, <2>4 DEF Initializing, ArenaTyped
<1>4. CASE pc[t] = "guest"
  <2>1. InSystem(t)
    BY <1>1, <1>4 DEF ThreadInv
  <2>2. Len(call_mem_info[t]) \in Nat /\ Len(call_mem_info[t]) <= Capacity
    <3>1. Len(call_mem_info[t]) \in Nat
      BY <2>1, ArenaLength
    <3>2. Len(call_mem_info[t]) \in 2..Capacity
      BY <2>1 DEF InSystem
    <3>3. QED
      BY <3>1, <3>2
  <2>3. \A h \in DOMAIN given[t] : h \in 0..(Len(call_mem_info[t]) - 1)
    BY <2>1 DEF InSystem
  <2>4. \A h \in DOMAIN given[t] : h \in 0..Capacity
    BY <2>2, <2>3, ContextsOK
  <2>5. root[t] \in Roots
    BY <2>1 DEF InSystem
  <2>6. Live[root[t]] \subseteq Contexts
    BY <2>5, ContextsOK
  <2>7. \A h \in DOMAIN given[t] : given[t][h] \in Live[root[t]] \cup {Null}
    BY <2>1 DEF InSystem
  <2>8. call_mem_info[t] \in Seq(Cells)
    BY <2>1 DEF InSystem
  <2>9. QED
    BY <2>2, <2>4, <2>6, <2>7, <2>8 DEF ArenaTyped
<1>5. QED
  BY <1>2, <1>3, <1>4 DEF Inv, Shapes

\* What a failure leaves.
LEMMA FaultLeaves ==
  ASSUME Inv, [Next]_vars, NEW t \in Threads, pc'[t] \in Faults
  PROVE  call_mem_info'[t] = call_mem_info[t] /\ given'[t] = given[t]
<1>1. CASE \E i \in Instances : BeginInstance(i)
  BY <1>1 DEF BeginInstance
<1>2. CASE AbandonInstance
  BY <1>2 DEF AbandonInstance
<1>3. CASE BeginInitialize
  <2>1. pc[t] \in {"idle", "start"} /\ ThreadInv(t)
    BY <1>3, ContextsOK DEF BeginInitialize, Inv, LoadAlone, ArenaInv
  <2>2. Loader \in Threads /\ Outside(Loader)
    BY <1>3, ContextsOK DEF BeginInitialize, Inv, ArenaInv, ThreadInv
  <2>3. pc'[t] \notin Faults
    BY <1>3, <2>1, <2>2
    DEF BeginInitialize, OpenCallMem, Outside, Arena, Inv, Shapes, Faults
  <2>4. QED
    BY <2>3
<1>4. ASSUME NEW u \in Threads, NEW r \in Roots, NEW i \in Instances,
             EnterSystem(u, r, i)
      PROVE  call_mem_info'[t] = call_mem_info[t] /\ given'[t] = given[t]
  <2>1. Outside(u)
    BY <1>4 DEF EnterSystem, Inv, ArenaInv, ThreadInv
  <2>2. u # t
    BY <1>4, <2>1 DEF EnterSystem, OpenCallMem, Outside, Arena, Inv, Shapes, Faults
  <2>3. QED
    BY <1>4, <2>2 DEF EnterSystem, OpenCallMem, Inv, Shapes
<1>5. ASSUME NEW u \in Threads, EndCall(u)
      PROVE  call_mem_info'[t] = call_mem_info[t] /\ given'[t] = given[t]
  <2>1. u # t
    BY <1>5 DEF EndCall, Inv, Shapes, Faults
  <2>2. QED
    BY <1>5, <2>1 DEF EndCall, Inv, Shapes
<1>6. ASSUME NEW u \in Threads, Frames(u)
      PROVE  call_mem_info'[t] = call_mem_info[t] /\ given'[t] = given[t]
  BY <1>6, FramesLeave
<1>7. ASSUME NEW u \in Threads, NEW op \in Navigations, NEW h \in known[inst[u]],
             NEW c \in Contexts \cup {Null}, Navigate(u, op, h, c)
      PROVE  call_mem_info'[t] = call_mem_info[t] /\ given'[t] = given[t]
  <2>1. pc'[t] = pc[t] /\ ~Halted
    BY <1>7 DEF Navigate, Uses, InGuest
  <2>2. QED
    BY <2>1 DEF Halted
<1>8. CASE UNCHANGED vars
  BY <1>8 DEF vars
<1>9. QED
  BY <1>1, <1>2, <1>3, <1>4, <1>5, <1>6, <1>7, <1>8, NextCases

LEMMA CallsTyped ==
  ASSUME Inv, [Next]_vars, NEW t \in Threads,
         runtime_call[t] \in CallRecords \cup {NoCall}
  PROVE  runtime_call'[t] \in CallRecords \cup {NoCall}
<1>1. CASE \/ \E i \in Instances : BeginInstance(i)
           \/ AbandonInstance
           \/ BeginInitialize
           \/ \E u \in Threads, r \in Roots, i \in Instances : EnterSystem(u, r, i)
           \/ UNCHANGED vars
  <2>1. runtime_call' = runtime_call
    BY <1>1 DEF BeginInstance, AbandonInstance, BeginInitialize, EnterSystem, vars
  <2>2. QED
    BY <2>1
<1>2. ASSUME NEW u \in Threads, EndCall(u)
      PROVE  runtime_call'[t] \in CallRecords \cup {NoCall}
  BY <1>2 DEF EndCall, Inv, Shapes
<1>3. ASSUME NEW u \in Threads, Frames(u)
      PROVE  runtime_call'[t] \in CallRecords \cup {NoCall}
  <2>1. CASE MissCallMem(u)
    BY <2>1 DEF MissCallMem
  <2>2. CASE ~MissCallMem(u)
    <3>1. PICK call : runtime_call' = [runtime_call EXCEPT ![u] = call]
                      /\ call \in CallRecords
      BY <1>3, <2>2, FramesSound
    <3>2. QED
      BY <3>1 DEF Inv, Shapes
  <2>3. QED
    BY <2>1, <2>2
<1>4. ASSUME NEW u \in Threads, NEW op \in Navigations, NEW h \in known[inst[u]],
             NEW c \in Contexts \cup {Null}, Navigate(u, op, h, c)
      PROVE  runtime_call'[t] \in CallRecords \cup {NoCall}
  <2>1. PICK call : runtime_call' = [runtime_call EXCEPT ![u] = call]
                    /\ call \in CallRecords
    BY <1>4, NavigateSound
  <2>2. QED
    BY <2>1 DEF Inv, Shapes
<1>5. QED
  BY <1>1, <1>2, <1>3, <1>4, NextCases

LEMMA TypesFollow ==
  ASSUME Inv, \A t \in Threads : ArenaTyped(t),
         \A t \in Threads : runtime_call[t] \in CallRecords \cup {NoCall}
  PROVE  TypeOK
<1>1. known \in [Instances -> SUBSET (0..Capacity)]
  BY DEF Inv, Shapes, KnownAreOdd
<1>2. runtime_call \in [Threads -> CallRecords \cup {NoCall}]
  BY DEF Inv, Shapes
<1>3. DOMAIN given = Threads /\ DOMAIN call_mem_info = Threads
  BY DEF Inv, Shapes
<1>4. QED
  BY <1>1, <1>2, <1>3 DEF TypeOK, ArenaTyped, Inv, Shapes

Typed ==
  \A t \in Threads : ArenaTyped(t) /\ runtime_call[t] \in CallRecords \cup {NoCall}

\* Every variable has its type, whatever happens; what has been allocated fits
\* mem_data.
THEOREM TypeCorrect == Spec => []TypeOK
<1>1. Init => Typed
  BY DEF Init, Typed, ArenaTyped
<1>2. Inv /\ RunningTyped' /\ Typed /\ [Next]_vars => Typed'
  <2> SUFFICES ASSUME Inv, RunningTyped', Typed, [Next]_vars, NEW t \in Threads
               PROVE  ArenaTyped(t)' /\ runtime_call'[t] \in CallRecords \cup {NoCall}
    BY DEF Typed
  <2>1. runtime_call'[t] \in CallRecords \cup {NoCall}
    BY CallsTyped DEF Typed
  <2>2. CASE pc'[t] \in Faults
    <3>1. call_mem_info'[t] = call_mem_info[t] /\ given'[t] = given[t]
      BY <2>2, FaultLeaves
    <3>2. ArenaTyped(t)
      BY DEF Typed
    <3>3. QED
      BY <2>1, <3>1, <3>2 DEF ArenaTyped
  <2>3. CASE pc'[t] \notin Faults
    <3>1. Faults' = Faults
      BY DEF Faults
    <3>2. QED
      BY <2>1, <2>3, <3>1 DEF RunningTyped
  <2>4. QED
    BY <2>1, <2>2, <2>3
<1>3. Inv /\ Typed => TypeOK
  BY TypesFollow DEF Typed
<1>4. QED
  BY Invariance, RunningIsTyped, <1>1, <1>2, <1>3, PTL DEF Spec

-------------------------------------------------------------------------------
(* The end of the call memory *)

\* Half of a number, with what is left.
LEMMA Halves ==
  ASSUME NEW h \in Nat
  PROVE  \E k \in Nat : (h = 2 * k /\ h % 2 = 0) \/ (h = 2 * k + 1 /\ h % 2 = 1)
<1>1. 2 * (h \div 2) <= h
  OBVIOUS
<1>2. h <= 2 * (h \div 2) + 1
  OBVIOUS
<1>3. h \div 2 \in Nat
  OBVIOUS
<1>4. PICK k \in Nat : 2 * k <= h /\ h <= 2 * k + 1
  BY <1>1, <1>2, <1>3
<1>5. h = 2 * k \/ h = 2 * k + 1
  BY <1>4
<1>6. h = 2 * k => h % 2 = 0
  OBVIOUS
<1>7. h = 2 * k + 1 => h % 2 = 1
  OBVIOUS
<1>8. QED
  BY <1>5, <1>6, <1>7, Zenon

\* There are n odd numbers below 2n.
LEMMA CountOdd ==
  ASSUME NEW n \in Nat
  PROVE  Cardinality({h \in 0..(2 * n - 1) : h % 2 = 1}) = n
<1> DEFINE Odd == {h \in 0..(2 * n - 1) : h % 2 = 1}
           f == [k \in 1..n |-> 2 * k - 1]
<1>1. \A k \in 1..n : f[k] \in Odd
  OBVIOUS
<1>2. \A j, k \in 1..n : f[j] = f[k] => j = k
  OBVIOUS
<1>3. ASSUME NEW h \in Odd
      PROVE  \E k \in 1..n : f[k] = h
  <2>1. h \in Nat /\ h % 2 = 1 /\ h <= 2 * n - 1
    OBVIOUS
  <2>2. PICK k \in Nat : h = 2 * k + 1
    BY <2>1, Halves
  <2>3. k + 1 \in 1..n /\ f[k + 1] = h
    BY <2>1, <2>2
  <2>4. QED
    BY <2>3
<1>4. f \in Bijection(1..n, Odd)
  <2>1. f \in [1..n -> Odd]
    BY <1>1
  <2> HIDE DEF f, Odd
  <2>2. QED
    BY <1>2, <1>3, <2>1 DEF Bijection, Injection, Surjection, IsInjective
<1>5. IsFiniteSet(1..n) /\ Cardinality(1..n) = n
  BY FS_Interval
<1> HIDE DEF f, Odd
<1>6. Cardinality(Odd) = Cardinality(1..n)
  BY <1>4, <1>5, FS_Bijection DEF ExistsBijection
<1>7. QED
  BY <1>5, <1>6 DEF Odd

\* In a system there are as many contexts in the call memory as memories.
LEMMA GivenCount ==
  ASSUME NEW t \in Threads, InSystem(t)
  PROVE  2 * Cardinality(DOMAIN given[t]) = Len(call_mem_info[t])
<1>1. Len(call_mem_info[t]) \in Nat /\ Len(call_mem_info[t]) % 2 = 0
  BY ArenaLength
<1>2. PICK n \in Nat : Len(call_mem_info[t]) = 2 * n
  <2> DEFINE len == Len(call_mem_info[t])
  <2>1. len \in Nat /\ len % 2 = 0
    BY <1>1
  <2> HIDE DEF len
  <2>2. \E k \in Nat : len = 2 * k
    BY <2>1, Halves
  <2>3. QED
    BY <2>2 DEF len
<1>3. DOMAIN given[t] = {h \in 0..(2 * n - 1) : h % 2 = 1}
  BY <1>2 DEF InSystem
<1>4. Cardinality(DOMAIN given[t]) = n
  BY <1>3, CountOdd
<1>5. QED
  BY <1>2, <1>4

LEMMA OverrunNext ==
  ASSUME Inv, OverrunNeedsFullCallMem, [Next]_vars
  PROVE  OverrunNeedsFullCallMem'
<1> SUFFICES ASSUME NEW u \in Threads, pc'[u] = "overrun"
             PROVE  2 * Cardinality(DOMAIN given'[u]) + 2 > Capacity
  BY DEF OverrunNeedsFullCallMem
<1>1. given'[u] = given[u]
  BY FaultLeaves DEF Faults
<1>2. CASE pc[u] = "overrun"
  BY <1>1, <1>2 DEF OverrunNeedsFullCallMem
<1>3. CASE pc[u] # "overrun"
  <2>1. \E op \in Navigations, h \in known[inst[u]] : Overrun(u, op, h)
    <3>1. ~ \E i \in Instances : BeginInstance(i)
      BY <1>3 DEF BeginInstance, Inv, Shapes
    <3>2. ~ AbandonInstance /\ ~ BeginInitialize
      BY <1>3 DEF AbandonInstance, BeginInitialize, OpenCallMem, Inv, Shapes
    <3>3. ~ \E t \in Threads, r \in Roots, i \in Instances : EnterSystem(t, r, i)
      BY <1>3 DEF EnterSystem, OpenCallMem, Inv, Shapes
    <3>4. ~ \E t \in Threads : EndCall(t)
      BY <1>3 DEF EndCall, Inv, Shapes
    <3>5. ~ \E t \in Threads : \E op \in Navigations, h \in known[inst[t]],
                 c \in Contexts \cup {Null} : Navigate(t, op, h, c)
      BY <1>3 DEF Navigate
    <3>6. PICK t \in Threads : Frames(t)
      BY <1>3, <3>1, <3>2, <3>3, <3>4, <3>5, NextCases DEF vars
    <3>7. u = t
      BY <1>3, <3>6, FramesLeave DEF Inv, Shapes
    <3>8. QED
      BY <1>3, <3>6, <3>7
      DEF Frames, CallRuntime, OverrunResults, CallGenerate, FailGenerate, CallSame,
          RefuseHandle, PassNull, CallWasi, MissCallMem, Inv, Shapes
  <2>2. PICK op \in Navigations, h \in known[inst[u]] : Overrun(u, op, h)
    BY <2>1
  <2>3. InSystem(u) /\ ~Fits(u, 2)
    BY <2>2, UsesInSystem DEF Overrun
  <2>4. Capacity \in Nat /\ Len(call_mem_info[u]) \in Nat
    BY <2>3, ContextsOK DEF InSystem
  <2>5. QED
    BY <1>1, <2>3, <2>4, GivenCount DEF Fits, Arena
<1>4. QED
  BY <1>2, <1>3

\* Call memory runs out only when the guest was given a context for every two
\* pointers of it, whatever else it did.
THEOREM OverrunIsFull == Spec => []OverrunNeedsFullCallMem
<1>1. Init => OverrunNeedsFullCallMem
  BY DEF Init, OverrunNeedsFullCallMem
<1>2. Inv /\ OverrunNeedsFullCallMem /\ [Next]_vars => OverrunNeedsFullCallMem'
  BY OverrunNext
<1>3. QED
  BY Invariance, <1>1, <1>2, PTL DEF Spec

-------------------------------------------------------------------------------
(* The call memory implements a table of handles *)

\* What the mapping makes of a step that leaves it alone.
LEMMA Stutter ==
  ASSUME \A t \in Threads : CallInstance(t)' = CallInstance(t),
         \A t \in Threads : CallTarget(t)' = CallTarget(t),
         given' = given
  PROVE  UNCHANGED Table!tableVars
BY DEF Table!tableVars

LEMMA TableInit == Init => Table!Init
BY ContextsOK DEF Init, Table!Init, CallInstance, CallTarget

LEMMA TableBegin ==
  ASSUME NEW t \in Threads, NEW i \in Instances, NEW contexts, runtime_call[t] = NoCall,
         pc[t] \in {"idle", "start"}, pc'[t] \in {"initialize", "guest"},
         \A u \in Threads : u # t => pc'[u] = pc[u] /\ inst'[u] = inst[u],
         inst'[t] = i, runtime_call' = runtime_call,
         given' = [given EXCEPT ![t] = contexts]
  PROVE  Table!Begin(t, i, contexts)
<1>1. \A u \in Threads : u # t =>
        CallInstance(u)' = CallInstance(u) /\ CallTarget(u)' = CallTarget(u)
  BY DEF CallInstance, CallTarget
<1>2. CallInstance(t) = NoCall /\ CallInstance(t)' = i
  BY DEF CallInstance
<1>3. CallTarget(t) = NoCall /\ CallTarget(t)' = NoCall
  BY <1>2 DEF CallTarget
<1>4. [u \in Threads |-> CallInstance(u)]'
        = [[u \in Threads |-> CallInstance(u)] EXCEPT ![t] = i]
  BY <1>1, <1>2
<1>5. UNCHANGED [u \in Threads |-> CallTarget(u)]
  BY <1>1, <1>3
<1>6. QED
  BY <1>2, <1>4, <1>5 DEF Table!Begin

\* A call into the guest runs in an instance.
LEMMA InstanceOfCall ==
  ASSUME Inv, NEW t \in Threads, pc[t] \in {"initialize", "guest"}
  PROVE  inst[t] \in Instances /\ inst[t] # NoCall /\ CallInstance(t) = inst[t]
<1>1. ThreadInv(t)
  BY DEF Inv, ArenaInv
<1>2. inst[t] \in Instances
  BY <1>1 DEF ThreadInv, Initializing, InSystem
<1>3. QED
  BY <1>2, ContextsOK DEF CallInstance

LEMMA TableEnd ==
  ASSUME Inv, NEW t \in Threads, EndCall(t)
  PROVE  Table!End(t)
<1>1. \A u \in Threads : u # t =>
        CallInstance(u)' = CallInstance(u) /\ CallTarget(u)' = CallTarget(u)
  BY DEF EndCall, CallInstance, CallTarget, Inv, Shapes
<1>2. CallInstance(t) # NoCall
  BY InstanceOfCall DEF EndCall, InCall
<1>3. CallInstance(t)' = NoCall /\ CallTarget(t)' = NoCall
  BY DEF EndCall, CallInstance, CallTarget, Inv, Shapes
<1>4. [u \in Threads |-> CallInstance(u)]'
        = [[u \in Threads |-> CallInstance(u)] EXCEPT ![t] = NoCall]
  BY <1>1, <1>3
<1>5. [u \in Threads |-> CallTarget(u)]'
        = [[u \in Threads |-> CallTarget(u)] EXCEPT ![t] = NoCall]
  BY <1>1, <1>3
<1>6. QED
  BY <1>2, <1>4, <1>5 DEF Table!End, EndCall

\* A step of an import, whether it grants a handle or not.
LEMMA TableCall ==
  ASSUME Inv, NEW t \in Threads, pc[t] \in {"initialize", "guest"},
         \A u \in Threads : u # t => pc'[u] = pc[u],
         pc'[t] \in {"initialize", "guest"} \cup (Faults \ {"no_call_mem", "mem_in_use"}),
         inst' = inst, NEW call, runtime_call' = [runtime_call EXCEPT ![t] = call],
         NEW handles \in SUBSET DOMAIN given[t],
         call.contexts = {given[t][h] : h \in handles},
         call.memory \in {inst[t], Null}, call \in CallRecords
  PROVE  Table!Call(t, handles, call.memory)
<1>1. \A u \in Threads : u # t =>
        CallInstance(u)' = CallInstance(u) /\ CallTarget(u)' = CallTarget(u)
  BY DEF CallInstance, CallTarget, Inv, Shapes
<1>2. CallInstance(t) = inst[t] /\ CallInstance(t)' = inst[t] /\ inst[t] # NoCall
  BY InstanceOfCall DEF CallInstance, Faults
<1>3. CallTarget(t)' = [contexts |-> call.contexts, memory |-> call.memory]
  BY <1>2, ContextsOK DEF CallTarget, Inv, Shapes
<1>4. UNCHANGED [u \in Threads |-> CallInstance(u)]
  BY <1>1, <1>2
<1>5. [u \in Threads |-> CallTarget(u)]'
        = [[u \in Threads |-> CallTarget(u)] EXCEPT
             ![t] = [contexts |-> {given[t][h] : h \in handles}, memory |-> call.memory]]
  BY <1>1, <1>3
<1>6. QED
  BY <1>2, <1>4, <1>5 DEF Table!Call

LEMMA TableFrames ==
  ASSUME Inv, NEW t \in Threads, Frames(t)
  PROVE  Table!Next \/ UNCHANGED Table!tableVars
<1>1. /\ UNCHANGED <<call_mem_info, inst, root, known, given>>
      /\ pc[t] \in {"start", "initialize", "guest"}
      /\ \A u \in Threads : u # t => pc'[u] = pc[u]
      /\ pc'[t] = pc[t] \/ pc'[t] \in Faults \ {"mem_in_use"}
  BY FramesLeave DEF Inv, Shapes
<1>2. CASE MissCallMem(t)
  <2>1. pc[t] = "start" /\ pc'[t] = "no_call_mem"
    <3>1. ThreadInv(t)
      BY DEF Inv, ArenaInv
    <3>2. call_mem_info[t] = NoCall
      BY <1>2 DEF MissCallMem, Arena
    <3>3. pc[t] = "start"
      BY <1>1, <3>1, <3>2, NoCallIsNoMemory DEF ThreadInv
    <3>4. QED
      BY <1>2, <3>3 DEF MissCallMem, Inv, Shapes
  <2>2. \A u \in Threads : CallInstance(u)' = CallInstance(u)
    BY <1>1, <2>1 DEF CallInstance
  <2>3. \A u \in Threads : CallTarget(u)' = CallTarget(u)
    BY <1>2, <2>2 DEF CallTarget, MissCallMem
  <2>4. QED
    BY <1>1, <2>2, <2>3, Stutter
<1>3. CASE ~MissCallMem(t)
  <2>1. PICK call : /\ runtime_call' = [runtime_call EXCEPT ![t] = call]
                    /\ call \in CallRecords
                    /\ Sound(t, call)
    BY <1>3, FramesSound
  <2>2. PICK handles \in SUBSET DOMAIN given[t] :
          call.contexts = {given[t][h] : h \in handles}
    BY <2>1 DEF Sound
  <2>3. call.memory \in {inst[t], Null}
    BY <2>1 DEF Sound
  <2>4. pc[t] \in {"initialize", "guest"} /\ pc'[t] # "no_call_mem"
    <3>1. pc[t] # "start"
      BY <1>3 DEF Frames, CallRuntime, OverrunResults, CallGenerate, FailGenerate,
                  CallSame, Overrun, RefuseHandle, PassNull, CallWasi, Uses,
                  Inv, ArenaInv, ThreadInv, Outside, Arena
    <3>2. pc' = pc \/ \E f \in Faults \ {"no_call_mem"} : pc' = [pc EXCEPT ![t] = f]
      BY <1>3 DEF Frames, CallRuntime, OverrunResults, CallGenerate, FailGenerate,
                  CallSame, Overrun, RefuseHandle, PassNull, CallWasi, Faults
    <3>3. QED
      BY <1>1, <3>1, <3>2 DEF Inv, Shapes, Faults
  <2>5. Table!Call(t, handles, call.memory)
    BY <1>1, <2>1, <2>2, <2>3, <2>4, TableCall
  <2>6. call.memory \in Instances \cup {Null}
    BY <2>3, <2>4, InstanceOfCall
  <2>7. Table!Use(t, handles, call.memory)
    BY <1>1, <2>5 DEF Table!Use
  <2>8. QED
    BY <2>2, <2>6, <2>7 DEF Table!Next
<1>4. QED
  BY <1>2, <1>3

LEMMA TableNavigate ==
  ASSUME Inv, NEW t \in Threads, NEW op \in Navigations, NEW h,
         NEW c \in Contexts \cup {Null}, Navigate(t, op, h, c)
  PROVE  Table!Next
<1> DEFINE granted == Len(call_mem_info[t]) + 1
<1>1. PICK call : /\ runtime_call' = [runtime_call EXCEPT ![t] = call]
                  /\ call \in CallRecords
                  /\ call.contexts = {given[t][h]} /\ call.memory = inst[t]
                  /\ h \in DOMAIN given[t]
  BY NavigateSound
<1>2. pc[t] = "guest" /\ InSystem(t) /\ Uses(t, h)
  BY UsesInSystem DEF Navigate
<1>3. inst' = inst /\ pc' = pc
  BY DEF Navigate
<1>4. {h} \in SUBSET DOMAIN given[t] /\ call.contexts = {given[t][g] : g \in {h}}
  BY <1>1
<1>5. Table!Call(t, {h}, inst[t])
  BY <1>1, <1>2, <1>3, <1>4, TableCall
<1>6. granted \notin DOMAIN given[t] /\ granted \in 0..Capacity
  <2>1. Len(call_mem_info[t]) \in Nat
    BY <1>2, ArenaLength
  <2>2. \A g \in DOMAIN given[t] : g \in 0..(Len(call_mem_info[t]) - 1)
    BY <1>2 DEF InSystem
  <2>3. Len(call_mem_info[t]) + 2 <= Capacity
    BY DEF Navigate, Fits, Arena
  <2>4. QED
    BY <2>1, <2>2, <2>3, ContextsOK
<1>7. given' = [given EXCEPT ![t] =
                  [g \in DOMAIN given[t] \cup {granted} |->
                     IF g = granted THEN c ELSE given[t][g]]]
  BY DEF Navigate, Arena
<1>8. inst[t] \in Instances
  BY <1>2, InstanceOfCall
<1> HIDE DEF granted
<1>9. Table!Grant(t, h, inst[t], granted, c)
  BY <1>5, <1>6, <1>7 DEF Table!Grant
<1>10. QED
  BY <1>1, <1>6, <1>8, <1>9 DEF Table!Next

LEMMA TableNext ==
  ASSUME Inv, Inv', [Next]_vars
  PROVE  [Table!Next]_(Table!tableVars)
<1>1. ASSUME NEW i \in Instances, BeginInstance(i)
      PROVE  UNCHANGED Table!tableVars
  <2>1. \A t \in Threads : pc[t] = "idle" /\ pc'[t] \in {"idle", "start"}
    BY <1>1 DEF BeginInstance, AllIdle, Inv, Shapes
  <2>2. \A t \in Threads : CallInstance(t)' = CallInstance(t)
                           /\ CallTarget(t)' = CallTarget(t)
    BY <2>1 DEF CallInstance, CallTarget
  <2>3. QED
    BY <1>1, <2>2, Stutter DEF BeginInstance
<1>2. CASE AbandonInstance
  <2>1. \A t \in Threads : pc[t] \in {"idle", "start"} /\ pc'[t] = "idle"
    BY <1>2, ContextsOK DEF AbandonInstance, Inv, LoadAlone, Shapes
  <2>2. \A t \in Threads : CallInstance(t)' = CallInstance(t)
                           /\ CallTarget(t)' = CallTarget(t)
    BY <2>1 DEF CallInstance, CallTarget
  <2>3. QED
    BY <1>2, <2>2, Stutter DEF AbandonInstance
<1>3. CASE BeginInitialize
  <2>1. Loader \in Threads /\ pc[Loader] = "start" /\ inst[Loader] \in Instances
        /\ Outside(Loader)
    BY <1>3, ContextsOK DEF BeginInitialize, Inv, LoadAlone, ArenaInv, ThreadInv
  <2>2. pc' = [pc EXCEPT ![Loader] = "initialize"]
    BY <1>3, <2>1 DEF BeginInitialize, OpenCallMem, Arena, Outside
  <2>3. given' = [given EXCEPT ![Loader] = <<>>]
    <3>1. given = [t \in Threads |-> given[t]] /\ given[Loader] = <<>>
      BY <2>1 DEF Outside, Inv, Shapes
    <3>2. given' = given
      BY <1>3 DEF BeginInitialize
    <3>3. QED
      BY <2>1, <3>1, <3>2
  <2>4. /\ pc'[Loader] = "initialize" /\ inst'[Loader] = inst[Loader]
        /\ \A u \in Threads : u # Loader => pc'[u] = pc[u] /\ inst'[u] = inst[u]
        /\ runtime_call' = runtime_call
    BY <1>3, <2>1, <2>2 DEF BeginInitialize, Inv, Shapes
  <2>5. Table!Begin(Loader, inst[Loader], <<>>)
    BY <2>1, <2>3, <2>4, TableBegin DEF Outside
  <2>6. QED
    BY <2>1, <2>5 DEF Table!Next
<1>4. ASSUME NEW t \in Threads, NEW r \in Roots, NEW i \in Instances,
             EnterSystem(t, r, i)
      PROVE  Table!Next
  <2>1. pc[t] = "idle" /\ Outside(t)
    BY <1>4 DEF EnterSystem, Inv, ArenaInv, ThreadInv
  <2>2. pc' = [pc EXCEPT ![t] = "guest"]
    BY <1>4, <2>1 DEF EnterSystem, OpenCallMem, Arena, Outside
  <2>3. given' = [given EXCEPT ![t] = [g \in {1} |-> r]]
    BY <1>4 DEF EnterSystem
  <2>4. /\ pc'[t] = "guest" /\ inst'[t] = i
        /\ \A u \in Threads : u # t => pc'[u] = pc[u] /\ inst'[u] = inst[u]
        /\ runtime_call' = runtime_call
    BY <1>4, <2>2 DEF EnterSystem, Inv, Shapes
  <2>5. Table!Begin(t, i, [g \in {1} |-> r])
    BY <2>1, <2>3, <2>4, TableBegin DEF Outside
  <2>6. 1 \in 0..Capacity /\ r \in Contexts
    BY ContextsOK DEF Roots
  <2>7. QED
    BY <2>5, <2>6 DEF Table!Next
<1>5. ASSUME NEW t \in Threads, EndCall(t)
      PROVE  Table!Next
  BY <1>5, TableEnd DEF Table!Next
<1>6. ASSUME NEW t \in Threads, Frames(t)
      PROVE  Table!Next \/ UNCHANGED Table!tableVars
  BY <1>6, TableFrames
<1>7. ASSUME NEW t \in Threads, NEW op \in Navigations, NEW h \in known[inst[t]],
             NEW c \in Contexts \cup {Null}, Navigate(t, op, h, c)
      PROVE  Table!Next
  BY <1>7, TableNavigate
<1>8. CASE UNCHANGED vars
  <2>1. \A t \in Threads : CallInstance(t)' = CallInstance(t)
                           /\ CallTarget(t)' = CallTarget(t)
    BY <1>8 DEF vars, CallInstance, CallTarget
  <2>2. QED
    BY <1>8, <2>1, Stutter DEF vars
<1>9. QED
  BY <1>1, <1>2, <1>3, <1>4, <1>5, <1>6, <1>7, <1>8, NextCases

\* Offsets into the call memory do what a table of handles would: each stands
\* for the context it was given for, as long as the call lasts.
THEOREM CallMemImplementsTable == Spec => ImplementsTable
<1>1. Inv /\ Inv' /\ [Next]_vars => [Table!Next]_(Table!tableVars)
  BY TableNext
<1>2. QED
  BY Invariance, TableInit, <1>1, PTL DEF Spec, ImplementsTable, Table!Spec
===============================================================================
