----------------------------- MODULE LoggerProofs -----------------------------
(***************************************************************************)
(* Proofs about Logger, and that it implements LogQueue: for any number of *)
(* threads, calls and iovecs, texts that leave the strings as short as an  *)
(* int can index, and callbacks nested as deep as the calls allow.         *)
(*                                                                         *)
(* First the calls and the mutex, then what a thread's consumers have yet  *)
(* to get, and what becomes of it in the steps of LogQueue.                *)
(***************************************************************************)
EXTENDS Logger, LogMessagesProofs, SequenceTheorems

LEMMA EmptySequence ==
  ASSUME NEW S, NEW s \in Seq(S)
  PROVE  s = <<>> <=> Len(s) = 0
OBVIOUS

\* The messages of the strings are entries of the log.
LEMMA EntriesTyped ==
  ASSUME NEW strings \in Strings
  PROVE  Entries(strings) \in Seq(Entry)
<1>1. ASSUME NEW l \in Levels
      PROVE  LevelEntries(strings, l) \in Seq(Entry)
  <2> DEFINE str == strings[l]
             c == Len(Messages(str))
             e(n) == [log_level |-> l, message |-> Text(str, Messages(str)[n])]
  <2>1. str \in Seq(Chars)
    BY DEF Strings
  <2>2. /\ c \in Nat /\ DOMAIN Messages(str) = 1..c
        /\ \A n \in 1..c : Text(str, Messages(str)[n]) \in Seq(Chars)
    <3> HIDE DEF str
    <3>1. QED
      BY <2>1, MessagesTyped
  <2>3. LevelEntries(strings, l) = [n \in 1..c |-> e(n)]
    BY <2>2 DEF LevelEntries
  <2>4. \A n \in 1..c : e(n) \in Entry
    BY <2>2 DEF Entry
  <2> HIDE DEF str, c, e
  <2>5. [n \in 1..c |-> e(n)] \in [1..c -> Entry]
    BY <2>4
  <2>6. QED
    BY <2>2, <2>3, <2>5
<1>2. LevelEntries(strings, "info") \in Seq(Entry) /\ LevelEntries(strings, "error") \in Seq(Entry)
  BY <1>1 DEF Levels
<1>3. QED
  BY <1>2, ConcatProperties DEF Entries

-------------------------------------------------------------------------------
(* The inductive invariant *)

\* Only the innermost call of a thread is not in a callback that called it.
Stacks ==
  \A t \in Threads : \A n \in DOMAIN stack[t] :
    n # Len(stack[t]) => stack[t][n].op = "consume" /\ stack[t][n].at = "nested"

\* How often a thread has locked the mutex: once in each of its calls.
Locks(t) ==
  IF ~Running(t) THEN 0
  ELSE IF Frame(t).at = "lock" THEN Len(stack[t]) - 1 ELSE Len(stack[t])

Mutex ==
  /\ \A t \in Threads : Locks(t) # 0 => owner = t
  /\ depth = IF owner = Nobody THEN 0 ELSE Locks(owner)
  /\ owner # Nobody => depth # 0

\* Between a read of a string and what is done with it, nobody changes it.
Copies ==
  \A t \in Threads :
    /\ At(t, "write", "store") => Frame(t).held = _stdio_strings[Frame(t).level]
    /\ At(t, "consume", "clear") => Frame(t).held = Entries(_stdio_strings)

\* A write that has an iovec to push.
Pushes ==
  \A t \in Threads :
    Running(t) /\ Frame(t).op = "write" /\ Frame(t).at # "unlock" => Frame(t).left # 0

Control == TypeOK /\ Stacks /\ Mutex /\ Copies /\ Pushes

consumers == [t \in Threads |-> Consumers(stack[t])]

\* What a consumer has got of its batch, and has yet to get, is all there is; no
\* other consumer gets anything of it.
OwnBatches ==
  /\ \A t \in Threads : \A n \in DOMAIN consumers[t] :
       LET c == consumers[t][n] IN
       /\ c.batch \in DOMAIN batches
       /\ batches[c.batch].given \o c.left = Entries(batches[c.batch].strings)
  /\ \A t, u \in Threads : \A m \in DOMAIN consumers[t], n \in DOMAIN consumers[u] :
       consumers[t][m].batch = consumers[u][n].batch => t = u /\ m = n

\* What nobody consumes any more has been given.
Accounted ==
  \A k \in DOMAIN batches :
    \/ Complete(batches[k])
    \/ \E t \in Threads : \E n \in DOMAIN consumers[t] : consumers[t][n].batch = k

\* What was taken before an outermost call took more has been given.
Ordered ==
  \A j, k \in DOMAIN batches : j < k /\ batches[k].outermost => Complete(batches[j])

Data == OwnBatches /\ Accounted /\ Ordered

Inv == Control /\ NothingLost /\ Data

-------------------------------------------------------------------------------
(* How the calls of a thread change *)

LEMMA FrameTyped ==
  ASSUME TypeOK, NEW t \in Threads, Running(t)
  PROVE  /\ stack[t] \in Seq(Frames) /\ Len(stack[t]) \in Nat \ {0}
         /\ DOMAIN stack[t] = 1..Len(stack[t])
         /\ Len(stack[t]) \in DOMAIN stack[t]
         /\ Frame(t) \in Frames
<1>1. stack[t] \in Seq(Frames) /\ stack[t] # <<>>
  BY DEF TypeOK, Running
<1>2. Len(stack[t]) \in Nat \ {0} /\ DOMAIN stack[t] = 1..Len(stack[t])
  BY <1>1
<1>3. Len(stack[t]) \in 1..Len(stack[t])
  BY <1>2
<1>4. QED
  BY <1>1, <1>2, <1>3 DEF Frame

\* The innermost call goes on.
LEMMA Continued ==
  ASSUME TypeOK, NEW t \in Threads, Running(t), NEW f \in Frames, Continue(t, f)
  PROVE  /\ stack' \in [Threads -> Seq(Frames)]
         /\ \A u \in Threads : u # t => stack'[u] = stack[u]
         /\ Len(stack'[t]) = Len(stack[t]) /\ DOMAIN stack'[t] = DOMAIN stack[t]
         /\ \A n \in DOMAIN stack[t] :
              stack'[t][n] = IF n = Len(stack[t]) THEN f ELSE stack[t][n]
         /\ stack'[t] # <<>> /\ stack'[t][Len(stack'[t])] = f
<1>1. /\ stack[t] \in Seq(Frames) /\ Len(stack[t]) \in Nat \ {0}
      /\ DOMAIN stack[t] = 1..Len(stack[t]) /\ Len(stack[t]) \in DOMAIN stack[t]
  BY FrameTyped
<1> DEFINE s == [stack[t] EXCEPT ![Len(stack[t])] = f]
<1>2. /\ s \in Seq(Frames) /\ Len(s) = Len(stack[t]) /\ DOMAIN s = DOMAIN stack[t]
      /\ \A n \in DOMAIN stack[t] : s[n] = IF n = Len(stack[t]) THEN f ELSE stack[t][n]
  BY <1>1
<1>3. stack' = [stack EXCEPT ![t] = s]
  BY DEF Continue
<1> HIDE DEF s
<1>4. stack'[t] = s /\ \A u \in Threads : u # t => stack'[u] = stack[u]
  BY <1>3 DEF TypeOK
<1>5. stack' \in [Threads -> Seq(Frames)]
  BY <1>2, <1>3 DEF TypeOK
<1>6. s # <<>> /\ s[Len(s)] = f
  BY <1>1, <1>2
<1>7. QED
  BY <1>2, <1>4, <1>5, <1>6

\* The innermost call returns, to the callback that made it if there is one.
LEMMA Returned ==
  ASSUME TypeOK, NEW t \in Threads, Running(t), Return(t)
  PROVE  /\ stack' \in [Threads -> Seq(Frames)]
         /\ \A u \in Threads : u # t => stack'[u] = stack[u]
         /\ Len(stack'[t]) = Len(stack[t]) - 1
         /\ DOMAIN stack'[t] = 1..(Len(stack[t]) - 1)
         /\ \A n \in 1..(Len(stack[t]) - 1) : stack'[t][n] = stack[t][n]
         /\ stack'[t] # <<>> <=> Len(stack[t]) # 1
<1>1. /\ stack[t] \in Seq(Frames) /\ Len(stack[t]) \in Nat \ {0}
      /\ DOMAIN stack[t] = 1..Len(stack[t]) /\ Len(stack[t]) \in DOMAIN stack[t]
  BY FrameTyped
<1> DEFINE s == SubSeq(stack[t], 1, Len(stack[t]) - 1)
<1>2. /\ s \in Seq(Frames) /\ Len(s) = Len(stack[t]) - 1
      /\ DOMAIN s = 1..(Len(stack[t]) - 1)
      /\ \A n \in 1..(Len(stack[t]) - 1) : s[n] = stack[t][n]
  BY <1>1
<1>3. stack' = [stack EXCEPT ![t] = s]
  BY DEF Return
<1> HIDE DEF s
<1>4. stack'[t] = s /\ \A u \in Threads : u # t => stack'[u] = stack[u]
  BY <1>3 DEF TypeOK
<1>5. stack' \in [Threads -> Seq(Frames)]
  BY <1>2, <1>3 DEF TypeOK
<1>6. s # <<>> <=> Len(stack[t]) # 1
  <2>1. s = <<>> <=> Len(s) = 0
    BY <1>2, EmptySequence
  <2>2. QED
    BY <1>1, <1>2, <2>1
<1>7. QED
  BY <1>2, <1>4, <1>5, <1>6

NewFrames ==
  [op: {"write"}, at: {"lock"}, level: Levels, left: 1..MaxIov, held: {<<>>}]
    \cup [op: {"consume"}, at: {"lock"}, held: {<<>>}, batch: {0}]

\* A thread makes a call, from a callback or not.
LEMMA Called ==
  ASSUME TypeOK, NEW t \in Threads, NEW f \in NewFrames, Call(t, f)
  PROVE  /\ stack' \in [Threads -> Seq(Frames)]
         /\ \A u \in Threads : u # t => stack'[u] = stack[u]
         /\ Len(stack[t]) \in Nat
         /\ Len(stack'[t]) = Len(stack[t]) + 1
         /\ DOMAIN stack[t] = 1..Len(stack[t])
         /\ DOMAIN stack'[t] = 1..(Len(stack[t]) + 1)
         /\ stack'[t][Len(stack[t]) + 1] = f
         /\ \A n \in 1..Len(stack[t]) :
              stack'[t][n] = IF n = Len(stack[t]) THEN [stack[t][n] EXCEPT !.at = "nested"]
                             ELSE stack[t][n]
         /\ Len(stack[t]) # 0 => Running(t) /\ Frame(t).op = "consume"
                                 /\ Frame(t).at = "callback"
<1>1. f \in Frames
  <2>1. <<>> \in Seq(Chars) /\ <<>> \in Seq(Entry) /\ 0 \in Nat
    OBVIOUS
  <2>2. 1..MaxIov \subseteq 0..MaxIov
    BY LoggerOK
  <2>3. QED
    BY <2>1, <2>2 DEF NewFrames, Frames
<1>2. stack[t] \in Seq(Frames) /\ stack \in [Threads -> Seq(Frames)]
  BY DEF TypeOK
<1> DEFINE s == IF stack[t] = <<>> THEN stack[t]
                ELSE [stack[t] EXCEPT ![Len(stack[t])].at = "nested"]
<1>3. stack' = [stack EXCEPT ![t] = Append(s, f)]
  BY DEF Call
<1>4. stack[t] # <<>> => Running(t) /\ Frame(t).op = "consume" /\ Frame(t).at = "callback"
  BY DEF Call, MayCall, Running, At
<1>5. /\ s \in Seq(Frames) /\ Len(s) = Len(stack[t]) /\ Len(s) \in Nat
      /\ DOMAIN s = 1..Len(s) /\ DOMAIN stack[t] = 1..Len(stack[t])
      /\ \A n \in 1..Len(stack[t]) :
              s[n] = IF n = Len(stack[t]) THEN [stack[t][n] EXCEPT !.at = "nested"]
                     ELSE stack[t][n]
  <2>1. CASE stack[t] = <<>>
    BY <1>2, <2>1
  <2>2. CASE stack[t] # <<>>
    <3>1. Frame(t) \in Frames /\ Frame(t).op = "consume"
      BY <1>4, <2>2, FrameTyped
    <3>2. [Frame(t) EXCEPT !.at = "nested"] \in Frames
      BY <3>1 DEF Frames
    <3>3. /\ Len(stack[t]) \in Nat \ {0} /\ Len(stack[t]) \in DOMAIN stack[t]
          /\ DOMAIN stack[t] = 1..Len(stack[t])
      BY <1>4, <2>2, FrameTyped
    <3>4. s = [stack[t] EXCEPT ![Len(stack[t])] = [Frame(t) EXCEPT !.at = "nested"]]
      BY <2>2 DEF Frame
    <3>5. QED
      BY <1>2, <3>2, <3>3, <3>4 DEF Frame
  <2>3. QED
    BY <2>1, <2>2
<1> HIDE DEF s
<1>6. /\ Append(s, f) \in Seq(Frames) /\ Len(Append(s, f)) = Len(s) + 1
      /\ DOMAIN Append(s, f) = 1..(Len(s) + 1)
      /\ Append(s, f)[Len(s) + 1] = f
      /\ \A n \in 1..Len(s) : Append(s, f)[n] = s[n]
  BY <1>1, <1>5
<1>7. stack'[t] = Append(s, f) /\ \A u \in Threads : u # t => stack'[u] = stack[u]
  BY <1>2, <1>3
<1>8. stack' \in [Threads -> Seq(Frames)]
  BY <1>2, <1>3, <1>6
<1>9. Len(stack[t]) # 0 => stack[t] # <<>>
  OBVIOUS
<1>10. QED
  BY <1>4, <1>5, <1>6, <1>7, <1>8, <1>9

LEMMA LocksNat ==
  ASSUME TypeOK, NEW t \in Threads
  PROVE  Locks(t) \in Nat
<1>1. CASE Running(t)
  <2>1. Len(stack[t]) \in Nat \ {0}
    BY <1>1, FrameTyped
  <2>2. QED
    BY <2>1 DEF Locks
<1>2. CASE ~Running(t)
  BY <1>2 DEF Locks
<1>3. QED
  BY <1>1, <1>2

\* Whoever is past the lock of a call owns the mutex.
LEMMA Owns ==
  ASSUME TypeOK, Mutex, NEW t \in Threads, Running(t), Frame(t).at # "lock"
  PROVE  owner = t /\ Locks(t) # 0
<1>1. Len(stack[t]) \in Nat \ {0}
  BY FrameTyped
<1>2. Locks(t) = Len(stack[t])
  BY DEF Locks
<1>3. QED
  BY <1>1, <1>2 DEF Mutex

\* What the step of one thread leaves alone of another.
LEMMA Other ==
  ASSUME NEW u \in Threads, stack'[u] = stack[u]
  PROVE  /\ Running(u)' = Running(u) /\ Frame(u)' = Frame(u)
         /\ Locks(u)' = Locks(u)
BY DEF Running, Frame, Locks

\* What becomes of the control of a thread that goes on.
LEMMA ContinuedControl ==
  ASSUME Control, NEW t \in Threads, Running(t), NEW f \in Frames, Continue(t, f)
  PROVE  /\ Stacks' /\ stack' \in [Threads -> Seq(Frames)]
         /\ \A u \in Threads : u # t => stack'[u] = stack[u]
         /\ Running(t)' /\ Frame(t)' = f
         /\ Locks(t)' = IF f.at = "lock" THEN Len(stack[t]) - 1 ELSE Len(stack[t])
         /\ Len(stack[t]) \in Nat \ {0}
<1>1. /\ stack' \in [Threads -> Seq(Frames)]
      /\ \A u \in Threads : u # t => stack'[u] = stack[u]
      /\ Len(stack'[t]) = Len(stack[t]) /\ DOMAIN stack'[t] = DOMAIN stack[t]
      /\ \A n \in DOMAIN stack[t] :
           stack'[t][n] = IF n = Len(stack[t]) THEN f ELSE stack[t][n]
      /\ stack'[t] # <<>> /\ stack'[t][Len(stack'[t])] = f
  BY Continued DEF Control
<1>2. Stacks'
  <2>1. ASSUME NEW u \in Threads, NEW n \in DOMAIN stack'[u], n # Len(stack'[u])
        PROVE  stack'[u][n].op = "consume" /\ stack'[u][n].at = "nested"
    <3>1. CASE u = t
      BY <1>1, <2>1, <3>1 DEF Control, Stacks
    <3>2. CASE u # t
      BY <1>1, <2>1, <3>2 DEF Control, Stacks
    <3>3. QED
      BY <3>1, <3>2
  <2>2. QED
    BY <2>1 DEF Stacks
<1>3. Running(t)' /\ Frame(t)' = f
  BY <1>1 DEF Running, Frame
<1>4. Locks(t)' = IF f.at = "lock" THEN Len(stack[t]) - 1 ELSE Len(stack[t])
  BY <1>1, <1>3 DEF Locks
<1>5. Len(stack[t]) \in Nat \ {0}
  BY FrameTyped DEF Control
<1>6. QED
  BY <1>1, <1>2, <1>3, <1>4, <1>5

\* ... that returns from a call.
LEMMA ReturnedControl ==
  ASSUME Control, NEW t \in Threads, Running(t), Return(t)
  PROVE  /\ Stacks' /\ stack' \in [Threads -> Seq(Frames)]
         /\ \A u \in Threads : u # t => stack'[u] = stack[u]
         /\ Running(t)' => Frame(t)'.op = "consume" /\ Frame(t)'.at = "nested"
         /\ Locks(t)' = Len(stack[t]) - 1
         /\ Len(stack[t]) \in Nat \ {0}
<1>1. /\ stack' \in [Threads -> Seq(Frames)]
      /\ \A u \in Threads : u # t => stack'[u] = stack[u]
      /\ Len(stack'[t]) = Len(stack[t]) - 1
      /\ DOMAIN stack'[t] = 1..(Len(stack[t]) - 1)
      /\ \A n \in 1..(Len(stack[t]) - 1) : stack'[t][n] = stack[t][n]
      /\ stack'[t] # <<>> <=> Len(stack[t]) # 1
  BY Returned DEF Control
<1>2. Len(stack[t]) \in Nat \ {0} /\ DOMAIN stack[t] = 1..Len(stack[t])
  BY FrameTyped DEF Control
<1>3. ASSUME NEW n \in 1..(Len(stack[t]) - 1)
      PROVE  stack'[t][n].op = "consume" /\ stack'[t][n].at = "nested"
  <2>1. n \in DOMAIN stack[t] /\ n # Len(stack[t])
    BY <1>2
  <2>2. QED
    BY <1>1, <2>1 DEF Control, Stacks
<1>4. Stacks'
  <2>1. ASSUME NEW u \in Threads, NEW n \in DOMAIN stack'[u], n # Len(stack'[u])
        PROVE  stack'[u][n].op = "consume" /\ stack'[u][n].at = "nested"
    <3>1. CASE u = t
      BY <1>1, <1>3, <3>1
    <3>2. CASE u # t
      BY <1>1, <2>1, <3>2 DEF Control, Stacks
    <3>3. QED
      BY <3>1, <3>2
  <2>2. QED
    BY <2>1 DEF Stacks
<1>5. ASSUME Running(t)'
      PROVE  Frame(t)'.op = "consume" /\ Frame(t)'.at = "nested"
  <2>1. Len(stack[t]) # 1
    BY <1>1, <1>5 DEF Running
  <2>2. Len(stack'[t]) \in 1..(Len(stack[t]) - 1)
    BY <1>1, <1>2, <2>1
  <2>3. QED
    BY <1>3, <2>2 DEF Frame
<1>6. Locks(t)' = Len(stack[t]) - 1
  <2>1. CASE Running(t)'
    BY <1>1, <1>5, <2>1 DEF Locks
  <2>2. CASE ~Running(t)'
    BY <1>1, <1>2, <2>2 DEF Locks, Running
  <2>3. QED
    BY <2>1, <2>2
<1>7. QED
  BY <1>1, <1>2, <1>4, <1>5, <1>6

\* The mutex, as it is locked and unlocked.
LEMMA MutexKept ==
  ASSUME TypeOK, Mutex, UNCHANGED <<owner, depth>>,
         \A u \in Threads : Locks(u)' = Locks(u)
  PROVE  Mutex'
BY LoggerOK DEF Mutex, TypeOK

LEMMA MutexLocked ==
  ASSUME TypeOK, Mutex, NEW t \in Threads, owner \in {t, Nobody},
         owner' = t, depth' = depth + 1, Locks(t)' = Locks(t) + 1,
         \A u \in Threads : u # t => Locks(u)' = Locks(u)
  PROVE  Mutex'
<1>1. Locks(t) \in Nat /\ depth \in Nat
  BY LocksNat DEF TypeOK
<1>2. owner = Nobody => Locks(t) = 0
  BY LoggerOK DEF Mutex
<1>3. depth' = Locks(t)' /\ depth' # 0
  BY <1>1, <1>2 DEF Mutex
<1>4. ASSUME NEW u \in Threads, Locks(u)' # 0
      PROVE  owner' = u
  BY <1>4, LoggerOK DEF Mutex
<1>5. owner' # Nobody
  BY LoggerOK
<1>6. QED
  BY <1>3, <1>4, <1>5 DEF Mutex

LEMMA MutexUnlocked ==
  ASSUME TypeOK, Mutex, NEW t \in Threads, Locks(t) # 0, Unlock,
         Locks(t)' = Locks(t) - 1,
         \A u \in Threads : u # t => Locks(u)' = Locks(u)
  PROVE  Mutex' /\ depth' \in Nat /\ owner' \in Threads \cup {Nobody}
<1>1. Locks(t) \in Nat /\ depth \in Nat
  BY LocksNat DEF TypeOK
<1>2. owner = t /\ depth = Locks(t) /\ t # Nobody
  BY LoggerOK DEF Mutex
<1>3. depth' = depth - 1 /\ owner' = IF depth = 1 THEN Nobody ELSE t
  BY <1>2 DEF Unlock
<1>4. \A u \in Threads : u # t => Locks(u)' = 0
  BY <1>2 DEF Mutex
<1>5. depth' \in Nat /\ (owner' = Nobody => depth' = 0) /\ (owner' # Nobody => depth' # 0)
  BY <1>1, <1>2, <1>3
<1>6. depth' = Locks(t)'
  BY <1>2, <1>3
<1>7. QED
  BY <1>1, <1>2, <1>3, <1>4, <1>5, <1>6 DEF Mutex

\* The strings that others have read are as they were.
LEMMA CopiesOfOthers ==
  ASSUME Control, NEW t \in Threads,
         \A u \in Threads : u # t => stack'[u] = stack[u],
         _stdio_strings' = _stdio_strings \/ Locks(t) # 0,
         At(t, "write", "store")' => Frame(t)'.held = _stdio_strings'[Frame(t)'.level],
         At(t, "consume", "clear")' => Frame(t)'.held = Entries(_stdio_strings')
  PROVE  Copies'
<1>1. ASSUME NEW u \in Threads, u # t
      PROVE  /\ At(u, "write", "store")' => Frame(u)'.held = _stdio_strings'[Frame(u)'.level]
             /\ At(u, "consume", "clear")' => Frame(u)'.held = Entries(_stdio_strings')
  <2>1. /\ At(u, "write", "store")' = At(u, "write", "store")
        /\ At(u, "consume", "clear")' = At(u, "consume", "clear")
        /\ Frame(u)' = Frame(u)
    BY <1>1 DEF At, Running, Frame
  <2>2. ASSUME At(u, "write", "store") \/ At(u, "consume", "clear")
        PROVE  _stdio_strings' = _stdio_strings
    <3>1. owner = u
      BY <2>2, Owns DEF Control, At
    <3>2. Locks(t) = 0
      BY <1>1, <3>1 DEF Control, Mutex
    <3>3. QED
      BY <3>2
  <2>3. QED
    BY <2>1, <2>2 DEF Control, Copies
<1>2. QED
  BY <1>1 DEF Copies

LEMMA PushesOfOthers ==
  ASSUME Control, NEW t \in Threads,
         \A u \in Threads : u # t => stack'[u] = stack[u],
         Running(t)' /\ Frame(t)'.op = "write" /\ Frame(t)'.at # "unlock" =>
           Frame(t)'.left # 0
  PROVE  Pushes'
<1>1. ASSUME NEW u \in Threads, u # t
      PROVE  Running(u)' = Running(u) /\ Frame(u)' = Frame(u)
  BY <1>1, Other
<1>2. QED
  BY <1>1 DEF Control, Pushes

Batch == [strings: Strings, outermost: BOOLEAN, given: Seq(Entry)]

\* A thread goes on with the mutex as it was.
LEMMA GoesOn ==
  ASSUME Control, NEW t \in Threads, Running(t), NEW f \in Frames, Continue(t, f),
         UNCHANGED <<owner, depth, calls>>, f.at # "lock", Frame(t).at # "lock",
         _stdio_strings' \in Strings, written' \in Strings, taken' \in Strings,
         batches' \in Seq(Batch),
         f.op = "write" /\ f.at = "store" => f.held = _stdio_strings'[f.level],
         f.op = "consume" /\ f.at = "clear" => f.held = Entries(_stdio_strings'),
         f.op = "write" /\ f.at # "unlock" => f.left # 0
  PROVE  Control'
<1>1. /\ Stacks' /\ stack' \in [Threads -> Seq(Frames)]
      /\ \A u \in Threads : u # t => stack'[u] = stack[u]
      /\ Running(t)' /\ Frame(t)' = f
      /\ Locks(t)' = IF f.at = "lock" THEN Len(stack[t]) - 1 ELSE Len(stack[t])
  BY ContinuedControl
<1>2. TypeOK'
  BY <1>1 DEF Control, TypeOK, Batch
<1>3. Locks(t)' = Locks(t)
  BY <1>1 DEF Locks
<1>4. Mutex'
  BY <1>1, <1>3, MutexKept, Other DEF Control
<1>5. Locks(t) # 0
  BY Owns DEF Control
<1>6. Copies'
  BY <1>1, <1>5, CopiesOfOthers DEF At
<1>7. Pushes'
  BY <1>1, PushesOfOthers
<1>8. QED
  BY <1>1, <1>2, <1>4, <1>6, <1>7 DEF Control

LEMMA LockControl ==
  ASSUME Control, NEW t \in Threads, Lock(t)
  PROVE  Control'
<1> DEFINE f == [Frame(t) EXCEPT !.at = IF Frame(t).op = "write" THEN "load" ELSE "split"]
<1>1. /\ Running(t) /\ Frame(t).at = "lock" /\ Continue(t, f)
      /\ owner \in {t, Nobody} /\ owner' = t /\ depth' = depth + 1
      /\ UNCHANGED <<_stdio_strings, calls, written, taken, batches>>
  BY DEF Lock, MayLock
<1>2. /\ f \in Frames /\ f.op = Frame(t).op
      /\ f.at = IF f.op = "write" THEN "load" ELSE "split"
      /\ f.op = "write" => f.left = Frame(t).left
  <2>1. Frame(t) \in Frames
    BY <1>1, FrameTyped DEF Control
  <2>2. QED
    BY <2>1 DEF Frames
<1> HIDE DEF f
<1>3. /\ Stacks' /\ stack' \in [Threads -> Seq(Frames)]
      /\ \A u \in Threads : u # t => stack'[u] = stack[u]
      /\ Running(t)' /\ Frame(t)' = f
      /\ Locks(t)' = Len(stack[t]) /\ Len(stack[t]) \in Nat \ {0}
  BY <1>1, <1>2, ContinuedControl
<1>4. Locks(t)' = Locks(t) + 1
  BY <1>1, <1>3 DEF Locks
<1>5. Mutex'
  BY <1>1, <1>3, <1>4, MutexLocked, Other DEF Control
<1>6. TypeOK'
  BY <1>1, <1>3 DEF Control, TypeOK
<1>7. Copies'
  BY <1>1, <1>2, <1>3, CopiesOfOthers DEF At
<1>8. Pushes'
  BY <1>1, <1>2, <1>3, PushesOfOthers DEF Control, Pushes
<1>9. QED
  BY <1>3, <1>5, <1>6, <1>7, <1>8 DEF Control

LEMMA LoadControl ==
  ASSUME Control, NEW t \in Threads, LoadString(t)
  PROVE  Control'
<1> DEFINE f == [Frame(t) EXCEPT !.at = "store", !.held = _stdio_strings[Frame(t).level]]
<1>1. /\ Running(t) /\ Frame(t).op = "write" /\ Frame(t).at = "load" /\ Continue(t, f)
      /\ UNCHANGED <<owner, depth, _stdio_strings, calls, written, taken, batches>>
  BY DEF LoadString, At
<1>2. Frame(t) \in Frames /\ _stdio_strings \in Strings /\ Frame(t).left # 0
  BY <1>1, FrameTyped DEF Control, TypeOK, Pushes
<1>3. _stdio_strings[Frame(t).level] \in Seq(Chars)
  BY <1>1, <1>2 DEF Frames, Strings
<1>4. f \in Frames /\ f.op = "write" /\ f.at = "store" /\ f.left # 0
      /\ f.held = _stdio_strings[f.level]
  BY <1>1, <1>2, <1>3 DEF Frames
<1> HIDE DEF f
<1>5. QED
  BY <1>1, <1>4, GoesOn DEF Control, TypeOK, Batch

LEMMA StoreControl ==
  ASSUME Control, NEW t \in Threads, StoreString(t)
  PROVE  Control'
<1> DEFINE f == [Frame(t) EXCEPT !.at = "unlock", !.held = <<>>, !.left = @ - 1]
           level == Frame(t).level
<1>1. /\ Running(t) /\ Frame(t).op = "write" /\ Frame(t).at = "store" /\ Continue(t, f)
      /\ UNCHANGED <<owner, depth, calls, taken, batches>>
  BY DEF StoreString, At
<1>2. PICK text \in Prints[t] :
        /\ _stdio_strings' = [_stdio_strings EXCEPT ![level] = Frame(t).held \o text]
        /\ written' = [written EXCEPT ![level] = @ \o text]
  BY DEF StoreString
<1>3. Frame(t) \in Frames /\ Frame(t).left # 0 /\ text \in Seq(Chars)
  BY <1>1, FrameTyped, LoggerOK DEF Control, Pushes
<1>4. /\ level \in Levels /\ Frame(t).held \in Seq(Chars) /\ Frame(t).left \in 1..MaxIov
  BY <1>1, <1>3, LoggerOK DEF Frames
<1>5. f \in Frames /\ f.op = "write" /\ f.at = "unlock"
  <2>1. Frame(t).left - 1 \in 0..MaxIov /\ <<>> \in Seq(Chars)
    BY <1>4, LoggerOK
  <2>2. QED
    BY <1>1, <1>3, <2>1 DEF Frames
<1>6. written[level] \in Seq(Chars)
  BY <1>4 DEF Control, TypeOK, Strings
<1> HIDE DEF f, level
<1>7. _stdio_strings' \in Strings /\ written' \in Strings
  <2>1. Frame(t).held \o text \in Seq(Chars) /\ written[level] \o text \in Seq(Chars)
    BY <1>3, <1>4, <1>6, ConcatProperties
  <2>2. QED
    BY <1>2, <2>1 DEF Control, TypeOK, Strings
<1>8. QED
  BY <1>1, <1>5, <1>7, GoesOn DEF Control, TypeOK, Batch

LEMMA SplitControl ==
  ASSUME Control, NEW t \in Threads, SplitStrings(t)
  PROVE  Control'
<1> DEFINE f == [Frame(t) EXCEPT !.at = "clear", !.held = Entries(_stdio_strings)]
<1>1. /\ Running(t) /\ Frame(t).op = "consume" /\ Frame(t).at = "split" /\ Continue(t, f)
      /\ UNCHANGED <<owner, depth, _stdio_strings, calls, written, taken, batches>>
  BY DEF SplitStrings, At
<1>2. Frame(t) \in Frames /\ Entries(_stdio_strings) \in Seq(Entry)
  BY <1>1, FrameTyped, EntriesTyped DEF Control, TypeOK
<1>3. f \in Frames /\ f.op = "consume" /\ f.at = "clear" /\ f.held = Entries(_stdio_strings)
  BY <1>1, <1>2 DEF Frames
<1> HIDE DEF f
<1>4. QED
  BY <1>1, <1>3, GoesOn DEF Control, TypeOK, Batch

LEMMA ClearControl ==
  ASSUME Control, NEW t \in Threads, ClearStrings(t)
  PROVE  Control'
<1> DEFINE f == [Frame(t) EXCEPT !.at = "deliver", !.batch = Len(batches) + 1]
           b == [strings |-> _stdio_strings, outermost |-> Len(stack[t]) = 1, given |-> <<>>]
<1>1. /\ Running(t) /\ Frame(t).op = "consume" /\ Frame(t).at = "clear" /\ Continue(t, f)
      /\ _stdio_strings' = NoStrings /\ batches' = Append(batches, b)
      /\ taken' = [l \in Levels |-> taken[l] \o _stdio_strings[l]]
      /\ UNCHANGED <<owner, depth, calls, written>>
  BY DEF ClearStrings, Take, At
<1>2. Frame(t) \in Frames /\ Len(batches) + 1 \in Nat
  BY <1>1, FrameTyped DEF Control, TypeOK
<1>3. f \in Frames /\ f.op = "consume" /\ f.at = "deliver"
  BY <1>1, <1>2 DEF Frames
<1>4. _stdio_strings' \in Strings
  BY <1>1 DEF NoStrings, Strings
<1>5. taken' \in Strings
  <2>1. \A l \in Levels : taken[l] \in Seq(Chars) /\ _stdio_strings[l] \in Seq(Chars)
    BY DEF Strings, Control, TypeOK
  <2>2. \A l \in Levels : taken[l] \o _stdio_strings[l] \in Seq(Chars)
    BY <2>1, ConcatProperties
  <2>3. QED
    BY <1>1, <2>2 DEF Strings
<1>6. b \in Batch
  BY DEF Control, TypeOK, Batch
<1> HIDE DEF f, b
<1>7. batches' \in Seq(Batch)
  BY <1>1, <1>6 DEF Control, TypeOK, Batch
<1>8. QED
  BY <1>1, <1>3, <1>4, <1>5, <1>7, GoesOn DEF Control, TypeOK

LEMMA CallConsumerControl ==
  ASSUME Control, NEW t \in Threads, CallConsumer(t)
  PROVE  Control'
<1> DEFINE held == Frame(t).held
           k == Frame(t).batch
           f == [Frame(t) EXCEPT !.at = "callback", !.held = Tail(@)]
<1>1. /\ Running(t) /\ Frame(t).op = "consume" /\ Frame(t).at = "deliver"
      /\ Continue(t, f) /\ held # <<>>
      /\ batches' = [batches EXCEPT ![k].given = Append(@, Head(held))]
      /\ UNCHANGED <<owner, depth, _stdio_strings, calls, written, taken>>
  BY DEF CallConsumer, At
<1>2. Frame(t) \in Frames /\ held \in Seq(Entry)
  <2>1. Frame(t) \in Frames
    BY <1>1, FrameTyped DEF Control
  <2>2. QED
    BY <1>1, <2>1 DEF Frames
<1>3. Head(held) \in Entry /\ Tail(held) \in Seq(Entry)
  BY <1>1, <1>2
<1>4. f \in Frames /\ f.op = "consume" /\ f.at = "callback"
  BY <1>1, <1>2, <1>3 DEF Frames
<1> HIDE DEF f, held, k
<1>5. batches' \in Seq(Batch)
  <2>1. batches \in Seq(Batch)
    BY DEF Control, TypeOK, Batch
  <2>2. CASE k \in DOMAIN batches
    <3> DEFINE b == [batches[k] EXCEPT !.given = Append(@, Head(held))]
    <3>1. batches[k] \in Batch
      BY <2>1, <2>2
    <3>2. Append(batches[k].given, Head(held)) \in Seq(Entry)
      BY <1>3, <3>1 DEF Batch
    <3>3. b \in Batch
      BY <3>1, <3>2 DEF Batch
    <3>4. batches' = [batches EXCEPT ![k] = b]
      BY <1>1
    <3> HIDE DEF b
    <3>5. QED
      BY <2>1, <2>2, <3>3, <3>4
  <2>3. CASE k \notin DOMAIN batches
    <3> DEFINE b == [batches[k] EXCEPT !.given = Append(@, Head(held))]
    <3>1. batches' = [batches EXCEPT ![k] = b]
      BY <1>1
    <3> HIDE DEF b
    <3>2. /\ Len(batches) \in Nat /\ DOMAIN batches = 1..Len(batches)
          /\ \A n \in 1..Len(batches) : batches[n] \in Batch
      BY <2>1
    <3>3. batches' = [n \in DOMAIN batches |-> IF n = k THEN b ELSE batches[n]]
      BY <3>1
    <3>4. batches' = [n \in 1..Len(batches) |-> batches[n]]
      BY <2>3, <3>2, <3>3
    <3>5. batches' \in [1..Len(batches) -> Batch]
      BY <3>2, <3>4
    <3>6. QED
      BY <3>2, <3>5
  <2>4. QED
    BY <2>2, <2>3
<1>6. QED
  BY <1>1, <1>4, <1>5, GoesOn DEF Control, TypeOK

LEMMA ConsumerReturnsControl ==
  ASSUME Control, NEW t \in Threads, ConsumerReturns(t)
  PROVE  Control'
<1> DEFINE f == [Frame(t) EXCEPT !.at = "deliver"]
<1>1. /\ Running(t) /\ Frame(t).op = "consume" /\ Frame(t).at # "lock" /\ Continue(t, f)
      /\ UNCHANGED <<owner, depth, _stdio_strings, calls, written, taken, batches>>
  BY DEF ConsumerReturns, At
<1>2. Frame(t) \in Frames
  BY <1>1, FrameTyped DEF Control
<1>3. f \in Frames /\ f.op = "consume" /\ f.at = "deliver"
  BY <1>1, <1>2 DEF Frames
<1> HIDE DEF f
<1>4. QED
  BY <1>1, <1>3, GoesOn DEF Control, TypeOK, Batch

\* A call returns and the mutex is unlocked.
LEMMA ReturnsUnlocking ==
  ASSUME Control, NEW t \in Threads, Running(t), Frame(t).at # "lock", Return(t), Unlock,
         UNCHANGED <<_stdio_strings, calls, written, taken, batches>>
  PROVE  Control'
<1>1. /\ Stacks' /\ stack' \in [Threads -> Seq(Frames)]
      /\ \A u \in Threads : u # t => stack'[u] = stack[u]
      /\ Running(t)' => Frame(t)'.op = "consume" /\ Frame(t)'.at = "nested"
      /\ Locks(t)' = Len(stack[t]) - 1
      /\ Len(stack[t]) \in Nat \ {0}
  BY ReturnedControl
<1>2. Locks(t) # 0 /\ Locks(t)' = Locks(t) - 1
  BY <1>1 DEF Locks
<1>3. Mutex' /\ depth' \in Nat /\ owner' \in Threads \cup {Nobody}
  BY <1>1, <1>2, MutexUnlocked, Other DEF Control
<1>4. TypeOK'
  BY <1>1, <1>3 DEF Control, TypeOK
<1>5. Copies'
  BY <1>1, CopiesOfOthers DEF At
<1>6. Pushes'
  BY <1>1, PushesOfOthers
<1>7. QED
  BY <1>1, <1>3, <1>4, <1>5, <1>6 DEF Control

LEMMA EndPushControl ==
  ASSUME Control, NEW t \in Threads, EndPush(t)
  PROVE  Control'
<1> DEFINE f == [Frame(t) EXCEPT !.at = "lock"]
<1>1. /\ Running(t) /\ Frame(t).op = "write" /\ Frame(t).at = "unlock" /\ Unlock
      /\ IF Frame(t).left = 0 THEN Return(t) ELSE Continue(t, f)
      /\ UNCHANGED <<_stdio_strings, calls, written, taken, batches>>
  BY DEF EndPush, At
<1>2. CASE Frame(t).left = 0
  BY <1>1, <1>2, ReturnsUnlocking
<1>3. CASE Frame(t).left # 0
  <2>1. Frame(t) \in Frames
    BY <1>1, FrameTyped DEF Control
  <2>2. f \in Frames /\ f.op = "write" /\ f.at = "lock" /\ f.left # 0
    BY <1>1, <1>3, <2>1 DEF Frames
  <2> HIDE DEF f
  <2>3. /\ Stacks' /\ stack' \in [Threads -> Seq(Frames)]
        /\ \A u \in Threads : u # t => stack'[u] = stack[u]
        /\ Running(t)' /\ Frame(t)' = f
        /\ Locks(t)' = Len(stack[t]) - 1 /\ Len(stack[t]) \in Nat \ {0}
    BY <1>1, <1>3, <2>2, ContinuedControl
  <2>4. Locks(t) # 0 /\ Locks(t)' = Locks(t) - 1
    BY <1>1, <2>3 DEF Locks
  <2>5. Mutex' /\ depth' \in Nat /\ owner' \in Threads \cup {Nobody}
    BY <1>1, <2>3, <2>4, MutexUnlocked, Other DEF Control
  <2>6. TypeOK'
    BY <1>1, <2>3, <2>5 DEF Control, TypeOK
  <2>7. Copies'
    BY <1>1, <2>2, <2>3, CopiesOfOthers DEF At
  <2>8. Pushes'
    BY <2>2, <2>3, PushesOfOthers
  <2>9. QED
    BY <2>3, <2>5, <2>6, <2>7, <2>8 DEF Control
<1>4. QED
  BY <1>2, <1>3

LEMMA EndConsumeControl ==
  ASSUME Control, NEW t \in Threads, EndConsume(t)
  PROVE  Control'
<1>1. /\ Running(t) /\ Frame(t).at = "deliver" /\ Return(t) /\ Unlock
      /\ UNCHANGED <<_stdio_strings, calls, written, taken, batches>>
  BY DEF EndConsume, At
<1>2. QED
  BY <1>1, ReturnsUnlocking

LEMMA CallControl ==
  ASSUME Control, NEW t \in Threads, NEW f \in NewFrames, Call(t, f)
  PROVE  Control'
<1>1. /\ stack' \in [Threads -> Seq(Frames)]
      /\ \A u \in Threads : u # t => stack'[u] = stack[u]
      /\ Len(stack[t]) \in Nat
      /\ Len(stack'[t]) = Len(stack[t]) + 1
      /\ DOMAIN stack[t] = 1..Len(stack[t])
      /\ DOMAIN stack'[t] = 1..(Len(stack[t]) + 1)
      /\ stack'[t][Len(stack[t]) + 1] = f
      /\ \A n \in 1..Len(stack[t]) :
           stack'[t][n] = IF n = Len(stack[t]) THEN [stack[t][n] EXCEPT !.at = "nested"]
                          ELSE stack[t][n]
      /\ Len(stack[t]) # 0 => Running(t) /\ Frame(t).op = "consume"
                              /\ Frame(t).at = "callback"
  BY Called DEF Control
<1>2. /\ calls < MaxCalls /\ calls' = calls + 1
      /\ UNCHANGED <<owner, depth, _stdio_strings, written, taken, batches>>
  BY DEF Call, MayCall
<1>3. f.at = "lock" /\ (f.op = "write" => f.left # 0)
  BY LoggerOK DEF NewFrames
<1>4. Running(t)' /\ Frame(t)' = f
  <2>1. stack'[t] # <<>>
    <3>1. Len(stack'[t]) # 0 /\ stack'[t] \in Seq(Frames)
      BY <1>1
    <3>2. QED
      BY <3>1
  <2>2. QED
    BY <1>1, <2>1 DEF Running, Frame
<1>5. Stacks'
  <2>1. ASSUME NEW n \in 1..Len(stack[t])
        PROVE  stack'[t][n].op = "consume" /\ stack'[t][n].at = "nested"
    <3>1. CASE n = Len(stack[t])
      <4>1. stack[t][n] = Frame(t) /\ Frame(t).op = "consume" /\ Frame(t) \in Frames
        BY <1>1, <3>1, FrameTyped DEF Frame, Control
      <4>2. stack'[t][n] = [Frame(t) EXCEPT !.at = "nested"]
        BY <1>1, <3>1, <4>1
      <4>3. QED
        BY <4>1, <4>2 DEF Frames
    <3>2. CASE n # Len(stack[t])
      <4>1. n \in DOMAIN stack[t] /\ stack'[t][n] = stack[t][n]
        BY <1>1, <3>2
      <4>2. QED
        BY <3>2, <4>1 DEF Control, Stacks
    <3>3. QED
      BY <3>1, <3>2
  <2>2. ASSUME NEW u \in Threads, NEW n \in DOMAIN stack'[u], n # Len(stack'[u])
        PROVE  stack'[u][n].op = "consume" /\ stack'[u][n].at = "nested"
    <3>1. CASE u = t
      <4>1. n \in 1..Len(stack[t])
        BY <1>1, <2>2, <3>1
      <4>2. QED
        BY <2>1, <3>1, <4>1
    <3>2. CASE u # t
      BY <1>1, <2>2, <3>2 DEF Control, Stacks
    <3>3. QED
      BY <3>1, <3>2
  <2>3. QED
    BY <2>2 DEF Stacks
<1>6. Locks(t)' = Locks(t)
  <2>1. Locks(t)' = Len(stack[t])
    BY <1>1, <1>3, <1>4 DEF Locks
  <2>2. CASE Len(stack[t]) = 0
    <3>1. stack[t] \in Seq(Frames)
      BY DEF Control, TypeOK
    <3>2. ~Running(t)
      BY <2>2, <3>1, EmptySequence DEF Running
    <3>3. QED
      BY <2>1, <2>2, <3>2 DEF Locks
  <2>3. CASE Len(stack[t]) # 0
    BY <1>1, <2>1, <2>3 DEF Locks
  <2>4. QED
    BY <2>2, <2>3
<1>7. Mutex'
  BY <1>1, <1>2, <1>6, MutexKept, Other DEF Control
<1>8. TypeOK'
  <2>1. calls' \in 0..MaxCalls
    BY <1>2, LoggerOK DEF Control, TypeOK
  <2>2. QED
    BY <1>1, <1>2, <2>1 DEF Control, TypeOK
<1>9. Copies'
  BY <1>1, <1>2, <1>3, <1>4, CopiesOfOthers DEF At
<1>10. Pushes'
  BY <1>1, <1>3, <1>4, PushesOfOthers
<1>11. QED
  BY <1>5, <1>7, <1>8, <1>9, <1>10 DEF Control

\* A call begins with one of NewFrames.
LEMMA BeginCalls ==
  ASSUME NEW t \in Threads, Begin(t)
  PROVE  \E f \in NewFrames : Call(t, f)
<1>1. ASSUME NEW level \in Levels, NEW iovecs \in 1..MaxIov, BeginWrite(t, level, iovecs)
      PROVE  \E f \in NewFrames : Call(t, f)
  <2> DEFINE f == [op |-> "write", at |-> "lock", level |-> level, left |-> iovecs,
                   held |-> <<>>]
  <2>1. f \in NewFrames
    BY DEF NewFrames
  <2>2. QED
    BY <1>1, <2>1 DEF BeginWrite
<1>2. CASE BeginConsume(t)
  <2> DEFINE f == [op |-> "consume", at |-> "lock", held |-> <<>>, batch |-> 0]
  <2>1. f \in NewFrames
    BY DEF NewFrames
  <2>2. QED
    BY <1>2, <2>1 DEF BeginConsume
<1>3. QED
  BY <1>1, <1>2 DEF Begin

LEMMA ControlNext ==
  ASSUME Control, [Next]_vars
  PROVE  Control'
<1>1. CASE UNCHANGED vars
  BY <1>1
  DEF vars, Control, TypeOK, Stacks, Mutex, Copies, Pushes, At, Locks, Running, Frame
<1>2. ASSUME NEW t \in Threads, Begin(t)
      PROVE  Control'
  BY <1>2, BeginCalls, CallControl
<1>3. ASSUME NEW t \in Threads, Step(t)
      PROVE  Control'
  BY <1>3, LockControl, LoadControl, StoreControl, EndPushControl, SplitControl,
     ClearControl, CallConsumerControl, ConsumerReturnsControl, EndConsumeControl
  DEF Step
<1>4. QED
  BY <1>1, <1>2, <1>3 DEF Next

-------------------------------------------------------------------------------
(* The consumers of a thread *)

\* The calls of a thread, as Stacks has them.
CallStack(s) ==
  /\ s \in Seq(Frames)
  /\ \A n \in DOMAIN s : n # Len(s) => s[n].op = "consume" /\ s[n].at = "nested"

\* How many of them are consumers that have taken what there was.
Holding(s) ==
  IF s = <<>> THEN 0 ELSE IF Holds(s[Len(s)]) THEN Len(s) ELSE Len(s) - 1

Consumer == [batch: Nat, left: Seq(Entry)]

AsConsumer(frame) == [batch |-> frame.batch, left |-> frame.held]

LEMMA ConsumersAre ==
  ASSUME NEW s, CallStack(s)
  PROVE  /\ Consumers(s) \in Seq(Consumer) /\ Len(Consumers(s)) = Holding(s)
         /\ Holding(s) \in Nat
         /\ \A n \in 1..Holding(s) : n \in DOMAIN s /\ Consumers(s)[n] = AsConsumer(s[n])
<1>1. s \in Seq(Frames) /\ Len(s) \in Nat /\ DOMAIN s = 1..Len(s)
  BY DEF CallStack
<1>2. s = <<>> <=> Len(s) = 0
  BY <1>1, EmptySequence
<1>3. Holding(s) \in Nat /\ 1..Holding(s) \subseteq DOMAIN s
  BY <1>1, <1>2 DEF Holding
<1>4. ASSUME NEW n \in DOMAIN s
      PROVE  Holds(s[n]) <=> n \in 1..Holding(s)
  <2>1. s # <<>>
    BY <1>1, <1>2, <1>4
  <2>2. CASE n = Len(s)
    BY <1>1, <1>4, <2>1, <2>2 DEF Holding
  <2>3. CASE n # Len(s)
    <3>1. s[n].op = "consume" /\ s[n].at = "nested"
      BY <1>4, <2>3 DEF CallStack
    <3>2. n \in 1..Holding(s)
      BY <1>1, <1>4, <2>1, <2>3 DEF Holding
    <3>3. QED
      BY <3>1, <3>2 DEF Holds
  <2>4. QED
    BY <2>2, <2>3
<1>5. {n \in DOMAIN s : Holds(s[n])} = 1..Holding(s)
  BY <1>3, <1>4
<1>6. Consumers(s) = [n \in 1..Holding(s) |-> AsConsumer(s[n])]
  BY <1>5 DEF Consumers, AsConsumer
<1>7. ASSUME NEW n \in 1..Holding(s)
      PROVE  AsConsumer(s[n]) \in Consumer
  <2>1. s[n] \in Frames /\ Holds(s[n])
    BY <1>1, <1>3, <1>4
  <2>2. QED
    BY <2>1 DEF Frames, Holds, Consumer, AsConsumer
<1>8. Consumers(s) \in [1..Holding(s) -> Consumer]
  BY <1>6, <1>7
<1>9. Consumers(s) \in Seq(Consumer) /\ Len(Consumers(s)) = Holding(s)
  BY <1>3, <1>8
<1>10. QED
  BY <1>3, <1>6, <1>9

\* Calls that hold the same, one by one.
LEMMA SameConsumers ==
  ASSUME NEW s, NEW r, CallStack(s), CallStack(r), Holding(s) = Holding(r),
         \A n \in 1..Holding(s) : AsConsumer(s[n]) = AsConsumer(r[n])
  PROVE  Consumers(s) = Consumers(r)
<1> DEFINE a == Consumers(s)
           b == Consumers(r)
<1>1. /\ a \in Seq(Consumer) /\ b \in Seq(Consumer) /\ Len(a) = Len(b)
      /\ \A n \in 1..Len(a) : a[n] = b[n]
  BY ConsumersAre
<1> HIDE DEF a, b
<1>2. a = b
  BY <1>1, SeqEqual
<1>3. QED
  BY <1>2 DEF a, b

\* The calls of every thread, before and after a step.
LEMMA CallStacks ==
  ASSUME Control, [Next]_vars
  PROVE  \A u \in Threads : CallStack(stack[u]) /\ CallStack(stack'[u])
<1>1. Control'
  BY ControlNext
<1>2. QED
  BY <1>1 DEF Control, TypeOK, Stacks, CallStack

\* The innermost call goes on with what it holds, if it does.
LEMMA SameTop ==
  ASSUME Control, [Next]_vars, NEW t \in Threads, Running(t), NEW f \in Frames,
         Continue(t, f), Holds(f) <=> Holds(Frame(t)),
         Holds(f) => AsConsumer(f) = AsConsumer(Frame(t))
  PROVE  Consumers(stack'[t]) = Consumers(stack[t])
<1>1. CallStack(stack[t]) /\ CallStack(stack'[t])
  BY CallStacks
<1>2. /\ Len(stack'[t]) = Len(stack[t]) /\ DOMAIN stack'[t] = DOMAIN stack[t]
      /\ \A n \in DOMAIN stack[t] :
           stack'[t][n] = IF n = Len(stack[t]) THEN f ELSE stack[t][n]
      /\ stack'[t] # <<>> /\ stack'[t][Len(stack'[t])] = f
  BY Continued DEF Control
<1>3. Len(stack[t]) \in Nat \ {0} /\ DOMAIN stack[t] = 1..Len(stack[t])
  BY FrameTyped DEF Control
<1>4. Holding(stack'[t]) = Holding(stack[t])
  BY <1>2 DEF Holding, Frame, Running
<1>5. ASSUME NEW n \in 1..Holding(stack[t])
      PROVE  AsConsumer(stack'[t][n]) = AsConsumer(stack[t][n])
  <2>1. n \in DOMAIN stack[t]
    BY <1>1, ConsumersAre
  <2>2. CASE n = Len(stack[t])
    <3>1. Holds(Frame(t))
      BY <1>3, <1>5, <2>2 DEF Holding, Running, Frame
    <3>2. QED
      BY <1>2, <2>1, <2>2, <3>1 DEF Frame
  <2>3. CASE n # Len(stack[t])
    BY <1>2, <2>1, <2>3
  <2>4. QED
    BY <2>2, <2>3
<1>6. QED
  BY <1>1, <1>4, <1>5, SameConsumers

\* A call that holds none is made.
LEMMA CallConsumers ==
  ASSUME Control, [Next]_vars, NEW t \in Threads, NEW f \in NewFrames, Call(t, f)
  PROVE  \A u \in Threads : Consumers(stack'[u]) = Consumers(stack[u])
<1> DEFINE k == Len(stack[t])
<1>1. CallStack(stack[t]) /\ CallStack(stack'[t])
  BY CallStacks
<1>2. /\ \A u \in Threads : u # t => stack'[u] = stack[u]
      /\ k \in Nat /\ Len(stack'[t]) = k + 1
      /\ DOMAIN stack[t] = 1..k /\ stack'[t][k + 1] = f
      /\ \A n \in 1..k :
           stack'[t][n] = IF n = k THEN [stack[t][n] EXCEPT !.at = "nested"] ELSE stack[t][n]
      /\ k # 0 => Running(t) /\ Frame(t).op = "consume" /\ Frame(t).at = "callback"
  BY Called DEF Control
<1>3. stack[t] \in Seq(Frames) /\ stack'[t] \in Seq(Frames) /\ (stack[t] = <<>> <=> k = 0)
  BY <1>1, EmptySequence DEF CallStack
<1>4. stack'[t] # <<>>
  BY <1>2, <1>3, EmptySequence
<1>5. ~Holds(f)
  BY DEF NewFrames, Holds
<1>6. Holding(stack'[t]) = k
  BY <1>2, <1>4, <1>5 DEF Holding
<1>7. Holding(stack[t]) = k
  BY <1>2, <1>3 DEF Holding, Holds, Frame
<1>8. ASSUME NEW n \in 1..k
      PROVE  AsConsumer(stack'[t][n]) = AsConsumer(stack[t][n])
  <2>1. CASE n = k
    <3>1. Frame(t) = stack[t][n] /\ Frame(t) \in Frames /\ Frame(t).op = "consume"
      BY <1>2, <1>8, <2>1, FrameTyped DEF Frame, Control
    <3>2. AsConsumer([Frame(t) EXCEPT !.at = "nested"]) = AsConsumer(Frame(t))
      BY <3>1 DEF Frames, AsConsumer
    <3>3. QED
      BY <1>2, <2>1, <3>1, <3>2
  <2>2. CASE n # k
    BY <1>2, <2>2
  <2>3. QED
    BY <2>1, <2>2
<1>9. Consumers(stack'[t]) = Consumers(stack[t])
  BY <1>1, <1>6, <1>7, <1>8, SameConsumers
<1>10. QED
  BY <1>2, <1>9

LEMMA NextToLast ==
  ASSUME NEW k \in Nat \ {0, 1}
  PROVE  k - 1 \in 1..(k - 1) /\ k - 1 # k /\ k - 1 \in 1..k
OBVIOUS

\* The innermost call returns: what it held, if it did, is nobody's.
LEMMA ReturnConsumers ==
  ASSUME Control, [Next]_vars, NEW t \in Threads, Running(t), Return(t)
  PROVE  Consumers(stack'[t]) =
           IF Holds(Frame(t))
           THEN SubSeq(Consumers(stack[t]), 1, Len(Consumers(stack[t])) - 1)
           ELSE Consumers(stack[t])
<1> DEFINE k == Len(stack[t])
<1>1. CallStack(stack[t]) /\ CallStack(stack'[t])
  BY CallStacks
<1>2. /\ Len(stack'[t]) = k - 1 /\ DOMAIN stack'[t] = 1..(k - 1)
      /\ \A n \in 1..(k - 1) : stack'[t][n] = stack[t][n]
      /\ stack'[t] # <<>> <=> k # 1
  BY Returned DEF Control
<1>3. k \in Nat \ {0} /\ DOMAIN stack[t] = 1..k
  BY FrameTyped DEF Control
<1>4. Holding(stack'[t]) = k - 1
  <2>1. CASE k = 1
    BY <1>2, <2>1 DEF Holding
  <2>2. CASE k # 1
    <3>1. k - 1 \in 1..(k - 1) /\ k - 1 # k /\ k - 1 \in DOMAIN stack[t]
      BY <1>3, <2>2, NextToLast
    <3>2. stack[t][k - 1].op = "consume" /\ stack[t][k - 1].at = "nested"
      BY <1>1, <3>1 DEF CallStack
    <3>3. Holds(stack'[t][Len(stack'[t])])
      BY <1>2, <3>1, <3>2 DEF Holds
    <3>4. QED
      BY <1>2, <2>2, <3>3 DEF Holding
  <2>3. QED
    BY <2>1, <2>2
<1>5. CASE ~Holds(Frame(t))
  <2>1. Holding(stack[t]) = k - 1
    BY <1>5 DEF Holding, Running, Frame
  <2>2. \A n \in 1..(k - 1) : AsConsumer(stack'[t][n]) = AsConsumer(stack[t][n])
    BY <1>2
  <2>3. QED
    BY <1>1, <1>4, <1>5, <2>1, <2>2, SameConsumers
<1>6. CASE Holds(Frame(t))
  <2> DEFINE a == Consumers(stack[t])
             b == Consumers(stack'[t])
  <2>1. Holding(stack[t]) = k
    BY <1>6 DEF Holding, Running, Frame
  <2>2. /\ a \in Seq(Consumer) /\ Len(a) = k /\ b \in Seq(Consumer) /\ Len(b) = k - 1
        /\ \A n \in 1..k : a[n] = AsConsumer(stack[t][n])
        /\ \A n \in 1..(k - 1) : b[n] = AsConsumer(stack'[t][n])
    BY <1>1, <1>4, <2>1, ConsumersAre
  <2> HIDE DEF a, b, k
  <2>3. \A n \in 1..(k - 1) : b[n] = a[n]
    BY <1>2, <1>3, <2>2
  <2>4. /\ SubSeq(a, 1, k - 1) \in Seq(Consumer) /\ Len(SubSeq(a, 1, k - 1)) = k - 1
        /\ \A n \in 1..(k - 1) : SubSeq(a, 1, k - 1)[n] = a[n]
    BY <1>3, <2>2
  <2>5. b = SubSeq(a, 1, k - 1)
    BY <2>2, <2>3, <2>4, SeqEqual
  <2>6. QED
    BY <1>6, <2>2, <2>5 DEF a, b
<1>7. QED
  BY <1>5, <1>6

\* The innermost call takes what there is.
LEMMA TakeConsumers ==
  ASSUME Control, [Next]_vars, NEW t \in Threads, Running(t), ~Holds(Frame(t)),
         NEW f \in Frames, Holds(f), Continue(t, f)
  PROVE  Consumers(stack'[t]) = Append(Consumers(stack[t]), AsConsumer(f))
<1> DEFINE k == Len(stack[t])
           a == Consumers(stack[t])
           b == Consumers(stack'[t])
<1>1. CallStack(stack[t]) /\ CallStack(stack'[t])
  BY CallStacks
<1>2. /\ Len(stack'[t]) = k /\ DOMAIN stack'[t] = DOMAIN stack[t]
      /\ \A n \in DOMAIN stack[t] : stack'[t][n] = IF n = k THEN f ELSE stack[t][n]
      /\ stack'[t] # <<>> /\ stack'[t][Len(stack'[t])] = f
  BY Continued DEF Control
<1>3. k \in Nat \ {0} /\ DOMAIN stack[t] = 1..k
  BY FrameTyped DEF Control
<1>4. Holding(stack[t]) = k - 1 /\ Holding(stack'[t]) = k
  BY <1>2 DEF Holding, Running, Frame
<1>5. /\ a \in Seq(Consumer) /\ Len(a) = k - 1 /\ b \in Seq(Consumer) /\ Len(b) = k
      /\ \A n \in 1..(k - 1) : a[n] = AsConsumer(stack[t][n])
      /\ \A n \in 1..k : b[n] = AsConsumer(stack'[t][n])
  BY <1>1, <1>4, ConsumersAre
<1> HIDE DEF a, b, k
<1>6. AsConsumer(f) \in Consumer
  BY DEF Frames, Holds, Consumer, AsConsumer
<1>7. \A n \in 1..k : b[n] = IF n = k THEN AsConsumer(f) ELSE a[n]
  BY <1>2, <1>3, <1>5
<1> DEFINE c == Append(a, AsConsumer(f))
<1>8. c \in Seq(Consumer) /\ Len(c) = k /\ \A n \in 1..k : c[n] = IF n = k THEN AsConsumer(f) ELSE a[n]
  BY <1>3, <1>5, <1>6
<1> HIDE DEF c
<1>9. b = c
  BY <1>5, <1>7, <1>8, SeqEqual
<1>10. QED
  BY <1>9 DEF a, b, c

\* The consumer of the innermost call is called.
LEMMA DeliverConsumers ==
  ASSUME Control, [Next]_vars, NEW t \in Threads, Running(t), Holds(Frame(t)),
         NEW f \in Frames, Holds(f), Continue(t, f)
  PROVE  /\ Len(Consumers(stack[t])) = Len(stack[t])
         /\ Consumers(stack[t])[Len(stack[t])] = AsConsumer(Frame(t))
         /\ Consumers(stack[t]) # <<>>
         /\ Consumers(stack'[t]) = [Consumers(stack[t]) EXCEPT ![Len(stack[t])] = AsConsumer(f)]
<1> DEFINE k == Len(stack[t])
           a == Consumers(stack[t])
           b == Consumers(stack'[t])
<1>1. CallStack(stack[t]) /\ CallStack(stack'[t])
  BY CallStacks
<1>2. /\ Len(stack'[t]) = k /\ DOMAIN stack'[t] = DOMAIN stack[t]
      /\ \A n \in DOMAIN stack[t] : stack'[t][n] = IF n = k THEN f ELSE stack[t][n]
      /\ stack'[t] # <<>> /\ stack'[t][Len(stack'[t])] = f
  BY Continued DEF Control
<1>3. k \in Nat \ {0} /\ DOMAIN stack[t] = 1..k
  BY FrameTyped DEF Control
<1>4. Holding(stack[t]) = k /\ Holding(stack'[t]) = k
  BY <1>2 DEF Holding, Running, Frame
<1>5. /\ a \in Seq(Consumer) /\ Len(a) = k /\ b \in Seq(Consumer) /\ Len(b) = k
      /\ \A n \in 1..k : a[n] = AsConsumer(stack[t][n])
      /\ \A n \in 1..k : b[n] = AsConsumer(stack'[t][n])
  BY <1>1, <1>4, ConsumersAre
<1>6. a[k] = AsConsumer(Frame(t))
  BY <1>3, <1>5 DEF Frame
<1> HIDE DEF a, b, k
<1>7. AsConsumer(f) \in Consumer
  BY DEF Frames, Holds, Consumer, AsConsumer
<1>8. \A n \in 1..k : b[n] = IF n = k THEN AsConsumer(f) ELSE a[n]
  BY <1>2, <1>3, <1>5
<1> DEFINE c == [a EXCEPT ![k] = AsConsumer(f)]
<1>9. c \in Seq(Consumer) /\ Len(c) = k /\ \A n \in 1..k : c[n] = IF n = k THEN AsConsumer(f) ELSE a[n]
  BY <1>3, <1>5, <1>7
<1> HIDE DEF c
<1>10. b = c
  BY <1>5, <1>8, <1>9, SeqEqual
<1>11. a # <<>>
  BY <1>3, <1>5, EmptySequence
<1>12. QED
  BY <1>5, <1>6, <1>10, <1>11 DEF a, b, c, k

\* Of a thread: as many consumers as it has calls, or one less.
LEMMA ConsumersTyped ==
  ASSUME Control, NEW t \in Threads
  PROVE  /\ consumers[t] \in Seq(Consumer) /\ Len(consumers[t]) \in Nat
         /\ DOMAIN consumers[t] = 1..Len(consumers[t])
         /\ \A n \in DOMAIN consumers[t] :
              n \in DOMAIN stack[t] /\ consumers[t][n] = AsConsumer(stack[t][n])
<1>1. CallStack(stack[t])
  BY DEF Control, TypeOK, Stacks, CallStack
<1>2. consumers[t] = Consumers(stack[t])
  BY DEF consumers
<1> DEFINE c == Consumers(stack[t])
<1>3. /\ c \in Seq(Consumer) /\ Len(c) = Holding(stack[t])
      /\ \A n \in 1..Holding(stack[t]) : n \in DOMAIN stack[t] /\ c[n] = AsConsumer(stack[t][n])
  BY <1>1, ConsumersAre
<1> HIDE DEF c
<1>4. Len(c) \in Nat /\ DOMAIN c = 1..Len(c)
  BY <1>3
<1>5. QED
  BY <1>2, <1>3, <1>4 DEF c

-------------------------------------------------------------------------------
(* Each step is a step of LogQueue, or none *)

LEMMA OneThread ==
  ASSUME NEW t \in Threads, \A u \in Threads : u # t => stack'[u] = stack[u]
  PROVE  /\ consumers' = [consumers EXCEPT ![t] = Consumers(stack'[t])]
         /\ consumers[t] = Consumers(stack[t])
<1>1. consumers' = [u \in Threads |-> Consumers(stack'[u])]
  BY DEF consumers
<1>2. QED
  BY <1>1 DEF consumers

\* What a thread does alone with the mutex locked, and calls and returns.
LEMMA HiddenSteps ==
  ASSUME Control, [Next]_vars, NEW t \in Threads,
         \/ Lock(t) \/ LoadString(t) \/ EndPush(t) \/ SplitStrings(t) \/ ConsumerReturns(t)
  PROVE  UNCHANGED <<_stdio_strings, consumers, batches, written, taken>>
<1>1. Control
  OBVIOUS
<1>2. Running(t) /\ UNCHANGED <<_stdio_strings, batches, written, taken>>
  BY DEF Lock, LoadString, EndPush, SplitStrings, ConsumerReturns, At
<1>3. Frame(t) \in Frames /\ _stdio_strings \in Strings
  BY <1>1, <1>2, FrameTyped DEF Control, TypeOK
<1>4. ASSUME NEW f \in Frames, Continue(t, f), Holds(f) <=> Holds(Frame(t)),
             Holds(f) => AsConsumer(f) = AsConsumer(Frame(t))
      PROVE  consumers' = consumers
  <2>1. Consumers(stack'[t]) = Consumers(stack[t])
    BY <1>1, <1>2, <1>4, SameTop
  <2>2. \A u \in Threads : u # t => stack'[u] = stack[u]
    BY <1>1, <1>2, <1>4, Continued DEF Control
  <2>3. QED
    BY <2>1, <2>2 DEF consumers
<1>5. CASE Lock(t)
  <2> DEFINE f == [Frame(t) EXCEPT !.at = IF Frame(t).op = "write" THEN "load" ELSE "split"]
  <2>1. Frame(t).at = "lock" /\ Continue(t, f)
    BY <1>5 DEF Lock
  <2>2. f \in Frames /\ ~Holds(f) /\ ~Holds(Frame(t))
    BY <1>3, <2>1 DEF Frames, Holds
  <2> HIDE DEF f
  <2>3. QED
    BY <1>2, <1>4, <2>1, <2>2
<1>6. CASE LoadString(t)
  <2> DEFINE f == [Frame(t) EXCEPT !.at = "store", !.held = _stdio_strings[Frame(t).level]]
  <2>1. Frame(t).op = "write" /\ Continue(t, f)
    BY <1>6 DEF LoadString, At
  <2>2. _stdio_strings[Frame(t).level] \in Seq(Chars)
    BY <1>3, <2>1 DEF Frames, Strings
  <2>3. f \in Frames /\ ~Holds(f) /\ ~Holds(Frame(t))
    BY <1>3, <2>1, <2>2 DEF Frames, Holds
  <2> HIDE DEF f
  <2>4. QED
    BY <1>2, <1>4, <2>1, <2>3
<1>7. CASE EndPush(t)
  <2>1. Frame(t).op = "write" /\ ~Holds(Frame(t))
    BY <1>7 DEF EndPush, At, Holds
  <2>2. CASE Frame(t).left = 0
    <3>1. Return(t)
      BY <1>7, <2>2 DEF EndPush
    <3>2. Consumers(stack'[t]) = Consumers(stack[t])
      BY <1>1, <1>2, <2>1, <3>1, ReturnConsumers
    <3>3. \A u \in Threads : u # t => stack'[u] = stack[u]
      BY <1>1, <1>2, <3>1, Returned DEF Control
    <3>4. QED
      BY <1>2, <3>2, <3>3 DEF consumers
  <2>3. CASE Frame(t).left # 0
    <3> DEFINE f == [Frame(t) EXCEPT !.at = "lock"]
    <3>1. Continue(t, f)
      BY <1>7, <2>3 DEF EndPush
    <3>2. f \in Frames /\ ~Holds(f)
      BY <1>3, <2>1 DEF Frames, Holds
    <3> HIDE DEF f
    <3>3. QED
      BY <1>2, <1>4, <2>1, <3>1, <3>2
  <2>4. QED
    BY <2>2, <2>3
<1>8. CASE SplitStrings(t)
  <2> DEFINE f == [Frame(t) EXCEPT !.at = "clear", !.held = Entries(_stdio_strings)]
  <2>1. Frame(t).op = "consume" /\ Frame(t).at = "split" /\ Continue(t, f)
    BY <1>8 DEF SplitStrings, At
  <2>2. f \in Frames /\ ~Holds(f) /\ ~Holds(Frame(t))
    BY <1>3, <2>1, EntriesTyped DEF Frames, Holds
  <2> HIDE DEF f
  <2>3. QED
    BY <1>2, <1>4, <2>1, <2>2
<1>9. CASE ConsumerReturns(t)
  <2> DEFINE f == [Frame(t) EXCEPT !.at = "deliver"]
  <2>1. Frame(t).op = "consume" /\ Frame(t).at \in {"callback", "nested"} /\ Continue(t, f)
    BY <1>9 DEF ConsumerReturns, At
  <2>2. f \in Frames /\ Holds(f) /\ Holds(Frame(t)) /\ AsConsumer(f) = AsConsumer(Frame(t))
    BY <1>3, <2>1 DEF Frames, Holds, AsConsumer
  <2> HIDE DEF f
  <2>3. QED
    BY <1>2, <1>4, <2>1, <2>2
<1>10. QED
  BY <1>5, <1>6, <1>7, <1>8, <1>9

LEMMA BeginIsHidden ==
  ASSUME Control, [Next]_vars, NEW t \in Threads, Begin(t)
  PROVE  UNCHANGED <<_stdio_strings, consumers, batches, written, taken>>
<1>1. PICK f \in NewFrames : Call(t, f)
  BY BeginCalls
<1>2. \A u \in Threads : Consumers(stack'[u]) = Consumers(stack[u])
  BY <1>1, CallConsumers
<1>3. QED
  BY <1>1, <1>2 DEF Call, consumers

\* The string that is written back is the one that was read, and one text.
LEMMA StoreIsPrint ==
  ASSUME Control, [Next]_vars, NEW t \in Threads, StoreString(t)
  PROVE  /\ \E level \in Levels, text \in Prints[t] :
              /\ Queue!PrintText(level, text)
              /\ written' = [written EXCEPT ![level] = @ \o text]
         /\ taken' = taken
<1> DEFINE level == Frame(t).level
           f == [Frame(t) EXCEPT !.at = "unlock", !.held = <<>>, !.left = @ - 1]
<1>1. /\ Running(t) /\ Frame(t).op = "write" /\ Frame(t).at = "store" /\ Continue(t, f)
      /\ UNCHANGED <<taken, batches>>
  BY DEF StoreString, At
<1>2. PICK text \in Prints[t] :
        /\ _stdio_strings' = [_stdio_strings EXCEPT ![level] = Frame(t).held \o text]
        /\ written' = [written EXCEPT ![level] = @ \o text]
  BY DEF StoreString
<1>3. /\ Frame(t) \in Frames /\ level \in Levels /\ Frame(t).left \in 1..MaxIov
      /\ Frame(t).held = _stdio_strings[level]
  <2>1. Frame(t) \in Frames
    BY <1>1, FrameTyped DEF Control
  <2>2. Frame(t).left # 0 /\ Frame(t).held = _stdio_strings[level]
    BY <1>1 DEF Control, Pushes, Copies, At
  <2>3. Frame(t).left \in 0..MaxIov /\ level \in Levels
    BY <1>1, <2>1 DEF Frames
  <2>4. QED
    BY <2>1, <2>2, <2>3, LoggerOK
<1>4. f \in Frames /\ ~Holds(f) /\ ~Holds(Frame(t))
  <2>1. Frame(t).left - 1 \in 0..MaxIov /\ <<>> \in Seq(Chars)
    BY <1>3, LoggerOK
  <2>2. QED
    BY <1>1, <1>3, <2>1 DEF Frames, Holds
<1> HIDE DEF f
<1>5. Consumers(stack'[t]) = Consumers(stack[t])
  BY <1>1, <1>4, SameTop
<1>6. \A u \in Threads : u # t => stack'[u] = stack[u]
  BY <1>1, <1>4, Continued DEF Control
<1>7. consumers' = consumers
  BY <1>5, <1>6 DEF consumers
<1>8. _stdio_strings' = [_stdio_strings EXCEPT ![level] = @ \o text]
  BY <1>2, <1>3
<1>9. Queue!PrintText(level, text)
  BY <1>1, <1>7, <1>8 DEF Queue!PrintText, consumers
<1>10. QED
  BY <1>1, <1>2, <1>3, <1>9

\* Nobody else holds anything while a call takes all there is.
LEMMA ClearIsTake ==
  ASSUME Control, [Next]_vars, NEW t \in Threads, ClearStrings(t)
  PROVE  /\ Queue!Take(t)
         /\ taken' = [l \in Levels |-> taken[l] \o _stdio_strings[l]] /\ written' = written
<1> DEFINE f == [Frame(t) EXCEPT !.at = "deliver", !.batch = Len(batches) + 1]
           new == [batch |-> Len(batches) + 1, left |-> Entries(_stdio_strings)]
<1>1. /\ Running(t) /\ Frame(t).op = "consume" /\ Frame(t).at = "clear" /\ Continue(t, f)
      /\ _stdio_strings' = NoStrings /\ written' = written
      /\ batches' = Append(batches, [strings |-> _stdio_strings,
                                    outermost |-> Len(stack[t]) = 1, given |-> <<>>])
      /\ taken' = [l \in Levels |-> taken[l] \o _stdio_strings[l]]
  BY DEF ClearStrings, Take, At
<1>2. Frame(t) \in Frames /\ Frame(t).held = Entries(_stdio_strings) /\ Len(batches) + 1 \in Nat
  <2>1. Frame(t) \in Frames
    BY <1>1, FrameTyped DEF Control
  <2>2. QED
    BY <1>1, <2>1 DEF Control, Copies, At, TypeOK
<1>3. f \in Frames /\ Holds(f) /\ ~Holds(Frame(t)) /\ AsConsumer(f) = new
  BY <1>1, <1>2 DEF Frames, Holds, AsConsumer
<1> HIDE DEF f, new
<1>4. Consumers(stack'[t]) = Append(Consumers(stack[t]), new)
  BY <1>1, <1>3, TakeConsumers
<1>5. \A u \in Threads : u # t => stack'[u] = stack[u]
  BY <1>1, <1>3, Continued DEF Control
<1>6. consumers' = [consumers EXCEPT ![t] = Append(@, new)]
  BY <1>4, <1>5, OneThread
<1>7. ASSUME NEW u \in Threads \ {t}
      PROVE  consumers[u] = <<>>
  <2> DEFINE b == Consumers(stack[u])
  <2>1. /\ b \in Seq(Consumer) /\ Len(b) = Holding(stack[u])
        /\ \A n \in 1..Holding(stack[u]) : n \in DOMAIN stack[u]
    BY CallStacks, ConsumersAre
  <2>2. owner = t
    BY <1>1, Owns DEF Control
  <2>3. Locks(u) = 0
    BY <1>7, <2>2 DEF Control, Mutex
  <2>4. Holding(stack[u]) = 0
    BY <2>3 DEF Locks, Holding, Holds, Running, Frame
  <2> HIDE DEF b
  <2>5. b = <<>>
    BY <2>1, <2>4, EmptySequence
  <2>6. QED
    BY <2>5 DEF b, consumers
\* An outermost call is one that no consumer of the thread makes.
<1>8. Len(stack[t]) = 1 <=> consumers[t] = <<>>
  <2>1. Holding(stack[t]) = Len(stack[t]) - 1 /\ Len(stack[t]) \in Nat
    <3>1. Len(stack[t]) \in Nat
      BY <1>1, FrameTyped DEF Control
    <3>2. QED
      BY <1>1, <1>3, <3>1 DEF Holding, Running, Frame
  <2> DEFINE b == Consumers(stack[t])
  <2>2. b \in Seq(Consumer) /\ Len(b) = Holding(stack[t])
    BY CallStacks, ConsumersAre
  <2> HIDE DEF b
  <2>3. b = <<>> <=> Holding(stack[t]) = 0
    BY <2>2, EmptySequence
  <2>4. QED
    BY <2>1, <2>3 DEF b, consumers
<1>9. \A u \in Threads \ {t} : ~Queue!Consuming(u)
  BY <1>7 DEF Queue!Consuming, consumers
<1>10. Queue!Consuming(t) <=> Len(stack[t]) # 1
  BY <1>8 DEF Queue!Consuming, consumers
<1>11. batches' = Append(batches, [strings |-> _stdio_strings,
                                   outermost |-> ~Queue!Consuming(t), given |-> <<>>])
  <2>1. (Len(stack[t]) = 1) = (~Queue!Consuming(t))
    BY <1>10 DEF Queue!Consuming
  <2>2. QED
    BY <1>1, <2>1
<1>12. QED
  BY <1>1, <1>6, <1>9, <1>11
  DEF Queue!Take, Queue!Nothing, Queue!Levels, NoStrings, Levels, consumers, new

LEMMA CallIsDeliver ==
  ASSUME Control, [Next]_vars, NEW t \in Threads, CallConsumer(t)
  PROVE  Queue!Deliver(t) /\ UNCHANGED <<written, taken>>
<1> DEFINE held == Frame(t).held
           k == Frame(t).batch
           top == Len(stack[t])
           f == [Frame(t) EXCEPT !.at = "callback", !.held = Tail(@)]
<1>1. /\ Running(t) /\ Frame(t).op = "consume" /\ Frame(t).at = "deliver"
      /\ Continue(t, f) /\ held # <<>>
      /\ batches' = [batches EXCEPT ![k].given = Append(@, Head(held))]
      /\ UNCHANGED <<_stdio_strings, written, taken>>
  BY DEF CallConsumer, At
<1>2. Frame(t) \in Frames /\ held \in Seq(Entry)
  <2>1. Frame(t) \in Frames
    BY <1>1, FrameTyped DEF Control
  <2>2. QED
    BY <1>1, <2>1 DEF Frames
<1>3. Tail(held) \in Seq(Entry)
  BY <1>1, <1>2
<1>4. /\ f \in Frames /\ Holds(f) /\ Holds(Frame(t))
      /\ AsConsumer(Frame(t)) = [batch |-> k, left |-> held]
      /\ AsConsumer(f) = [batch |-> k, left |-> Tail(held)]
  BY <1>1, <1>2, <1>3 DEF Frames, Holds, AsConsumer
<1> HIDE DEF f, held, k
<1>5. /\ Len(consumers[t]) = top /\ consumers[t][top] = AsConsumer(Frame(t))
      /\ consumers[t] # <<>>
      /\ Consumers(stack'[t]) = [consumers[t] EXCEPT ![top] = AsConsumer(f)]
  <2>1. consumers[t] = Consumers(stack[t])
    BY DEF consumers
  <2>2. QED
    BY <1>1, <1>4, <2>1, DeliverConsumers
<1>6. consumers' = [consumers EXCEPT ![t] = [@ EXCEPT ![top] = AsConsumer(f)]]
  <2>1. \A u \in Threads : u # t => stack'[u] = stack[u]
    BY <1>1, <1>4, Continued DEF Control
  <2>2. QED
    BY <1>5, <2>1, OneThread
<1>7. AsConsumer(f) = [consumers[t][top] EXCEPT !.left = Tail(@)]
  <2> DEFINE r == consumers[t][top]
             rest == Tail(held)
  <2>1. r = [batch |-> k, left |-> held]
    BY <1>4, <1>5
  <2>2. Tail(r.left) = rest
    BY <2>1
  <2>3. AsConsumer(f) = [batch |-> k, left |-> rest]
    BY <1>4
  <2> HIDE DEF r, rest
  <2>4. [r EXCEPT !.left = rest] = [batch |-> k, left |-> rest]
    BY <2>1
  <2>5. [r EXCEPT !.left = Tail(@)] = AsConsumer(f)
    BY <2>2, <2>3, <2>4
  <2>6. QED
    BY <2>5 DEF r
<1> HIDE DEF top
<1>8. consumers' = [consumers EXCEPT ![t][Len(consumers[t])].left = Tail(@)]
  BY <1>5, <1>6, <1>7
<1>9. Queue!Consuming(t) /\ Queue!Innermost(t) = [batch |-> k, left |-> held]
  BY <1>4, <1>5 DEF Queue!Consuming, Queue!Innermost, consumers
<1>10. QED
  BY <1>1, <1>8, <1>9 DEF Queue!Deliver, consumers

LEMMA EndIsFinish ==
  ASSUME Control, [Next]_vars, NEW t \in Threads, EndConsume(t)
  PROVE  Queue!Finish(t) /\ UNCHANGED <<written, taken>>
<1>1. /\ Running(t) /\ Holds(Frame(t)) /\ Frame(t).held = <<>> /\ Return(t)
      /\ UNCHANGED <<_stdio_strings, batches, written, taken>>
  BY DEF EndConsume, At, Holds
<1> DEFINE b == Consumers(stack[t])
<1>2. Consumers(stack'[t]) = SubSeq(b, 1, Len(b) - 1)
  BY <1>1, ReturnConsumers
<1>3. \A u \in Threads : u # t => stack'[u] = stack[u]
  BY <1>1, Returned DEF Control
<1>4. consumers' = [consumers EXCEPT ![t] = SubSeq(@, 1, Len(@) - 1)] /\ consumers[t] = b
  BY <1>2, <1>3, OneThread
<1>5. b # <<>> /\ b[Len(b)].left = <<>>
  <2>1. /\ b \in Seq(Consumer) /\ Len(b) = Len(stack[t]) /\ Len(b) \in Nat \ {0}
        /\ \A n \in 1..Len(b) : b[n] = AsConsumer(stack[t][n])
    <3>1. CallStack(stack[t]) /\ Len(stack[t]) \in Nat \ {0}
      BY <1>1, CallStacks, FrameTyped DEF Control
    <3>2. Holding(stack[t]) = Len(stack[t])
      BY <1>1 DEF Holding, Running, Frame
    <3>3. QED
      BY <3>1, <3>2, ConsumersAre
  <2> HIDE DEF b
  <2>2. b # <<>> /\ Len(b) \in 1..Len(b)
    BY <2>1, EmptySequence
  <2>3. b[Len(b)] = AsConsumer(Frame(t))
    BY <2>1, <2>2 DEF Frame
  <2>4. AsConsumer(Frame(t)).left = Frame(t).held
    BY DEF AsConsumer
  <2>5. QED
    BY <1>1, <2>2, <2>3, <2>4
<1> HIDE DEF b
<1>6. QED
  BY <1>1, <1>4, <1>5 DEF Queue!Finish, Queue!Consuming, Queue!Innermost, consumers

-------------------------------------------------------------------------------
(* What becomes of the batches in the steps of LogQueue *)

LEMMA BatchTyped ==
  ASSUME Control
  PROVE  /\ batches \in Seq(Batch) /\ Len(batches) \in Nat
         /\ DOMAIN batches = 1..Len(batches)
         /\ \A k \in DOMAIN batches :
              /\ batches[k] \in Batch /\ batches[k].given \in Seq(Entry)
              /\ batches[k].strings \in Strings
<1>1. batches \in Seq(Batch)
  BY DEF Control, TypeOK, Batch
<1>2. Len(batches) \in Nat /\ DOMAIN batches = 1..Len(batches)
  BY <1>1
<1>3. ASSUME NEW k \in DOMAIN batches
      PROVE  batches[k] \in Batch
  BY <1>1, <1>2, <1>3, ElementOfSeq
<1>4. QED
  BY <1>1, <1>2, <1>3 DEF Batch

LEMMA DataKept ==
  ASSUME Data, UNCHANGED <<consumers, batches>>
  PROVE  Data'
<1>1. OwnBatches'
  <2>1. ASSUME NEW t \in Threads, NEW n \in DOMAIN consumers[t]
        PROVE  /\ consumers[t][n].batch \in DOMAIN batches'
               /\ batches'[consumers[t][n].batch].given \o consumers[t][n].left
                    = Entries(batches'[consumers[t][n].batch].strings)
    BY <2>1 DEF Data, OwnBatches
  <2>2. consumers' = consumers
    OBVIOUS
  <2>3. QED
    BY <2>1, <2>2 DEF Data, OwnBatches
<1>2. Accounted'
  BY DEF Data, Accounted, Complete
<1>3. Ordered'
  BY DEF Data, Ordered, Complete
<1>4. QED
  BY <1>1, <1>2, <1>3 DEF Data

\* Nobody consumes when an outermost call takes what there is: all that was taken
\* before has been given.
LEMMA TakeData ==
  ASSUME Control, Data, NEW t \in Threads, Queue!Take(t)
  PROVE  Data'
<1> DEFINE N == Len(batches) + 1
           b == [strings |-> _stdio_strings, outermost |-> consumers[t] = <<>>, given |-> <<>>]
           c == [batch |-> N, left |-> Entries(_stdio_strings)]
           K == Len(consumers[t]) + 1
<1>1. /\ \A u \in Threads : u # t => consumers[u] = <<>>
      /\ consumers' = [consumers EXCEPT ![t] = Append(@, c)]
  BY DEF Queue!Take, Queue!Consuming, consumers
<1>2. batches' = Append(batches, b)
  <2>1. (~Queue!Consuming(t)) = (consumers[t] = <<>>)
    BY DEF Queue!Consuming, consumers
  <2>2. QED
    BY <2>1 DEF Queue!Take
<1>3. consumers[t] \in Seq(Consumer) /\ Len(consumers[t]) \in Nat
      /\ DOMAIN consumers[t] = 1..Len(consumers[t])
  BY ConsumersTyped
<1>4. batches \in Seq(Batch) /\ Len(batches) \in Nat /\ DOMAIN batches = 1..Len(batches)
  BY BatchTyped
<1>5. Entries(_stdio_strings) \in Seq(Entry)
  BY EntriesTyped DEF Control, TypeOK
<1>6. b.strings = _stdio_strings /\ b.given = <<>> /\ b.outermost = (consumers[t] = <<>>)
      /\ c.batch = N /\ c.left = Entries(_stdio_strings)
  OBVIOUS
<1> HIDE DEF b, c
<1>7. /\ DOMAIN batches' = 1..N /\ batches'[N] = b /\ N \in 1..N
      /\ \A k \in 1..Len(batches) : k \in 1..N /\ k # N /\ batches'[k] = batches[k]
      /\ \A k \in 1..N : k = N \/ k \in 1..Len(batches)
  BY <1>2, <1>4, AppendProperties
<1>8. /\ DOMAIN consumers'[t] = 1..K /\ consumers'[t][K] = c /\ K \in 1..K
      /\ \A n \in 1..Len(consumers[t]) : n \in 1..K /\ n # K /\ consumers'[t][n] = consumers[t][n]
      /\ \A n \in 1..K : n = K \/ n \in 1..Len(consumers[t])
  <2>1. consumers'[t] = Append(consumers[t], c)
    BY <1>1 DEF consumers
  <2> DEFINE s == consumers[t]
  <2>2. s \in Seq(Consumer) /\ Len(s) \in Nat
    BY <1>3
  <2> HIDE DEF s
  <2>3. /\ DOMAIN Append(s, c) = 1..(Len(s) + 1) /\ Append(s, c)[Len(s) + 1] = c
        /\ \A n \in 1..Len(s) : n \in 1..(Len(s) + 1) /\ n # Len(s) + 1 /\ Append(s, c)[n] = s[n]
        /\ \A n \in 1..(Len(s) + 1) : n = Len(s) + 1 \/ n \in 1..Len(s)
        /\ Len(s) + 1 \in 1..(Len(s) + 1)
    BY <2>2
  <2>4. QED
    BY <2>1, <2>3 DEF s
<1> HIDE DEF N, K
\* Only this thread consumes.
<1>9. \A u \in Threads : u # t => consumers'[u] = <<>> /\ DOMAIN consumers'[u] = {}
                                  /\ DOMAIN consumers[u] = {}
  <2>1. \A u \in Threads : u # t => consumers'[u] = consumers[u]
    <3>1. DOMAIN consumers = Threads
      BY DEF consumers
    <3>2. QED
      BY <1>1, <3>1
  <2>2. DOMAIN <<>> = {}
    OBVIOUS
  <2>3. QED
    BY <1>1, <2>1, <2>2
<1>10. \A n \in 1..Len(consumers[t]) : consumers[t][n].batch \in 1..Len(batches)
  BY <1>3, <1>4 DEF Data, OwnBatches
<1>11. OwnBatches'
  <2>1. ASSUME NEW u \in Threads, NEW n \in DOMAIN consumers'[u]
        PROVE  /\ consumers'[u][n].batch \in DOMAIN batches'
               /\ batches'[consumers'[u][n].batch].given \o consumers'[u][n].left
                    = Entries(batches'[consumers'[u][n].batch].strings)
    <3>1. u = t /\ n \in 1..K
      BY <1>8, <1>9, <2>1
    <3>2. CASE n = K
      <4>1. <<>> \o Entries(_stdio_strings) = Entries(_stdio_strings)
        BY <1>5
      <4>2. QED
        BY <1>6, <1>7, <1>8, <3>1, <3>2, <4>1
    <3>3. CASE n \in 1..Len(consumers[t])
      <4>1. consumers'[t][n] = consumers[t][n] /\ consumers[t][n].batch \in 1..Len(batches)
        BY <1>8, <1>10, <3>3
      <4>2. batches[consumers[t][n].batch].given \o consumers[t][n].left
              = Entries(batches[consumers[t][n].batch].strings)
        BY <1>3, <3>3 DEF Data, OwnBatches
      <4>3. QED
        BY <1>7, <3>1, <4>1, <4>2
    <3>4. QED
      BY <1>8, <3>1, <3>2, <3>3
  <2>2. ASSUME NEW u \in Threads, NEW v \in Threads,
               NEW m \in DOMAIN consumers'[u], NEW n \in DOMAIN consumers'[v],
               consumers'[u][m].batch = consumers'[v][n].batch
        PROVE  u = v /\ m = n
    <3>1. u = t /\ v = t /\ m \in 1..K /\ n \in 1..K
      BY <1>8, <1>9, <2>2
    <3>2. ASSUME NEW k \in 1..Len(consumers[t])
          PROVE  consumers'[t][k].batch = consumers[t][k].batch
                 /\ consumers'[t][k].batch # N
      BY <1>7, <1>8, <1>10, <3>2
    <3>3. consumers'[t][K].batch = N
      BY <1>6, <1>8
    <3>4. CASE m = K
      BY <1>8, <2>2, <3>1, <3>2, <3>3, <3>4
    <3>5. CASE n = K
      BY <1>8, <2>2, <3>1, <3>2, <3>3, <3>5
    <3>6. CASE m \in 1..Len(consumers[t]) /\ n \in 1..Len(consumers[t])
      <4>1. consumers[t][m].batch = consumers[t][n].batch
        BY <2>2, <3>1, <3>2, <3>6
      <4>2. QED
        BY <1>3, <3>1, <3>6, <4>1 DEF Data, OwnBatches
    <3>7. QED
      BY <1>8, <3>1, <3>4, <3>5, <3>6
  <2>3. QED
    BY <2>1, <2>2 DEF OwnBatches
<1>12. \A k \in 1..Len(batches) : Complete(batches[k]) => Complete(batches'[k])
  BY <1>7
<1>13. Accounted'
  <2>1. ASSUME NEW k \in 1..N
        PROVE  \/ Complete(batches'[k])
               \/ \E u \in Threads : \E n \in DOMAIN consumers'[u] : consumers'[u][n].batch = k
    <3>1. CASE k = N
      BY <1>6, <1>8, <3>1
    <3>2. CASE k \in 1..Len(batches)
      <4>1. CASE Complete(batches[k])
        BY <1>12, <3>2, <4>1
      <4>2. CASE ~Complete(batches[k])
        <5>1. PICK u \in Threads : \E n \in DOMAIN consumers[u] : consumers[u][n].batch = k
          BY <1>4, <3>2, <4>2 DEF Data, Accounted
        <5>2. u = t
          BY <1>9, <5>1
        <5>3. PICK n \in 1..Len(consumers[t]) : consumers[t][n].batch = k
          BY <1>3, <5>1, <5>2
        <5>4. n \in DOMAIN consumers'[t] /\ consumers'[t][n].batch = k
          BY <1>8, <5>3
        <5>5. QED
          BY <5>4
      <4>3. QED
        BY <4>1, <4>2
    <3>3. QED
      BY <1>7, <3>1, <3>2
  <2>2. QED
    BY <1>7, <2>1 DEF Accounted, Complete
<1>14. Ordered'
  <2>1. ASSUME NEW j \in 1..N, NEW k \in 1..N, j < k, batches'[k].outermost
        PROVE  Complete(batches'[j])
    <3>1. j \in 1..Len(batches)
      BY <1>4, <2>1 DEF N
    <3>2. CASE k = N
      <4>1. consumers[t] = <<>>
        BY <1>6, <1>7, <2>1, <3>2
      <4>2. \A u \in Threads : DOMAIN consumers[u] = {}
        BY <1>3, <1>9, <4>1
      <4>3. Complete(batches[j])
        BY <1>4, <3>1, <4>2 DEF Data, Accounted
      <4>4. QED
        BY <1>12, <3>1, <4>3
    <3>3. CASE k \in 1..Len(batches)
      <4>1. Complete(batches[j])
        BY <1>4, <1>7, <2>1, <3>1, <3>3 DEF Data, Ordered
      <4>2. QED
        BY <1>12, <3>1, <4>1
    <3>4. QED
      BY <1>7, <3>2, <3>3
  <2>2. QED
    BY <1>7, <2>1 DEF Ordered, Complete
<1>15. QED
  BY <1>11, <1>13, <1>14 DEF Data

LEMMA HeadMoves ==
  ASSUME NEW S, NEW s \in Seq(S), NEW r \in Seq(S), r # <<>>
  PROVE  /\ Append(s, Head(r)) \o Tail(r) = s \o r
         /\ Head(r) \in S /\ Tail(r) \in Seq(S)
<1>1. /\ Head(r) \in S /\ Tail(r) \in Seq(S) /\ <<Head(r)>> \in Seq(S)
      /\ Append(s, Head(r)) = s \o <<Head(r)>>
  BY AppendIsConcat
<1>2. r = <<Head(r)>> \o Tail(r)
  <2> DEFINE q == <<Head(r)>> \o Tail(r)
  <2>1. /\ q \in Seq(S) /\ Len(q) = Len(r) /\ \A n \in 1..Len(r) : q[n] = r[n]
    BY <1>1
  <2> HIDE DEF q
  <2>2. q = r
    BY <2>1, SeqEqual
  <2>3. QED
    BY <2>2 DEF q
<1>3. (s \o <<Head(r)>>) \o Tail(r) = s \o (<<Head(r)>> \o Tail(r))
  BY <1>1, ConcatAssociative
<1>4. QED
  BY <1>1, <1>2, <1>3

LEMMA NothingMore ==
  ASSUME NEW S, NEW s \in Seq(S), NEW r \in Seq(S), s \o r = s
  PROVE  r = <<>>
<1>1. Len(s \o r) = Len(s) + Len(r) /\ Len(s) \in Nat /\ Len(r) \in Nat
  BY ConcatProperties
<1>2. Len(r) = 0
  BY <1>1
<1>3. QED
  BY <1>2, EmptySequence

\* The consumer of a batch is called with what comes next in it.
LEMMA DeliverData ==
  ASSUME Control, Data, NEW t \in Threads, Queue!Deliver(t)
  PROVE  Data'
<1> DEFINE top == Len(consumers[t])
           c == consumers[t][top]
           k == c.batch
           left == c.left
           given == Append(batches[k].given, Head(left))
<1>1. /\ consumers[t] # <<>> /\ left # <<>>
      /\ batches' = [batches EXCEPT ![k].given = Append(@, Head(left))]
      /\ consumers' = [consumers EXCEPT ![t][top].left = Tail(@)]
  BY DEF Queue!Deliver, Queue!Consuming, Queue!Innermost, consumers
<1>2. consumers[t] \in Seq(Consumer) /\ top \in 1..top /\ DOMAIN consumers[t] = 1..top
  <2>1. /\ consumers[t] \in Seq(Consumer) /\ Len(consumers[t]) \in Nat
        /\ DOMAIN consumers[t] = 1..Len(consumers[t])
    BY ConsumersTyped
  <2> DEFINE s == consumers[t]
  <2>2. s \in Seq(Consumer) /\ s # <<>>
    BY <1>1, <2>1
  <2> HIDE DEF s
  <2>3. Len(s) # 0
    BY <2>2, EmptySequence
  <2>4. QED
    BY <2>1, <2>3 DEF s
<1>3. c \in Consumer /\ left \in Seq(Entry)
  <2>1. c \in Consumer
    BY <1>2, ElementOfSeq
  <2>2. QED
    BY <2>1 DEF Consumer
<1>4. k \in DOMAIN batches /\ batches[k].given \o left = Entries(batches[k].strings)
  BY <1>2 DEF Data, OwnBatches
<1>5. batches[k] \in Batch /\ batches[k].given \in Seq(Entry)
  BY <1>4, BatchTyped
<1>6. given \o Tail(left) = batches[k].given \o left
  <2> DEFINE s == batches[k].given
  <2> HIDE DEF s, left
  <2>1. s \in Seq(Entry) /\ left \in Seq(Entry) /\ left # <<>>
    BY <1>1, <1>3, <1>5 DEF s
  <2>2. Append(s, Head(left)) \o Tail(left) = s \o left
    BY <2>1, HeadMoves
  <2>3. QED
    BY <2>2 DEF s
<1>7. /\ DOMAIN batches' = DOMAIN batches
      /\ batches'[k].given = given /\ batches'[k].strings = batches[k].strings
      /\ batches'[k].outermost = batches[k].outermost
      /\ \A j \in DOMAIN batches : j # k => batches'[j] = batches[j]
  <2> DEFINE b == [batches[k] EXCEPT !.given = given]
  <2>1. batches' = [batches EXCEPT ![k] = b]
    BY <1>1
  <2>2. b.given = given /\ b.strings = batches[k].strings /\ b.outermost = batches[k].outermost
    BY <1>5 DEF Batch
  <2> HIDE DEF b, given, k, c
  <2>3. QED
    BY <1>4, <2>1, <2>2
<1>8. /\ \A u \in Threads : DOMAIN consumers'[u] = DOMAIN consumers[u]
      /\ consumers'[t][top].batch = k /\ consumers'[t][top].left = Tail(left)
      /\ \A u \in Threads : \A n \in DOMAIN consumers[u] :
           u # t \/ n # top => consumers'[u][n] = consumers[u][n]
  <2> DEFINE d == [c EXCEPT !.left = Tail(@)]
             s == [consumers[t] EXCEPT ![top] = d]
  <2>1. consumers' = [consumers EXCEPT ![t] = s]
    BY <1>1
  <2>2. d.batch = k /\ d.left = Tail(left)
    BY <1>3 DEF Consumer
  <2> HIDE DEF d
  <2>3. DOMAIN s = DOMAIN consumers[t] /\ s[top] = d
        /\ \A n \in DOMAIN consumers[t] : n # top => s[n] = consumers[t][n]
    BY <1>2
  <2> HIDE DEF s
  <2>4. DOMAIN consumers = Threads
    BY DEF consumers
  <2>5. consumers'[t] = s /\ \A u \in Threads : u # t => consumers'[u] = consumers[u]
    BY <2>1, <2>4
  <2> HIDE DEF k, left
  <2>6. QED
    BY <2>2, <2>3, <2>5
<1>9. consumers[t][top].batch = k
  OBVIOUS
<1>10. left # <<>> /\ left \in Seq(Entry) /\ top \in DOMAIN consumers[t]
  BY <1>1, <1>2, <1>3
<1> HIDE DEF top, c, k, left, given
\* Nobody else consumes the batch.
<1>11. \A u \in Threads : \A n \in DOMAIN consumers[u] :
         /\ u # t \/ n # top => consumers[u][n].batch # k
         /\ consumers'[u][n].batch = consumers[u][n].batch
  <2>1. \A u \in Threads : \A n \in DOMAIN consumers[u] :
          consumers[u][n].batch = consumers[t][top].batch => u = t /\ n = top
    BY <1>10 DEF Data, OwnBatches
  <2>2. QED
    BY <1>8, <1>9, <2>1
<1>12. OwnBatches'
  <2>1. ASSUME NEW u \in Threads, NEW n \in DOMAIN consumers'[u]
        PROVE  /\ consumers'[u][n].batch \in DOMAIN batches'
               /\ batches'[consumers'[u][n].batch].given \o consumers'[u][n].left
                    = Entries(batches'[consumers'[u][n].batch].strings)
    <3>1. n \in DOMAIN consumers[u]
      BY <1>8, <2>1
    <3>2. CASE u = t /\ n = top
      BY <1>4, <1>6, <1>7, <1>8, <3>2
    <3>3. CASE u # t \/ n # top
      <4>1. consumers'[u][n] = consumers[u][n] /\ consumers[u][n].batch # k
        BY <1>8, <1>11, <3>1, <3>3
      <4>2. /\ consumers[u][n].batch \in DOMAIN batches
            /\ batches[consumers[u][n].batch].given \o consumers[u][n].left
                 = Entries(batches[consumers[u][n].batch].strings)
        BY <3>1 DEF Data, OwnBatches
      <4>3. QED
        BY <1>7, <4>1, <4>2
    <3>4. QED
      BY <3>2, <3>3
  <2>2. ASSUME NEW u \in Threads, NEW v \in Threads,
               NEW m \in DOMAIN consumers'[u], NEW n \in DOMAIN consumers'[v],
               consumers'[u][m].batch = consumers'[v][n].batch
        PROVE  u = v /\ m = n
    <3>1. /\ m \in DOMAIN consumers[u] /\ n \in DOMAIN consumers[v]
          /\ consumers[u][m].batch = consumers[v][n].batch
      BY <1>8, <1>11, <2>2
    <3>2. QED
      BY <3>1 DEF Data, OwnBatches
  <2>3. QED
    BY <2>1, <2>2 DEF OwnBatches
<1>13. \A j \in DOMAIN batches : j # k /\ Complete(batches[j]) => Complete(batches'[j])
  BY <1>7
<1>14. ~Complete(batches[k])
  <2> DEFINE s == batches[k].given
  <2>1. s \in Seq(Entry)
    BY <1>5
  <2> HIDE DEF s
  <2>2. s \o left # s
    BY <1>10, <2>1, NothingMore
  <2>3. QED
    BY <1>4, <2>2 DEF Complete, s
<1>15. Accounted'
  <2>1. ASSUME NEW j \in DOMAIN batches
        PROVE  \/ Complete(batches'[j])
               \/ \E u \in Threads : \E n \in DOMAIN consumers'[u] : consumers'[u][n].batch = j
    <3>1. CASE Complete(batches[j])
      BY <1>13, <1>14, <3>1
    <3>2. CASE ~Complete(batches[j])
      <4>1. PICK u \in Threads : \E n \in DOMAIN consumers[u] : consumers[u][n].batch = j
        BY <3>2 DEF Data, Accounted
      <4>2. PICK n \in DOMAIN consumers[u] : consumers[u][n].batch = j
        BY <4>1
      <4>3. n \in DOMAIN consumers'[u] /\ consumers'[u][n].batch = j
        BY <1>8, <1>11, <4>2
      <4>4. QED
        BY <4>3
    <3>3. QED
      BY <3>1, <3>2
  <2>2. QED
    BY <1>7, <2>1 DEF Accounted, Complete
<1>16. Ordered'
  <2>1. ASSUME NEW j \in DOMAIN batches, NEW m \in DOMAIN batches, j < m, batches'[m].outermost
        PROVE  Complete(batches'[j])
    <3>1. batches[m].outermost
      BY <1>7, <2>1
    <3>2. Complete(batches[j])
      BY <2>1, <3>1 DEF Data, Ordered
    <3>3. QED
      BY <1>13, <1>14, <3>2
  <2>2. QED
    BY <1>7, <2>1 DEF Ordered, Complete
<1>17. QED
  BY <1>12, <1>15, <1>16 DEF Data

\* A consumer is done when it has been called with all of its batch.
LEMMA FinishData ==
  ASSUME Control, Data, NEW t \in Threads, Queue!Finish(t)
  PROVE  Data'
<1> DEFINE top == Len(consumers[t])
           k == consumers[t][top].batch
<1>1. /\ consumers[t] # <<>> /\ consumers[t][top].left = <<>> /\ batches' = batches
      /\ consumers' = [consumers EXCEPT ![t] = SubSeq(@, 1, Len(@) - 1)]
  BY DEF Queue!Finish, Queue!Consuming, Queue!Innermost, consumers
<1>2. consumers[t] \in Seq(Consumer) /\ top \in Nat \ {0} /\ DOMAIN consumers[t] = 1..top
  <2>1. /\ consumers[t] \in Seq(Consumer) /\ Len(consumers[t]) \in Nat
        /\ DOMAIN consumers[t] = 1..Len(consumers[t])
    BY ConsumersTyped
  <2> DEFINE s == consumers[t]
  <2>2. s \in Seq(Consumer) /\ s # <<>>
    BY <1>1, <2>1
  <2> HIDE DEF s
  <2>3. Len(s) # 0
    BY <2>2, EmptySequence
  <2>4. QED
    BY <2>1, <2>3 DEF s
<1>3. /\ DOMAIN consumers'[t] = 1..(top - 1)
      /\ \A n \in 1..(top - 1) : consumers'[t][n] = consumers[t][n]
      /\ \A u \in Threads : u # t => consumers'[u] = consumers[u]
  <2> DEFINE s == SubSeq(consumers[t], 1, top - 1)
  <2>1. consumers' = [consumers EXCEPT ![t] = s]
    BY <1>1
  <2>2. DOMAIN s = 1..(top - 1) /\ \A n \in 1..(top - 1) : s[n] = consumers[t][n]
    <3> DEFINE a == consumers[t]
    <3>1. a \in Seq(Consumer) /\ top = Len(a) /\ top \in Nat \ {0}
      BY <1>2
    <3> HIDE DEF a, top
    <3>2. DOMAIN SubSeq(a, 1, top - 1) = 1..(top - 1)
          /\ \A n \in 1..(top - 1) : SubSeq(a, 1, top - 1)[n] = a[n]
      BY <3>1
    <3>3. QED
      BY <3>2 DEF a
  <2> HIDE DEF s, top
  <2>3. DOMAIN consumers = Threads
    BY DEF consumers
  <2>4. consumers'[t] = s /\ \A u \in Threads : u # t => consumers'[u] = consumers[u]
    BY <2>1, <2>3
  <2>5. QED
    BY <2>2, <2>4
<1>4. k \in DOMAIN batches /\ batches[k].given \o <<>> = Entries(batches[k].strings)
  <2>1. top \in DOMAIN consumers[t]
    BY <1>2
  <2>2. QED
    BY <1>1, <2>1 DEF Data, OwnBatches
<1>5. Complete(batches[k])
  <2> DEFINE s == batches[k].given
  <2>1. s \in Seq(Entry)
    BY <1>4, BatchTyped
  <2> HIDE DEF s
  <2>2. s \o <<>> = s
    BY <2>1, ConcatEmptySeq
  <2>3. QED
    BY <1>4, <2>2 DEF Complete, s
<1>6. \A u \in Threads : \A n \in DOMAIN consumers'[u] :
        n \in DOMAIN consumers[u] /\ consumers'[u][n] = consumers[u][n]
  <2>1. \A n \in 1..(top - 1) : n \in 1..top
    BY <1>2
  <2> HIDE DEF top
  <2>2. QED
    BY <1>2, <1>3, <2>1
<1>7. \A u \in Threads : \A n \in DOMAIN consumers[u] :
        consumers[u][n].batch # k => n \in DOMAIN consumers'[u]
  <2>1. ASSUME NEW n \in DOMAIN consumers[t], n # top
        PROVE  n \in 1..(top - 1)
    BY <1>2, <2>1
  <2>2. QED
    BY <1>3, <2>1
<1> HIDE DEF top, k
<1>8. OwnBatches'
  <2>1. ASSUME NEW u \in Threads, NEW n \in DOMAIN consumers'[u]
        PROVE  /\ consumers'[u][n].batch \in DOMAIN batches'
               /\ batches'[consumers'[u][n].batch].given \o consumers'[u][n].left
                    = Entries(batches'[consumers'[u][n].batch].strings)
    <3>1. n \in DOMAIN consumers[u] /\ consumers'[u][n] = consumers[u][n]
      BY <1>6, <2>1
    <3>2. /\ consumers[u][n].batch \in DOMAIN batches
          /\ batches[consumers[u][n].batch].given \o consumers[u][n].left
               = Entries(batches[consumers[u][n].batch].strings)
      BY <3>1 DEF Data, OwnBatches
    <3>3. QED
      BY <1>1, <3>1, <3>2
  <2>2. ASSUME NEW u \in Threads, NEW v \in Threads,
               NEW m \in DOMAIN consumers'[u], NEW n \in DOMAIN consumers'[v],
               consumers'[u][m].batch = consumers'[v][n].batch
        PROVE  u = v /\ m = n
    <3>1. /\ m \in DOMAIN consumers[u] /\ n \in DOMAIN consumers[v]
          /\ consumers[u][m].batch = consumers[v][n].batch
      BY <1>6, <2>2
    <3>2. QED
      BY <3>1 DEF Data, OwnBatches
  <2>3. QED
    BY <2>1, <2>2 DEF OwnBatches
<1>9. Accounted'
  <2>1. ASSUME NEW j \in DOMAIN batches, ~Complete(batches[j])
        PROVE  \E u \in Threads : \E n \in DOMAIN consumers'[u] : consumers'[u][n].batch = j
    <3>1. PICK u \in Threads : \E n \in DOMAIN consumers[u] : consumers[u][n].batch = j
      BY <2>1 DEF Data, Accounted
    <3>2. PICK n \in DOMAIN consumers[u] : consumers[u][n].batch = j
      BY <3>1
    <3>3. n \in DOMAIN consumers'[u] /\ consumers'[u][n].batch = j
      BY <1>5, <1>6, <1>7, <2>1, <3>2
    <3>4. QED
      BY <3>3
  <2>2. QED
    BY <1>1, <2>1 DEF Accounted, Complete
<1>10. Ordered'
  BY <1>1 DEF Data, Ordered, Complete
<1>11. QED
  BY <1>8, <1>9, <1>10 DEF Data

-------------------------------------------------------------------------------
(* Every step *)

LEMMA InvNext ==
  ASSUME Inv, [Next]_vars
  PROVE  Inv'
<1>1. Control /\ Control' /\ NothingLost /\ Data
  BY ControlNext DEF Inv
<1>2. ASSUME UNCHANGED <<_stdio_strings, consumers, batches, written, taken>>
      PROVE  NothingLost' /\ Data'
  BY <1>1, <1>2, DataKept DEF NothingLost
<1>3. CASE UNCHANGED vars
  <2>1. consumers' = consumers
    BY <1>3 DEF vars, consumers
  <2>2. QED
    BY <1>1, <1>2, <1>3, <2>1 DEF vars, Inv
<1>4. ASSUME NEW t \in Threads, Begin(t)
      PROVE  NothingLost' /\ Data'
  BY <1>1, <1>2, <1>4, BeginIsHidden
<1>5. ASSUME NEW l \in Levels
      PROVE  /\ taken[l] \in Seq(Chars) /\ _stdio_strings[l] \in Seq(Chars)
             /\ written[l] = taken[l] \o _stdio_strings[l]
  BY <1>1 DEF Control, TypeOK, Strings, NothingLost
<1>6. ASSUME NEW t \in Threads, StoreString(t)
      PROVE  NothingLost' /\ Data'
  <2>1. taken' = taken
    BY <1>1, <1>6, StoreIsPrint
  <2>2. PICK level \in Levels, text \in Prints[t] :
          /\ Queue!PrintText(level, text)
          /\ written' = [written EXCEPT ![level] = @ \o text]
    BY <1>1, <1>6, StoreIsPrint
  <2>3. /\ _stdio_strings' = [_stdio_strings EXCEPT ![level] = @ \o text]
        /\ UNCHANGED <<consumers, batches>>
    BY <2>2 DEF Queue!PrintText, consumers
  <2>4. ASSUME NEW l \in Levels
        PROVE  written'[l] = taken'[l] \o _stdio_strings'[l]
    <3>1. written \in Strings /\ _stdio_strings \in Strings
      BY <1>1 DEF Control, TypeOK
    <3>2. CASE l = level
      <4>1. text \in Seq(Chars)
        BY LoggerOK
      <4>2. (taken[l] \o _stdio_strings[l]) \o text = taken[l] \o (_stdio_strings[l] \o text)
        <5> DEFINE a == taken[l]
                   b == _stdio_strings[l]
        <5>1. a \in Seq(Chars) /\ b \in Seq(Chars)
          BY <1>5
        <5> HIDE DEF a, b
        <5>2. (a \o b) \o text = a \o (b \o text)
          BY <4>1, <5>1, ConcatAssociative
        <5>3. QED
          BY <5>2 DEF a, b
      <4>3. written'[l] = written[l] \o text /\ _stdio_strings'[l] = _stdio_strings[l] \o text
        BY <2>2, <2>3, <3>1, <3>2 DEF Strings
      <4>4. QED
        BY <1>5, <2>1, <4>2, <4>3
    <3>3. CASE l # level
      <4>1. written'[l] = written[l] /\ _stdio_strings'[l] = _stdio_strings[l]
        BY <2>2, <2>3, <3>1, <3>3 DEF Strings
      <4>2. QED
        BY <1>5, <2>1, <4>1
    <3>4. QED
      BY <3>2, <3>3
  <2>5. NothingLost'
    BY <2>4 DEF NothingLost
  <2>6. QED
    BY <1>1, <2>3, <2>5, DataKept
<1>7. ASSUME NEW t \in Threads, ClearStrings(t)
      PROVE  NothingLost' /\ Data'
  <2>1. /\ Queue!Take(t) /\ written' = written
        /\ taken' = [l \in Levels |-> taken[l] \o _stdio_strings[l]]
    BY <1>1, <1>7, ClearIsTake
  <2>2. _stdio_strings' = NoStrings
    BY <1>7 DEF ClearStrings
  <2>3. ASSUME NEW l \in Levels
        PROVE  written'[l] = taken'[l] \o _stdio_strings'[l]
    <3>1. taken'[l] = taken[l] \o _stdio_strings[l] /\ _stdio_strings'[l] = <<>>
      BY <2>1, <2>2 DEF NoStrings
    <3>2. taken[l] \o _stdio_strings[l] \in Seq(Chars)
      BY <1>5, ConcatProperties
    <3>3. (taken[l] \o _stdio_strings[l]) \o <<>> = taken[l] \o _stdio_strings[l]
      BY <3>2, ConcatEmptySeq
    <3>4. QED
      BY <1>5, <2>1, <3>1, <3>3
  <2>4. NothingLost'
    BY <2>3 DEF NothingLost
  <2>5. QED
    BY <1>1, <2>1, <2>4, TakeData
<1>8. ASSUME NEW t \in Threads, CallConsumer(t)
      PROVE  NothingLost' /\ Data'
  <2>1. Queue!Deliver(t) /\ UNCHANGED <<written, taken>> /\ _stdio_strings' = _stdio_strings
    BY <1>1, <1>8, CallIsDeliver DEF CallConsumer
  <2>2. QED
    BY <1>1, <2>1, DeliverData DEF NothingLost
<1>9. ASSUME NEW t \in Threads, EndConsume(t)
      PROVE  NothingLost' /\ Data'
  <2>1. Queue!Finish(t) /\ UNCHANGED <<written, taken>> /\ _stdio_strings' = _stdio_strings
    BY <1>1, <1>9, EndIsFinish DEF EndConsume
  <2>2. QED
    BY <1>1, <2>1, FinishData DEF NothingLost
<1>10. ASSUME NEW t \in Threads, Step(t)
       PROVE  NothingLost' /\ Data'
  BY <1>1, <1>2, <1>6, <1>7, <1>8, <1>9, <1>10, HiddenSteps DEF Step
<1>11. QED
  BY <1>1, <1>3, <1>4, <1>10 DEF Next, Inv

LEMMA NobodyConsumes ==
  ASSUME Init, NEW t \in Threads
  PROVE  consumers[t] = <<>>
<1>1. stack[t] = <<>> /\ CallStack(stack[t]) /\ Holding(stack[t]) = 0
  BY DEF Init, CallStack, Holding
<1> DEFINE b == Consumers(stack[t])
<1>2. b \in Seq(Consumer) /\ Len(b) = 0
  BY <1>1, ConsumersAre
<1> HIDE DEF b
<1>3. b = <<>>
  BY <1>2, EmptySequence
<1>4. QED
  BY <1>3 DEF b, consumers

LEMMA InvInit ==
  ASSUME Init
  PROVE  Inv
<1>1. NoStrings \in Strings /\ \A l \in Levels : NoStrings[l] = <<>>
  BY DEF NoStrings, Strings
<1>2. \A t \in Threads : stack[t] = <<>> /\ ~Running(t)
  BY DEF Init, Running
<1>3. Control
  <2>1. TypeOK
    <3>1. stack \in [Threads -> Seq(Frames)] /\ batches \in Seq(Batch)
      BY DEF Init
    <3>2. QED
      BY <1>1, <3>1, LoggerOK DEF Init, TypeOK, Batch
  <2>2. Stacks /\ Copies /\ Pushes
    BY <1>2 DEF Stacks, Copies, Pushes, At
  <2>3. Mutex
    BY <1>2 DEF Init, Mutex, Locks
  <2>4. QED
    BY <2>1, <2>2, <2>3 DEF Control
<1>4. NothingLost
  <2>1. <<>> \o <<>> = <<>>
    OBVIOUS
  <2>2. QED
    BY <1>1, <2>1 DEF Init, NothingLost
<1>5. Data
  <2>1. DOMAIN <<>> = {}
    OBVIOUS
  <2>2. DOMAIN batches = {} /\ \A t \in Threads : DOMAIN consumers[t] = {}
    BY <2>1, NobodyConsumes DEF Init
  <2>3. QED
    BY <2>2 DEF Data, OwnBatches, Accounted, Ordered
<1>6. QED
  BY <1>3, <1>4, <1>5 DEF Inv

\* What a call holds is what its consumer has yet to get.
LEMMA OnceFromInv ==
  ASSUME Inv
  PROVE  DeliveredOnce
<1>1. ASSUME NEW t \in Threads
      PROVE  /\ DOMAIN consumers[t] = {n \in DOMAIN stack[t] : Holds(stack[t][n])}
             /\ \A n \in DOMAIN consumers[t] : consumers[t][n].batch = stack[t][n].batch
                                             /\ consumers[t][n].left = stack[t][n].held
  BY DEF consumers, Consumers
<1>2. ASSUME NEW t \in Threads, NEW n \in DOMAIN stack[t], Holds(stack[t][n])
      PROVE  batches[stack[t][n].batch].given \o stack[t][n].held
               = Entries(batches[stack[t][n].batch].strings)
  <2>1. n \in DOMAIN consumers[t]
    BY <1>1, <1>2
  <2>2. QED
    <3>1. batches[consumers[t][n].batch].given \o consumers[t][n].left
            = Entries(batches[consumers[t][n].batch].strings)
      BY <2>1 DEF Inv, Data, OwnBatches
    <3>2. QED
      BY <1>1, <2>1, <3>1
<1>3. ASSUME NEW k \in DOMAIN batches, ~Complete(batches[k])
      PROVE  \E t \in Threads : \E n \in DOMAIN stack[t] :
               Holds(stack[t][n]) /\ stack[t][n].batch = k
  <2>1. PICK t \in Threads : \E n \in DOMAIN consumers[t] : consumers[t][n].batch = k
    BY <1>3 DEF Inv, Data, Accounted
  <2>2. PICK n \in DOMAIN consumers[t] : consumers[t][n].batch = k
    BY <2>1
  <2>3. QED
    BY <1>1, <2>2
<1>4. QED
  BY <1>2, <1>3 DEF DeliveredOnce

\* Whoever owns the mutex is in a call, and may lock it again.
LEMMA OwnerGoesOn ==
  ASSUME Inv
  PROVE  SomeCallGoesOn
<1>1. CASE owner = Nobody
  BY <1>1 DEF SomeCallGoesOn, MayLock
<1>2. CASE owner # Nobody
  <2>1. owner \in Threads
    BY <1>2 DEF Inv, Control, TypeOK
  <2>2. Locks(owner) # 0
    BY <1>2 DEF Inv, Control, Mutex
  <2>3. Running(owner)
    BY <2>2 DEF Locks
  <2>4. QED
    BY <2>1, <2>3 DEF SomeCallGoesOn, MayLock
<1>3. QED
  BY <1>1, <1>2

LEMMA QueueInit ==
  ASSUME Init
  PROVE  Queue!Init
<1>1. consumers = [t \in Threads |-> <<>>]
  BY NobodyConsumes DEF consumers
<1>2. QED
  BY <1>1 DEF Init, Queue!Init, Queue!Nothing, Queue!Levels, NoStrings, Levels, consumers

LEMMA QueueNext ==
  ASSUME Control, [Next]_vars
  PROVE  [Queue!Next]_(Queue!queueVars)
<1>1. ASSUME UNCHANGED <<_stdio_strings, consumers, batches>>
      PROVE  UNCHANGED Queue!queueVars
  BY <1>1 DEF Queue!queueVars, consumers
<1>2. CASE UNCHANGED vars
  BY <1>1, <1>2 DEF vars, consumers
<1>3. ASSUME NEW t \in Threads, Begin(t)
      PROVE  UNCHANGED Queue!queueVars
  BY <1>1, <1>3, BeginIsHidden
<1>4. ASSUME NEW t \in Threads, Step(t)
      PROVE  [Queue!Next]_(Queue!queueVars)
  <2>1. CASE Lock(t) \/ LoadString(t) \/ EndPush(t) \/ SplitStrings(t) \/ ConsumerReturns(t)
    BY <1>1, <2>1, HiddenSteps
  <2>2. CASE StoreString(t)
    BY <2>2, StoreIsPrint DEF Queue!Next, Queue!Levels, Levels
  <2>3. CASE ClearStrings(t)
    BY <2>3, ClearIsTake DEF Queue!Next
  <2>4. CASE CallConsumer(t)
    BY <2>4, CallIsDeliver DEF Queue!Next
  <2>5. CASE EndConsume(t)
    BY <2>5, EndIsFinish DEF Queue!Next
  <2>6. QED
    BY <1>4, <2>1, <2>2, <2>3, <2>4, <2>5 DEF Step
<1>5. QED
  BY <1>2, <1>3, <1>4 DEF Next

-------------------------------------------------------------------------------
\* Whoever is in a call has the mutex unless it waits for it; the copy of a
\* string is the string; what is taken is given, in order, to the one consumer
\* that took it (push_stdio_str and the transactions of logger.cc, and
\* consume_logs).
THEOREM Invariance == Spec => []Inv
<1>1. Init => Inv
  BY InvInit
<1>2. Inv /\ [Next]_vars => Inv'
  BY InvNext
<1>3. QED
  BY <1>1, <1>2, PTL DEF Spec

\* The variables of the logger keep their types.
THEOREM TypeCorrect == Spec => []TypeOK
<1>1. Inv => TypeOK
  BY DEF Inv, Control
<1>2. QED
  BY <1>1, Invariance, PTL

\* What push_stdio_str appends is in what consume_logs took or still there.
THEOREM NothingIsLost == Spec => []NothingLost
<1>1. Inv => NothingLost
  BY DEF Inv
<1>2. QED
  BY <1>1, Invariance, PTL

\* consume_logs calls its consumer once with each message that the strings it
\* cleared are split into, overlapping as they are, and with no others.
THEOREM DeliveredExactlyOnce == Spec => []DeliveredOnce
<1>1. Inv => DeliveredOnce
  BY OnceFromInv
<1>2. QED
  BY <1>1, Invariance, PTL

\* A consumer is called when all that was taken before has been given, because
\* the mutex is locked while consume_logs delivers.
THEOREM InOrder == Spec => []DeliveredInOrder
<1>1. Inv => DeliveredInOrder
  BY DEF Inv, Data, Ordered, DeliveredInOrder
<1>2. QED
  BY <1>1, Invariance, PTL

\* While a call is under way, some thread is not kept waiting for the mutex: it is
\* recursive, and no call returns without unlocking it (logger.cc:8, logger.cc:53).
THEOREM SomeCallAlwaysGoesOn == Spec => []SomeCallGoesOn
<1>1. Inv => SomeCallGoesOn
  BY OwnerGoesOn
<1>2. QED
  BY <1>1, Invariance, PTL

\* push_stdio_str prints a text in one step, and a consumer gets the messages of
\* all that was printed up to one moment while no other thread consumes, whatever
\* the threads and the consumers' callbacks do: the mutex of logger.cc is all that
\* it takes.
THEOREM LoggerImplementsQueue == Spec => ImplementsQueue
<1>1. Init => Queue!Init
  BY QueueInit
<1>2. Control /\ [Next]_vars => [Queue!Next]_(Queue!queueVars)
  BY QueueNext
<1>3. Inv => Control
  BY DEF Inv
<1>4. QED
  BY <1>1, <1>2, <1>3, Invariance, PTL DEF Spec, ImplementsQueue, Queue!Spec
===============================================================================
