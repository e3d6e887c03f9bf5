-------------------------------- MODULE Logger --------------------------------
(***************************************************************************)
(* logger.cc, with fd_write (wasi.cc) and ecsact_si_wasm_consume_logs      *)
(* (wasm.cc): what guests print is appended to one string per log level    *)
(* under a recursive mutex, and handed to the consumer's callback with the *)
(* mutex locked.  The callback may itself run guests that print, or        *)
(* consume, on its thread.                                                 *)
(*                                                                         *)
(* The strings are split into messages as LogMessages says; that the loop  *)
(* of the code does so is in LogLines.  Nothing calls push_log_line, so    *)
(* that the other list of the logger is empty.                             *)
(***************************************************************************)
EXTENDS LogMessages

CONSTANTS
  Threads,    \* threads that run guests or consume logs
  Nobody,     \* an unlocked mutex
  MaxIov,     \* iovecs of one fd_write that are not empty
  MaxCalls,   \* calls of fd_write and consume_logs in all (bound)
  Chars,
  Prints,     \* of each thread: the texts of one iovec that its guests print
  IntMax      \* INT_MAX

\* Guests print no more between two calls of consume_logs than an int can index:
\* beyond that, the strings are not split as LogMessages says (see LogLines).
ASSUME LoggerOK ==
  /\ Nobody \notin Threads
  /\ MaxIov \in Nat \ {0}
  /\ MaxCalls \in Nat
  /\ Newline \in Chars
  /\ Prints \in [Threads -> SUBSET (Seq(Chars) \ {<<>>})]
  /\ IntMax \in Nat
  /\ \A t \in Threads : \A text \in Prints[t] : Len(text) * MaxIov * MaxCalls <= IntMax

Strings == [Levels -> Seq(Chars)]
Entry == [log_level: Levels, message: Seq(Chars)]

VARIABLES
  owner, depth,     \* _logger_mutex
  _stdio_strings,
  stack,            \* of each thread: the calls it is in, the innermost last
  calls,            \* number of calls so far
  written,          \* history, by level: all that was appended
  taken,            \* history, by level: all that was taken to be delivered
  batches           \* history: the strings that were cleared each time, and what
                    \* the callback was called with by whoever cleared them

vars == <<owner, depth, _stdio_strings, stack, calls, written, taken, batches>>

Frames ==
  [op: {"write"}, at: {"lock", "load", "store", "unlock"}, level: Levels,
   left: 0..MaxIov, held: Seq(Chars)]
    \cup
  [op: {"consume"}, at: {"lock", "split", "clear", "deliver", "callback", "nested"},
   held: Seq(Entry), batch: Nat]

Init ==
  /\ owner = Nobody /\ depth = 0
  /\ _stdio_strings = NoStrings
  /\ stack = [t \in Threads |-> <<>>]
  /\ calls = 0
  /\ written = NoStrings /\ taken = NoStrings
  /\ batches = <<>>

-------------------------------------------------------------------------------
Running(t) == stack[t] # <<>>
Frame(t) == stack[t][Len(stack[t])]
At(t, op, at) == Running(t) /\ Frame(t).op = op /\ Frame(t).at = at

\* The innermost call goes on, or returns.
Continue(t, frame) == stack' = [stack EXCEPT ![t][Len(stack[t])] = frame]
Return(t) == stack' = [stack EXCEPT ![t] = SubSeq(@, 1, Len(@) - 1)]

\* A thread makes a call of its own, or one in each callback.
MayCall(t) == calls < MaxCalls /\ (Running(t) => At(t, "consume", "callback"))

Call(t, frame) ==
  /\ MayCall(t)
  /\ stack' = [stack EXCEPT ![t] =
                 Append(IF @ = <<>> THEN @
                        ELSE [@ EXCEPT ![Len(@)].at = "nested"], frame)]
  /\ calls' = calls + 1
  /\ UNCHANGED <<owner, depth, _stdio_strings, written, taken, batches>>

\* fd_write to stdout or to stderr
BeginWrite(t, level, iovecs) ==
  Call(t, [op |-> "write", at |-> "lock", level |-> level, left |-> iovecs,
           held |-> <<>>])

\* ecsact_si_wasm_consume_logs
BeginConsume(t) ==
  Call(t, [op |-> "consume", at |-> "lock", held |-> <<>>, batch |-> 0])

\* As if the mutex were not recursive.
MayLockOnce(t) == owner = Nobody

MayLock(t) == owner \in {t, Nobody}

\* As if push_stdio_str did not lock.
LockToConsume(t) ==
  /\ Running(t) /\ Frame(t).at = "lock"
  /\ Frame(t).op = "write" \/ MayLock(t)
  /\ owner' = t /\ depth' = depth + 1
  /\ Continue(t, [Frame(t) EXCEPT !.at = IF Frame(t).op = "write" THEN "load" ELSE "split"])
  /\ UNCHANGED <<_stdio_strings, calls, written, taken, batches>>

\* scoped_lock in push_stdio_str, start_transaction in consume_logs
Lock(t) ==
  /\ Running(t) /\ Frame(t).at = "lock"
  /\ MayLock(t)
  /\ owner' = t /\ depth' = depth + 1
  /\ Continue(t, [Frame(t) EXCEPT !.at = IF Frame(t).op = "write" THEN "load" ELSE "split"])
  /\ UNCHANGED <<_stdio_strings, calls, written, taken, batches>>

Unlock ==
  /\ depth' = depth - 1
  /\ owner' = IF depth = 1 THEN Nobody ELSE owner

\* _stdio_strings[level] += str is a read and a write.
LoadString(t) ==
  /\ At(t, "write", "load")
  /\ Continue(t, [Frame(t) EXCEPT !.at = "store",
                                  !.held = _stdio_strings[Frame(t).level]])
  /\ UNCHANGED <<owner, depth, _stdio_strings, calls, written, taken, batches>>

StoreString(t) ==
  LET level == Frame(t).level IN
  /\ At(t, "write", "store")
  /\ \E text \in Prints[t] :
       /\ _stdio_strings' = [_stdio_strings EXCEPT ![level] = Frame(t).held \o text]
       /\ written' = [written EXCEPT ![level] = @ \o text]
  /\ Continue(t, [Frame(t) EXCEPT !.at = "unlock", !.held = <<>>, !.left = @ - 1])
  /\ UNCHANGED <<owner, depth, calls, taken, batches>>

\* As if the loop over the iovecs ran once too often.
EndPushOneMore(t) ==
  /\ At(t, "write", "unlock")
  /\ Unlock
  /\ IF Frame(t).left < 0 THEN Return(t)
     ELSE Continue(t, [Frame(t) EXCEPT !.at = "lock"])
  /\ UNCHANGED <<_stdio_strings, calls, written, taken, batches>>

\* push_stdio_str returns; fd_write goes on to its next iovec or returns.
EndPush(t) ==
  /\ At(t, "write", "unlock")
  /\ Unlock
  /\ IF Frame(t).left = 0 THEN Return(t)
     ELSE Continue(t, [Frame(t) EXCEPT !.at = "lock"])
  /\ UNCHANGED <<_stdio_strings, calls, written, taken, batches>>

\* consume_stdio_str_as_log_lines: the strings are split, then cleared.
SplitStrings(t) ==
  /\ At(t, "consume", "split")
  /\ Continue(t, [Frame(t) EXCEPT !.at = "clear", !.held = Entries(_stdio_strings)])
  /\ UNCHANGED <<owner, depth, _stdio_strings, calls, written, taken, batches>>

\* The call is the one that takes what is in the strings.
Take(t) ==
  /\ taken' = [l \in Levels |-> taken[l] \o _stdio_strings[l]]
  /\ batches' = Append(batches, [strings |-> _stdio_strings,
                                outermost |-> Len(stack[t]) = 1, given |-> <<>>])
  /\ Continue(t, [Frame(t) EXCEPT !.at = "deliver", !.batch = Len(batches) + 1])

\* As if they were not cleared.
KeepStrings(t) ==
  /\ At(t, "consume", "clear")
  /\ Take(t)
  /\ UNCHANGED <<owner, depth, _stdio_strings, calls, written>>

\* As if the mutex were unlocked for the callbacks.
ClearAndUnlock(t) ==
  /\ At(t, "consume", "clear")
  /\ Take(t)
  /\ _stdio_strings' = NoStrings
  /\ owner' = Nobody
  /\ UNCHANGED <<depth, calls, written>>

ClearStrings(t) ==
  /\ At(t, "consume", "clear")
  /\ Take(t)
  /\ _stdio_strings' = NoStrings
  /\ UNCHANGED <<owner, depth, calls, written>>

\* consumer(entry.log_level, ...) for the next message.
CallConsumer(t) ==
  LET held == Frame(t).held IN
  /\ At(t, "consume", "deliver")
  /\ held # <<>>
  /\ batches' = [batches EXCEPT ![Frame(t).batch].given = Append(@, Head(held))]
  /\ Continue(t, [Frame(t) EXCEPT !.at = "callback", !.held = Tail(@)])
  /\ UNCHANGED <<owner, depth, _stdio_strings, calls, written, taken>>

\* The callback returns, having made a call of its own or not.
ConsumerReturns(t) ==
  /\ At(t, "consume", "callback") \/ At(t, "consume", "nested")
  /\ Continue(t, [Frame(t) EXCEPT !.at = "deliver"])
  /\ UNCHANGED <<owner, depth, _stdio_strings, calls, written, taken, batches>>

\* The transaction ends.
EndConsume(t) ==
  /\ At(t, "consume", "deliver")
  /\ Frame(t).held = <<>>
  /\ Unlock
  /\ Return(t)
  /\ UNCHANGED <<_stdio_strings, calls, written, taken, batches>>

-------------------------------------------------------------------------------
Step(t) ==
  \/ Lock(t)
  \/ LoadString(t) \/ StoreString(t) \/ EndPush(t)
  \/ SplitStrings(t) \/ ClearStrings(t)
  \/ CallConsumer(t) \/ ConsumerReturns(t) \/ EndConsume(t)

Begin(t) ==
  \/ \E level \in Levels, iovecs \in 1..MaxIov : BeginWrite(t, level, iovecs)
  \/ BeginConsume(t)

Next == \E t \in Threads : Begin(t) \/ Step(t)

\* Every thread keeps running, and the consumer's callbacks return.
Fairness == \A t \in Threads : WF_vars(Step(t))

Spec == Init /\ [][Next]_vars /\ Fairness
-------------------------------------------------------------------------------
TypeOK ==
  /\ owner \in Threads \cup {Nobody}
  /\ depth \in Nat
  /\ _stdio_strings \in Strings
  /\ stack \in [Threads -> Seq(Frames)]
  /\ calls \in 0..MaxCalls
  /\ written \in Strings
  /\ taken \in Strings
  /\ batches \in Seq([strings: Strings, outermost: BOOLEAN, given: Seq(Entry)])

\* What is printed is neither lost nor repeated nor reordered within its level,
\* whatever is printed or consumed meanwhile, by other threads or from the
\* consumer's callback (logger.cc:54 and logger.cc:87).
NothingLost == \A l \in Levels : written[l] = taken[l] \o _stdio_strings[l]

\* A call of consume_logs has cleared the strings and not returned.
Holds(frame) == frame.op = "consume" /\ frame.at \in {"deliver", "callback", "nested"}

Complete(batch) == batch.given = Entries(batch.strings)

\* The consumer is called once with each of the messages that the strings are split
\* into, in order, and with no others: what was printed between the splitting and
\* the clearing of the strings, or is printed by the callbacks, is not among them
\* and is not dropped (logger.cc:64-87, wasm.cc:339-346).
DeliveredOnce ==
  /\ \A t \in Threads : \A n \in DOMAIN stack[t] :
       LET frame == stack[t][n]
           batch == batches[frame.batch]
       IN Holds(frame) => batch.given \o frame.held = Entries(batch.strings)
  /\ \A k \in DOMAIN batches :
       \/ Complete(batches[k])
       \/ \E t \in Threads : \E n \in DOMAIN stack[t] :
            Holds(stack[t][n]) /\ stack[t][n].batch = k

\* A consumer on any thread is called only when all that was taken before has been
\* given to the consumers that took it: what was printed first is logged first,
\* but for a consumer that consumes from its own callback (wasm.cc:329).
DeliveredInOrder ==
  \A j, k \in DOMAIN batches :
    j < k /\ batches[k].outermost /\ batches[k].given # <<>> => Complete(batches[j])

\* The consumers of a thread, and what they have yet to be called with.
Consumers(frames) ==
  [n \in {m \in DOMAIN frames : Holds(frames[m])} |->
     [batch |-> frames[n].batch, left |-> frames[n].held]]

Queue == INSTANCE LogQueue
  WITH queue <- _stdio_strings,
       consumers <- [t \in Threads |-> Consumers(stack[t])]

\* The mutex makes one step of what push_stdio_str and the splitting and clearing of
\* the strings take several for, and lets one thread consume at a time, from its
\* callbacks as well (logger.cc:50-90).
ImplementsQueue == Queue!Spec

\* While a call is under way, some thread can go on with its own: nobody waits for
\* the mutex in a circle, in a callback or not, nor for a call that has returned
\* with the mutex locked (logger.cc:8, logger.cc:53).
SomeCallGoesOn ==
  (\E t \in Threads : Running(t)) =>
    \E t \in Threads : Running(t) /\ (Frame(t).at = "lock" => MayLock(t))

\* Printing and consuming come to an end, from within a callback as well: the
\* mutex is recursive (logger.cc:8).
EveryCallReturns == \A t \in Threads : Running(t) ~> ~Running(t)
===============================================================================
