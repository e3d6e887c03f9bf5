------------------------------- MODULE LogQueue -------------------------------
(***************************************************************************)
(* What the logger promises, with no mutex, no strings that are read and   *)
(* written back and no transactions: printing appends a text in one step;  *)
(* a consumer takes all that was printed up to one moment, gets each of    *)
(* the messages that the strings are split into, in order, before it is    *)
(* done, and may print and consume meanwhile, but no other thread          *)
(* consumes.                                                               *)
(***************************************************************************)
EXTENDS Naturals, Sequences

CONSTANTS
  Threads,
  Prints,       \* of each thread: the texts that it may print
  Entries(_)    \* the messages that the strings of the levels are split into

Levels == {"info", "error"}
Nothing == [l \in Levels |-> <<>>]

VARIABLES
  queue,       \* by level: what nobody has taken
  consumers,   \* of each thread: its consumers, the innermost last
  batches      \* what was taken each time, and what consumers were given of it

queueVars == <<queue, consumers, batches>>

Init ==
  /\ queue = Nothing
  /\ consumers = [t \in Threads |-> <<>>]
  /\ batches = <<>>

Consuming(t) == consumers[t] # <<>>
Innermost(t) == consumers[t][Len(consumers[t])]

PrintText(level, text) ==
  /\ queue' = [queue EXCEPT ![level] = @ \o text]
  /\ UNCHANGED <<consumers, batches>>

Take(t) ==
  /\ \A u \in Threads \ {t} : ~Consuming(u)
  /\ consumers' = [consumers EXCEPT ![t] =
                     Append(@, [batch |-> Len(batches) + 1, left |-> Entries(queue)])]
  /\ batches' = Append(batches, [strings |-> queue, outermost |-> ~Consuming(t),
                                given |-> <<>>])
  /\ queue' = Nothing

Deliver(t) ==
  LET batch == Innermost(t).batch
      left == Innermost(t).left
  IN
  /\ Consuming(t)
  /\ left # <<>>
  /\ batches' = [batches EXCEPT ![batch].given = Append(@, Head(left))]
  /\ consumers' = [consumers EXCEPT ![t][Len(consumers[t])].left = Tail(@)]
  /\ UNCHANGED queue

Finish(t) ==
  /\ Consuming(t)
  /\ Innermost(t).left = <<>>
  /\ consumers' = [consumers EXCEPT ![t] = SubSeq(@, 1, Len(@) - 1)]
  /\ UNCHANGED <<queue, batches>>

Next ==
  \E t \in Threads :
    \/ \E level \in Levels, text \in Prints[t] : PrintText(level, text)
    \/ Take(t) \/ Deliver(t) \/ Finish(t)

Spec == Init /\ [][Next]_queueVars
===============================================================================
