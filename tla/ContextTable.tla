----------------------------- MODULE ContextTable -----------------------------
(***************************************************************************)
(* What the host imports of a guest amount to when one forgets the call    *)
(* memory: each call of a system has a table of its own from handles to    *)
(* execution contexts, a handle is entered when the guest is given a       *)
(* context, and the runtime is only ever called with a context that the    *)
(* table of the calling thread holds and with the memory of the instance   *)
(* that runs there.                                                        *)
(***************************************************************************)
CONSTANTS
  Threads,     \* threads that run guests
  Instances,   \* their instances, each with a memory of its own
  Contexts,    \* execution contexts of the runtime
  Handles,     \* the values a handle can take
  Null,        \* no context, no memory
  NoCall       \* neither a guest call nor a call of the runtime

VARIABLES
  instance,    \* the instance that runs on a thread, or NoCall
  table,       \* handles to contexts
  target       \* contexts and memory of the thread's last call of the runtime

tableVars == <<instance, table, target>>

Init ==
  /\ instance = [t \in Threads |-> NoCall]
  /\ table = [t \in Threads |-> <<>>]
  /\ target = [t \in Threads |-> NoCall]

\* A call begins, of a system with its context or of _initialize with none.
Begin(t, i, contexts) ==
  /\ instance[t] = NoCall
  /\ instance' = [instance EXCEPT ![t] = i]
  /\ table' = [table EXCEPT ![t] = contexts]
  /\ UNCHANGED target

\* The runtime is called on contexts of the table and, maybe, the memory.
Call(t, handles, memory) ==
  /\ instance[t] # NoCall
  /\ handles \subseteq DOMAIN table[t]
  /\ memory \in {instance[t], Null}
  /\ target' = [target EXCEPT ![t] =
                  [contexts |-> {table[t][h] : h \in handles}, memory |-> memory]]
  /\ UNCHANGED instance

Use(t, handles, memory) ==
  /\ Call(t, handles, memory)
  /\ UNCHANGED table

\* As Use, and the guest is given a handle that it did not have in this call.
Grant(t, handle, memory, granted, context) ==
  /\ Call(t, {handle}, memory)
  /\ granted \notin DOMAIN table[t]
  /\ table' = [table EXCEPT ![t] =
                 [h \in DOMAIN table[t] \cup {granted} |->
                    IF h = granted THEN context ELSE table[t][h]]]

End(t) ==
  /\ instance[t] # NoCall
  /\ instance' = [instance EXCEPT ![t] = NoCall]
  /\ table' = [table EXCEPT ![t] = <<>>]
  /\ target' = [target EXCEPT ![t] = NoCall]

Next ==
  \E t \in Threads :
    \/ \E i \in Instances :
         \/ Begin(t, i, <<>>)
         \/ \E h \in Handles, c \in Contexts : Begin(t, i, [g \in {h} |-> c])
    \/ \E handles \in SUBSET DOMAIN table[t], memory \in Instances \cup {Null} :
         Use(t, handles, memory)
    \/ \E h \in DOMAIN table[t], memory \in Instances, granted \in Handles,
          c \in Contexts \cup {Null} :
         Grant(t, h, memory, granted, c)
    \/ End(t)

Spec == Init /\ [][Next]_tableVars
===============================================================================
