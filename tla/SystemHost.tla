------------------------------ MODULE SystemHost ------------------------------
(***************************************************************************)
(* What ecsact_si_wasm promises the program that embeds it, with no pool,  *)
(* no instances and no thread locals: once a load has succeeded, every     *)
(* system it listed runs the implementation of that load on every thread,  *)
(* until the next load or reset.  A system that is not on offer may run an *)
(* instance of the latest load or bring the process down.                  *)
(***************************************************************************)
EXTENDS Naturals

CONSTANTS
  Threads,   \* threads on which the ECS runtime executes systems
  Systems,   \* ecsact_system_like_id values
  Idle       \* the job of a thread that executes no system

VARIABLES
  epoch,     \* the number of loads begun so far
  offer,     \* the systems of the last load, while it stands
  job        \* what each thread is asked to run, or runs, and from which load

hostVars == <<epoch, offer, job>>

Asked(s)      == [step |-> "asked", system |-> s, epoch |-> 0]
Running(s, n) == [step |-> "running", system |-> s, epoch |-> n]
Lost(s)       == [step |-> "lost", system |-> s, epoch |-> 0]

AllIdle == \A t \in Threads : job[t] = Idle

Init ==
  /\ epoch = 0
  /\ offer = {}
  /\ job = [t \in Threads |-> Idle]

\* A load begins, or the module is reset: nothing is on offer any more.
Withdraw ==
  /\ AllIdle
  /\ epoch' \in {epoch, epoch + 1}
  /\ offer' = {}
  /\ UNCHANGED job

\* A load succeeds.
Offer(S) ==
  /\ AllIdle
  /\ offer' = S
  /\ UNCHANGED <<epoch, job>>

Ask(t, s) ==
  /\ job[t] = Idle
  /\ job' = [job EXCEPT ![t] = Asked(s)]
  /\ UNCHANGED <<epoch, offer>>

\* Whatever runs comes from the latest load, on offer or not.
Start(t, s) ==
  /\ job[t] = Asked(s)
  /\ job' = [job EXCEPT ![t] = Running(s, epoch)]
  /\ UNCHANGED <<epoch, offer>>

\* Only a system that is not on offer can be lost.
Lose(t, s) ==
  /\ job[t] = Asked(s)
  /\ s \notin offer
  /\ job' = [job EXCEPT ![t] = Lost(s)]
  /\ UNCHANGED <<epoch, offer>>

Finish(t, s) ==
  /\ job[t] = Running(s, epoch)
  /\ job' = [job EXCEPT ![t] = Idle]
  /\ UNCHANGED <<epoch, offer>>

Next ==
  \/ Withdraw
  \/ \E S \in SUBSET Systems : Offer(S)
  \/ \E t \in Threads, s \in Systems :
       Ask(t, s) \/ Start(t, s) \/ Lose(t, s) \/ Finish(t, s)

Spec == Init /\ [][Next]_hostVars
===============================================================================
