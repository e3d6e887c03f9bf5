---------------------------- MODULE MCSystemImpl ----------------------------
(***************************************************************************)
(* Small instances of SystemImpl: two threads, two systems and a pool of   *)
(* two instances, so that the index wraps within a run.                    *)
(***************************************************************************)
EXTENDS SystemImpl, TLC

CONSTANTS Move, Grow   \* the systems

Sound(S) == [compiles |-> TRUE, resolves |-> TRUE, memory |-> TRUE,
             funcs |-> S, others |-> {}]

\* A binary with both systems, one with one of them, and the ways in which
\* a binary can be unusable.
EveryModule ==
  {Sound({Move, Grow}), Sound({Move}),
   [Sound({Move, Grow}) EXCEPT !.compiles = FALSE],
   [Sound({Move, Grow}) EXCEPT !.resolves = FALSE],
   [Sound({Move, Grow}) EXCEPT !.memory = FALSE],
   [Sound({Move}) EXCEPT !.others = {Grow}]}

\* Enough where the binary does not matter: any instance can still fail to be
\* instantiated or initialized.
SoundModule == {Sound({Move, Grow})}

\* Threads are interchangeable.
Symmetry == Permutations(Threads)
=============================================================================
