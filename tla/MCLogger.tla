------------------------------- MODULE MCLogger -------------------------------
(***************************************************************************)
(* The guests of one thread print lines, and those of the other a piece of *)
(* a line: the strings hold several newlines, so that messages overlap.    *)
(***************************************************************************)
EXTENDS Logger

CONSTANTS t1, t2, a, b

MCPrints == [t \in Threads |-> IF t = t1 THEN {<<a, Newline>>} ELSE {<<b>>}]
===============================================================================
