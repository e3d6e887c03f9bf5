------------------------------ MODULE LogMessages ------------------------------
(***************************************************************************)
(* The messages of a string, as consume_stdio_str_as_log_lines (logger.cc) *)
(* cuts them with std::string::find and substr.                            *)
(*                                                                         *)
(* A message is the pair of the first and the last position of its text.   *)
(* Positions are counted from 0, as in the code.                           *)
(***************************************************************************)
EXTENDS Integers, Sequences, FiniteSets

CONSTANT Newline   \* '\n'

npos == -1   \* std::string::npos, as an int

Char(str, k) == str[k + 1]

\* str.find('\n', from)
Find(str, from) ==
  LET found == {k \in from..(Len(str) - 1) : Char(str, k) = Newline}
  IN IF found = {} THEN npos ELSE CHOOSE k \in found : \A j \in found : k <= j

\* As if substr did not stop at the end of the string.
SubstrUnclamped(str, from, count) ==
  <<from, IF count = npos THEN Len(str) - 1 ELSE from + count - 1>>

\* str.substr(from, count): the second argument is a length.
Substr(str, from, count) ==
  <<from, IF count = npos \/ from + count > Len(str) THEN Len(str) - 1
          ELSE from + count - 1>>

IsEmpty(message) == message[1] > message[2]

Text(str, message) == SubSeq(str, message[1] + 1, message[2] + 1)

-------------------------------------------------------------------------------
(* The messages of a string that an int can index, in one definition.  They *)
(* overlap: but for the first one, a message goes on behind its line, for   *)
(* as many characters as there are before it.                               *)

\* The message that begins at a position: its length is that of all that is before
\* the next newline.
MessageAt(str, from) == Substr(str, from, Find(str, from))

\* Where messages begin: after the first character, and after the newlines behind
\* that; what begins at the end of the string is empty, and skipped.
Starts(str) ==
  {k \in 1..(Len(str) - 1) : k = 1 \/ Char(str, k - 1) = Newline}

\* How many of them there are up to a position.
StartsUpTo(str, k) == Cardinality({j \in Starts(str) : j <= k})

NthStart(str, n) == CHOOSE k \in Starts(str) : StartsUpTo(str, k) = n

Messages(str) ==
  [n \in 1..Cardinality(Starts(str)) |-> MessageAt(str, NthStart(str, n))]

-------------------------------------------------------------------------------
(* The strings of the logger, one per log level *)

Levels == {"info", "error"}
NoStrings == [l \in Levels |-> <<>>]

LevelEntries(strings, level) ==
  [n \in DOMAIN Messages(strings[level]) |->
     [log_level |-> level, message |-> Text(strings[level], Messages(strings[level])[n])]]

\* What consume_stdio_str_as_log_lines returns: the map of the strings is in the
\* order of ecsact_si_wasm_log_level.
Entries(strings) == LevelEntries(strings, "info") \o LevelEntries(strings, "error")
===============================================================================
