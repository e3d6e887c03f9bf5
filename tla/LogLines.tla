------------------------------- MODULE LogLines -------------------------------
(***************************************************************************)
(* consume_stdio_str_as_log_lines (logger.cc): the loop that splits the    *)
(* string of a log level into the messages that the consumer gets.         *)
(*                                                                         *)
(* The loop keeps its position in an int, while find returns a size_t: a   *)
(* string that an int cannot index is not split as others are.             *)
(***************************************************************************)
EXTENDS LogMessages

CONSTANTS
  Chars,     \* the characters that guests print
  IntMax,    \* INT_MAX
  MaxLen     \* length of the string (bound)

ASSUME LinesOK ==
  /\ Newline \in Chars
  /\ IntMax \in Nat \ {0}
  /\ MaxLen \in Nat

Texts == UNION {[1..n -> Chars] : n \in 1..MaxLen}

Ints == (-IntMax - 1)..IntMax

VARIABLES
  str,
  idx,      \* the position, an int
  result,
  thrown    \* has substr thrown std::out_of_range?

vars == <<str, idx, result, thrown>>

\* An empty string is skipped.
Init == str \in Texts /\ idx = 0 /\ result = <<>> /\ thrown = FALSE

\* size_t to int keeps the low bits, as two's complement.
ToInt(n) ==
  LET low == n % (2 * (IntMax + 1)) IN IF low > IntMax THEN low - 2 * (IntMax + 1) ELSE low

\* idx + 1, as a position.  It is undefined for INT_MAX: computed in 64 bits it is
\* the next position, in 32 bits it is negative.
NextPositions == IF idx = IntMax THEN {IntMax + 1, -IntMax - 1} ELSE {idx + 1}

\* As a size_t, a negative position is beyond the end of every string.
InString(from) == 0 <= from /\ from <= Len(str)

Looping == idx # npos /\ ~thrown

\* As if an empty message were skipped before idx is assigned.
NextLineContinuing ==
  /\ Looping
  /\ \E from \in NextPositions :
       LET next_idx == Find(str, from)
           message == Substr(str, from, next_idx)
       IN /\ InString(from)
          /\ idx' = IF IsEmpty(message) THEN idx ELSE ToInt(next_idx)
          /\ result' = IF IsEmpty(message) THEN result ELSE Append(result, message)
  /\ UNCHANGED <<str, thrown>>

\* As if messages ended one character before their lines do.
NextLineShort ==
  /\ Looping
  /\ \E from \in NextPositions :
       LET next_idx == Find(str, from)
           message == Substr(str, from, next_idx - idx - 2)
       IN /\ InString(from)
          /\ idx' = ToInt(next_idx)
          /\ result' = IF IsEmpty(message) THEN result ELSE Append(result, message)
  /\ UNCHANGED <<str, thrown>>

\* As if the search for the next line went on from the end of the message.
NextLineSkipping ==
  /\ Looping
  /\ \E from \in NextPositions :
       LET next_idx == Find(str, from)
           message == Substr(str, from, next_idx)
       IN /\ InString(from)
          /\ idx' = IF next_idx = npos THEN npos ELSE ToInt(message[2])
          /\ result' = IF IsEmpty(message) THEN result ELSE Append(result, message)
  /\ UNCHANGED <<str, thrown>>

\* One iteration of the loop.
NextLine ==
  /\ Looping
  /\ \E from \in NextPositions :
       LET next_idx == Find(str, from)
           message == Substr(str, from, next_idx)
       IN /\ InString(from)
          /\ idx' = ToInt(next_idx)
          /\ result' = IF IsEmpty(message) THEN result ELSE Append(result, message)
  /\ UNCHANGED <<str, thrown>>

\* find returns npos for such a position, and substr throws.
ThrowOutOfRange ==
  /\ Looping
  /\ \E from \in NextPositions : ~InString(from)
  /\ thrown' = TRUE
  /\ UNCHANGED <<str, idx, result>>

Done == idx = npos

Next == NextLine \/ ThrowOutOfRange

\* The loop runs on.
Spec == Init /\ [][Next]_vars /\ WF_vars(Next)

-------------------------------------------------------------------------------
TypeOK ==
  /\ str \in Texts
  /\ idx \in Ints
  /\ result \in Seq((0..MaxLen) \X (0..(MaxLen - 1)))
  /\ thrown \in BOOLEAN

\* An int can index the string, and the position behind it.
Short == Len(str) <= IntMax

\* No character is dropped but the first, and newlines: each is in a message
\* (logger.cc:72).
RestIsLogged ==
  Short /\ Done =>
    \A k \in 1..(Len(str) - 1) :
      Char(str, k) # Newline =>
        \E n \in DOMAIN result : result[n][1] <= k /\ k <= result[n][2]

\* A message begins after a newline, or after the first character, and no two
\* messages begin at the same place (logger.cc:71).
MessagesBeginLines ==
  Short =>
    \A m, n \in DOMAIN result :
      /\ result[n][1] = 1 \/ Char(str, result[n][1] - 1) = Newline
      /\ m < n => result[m][1] < result[n][1]

\* What the loop finds is what the string's newlines make of it: nothing depends on
\* how far an earlier message ran (logger.cc:69-83).
SplitIsMessages == Short /\ Done => result = Messages(str)

\* The position advances at each iteration, with no exception on the way, so that
\* the loop ends and the mutex that the consumer holds is unlocked (logger.cc:70).
SplittingEnds == Short => <>Done

-------------------------------------------------------------------------------
(* What the repository states and the code does not do *)

\* "consumed later in proper log lines" (logger.hh:36): nothing is logged twice, no
\* character is in two messages.
MessagesAreLines ==
  Short => \A m, n \in DOMAIN result : m < n => result[m][2] < result[n][1]
===============================================================================
