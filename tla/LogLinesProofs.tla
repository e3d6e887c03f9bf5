---------------------------- MODULE LogLinesProofs ----------------------------
(***************************************************************************)
(* Proofs about LogLines: for every alphabet, every width of an int and    *)
(* every string whose positions an int can hold.                           *)
(***************************************************************************)
EXTENDS LogLines, LogMessagesProofs, SequenceTheorems

LEMMA TextLength ==
  ASSUME str \in Texts
  PROVE  str \in Seq(Chars) /\ Len(str) \in 1..MaxLen /\ MaxLen \in Nat
<1>1. PICK n \in 1..MaxLen : str \in [1..n -> Chars]
  BY DEF Texts
<1>2. n \in Nat /\ MaxLen \in Nat
  BY LinesOK
<1>3. str \in Seq(Chars) /\ Len(str) = n
  BY <1>1, <1>2
<1>4. QED
  BY <1>1, <1>2, <1>3

\* The conversion gives an int, and keeps the positions that an int can hold.
LEMMA Narrowing ==
  ASSUME NEW n \in Int
  PROVE  /\ ToInt(n) \in Ints
         /\ n \in 0..IntMax => ToInt(n) = n
         /\ n = npos => ToInt(n) = npos
<1> DEFINE width == 2 * (IntMax + 1)
           low == n % width
<1>1. IntMax \in Nat /\ IntMax > 0 /\ width \in Nat /\ width > 0
      /\ width = IntMax + IntMax + 2
  BY LinesOK
<1>2. low \in 0..(width - 1)
  <2> HIDE DEF width
  <2>1. QED
    BY <1>1
<1>3. n \in 0..(width - 1) => low = n
  <2> HIDE DEF width
  <2>1. QED
    BY <1>1
<1>4. n = npos => low = width - 1
  <2> HIDE DEF width
  <2>1. (-1) % width = width - 1
    BY <1>1
  <2>2. QED
    BY <2>1 DEF npos
<1>5. ToInt(n) = IF low > IntMax THEN low - width ELSE low
  BY DEF ToInt
<1> HIDE DEF low, width
<1>6. QED
  BY <1>1, <1>2, <1>3, <1>4, <1>5 DEF Ints, npos

-------------------------------------------------------------------------------
(* The inductive invariant *)

\* How much of the string has been split.
Behind == IF idx = npos THEN Len(str) ELSE idx

\* The messages that begin up to there have been found, and nothing else.
Found ==
  [n \in 1..StartsUpTo(str, Behind) |-> MessageAt(str, NthStart(str, n))]

Splitting ==
  /\ ~thrown
  /\ idx \in -1..(Len(str) - 1)
  /\ idx = npos \/ idx = 0 \/ Char(str, idx) = Newline
  /\ result = Found

Inv ==
  /\ TypeOK
  /\ Short => Splitting

LEMMA InvInit == Init => Inv
<1> SUFFICES ASSUME Init PROVE Inv
  OBVIOUS
<1>1. Len(str) \in 1..MaxLen /\ MaxLen \in Nat /\ IntMax \in Nat
  BY TextLength, LinesOK DEF Init
<1>2. Found = <<>>
  <2>1. StartsUpTo(str, Behind) = 0
    BY <1>1, StartsCounted DEF Init, Behind, npos
  <2>2. QED
    BY <2>1 DEF Found
<1>3. Splitting
  BY <1>1, <1>2 DEF Init, Splitting
<1>4. TypeOK
  <2>1. result \in Seq((0..MaxLen) \X (0..(MaxLen - 1)))
    <3> DEFINE S == (0..MaxLen) \X (0..(MaxLen - 1))
    <3> HIDE DEF S
    <3>1. result \in Seq(S)
      BY DEF Init
    <3>2. QED
      BY <3>1 DEF S
  <2>2. idx \in Ints
    BY <1>1 DEF Init, Ints
  <2>3. QED
    BY <2>1, <2>2 DEF Init, TypeOK
<1>5. QED
  BY <1>3, <1>4 DEF Inv

\* One iteration, for every string: what it finds lies within the string.
LEMMA TypeNext ==
  ASSUME TypeOK, NextLine
  PROVE  TypeOK'
<1>1. PICK from \in NextPositions :
        LET next_idx == Find(str, from)
            message == Substr(str, from, next_idx)
        IN /\ InString(from)
           /\ idx' = ToInt(next_idx)
           /\ result' = IF IsEmpty(message) THEN result ELSE Append(result, message)
  BY DEF NextLine
<1> DEFINE next_idx == Find(str, from)
           message == Substr(str, from, next_idx)
<1>2. /\ Len(str) \in 1..MaxLen /\ MaxLen \in Nat /\ IntMax \in Nat
      /\ idx \in Int /\ result \in Seq((0..MaxLen) \X (0..(MaxLen - 1)))
  BY TextLength, LinesOK DEF TypeOK, Ints
<1>3. from \in 0..Len(str)
  <2>1. from \in Int
    BY <1>2 DEF NextPositions
  <2>2. QED
    BY <1>1, <1>2, <2>1 DEF InString
<1>4. next_idx = npos \/ next_idx \in from..(Len(str) - 1)
  BY <1>2, <1>3, FindNext
<1>5. message = <<from, IF next_idx = npos \/ from + next_idx > Len(str)
                        THEN Len(str) - 1 ELSE from + next_idx - 1>>
  BY DEF Substr
<1>6. next_idx \in Int
  BY <1>2, <1>3, <1>4 DEF npos
<1>7. idx' = ToInt(next_idx)
      /\ result' = IF IsEmpty(message) THEN result ELSE Append(result, message)
  BY <1>1
<1> HIDE DEF next_idx
<1>8. ~IsEmpty(message) => message \in (0..MaxLen) \X (0..(MaxLen - 1))
  BY <1>2, <1>3, <1>4, <1>5 DEF IsEmpty
<1> HIDE DEF message
<1>9. result' \in Seq((0..MaxLen) \X (0..(MaxLen - 1)))
  BY <1>2, <1>7, <1>8
<1>10. idx' \in Ints
  BY <1>6, <1>7, Narrowing
<1>11. QED
  BY <1>9, <1>10 DEF NextLine, TypeOK

\* In a short string an iteration finds the message that begins next, if any.
LEMMA SplittingNext ==
  ASSUME Inv, Short, Next
  PROVE  /\ NextLine
         /\ Splitting'
         /\ idx # npos /\ (idx' = npos \/ idx < idx')
<1> DEFINE from == idx + 1
           next == Find(str, from)
           message == Substr(str, from, next)
<1>1. /\ Len(str) \in 1..MaxLen /\ MaxLen \in Nat /\ IntMax \in Nat
      /\ Len(str) <= IntMax /\ Splitting /\ str \in Seq(Chars)
  BY TextLength, LinesOK DEF Inv, TypeOK, Short
<1>2. idx # npos /\ ~thrown
  BY DEF Next, NextLine, ThrowOutOfRange, Looping
<1>3. idx \in 0..(Len(str) - 1) /\ (idx = 0 \/ Char(str, idx) = Newline)
  BY <1>1, <1>2 DEF Splitting, npos
<1>4. NextPositions = {from} /\ InString(from) /\ from \in Nat
  BY <1>1, <1>3 DEF NextPositions, InString
<1>5. NextLine
  BY <1>4 DEF Next, ThrowOutOfRange
<1>6. /\ idx' = ToInt(next)
      /\ result' = IF IsEmpty(message) THEN result ELSE Append(result, message)
      /\ str' = str /\ thrown' = thrown
  BY <1>4, <1>5 DEF NextLine
<1>7. \/ next = npos /\ \A k \in from..(Len(str) - 1) : Char(str, k) # Newline
      \/ /\ next \in from..(Len(str) - 1) /\ Char(str, next) = Newline
         /\ \A k \in from..(next - 1) : Char(str, k) # Newline
  BY <1>1, <1>4, FindNext
<1> HIDE DEF next
<1>8. next \in Int /\ next \in -1..IntMax
  BY <1>1, <1>3, <1>7 DEF npos
<1>9. idx' = next
  BY <1>1, <1>3, <1>6, <1>7, <1>8, Narrowing DEF npos
<1>10. next = npos \/ idx < next
  BY <1>1, <1>3, <1>7
<1> DEFINE behind == IF next = npos THEN Len(str) ELSE next
<1>11. Behind = idx /\ Behind' = behind /\ behind \in Int /\ from <= behind
  BY <1>1, <1>2, <1>3, <1>6, <1>7, <1>9 DEF Behind
\* No other message begins up to where the next iteration will.
<1>12. StartsUpTo(str, behind) = StartsUpTo(str, from)
  <2>1. ASSUME NEW i \in Starts(str), from < i, i <= behind
        PROVE  FALSE
    <3>1. i \in 1..(Len(str) - 1) /\ (i = 1 \/ Char(str, i - 1) = Newline)
      BY DEF Starts
    <3>2. i - 1 \in from..(Len(str) - 1) /\ i # 1
      BY <1>1, <1>3, <2>1, <3>1
    <3>3. CASE next = npos
      BY <1>7, <3>1, <3>2, <3>3, <1>1, <1>3 DEF npos
    <3>4. CASE next # npos
      <4>1. i - 1 \in from..(next - 1)
        BY <1>1, <1>3, <1>8, <2>1, <3>1, <3>4
      <4>2. QED
        BY <1>7, <3>1, <3>2, <3>4, <4>1
    <3>5. QED
      BY <3>3, <3>4
  <2>2. Starts(str) \in SUBSET Int
    BY DEF Starts
  <2> HIDE DEF behind
  <2>3. QED
    BY <1>3, <1>11, <2>1, <2>2, NoStarts
<1> HIDE DEF behind
<1>13. StartsUpTo(str, from) = StartsUpTo(str, idx) + (IF from \in Starts(str) THEN 1 ELSE 0)
  <2>1. from \in Int /\ from - 1 = idx /\ Len(str) \in Nat
    BY <1>1, <1>3
  <2> HIDE DEF from
  <2>2. StartsUpTo(str, from) =
          StartsUpTo(str, from - 1) + (IF from \in Starts(str) THEN 1 ELSE 0)
    BY <2>1, StartsStep
  <2>3. QED
    BY <2>1, <2>2
<1> DEFINE c == StartsUpTo(str, idx)
<1>14. c \in Nat
  BY <1>1, StartsCounted
<1>15. result = [n \in 1..c |-> MessageAt(str, NthStart(str, n))]
  BY <1>1, <1>11 DEF Splitting, Found
<1>16. Found' = [n \in 1..StartsUpTo(str, from) |-> MessageAt(str, NthStart(str, n))]
  BY <1>6, <1>11, <1>12 DEF Found
<1>17. CASE from = Len(str)
  <2>1. IsEmpty(message)
    <3>1. next = npos
      BY <1>1, <1>7, <1>17
    <3>2. QED
      BY <1>1, <1>17, <3>1 DEF Substr, IsEmpty
  <2>2. from \notin Starts(str)
    BY <1>1, <1>17 DEF Starts
  <2>3. result' = Found'
    BY <1>6, <1>13, <1>14, <1>15, <1>16, <2>1, <2>2
  <2>4. QED
    BY <1>1, <1>2, <1>3, <1>5, <1>6, <1>7, <1>9, <1>10, <2>3 DEF Splitting, npos
<1>18. CASE from # Len(str)
  <2>1. from \in Starts(str)
    <3>1. from \in 1..(Len(str) - 1) /\ from - 1 = idx
      BY <1>1, <1>3, <1>18
    <3>2. from = 1 \/ Char(str, from - 1) = Newline
      BY <1>3, <3>1
    <3>3. QED
      BY <3>1, <3>2 DEF Starts
  <2>2. message = MessageAt(str, from)
    BY DEF MessageAt, next
  <2>3. PICK last \in from..(Len(str) - 1) : message = <<from, last>>
    BY <1>1, <2>1, <2>2, MessageInString
  <2>4. ~IsEmpty(message)
    BY <1>1, <1>3, <2>3 DEF IsEmpty
  <2>5. StartsUpTo(str, from) = c + 1 /\ NthStart(str, c + 1) = from
    BY <1>1, <1>13, <2>1, NthOfStart
  <2>6. result' = Append(result, MessageAt(str, from))
    BY <1>6, <2>2, <2>4
  <2> HIDE DEF c, message, from
  <2>7. result' = [n \in 1..(c + 1) |-> MessageAt(str, NthStart(str, n))]
    <3>1. /\ DOMAIN result = 1..c /\ Len(result) = c
          /\ \A n \in 1..c : result[n] = MessageAt(str, NthStart(str, n))
      BY <1>14, <1>15
    <3> DEFINE M == {MessageAt(str, NthStart(str, n)) : n \in 1..(c + 1)}
               t == [n \in 1..(c + 1) |-> MessageAt(str, NthStart(str, n))]
    <3>2. result \in Seq(M)
      BY <1>14, <1>15
    <3>3. MessageAt(str, from) \in M
      BY <1>14, <2>5
    <3>4. t \in Seq(M) /\ Len(t) = c + 1
      <4>1. t \in [1..(c + 1) -> M]
        OBVIOUS
      <4>2. c + 1 \in Nat
        BY <1>14
      <4> HIDE DEF M, t
      <4>3. QED
        BY <4>1, <4>2
    <3>5. \A n \in 1..(c + 1) : t[n] = MessageAt(str, NthStart(str, n))
      OBVIOUS
    <3> HIDE DEF M, t
    <3>6. /\ Append(result, MessageAt(str, from)) \in Seq(M)
          /\ Len(Append(result, MessageAt(str, from))) = c + 1
          /\ \A n \in 1..c : Append(result, MessageAt(str, from))[n] = result[n]
          /\ Append(result, MessageAt(str, from))[c + 1] = MessageAt(str, from)
      BY <1>14, <3>1, <3>2, <3>3, AppendProperties
    <3>7. \A n \in 1..(c + 1) : n \in 1..c \/ n = c + 1
      BY <1>14
    <3>8. \A n \in 1..(c + 1) : result'[n] = t[n]
      BY <2>5, <2>6, <3>1, <3>5, <3>6, <3>7
    <3>9. result' = t
      BY <2>6, <3>4, <3>6, <3>8, SeqEqual
    <3>10. QED
      BY <3>9 DEF t
  <2>8. result' = Found'
    BY <1>16, <2>5, <2>7
  <2>9. QED
    BY <1>1, <1>2, <1>3, <1>5, <1>6, <1>7, <1>9, <1>10, <2>8 DEF Splitting, npos, from
<1>19. QED
  BY <1>17, <1>18

LEMMA InvNext ==
  ASSUME Inv, [Next]_vars
  PROVE  Inv'
<1>1. CASE UNCHANGED vars
  BY <1>1 DEF vars, Inv, TypeOK, Short, Splitting, Found, Behind
<1>2. CASE Next
  <2>1. TypeOK'
    <3>1. CASE NextLine
      BY <3>1, TypeNext DEF Inv
    <3>2. CASE ThrowOutOfRange
      BY <3>2 DEF ThrowOutOfRange, Inv, TypeOK
    <3>3. QED
      BY <1>2, <3>1, <3>2 DEF Next
  <2>2. Short' = Short
    BY <1>2 DEF Next, NextLine, ThrowOutOfRange, Short
  <2>3. QED
    BY <1>2, <2>1, <2>2, SplittingNext DEF Inv
<1>3. QED
  BY <1>1, <1>2

-------------------------------------------------------------------------------
\* The inductive invariant of the split loop: in a short string, the messages that
\* begin up to idx have been found.
THEOREM Invariance == Spec => []Inv
<1>1. Inv /\ [Next]_vars => Inv'
  BY InvNext
<1>2. QED
  BY InvInit, <1>1, PTL DEF Spec

\* Type correctness, for strings of every length: the messages stay within the
\* string and idx stays an int, whatever find returns (logger.cc:69).
THEOREM TypeCorrect == Spec => []TypeOK
<1>1. Inv => TypeOK
  BY DEF Inv
<1>2. QED
  BY Invariance, <1>1, PTL

LEMMA SplitDone ==
  ASSUME Inv, Short, Done
  PROVE  result = Messages(str)
<1>1. Len(str) \in Nat
  BY TextLength DEF Inv, TypeOK
<1>2. StartsUpTo(str, Len(str)) = Cardinality(Starts(str))
  BY <1>1, StartsCounted
<1>3. QED
  BY <1>2 DEF Inv, Splitting, Found, Behind, Done, Messages

\* The loop finds the messages of every string that an int can index, whatever the
\* string and however wide an int is (logger.cc:69-83).
THEOREM SplitCorrect == Spec => []SplitIsMessages
<1>1. Inv => SplitIsMessages
  BY SplitDone DEF SplitIsMessages
<1>2. QED
  BY Invariance, <1>1, PTL

\* What has been found is a prefix of the messages of the string.
LEMMA FoundIsPrefix ==
  ASSUME Inv, Short
  PROVE  /\ DOMAIN result \subseteq DOMAIN Messages(str)
         /\ \A n \in DOMAIN result : result[n] = Messages(str)[n]
<1>1. Len(str) \in Nat /\ Behind \in Int /\ Behind <= Len(str)
  <2>1. Len(str) \in Nat
    BY TextLength DEF Inv, TypeOK
  <2>2. QED
    BY <2>1 DEF Inv, Splitting, Behind, npos
<1>2. StartsUpTo(str, Behind) <= StartsUpTo(str, Len(str))
  BY <1>1, StartsNeverShrink
<1>3. /\ StartsUpTo(str, Len(str)) = Cardinality(Starts(str))
      /\ Cardinality(Starts(str)) \in Nat /\ StartsUpTo(str, Behind) \in Nat
  BY <1>1, StartsCounted
<1>4. 1..StartsUpTo(str, Behind) \subseteq 1..Cardinality(Starts(str))
  BY <1>2, <1>3
<1>5. QED
  BY <1>4 DEF Inv, Splitting, Found, Messages

\* Messages begin at lines, each at another one, in every string that an int can
\* index (logger.cc:71).
THEOREM MessagesBegin == Spec => []MessagesBeginLines
<1>1. Inv => MessagesBeginLines
  <2> SUFFICES ASSUME Inv, Short,
                      NEW m \in DOMAIN result, NEW n \in DOMAIN result
               PROVE  /\ result[n][1] = 1 \/ Char(str, result[n][1] - 1) = Newline
                      /\ m < n => result[m][1] < result[n][1]
    BY DEF MessagesBeginLines
  <2>1. Len(str) \in Nat
    BY TextLength DEF Inv, TypeOK
  <2>2. /\ m \in DOMAIN Messages(str) /\ n \in DOMAIN Messages(str)
        /\ result[m] = Messages(str)[m] /\ result[n] = Messages(str)[n]
    BY FoundIsPrefix
  <2>3. QED
    BY <2>1, <2>2, MessagesOrdered
<1>2. QED
  BY Invariance, <1>1, PTL

\* Nothing is dropped but the first character and newlines, in every string that an
\* int can index (logger.cc:72).
THEOREM AllIsLogged == Spec => []RestIsLogged
<1>1. Inv => RestIsLogged
  <2> SUFFICES ASSUME Inv, Short, Done,
                      NEW k \in 1..(Len(str) - 1), Char(str, k) # Newline
               PROVE  \E n \in DOMAIN result : result[n][1] <= k /\ k <= result[n][2]
    BY DEF RestIsLogged
  <2>1. Len(str) \in Nat
    BY TextLength DEF Inv, TypeOK
  <2>2. QED
    BY <2>1, SplitDone, MessagesCover
<1>2. QED
  BY Invariance, <1>1, PTL

\* How many iterations the loop has left, at most.
Remaining == IF idx = npos THEN 0 ELSE Len(str) - idx

MovesOn == Short => Remaining \in Nat /\ Remaining' \in Nat /\ Remaining' < Remaining

LEMMA NextMovesOn ==
  ASSUME Inv, Next
  PROVE  MovesOn
<1> SUFFICES ASSUME Short
             PROVE  Remaining \in Nat /\ Remaining' \in Nat /\ Remaining' < Remaining
  BY DEF MovesOn
<1>1. NextLine /\ Splitting' /\ idx # npos /\ (idx' = npos \/ idx < idx')
  BY SplittingNext
<1>2. Len(str) \in Nat /\ idx \in 0..(Len(str) - 1) /\ str' = str
  BY <1>1, TextLength DEF Inv, TypeOK, Splitting, NextLine, npos
<1>3. idx' \in -1..(Len(str) - 1)
  BY <1>1, <1>2 DEF Splitting
<1>4. QED
  BY <1>1, <1>2, <1>3 DEF Remaining, npos

\* Each iteration leaves less to do, in every string that an int can index: the
\* loop, during which the mutex is locked, cannot run for ever (logger.cc:70).
THEOREM LoopMovesOn == Spec => [][MovesOn]_vars
<1>1. Inv /\ [Next]_vars => [MovesOn]_vars
  BY NextMovesOn
<1>2. QED
  BY Invariance, <1>1, PTL DEF Spec
===============================================================================
