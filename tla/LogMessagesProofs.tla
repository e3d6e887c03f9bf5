--------------------------- MODULE LogMessagesProofs ---------------------------
(***************************************************************************)
(* What find returns, and how the messages of a string are counted: the    *)
(* lemmas that the split loop and the logger share.                        *)
(***************************************************************************)
EXTENDS LogMessages, FiniteSetTheorems, WellFoundedInduction, TLAPS

\* A set of numbers that is not empty has a least element.
LEMMA LeastExists ==
  ASSUME NEW S \in SUBSET Nat, S # {}
  PROVE  \E m \in S : \A k \in S : m <= k
<1>1. PICK x \in S : \A y \in S : ~ (<<y, x>> \in OpToRel(<, Nat))
  BY NatLessThanWellFounded, WFMin
<1>2. \A y \in S : ~ (y < x)
  BY <1>1 DEF OpToRel
<1>3. QED
  BY <1>2

\* find returns the next newline, or npos when there is none.
LEMMA FindNext ==
  ASSUME NEW str, Len(str) \in Nat, NEW from \in Nat
  PROVE  \/ /\ Find(str, from) = npos
            /\ \A k \in from..(Len(str) - 1) : Char(str, k) # Newline
         \/ /\ Find(str, from) \in from..(Len(str) - 1)
            /\ Char(str, Find(str, from)) = Newline
            /\ \A k \in from..(Find(str, from) - 1) : Char(str, k) # Newline
<1> DEFINE found == {k \in from..(Len(str) - 1) : Char(str, k) = Newline}
           next == Find(str, from)
<1>1. CASE found = {}
  BY <1>1 DEF Find
<1>2. CASE found # {}
  <2>1. found \in SUBSET Nat
    OBVIOUS
  <2>2. \E k \in found : \A j \in found : k <= j
    <3> HIDE DEF found
    <3>1. QED
      BY <1>2, <2>1, LeastExists
  <2>3. next = CHOOSE k \in found : \A j \in found : k <= j
    BY <1>2 DEF Find
  <2>4. next \in found /\ \A j \in found : next <= j
    <3> HIDE DEF found, next
    <3>1. QED
      BY <2>2, <2>3
  <2> HIDE DEF next
  <2>5. next \in from..(Len(str) - 1) /\ Char(str, next) = Newline
    BY <2>4
  <2>6. ASSUME NEW k \in from..(next - 1), Char(str, k) = Newline
        PROVE  FALSE
    <3>1. next \in Int
      BY <2>5
    <3>2. k \in found /\ k < next
      BY <2>5, <2>6, <3>1
    <3>3. QED
      BY <2>4, <3>1, <3>2
  <2>7. QED
    BY <2>5, <2>6 DEF next
<1>3. QED
  BY <1>1, <1>2

\* A message is a piece of its string, from where it begins.
LEMMA MessageInString ==
  ASSUME NEW str, Len(str) \in Nat, NEW k \in Starts(str)
  PROVE  \E last \in k..(Len(str) - 1) : MessageAt(str, k) = <<k, last>>
<1>1. k \in 1..(Len(str) - 1)
  BY DEF Starts
<1>2. Find(str, k) = npos \/ Find(str, k) \in k..(Len(str) - 1)
  BY <1>1, FindNext
<1> DEFINE next == Find(str, k)
           last == IF next = npos \/ k + next > Len(str) THEN Len(str) - 1
                   ELSE k + next - 1
<1>3. MessageAt(str, k) = <<k, last>>
  BY DEF MessageAt, Substr
<1>4. last \in k..(Len(str) - 1)
  BY <1>1, <1>2
<1>5. QED
  BY <1>3, <1>4

-------------------------------------------------------------------------------
(* Counting the places where messages begin *)

LEMMA StartsCounted ==
  ASSUME NEW str, Len(str) \in Nat
  PROVE  /\ IsFiniteSet(Starts(str))
         /\ Cardinality(Starts(str)) \in Nat
         /\ \A k : StartsUpTo(str, k) \in Nat
         /\ StartsUpTo(str, 0) = 0
         /\ \A k \in Int : Len(str) - 1 <= k =>
              StartsUpTo(str, k) = Cardinality(Starts(str))
<1>1. Starts(str) \in SUBSET (1..(Len(str) - 1))
  BY DEF Starts
<1>2. IsFiniteSet(Starts(str))
  <2>1. 1 \in Int /\ Len(str) - 1 \in Int
    OBVIOUS
  <2>2. IsFiniteSet(1..(Len(str) - 1))
    BY <2>1, FS_Interval
  <2>3. QED
    BY <1>1, <2>2, FS_Subset
<1>3. Cardinality(Starts(str)) \in Nat
  BY <1>2, FS_CardinalityType
<1>4. ASSUME NEW k
      PROVE  StartsUpTo(str, k) \in Nat
  <2>1. {j \in Starts(str) : j <= k} \in SUBSET Starts(str)
    OBVIOUS
  <2>2. IsFiniteSet({j \in Starts(str) : j <= k})
    BY <1>2, <2>1, FS_Subset
  <2>3. QED
    BY <2>2, FS_CardinalityType DEF StartsUpTo
<1>5. StartsUpTo(str, 0) = 0
  <2>1. {j \in Starts(str) : j <= 0} = {}
    BY <1>1
  <2>2. QED
    BY <2>1, FS_EmptySet DEF StartsUpTo
<1>6. ASSUME NEW k \in Int, Len(str) - 1 <= k
      PROVE  StartsUpTo(str, k) = Cardinality(Starts(str))
  <2>1. {j \in Starts(str) : j <= k} = Starts(str)
    BY <1>1, <1>6
  <2>2. QED
    BY <2>1 DEF StartsUpTo
<1>7. QED
  BY <1>2, <1>3, <1>4, <1>5, <1>6

LEMMA StartsStep ==
  ASSUME NEW str, Len(str) \in Nat, NEW k \in Int
  PROVE  StartsUpTo(str, k) =
           StartsUpTo(str, k - 1) + (IF k \in Starts(str) THEN 1 ELSE 0)
<1> DEFINE below == {j \in Starts(str) : j <= k - 1}
           upto == {j \in Starts(str) : j <= k}
<1>1. Starts(str) \in SUBSET Int
  BY DEF Starts
<1>2. IsFiniteSet(below)
  <2>1. below \in SUBSET Starts(str)
    OBVIOUS
  <2>2. QED
    BY <2>1, StartsCounted, FS_Subset
<1>3. CASE k \in Starts(str)
  <2>1. upto = below \cup {k} /\ k \notin below
    BY <1>1, <1>3
  <2>2. QED
    BY <1>2, <1>3, <2>1, FS_AddElement DEF StartsUpTo
<1>4. CASE k \notin Starts(str)
  <2>1. upto = below
    BY <1>1, <1>4
  <2>2. StartsUpTo(str, k) = StartsUpTo(str, k - 1) /\ StartsUpTo(str, k) \in Nat
    BY <2>1, StartsCounted DEF StartsUpTo
  <2>3. QED
    BY <1>4, <2>2
<1>5. QED
  BY <1>3, <1>4

\* Where no message begins, the count stays as it is.
LEMMA NoStarts ==
  ASSUME NEW str, NEW j \in Int, NEW k \in Int, j <= k,
         \A i \in Starts(str) : i \in Int /\ ~(j < i /\ i <= k)
  PROVE  StartsUpTo(str, j) = StartsUpTo(str, k)
<1>1. {i \in Starts(str) : i <= j} = {i \in Starts(str) : i <= k}
  OBVIOUS
<1>2. QED
  BY <1>1 DEF StartsUpTo

LEMMA StartsNeverShrink ==
  ASSUME NEW str, Len(str) \in Nat, NEW j \in Int, NEW k \in Int, j <= k
  PROVE  StartsUpTo(str, j) <= StartsUpTo(str, k)
<1>1. Starts(str) \in SUBSET Int
  BY DEF Starts
<1>2. {i \in Starts(str) : i <= j} \in SUBSET {i \in Starts(str) : i <= k}
  BY <1>1
<1>3. IsFiniteSet({i \in Starts(str) : i <= k})
  <2>1. {i \in Starts(str) : i <= k} \in SUBSET Starts(str)
    OBVIOUS
  <2>2. QED
    BY <2>1, StartsCounted, FS_Subset
<1>4. QED
  BY <1>2, <1>3, FS_Subset DEF StartsUpTo

LEMMA StartsGrow ==
  ASSUME NEW str, Len(str) \in Nat, NEW j \in Int, NEW k \in Starts(str), j < k
  PROVE  StartsUpTo(str, j) < StartsUpTo(str, k)
<1>1. k \in Int /\ Starts(str) \in SUBSET Int
  BY DEF Starts
<1>2. StartsUpTo(str, j) <= StartsUpTo(str, k - 1)
  BY <1>1, StartsNeverShrink
<1>3. StartsUpTo(str, k) = StartsUpTo(str, k - 1) + 1
  BY <1>1, StartsStep
<1>4. QED
  BY <1>2, <1>3, StartsCounted

\* NthStart and StartsUpTo are inverse to each other.
LEMMA NthOfStart ==
  ASSUME NEW str, Len(str) \in Nat, NEW k \in Starts(str)
  PROVE  NthStart(str, StartsUpTo(str, k)) = k
<1>1. \A j \in Starts(str) : StartsUpTo(str, j) = StartsUpTo(str, k) => j = k
  <2> SUFFICES ASSUME NEW j \in Starts(str), j # k
               PROVE  StartsUpTo(str, j) # StartsUpTo(str, k)
    OBVIOUS
  <2>1. j \in Int /\ k \in Int
    BY DEF Starts
  <2>2. j < k \/ k < j
    BY <2>1
  <2>3. StartsUpTo(str, j) < StartsUpTo(str, k) \/ StartsUpTo(str, k) < StartsUpTo(str, j)
    BY <2>1, <2>2, StartsGrow
  <2>4. QED
    BY <2>3, StartsCounted
<1>2. QED
  BY <1>1 DEF NthStart

LEMMA NthIsStart ==
  ASSUME NEW str, Len(str) \in Nat, NEW n \in 1..Cardinality(Starts(str))
  PROVE  NthStart(str, n) \in Starts(str) /\ StartsUpTo(str, NthStart(str, n)) = n
<1> DEFINE enough == {k \in Nat : n <= StartsUpTo(str, k)}
<1>1. Cardinality(Starts(str)) \in Nat
  BY StartsCounted
<1>2. Len(str) \in enough
  BY <1>1, StartsCounted
<1>3. PICK k \in enough : \A j \in enough : k <= j
  BY <1>2, LeastExists
<1>4. k # 0
  BY <1>1, <1>3, StartsCounted
<1>5. k - 1 \notin enough /\ k - 1 \in Nat
  BY <1>3, <1>4
<1>6. StartsUpTo(str, k - 1) < n /\ n <= StartsUpTo(str, k)
  BY <1>1, <1>3, <1>5, StartsCounted
<1>7. StartsUpTo(str, k) = StartsUpTo(str, k - 1) + (IF k \in Starts(str) THEN 1 ELSE 0)
  BY <1>3, StartsStep
<1>8. k \in Starts(str) /\ StartsUpTo(str, k) = n
  BY <1>1, <1>6, <1>7, StartsCounted
<1>9. QED
  BY <1>8, NthOfStart

-------------------------------------------------------------------------------
(* What the messages of a string are *)

\* They begin at lines, one after another.
LEMMA MessagesOrdered ==
  ASSUME NEW str, Len(str) \in Nat
  PROVE  \A m, n \in DOMAIN Messages(str) :
           /\ Messages(str)[n][1] = 1 \/ Char(str, Messages(str)[n][1] - 1) = Newline
           /\ m < n => Messages(str)[m][1] < Messages(str)[n][1]
<1>1. Cardinality(Starts(str)) \in Nat
  BY StartsCounted
<1>2. ASSUME NEW n \in DOMAIN Messages(str)
      PROVE  /\ n \in Nat
             /\ Messages(str)[n][1] \in Starts(str)
             /\ StartsUpTo(str, Messages(str)[n][1]) = n
  <2>1. n \in 1..Cardinality(Starts(str))
    BY DEF Messages
  <2> DEFINE k == NthStart(str, n)
  <2>2. k \in Starts(str) /\ StartsUpTo(str, k) = n
    BY <2>1, NthIsStart
  <2>3. Messages(str)[n] = MessageAt(str, k)
    BY <2>1 DEF Messages
  <2> HIDE DEF k
  <2>4. Messages(str)[n][1] = k
    BY <2>3 DEF MessageAt, Substr
  <2>5. QED
    BY <1>1, <2>1, <2>2, <2>4
<1>3. ASSUME NEW m \in DOMAIN Messages(str), NEW n \in DOMAIN Messages(str), m < n
      PROVE  Messages(str)[m][1] < Messages(str)[n][1]
  <2> DEFINE j == Messages(str)[m][1]
             k == Messages(str)[n][1]
  <2>1. j \in Starts(str) /\ k \in Starts(str) /\ m \in Nat /\ n \in Nat
    BY <1>2
  <2>2. StartsUpTo(str, j) = m /\ StartsUpTo(str, k) = n
    BY <1>2
  <2> HIDE DEF j, k
  <2>3. j \in Int /\ k \in Int
    BY <2>1 DEF Starts
  <2>4. ~(k <= j)
    BY <1>3, <2>1, <2>2, <2>3, StartsNeverShrink
  <2>5. QED
    BY <2>3, <2>4 DEF j, k
<1>4. ASSUME NEW n \in DOMAIN Messages(str)
      PROVE  Messages(str)[n][1] = 1 \/ Char(str, Messages(str)[n][1] - 1) = Newline
  BY <1>2, <1>4 DEF Starts
<1>5. QED
  BY <1>3, <1>4

\* Each character but the first is in one of them, or is a newline.
LEMMA MessagesCover ==
  ASSUME NEW str, Len(str) \in Nat,
         NEW k \in 1..(Len(str) - 1), Char(str, k) # Newline
  PROVE  \E n \in DOMAIN Messages(str) :
           Messages(str)[n][1] <= k /\ k <= Messages(str)[n][2]
<1> DEFINE n == StartsUpTo(str, k)
           s == NthStart(str, n)
<1>1. n \in 1..Cardinality(Starts(str))
  <2>1. 1 \in Starts(str)
    BY DEF Starts
  <2>2. StartsUpTo(str, 0) < StartsUpTo(str, 1)
    BY <2>1, StartsGrow
  <2>3. StartsUpTo(str, 1) <= n
    BY StartsNeverShrink
  <2>4. n <= StartsUpTo(str, Len(str) - 1)
    BY StartsNeverShrink
  <2>5. QED
    BY <2>2, <2>3, <2>4, StartsCounted
<1>2. s \in Starts(str) /\ StartsUpTo(str, s) = n
  BY <1>1, NthIsStart
<1>3. n \in DOMAIN Messages(str) /\ Messages(str)[n] = MessageAt(str, s)
  BY <1>1 DEF Messages
<1>4. StartsUpTo(str, k) = n
  OBVIOUS
<1>0. n \in Nat
  BY StartsCounted
<1> HIDE DEF n, s
<1>5. s \in 1..(Len(str) - 1)
  BY <1>2 DEF Starts
<1>6. s <= k
  <2>1. ~(k < s)
    BY <1>0, <1>2, <1>4, StartsGrow
  <2>2. QED
    BY <1>5, <2>1
\* The last message that begins at k or before it has no newline up to there.
<1>7. \A j \in s..(k - 1) : Char(str, j) # Newline
  <2> SUFFICES ASSUME NEW j \in s..(k - 1), Char(str, j) = Newline
               PROVE  FALSE
    OBVIOUS
  <2>1. j + 1 \in Starts(str) /\ s < j + 1 /\ j + 1 <= k /\ s \in Int
    BY <1>5 DEF Starts
  <2>2. StartsUpTo(str, s) < StartsUpTo(str, j + 1)
    BY <2>1, StartsGrow
  <2>3. StartsUpTo(str, j + 1) <= StartsUpTo(str, k)
    BY <2>1, StartsNeverShrink
  <2>4. QED
    BY <1>0, <1>2, <1>4, <2>2, <2>3, StartsCounted
<1>8. Find(str, s) = npos \/ (Find(str, s) > k /\ Find(str, s) \in Int)
  <2>1. \/ Find(str, s) = npos
        \/ /\ Find(str, s) \in s..(Len(str) - 1)
           /\ Char(str, Find(str, s)) = Newline
    BY <1>5, FindNext
  <2>2. \A j \in s..k : Char(str, j) # Newline
    BY <1>5, <1>7
  <2>3. ASSUME Find(str, s) \in s..(Len(str) - 1), Char(str, Find(str, s)) = Newline
        PROVE  Find(str, s) > k /\ Find(str, s) \in Int
    <3> DEFINE next == Find(str, s)
    <3>1. next \in s..(Len(str) - 1) /\ Char(str, next) = Newline
      BY <2>3
    <3> HIDE DEF next
    <3>2. next \notin s..k /\ next \in Int
      BY <1>5, <2>2, <3>1
    <3>3. next > k
      BY <1>5, <3>1, <3>2
    <3>4. QED
      BY <3>2, <3>3 DEF next
  <2>4. QED
    BY <2>1, <2>3
<1>9. MessageAt(str, s) = <<s, IF Find(str, s) = npos \/ s + Find(str, s) > Len(str)
                              THEN Len(str) - 1 ELSE s + Find(str, s) - 1>>
  BY DEF MessageAt, Substr
<1>10. MessageAt(str, s)[1] <= k /\ k <= MessageAt(str, s)[2]
  BY <1>5, <1>6, <1>8, <1>9
<1>11. QED
  BY <1>3, <1>10

\* They are texts of the string's characters.
LEMMA MessagesTyped ==
  ASSUME NEW C, NEW str \in Seq(C)
  PROVE  /\ Len(Messages(str)) \in Nat
         /\ DOMAIN Messages(str) = 1..Len(Messages(str))
         /\ \A n \in DOMAIN Messages(str) : Text(str, Messages(str)[n]) \in Seq(C)
<1>1. Len(str) \in Nat /\ Cardinality(Starts(str)) \in Nat
  BY StartsCounted
<1>2. DOMAIN Messages(str) = 1..Cardinality(Starts(str))
  BY DEF Messages
<1>3. Len(Messages(str)) = Cardinality(Starts(str))
  BY <1>1, <1>2
<1>4. ASSUME NEW n \in DOMAIN Messages(str)
      PROVE  Text(str, Messages(str)[n]) \in Seq(C)
  <2> DEFINE k == NthStart(str, n)
  <2>1. k \in Starts(str)
    BY <1>1, <1>2, NthIsStart
  <2>2. Messages(str)[n] = MessageAt(str, k)
    BY <1>2 DEF Messages
  <2> HIDE DEF k
  <2>3. PICK last \in k..(Len(str) - 1) : MessageAt(str, k) = <<k, last>>
    BY <1>1, <2>1, MessageInString
  <2>4. k \in 1..(Len(str) - 1)
    BY <2>1 DEF Starts
  <2>5. Text(str, Messages(str)[n]) = SubSeq(str, k + 1, last + 1)
    <3>1. Messages(str)[n] = <<k, last>>
      BY <2>2, <2>3
    <3>2. Text(str, <<k, last>>) = SubSeq(str, k + 1, last + 1)
      BY DEF Text
    <3>3. QED
      BY <3>1, <3>2
  <2>6. k + 1 \in 1..Len(str) /\ last + 1 \in 1..Len(str)
    BY <1>1, <2>3, <2>4
  <2>7. QED
    BY <2>5, <2>6
<1>5. QED
  BY <1>1, <1>2, <1>3, <1>4
===============================================================================
