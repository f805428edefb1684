------------------------- MODULE StreamBufferProofs -------------------------
(***************************************************************************)
(* IInv is an inductive invariant of StreamBuffer, for every length of the *)
(* buffer, trigger level, size of messages, assignment of priorities and   *)
(* use of the notifications by the application.                            *)
(***************************************************************************)
EXTENDS StreamBuffer, SchedProofs

-----------------------------------------------------------------------------
(* The room that the contents take: BytesOf is the last of the sums of the *)
(* first elements.                                                         *)

(* h[k] is the room the first k elements of s take.                        *)
IsPartialSums(h, s, w) ==
    /\ h \in [0..Len(s) -> Nat]
    /\ h[0] = 0
    /\ \A k \in 0..Len(s) - 1 : h[k + 1] = h[k] + s[k + 1] + w

(* A set of numbers up to k that is not empty has a greatest one.          *)
LEMMA MaxOfInterval ==
    ASSUME NEW n \in Nat, NEW T \in SUBSET (1..n), T # {}
    PROVE  Max(T) \in T /\ \A y \in T : y <= Max(T)
<1> DEFINE Good == {k \in Nat : \A U \in SUBSET (1..k) : U # {} => \E x \in U : \A y \in U : x >= y}
<1>1. 0 \in Good
  <2>1. \A U \in SUBSET (1..0) : U = {}
    OBVIOUS
  <2> QED BY <2>1
<1>2. ASSUME NEW k \in Nat, k \in Good
      PROVE  k + 1 \in Good
  <2>1. SUFFICES ASSUME NEW U \in SUBSET (1..k + 1), U # {}
                 PROVE  \E x \in U : \A y \in U : x >= y
    OBVIOUS
  <2>2. CASE k + 1 \in U
    BY <2>2
  <2>3. CASE k + 1 \notin U
    <3>1. U \in SUBSET (1..k)
      BY <2>3
    <3> QED BY <3>1, <1>2, <2>1
  <2> QED BY <2>2, <2>3
<1>3. n \in Good
  <2> HIDE DEF Good
  <2> QED BY <1>1, <1>2, SetInduction
<1>4. PICK x \in T : \A y \in T : x >= y
  BY <1>3
<1>5. Max(T) \in T /\ \A y \in T : Max(T) >= y
  BY <1>4 DEF Max
<1> QED BY <1>5

(* The function that FoldLeft iterates exists: it is built for the sets of *)
(* the first k indices one index after the other.                          *)
LEMMA IterationExists ==
    ASSUME NEW s \in Seq(Nat), NEW w \in Nat
    PROVE  \E f \in [SUBSET (1..Len(s)) -> Nat] :
               f = [T \in SUBSET (1..Len(s)) |->
                       IF T = {} THEN 0 ELSE f[T \ {Max(T)}] + s[Max(T)] + w]
<1> DEFINE n == Len(s)
           Iterates(f, k) ==
               \A T \in SUBSET (1..k) :
                   f[T] = IF T = {} THEN 0 ELSE f[T \ {Max(T)}] + s[Max(T)] + w
           Exists(k) == \E f \in [SUBSET (1..k) -> Nat] : Iterates(f, k)
           Good == {k \in Nat : k <= n => Exists(k)}
<1>1. n \in Nat /\ \A i \in 1..n : s[i] \in Nat
  BY LenProperties, ElementOfSeq
<1>2. 0 \in Good
  <2> DEFINE f == [T \in SUBSET (1..0) |-> 0]
  <2>1. \A T \in SUBSET (1..0) : T = {}
    OBVIOUS
  <2>2. f \in [SUBSET (1..0) -> Nat] /\ Iterates(f, 0)
    BY <2>1
  <2>3. Exists(0)
    BY <2>2
  <2> QED BY <2>3
<1>3. ASSUME NEW k \in Nat, k \in Good
      PROVE  k + 1 \in Good
  <2>1. SUFFICES ASSUME k + 1 <= n
                 PROVE  Exists(k + 1)
    <3> HIDE DEF Exists
    <3> QED OBVIOUS
  <2>a. Exists(k)
    <3> HIDE DEF Exists
    <3> QED BY <2>1, <1>1, <1>3
  <2>2. PICK g \in [SUBSET (1..k) -> Nat] : Iterates(g, k)
    BY <2>a
  <2> DEFINE f == [T \in SUBSET (1..k + 1) |->
                      IF k + 1 \in T THEN g[T \ {k + 1}] + s[k + 1] + w ELSE g[T]]
  <2>3. \A T \in SUBSET (1..k + 1) :
            /\ k + 1 \in T => T \ {k + 1} \in SUBSET (1..k)
            /\ k + 1 \notin T => T \in SUBSET (1..k)
    OBVIOUS
  <2>4. s[k + 1] \in Nat
    BY <2>1, <1>1
  <2>5. f \in [SUBSET (1..k + 1) -> Nat]
    BY <2>2, <2>3, <2>4
  <2>6. ASSUME NEW T \in SUBSET (1..k + 1)
        PROVE  f[T] = IF T = {} THEN 0 ELSE f[T \ {Max(T)}] + s[Max(T)] + w
    <3>1. CASE k + 1 \in T
      <4>1. Max(T) = k + 1
        <5>1. Max(T) \in T /\ k + 1 <= Max(T)
          BY <3>1, MaxOfInterval, k + 1 \in Nat
        <5>2. Max(T) \in 1..k + 1
          BY <5>1
        <5> QED BY <5>1, <5>2
      <4>2. T \ {Max(T)} \in SUBSET (1..k) /\ k + 1 \notin T \ {Max(T)}
        BY <4>1, <2>3, <3>1
      <4>3. f[T \ {Max(T)}] = g[T \ {k + 1}]
        BY <4>1, <4>2
      <4> QED BY <3>1, <4>1, <4>3
    <3>2. CASE k + 1 \notin T
      <4>1. T \in SUBSET (1..k) /\ T \ {Max(T)} \in SUBSET (1..k)
        BY <2>3, <3>2
      <4>2. f[T] = g[T] /\ f[T \ {Max(T)}] = g[T \ {Max(T)}]
        BY <4>1, <3>2
      <4> QED BY <4>1, <4>2, <2>2
    <3> QED BY <3>1, <3>2
  <2> QED BY <2>5, <2>6
<1>4. n \in Good
  <2> HIDE DEF Good
  <2> QED BY <1>1, <1>2, <1>3, SetInduction
<1>5. PICK f \in [SUBSET (1..n) -> Nat] : Iterates(f, n)
  <2>1. Exists(n)
    <3> HIDE DEF Exists
    <3> QED BY <1>1, <1>4
  <2> QED BY <2>1
<1>6. f = [T \in SUBSET (1..n) |-> IF T = {} THEN 0 ELSE f[T \ {Max(T)}] + s[Max(T)] + w]
  BY <1>5
<1> QED BY <1>6

(* BytesOf is a partial sum.                                               *)
LEMMA BytesOfIsPartialSum ==
    ASSUME NEW s \in Seq(Nat), NEW w \in Nat
    PROVE  \E h : IsPartialSums(h, s, w) /\ BytesOf(s, w) = h[Len(s)]
<1> DEFINE n == Len(s)
           Is(f) == f = [T \in SUBSET (1..n) |->
                            IF T = {} THEN 0 ELSE f[T \ {Max(T)}] + s[Max(T)] + w]
           f == CHOOSE f : Is(f)
<1>1. n \in Nat /\ DOMAIN s = 1..n /\ \A i \in 1..n : s[i] \in Nat
  BY LenProperties, ElementOfSeq
<1>2. BytesOf(s, w) = f[1..n]
  BY <1>1 DEF BytesOf, FoldLeft, MapThenFoldSet
<1>3. Is(f)
  <2>1. PICK g : g = [T \in SUBSET (1..n) |->
                         IF T = {} THEN 0 ELSE g[T \ {Max(T)}] + s[Max(T)] + w]
    <3>1. \E g \in [SUBSET (1..Len(s)) -> Nat] :
               g = [T \in SUBSET (1..Len(s)) |->
                       IF T = {} THEN 0 ELSE g[T \ {Max(T)}] + s[Max(T)] + w]
      BY IterationExists
    <3> QED BY <3>1, Zenon
  <2>2. Is(g)
    BY <2>1, Zenon
  <2> HIDE DEF Is
  <2> QED BY <2>2
<1> HIDE DEF f
<1>4. f[1..0] = 0
  <2>1. 1..0 \in SUBSET (1..n) /\ 1..0 = {}
    OBVIOUS
  <2> QED BY <2>1, <1>3
<1>5. ASSUME NEW k \in 0..n - 1
      PROVE  f[1..k + 1] = f[1..k] + s[k + 1] + w
  <2>1. k + 1 \in Nat /\ 1..k + 1 \in SUBSET (1..n) /\ 1..k + 1 # {} /\ k + 1 \in 1..k + 1
    <3>1. k \in Nat /\ k + 1 <= n
      BY <1>1
    <3>2. k + 1 \in Nat /\ k + 1 \in 1..k + 1
      BY <3>1
    <3>3. \A i \in 1..k + 1 : i \in 1..n
      BY <3>1, <1>1
    <3> QED BY <3>2, <3>3
  <2>2. Max(1..k + 1) \in 1..k + 1 /\ k + 1 <= Max(1..k + 1)
    BY <2>1, MaxOfInterval
  <2>3. Max(1..k + 1) = k + 1
    BY <2>2
  <2>4. (1..k + 1) \ {k + 1} = 1..k
    OBVIOUS
  <2> QED BY <1>3, <2>1, <2>3, <2>4
<1> DEFINE Good == {k \in Nat : k <= n => f[1..k] \in Nat}
<1>6. 0 \in Good
  BY <1>4
<1>7. ASSUME NEW k \in Nat, k \in Good
      PROVE  k + 1 \in Good
  BY <1>1, <1>5, <1>7
<1>8. \A k \in 0..n : f[1..k] \in Nat
  <2>1. Nat \subseteq Good
    <3> HIDE DEF Good
    <3> QED BY <1>6, <1>7, SetInduction
  <2> QED BY <2>1, <1>1
<1> DEFINE h == [k \in 0..n |-> f[1..k]]
<1>9. IsPartialSums(h, s, w)
  <2>1. \A k \in 0..n - 1 : k \in 0..n /\ k + 1 \in 0..n
    BY <1>1
  <2> QED BY <1>1, <1>4, <1>5, <1>8, <2>1 DEF IsPartialSums
<1>10. BytesOf(s, w) = h[Len(s)]
  BY <1>1, <1>2
<1> HIDE DEF h
<1> QED BY <1>9, <1>10

(* There is only one.                                                      *)
LEMMA PartialSumsAreUnique ==
    ASSUME NEW s \in Seq(Nat), NEW w \in Nat, NEW h, IsPartialSums(h, s, w)
    PROVE  BytesOf(s, w) = h[Len(s)]
<1> DEFINE n == Len(s)
<1>1. n \in Nat /\ \A i \in 1..n : s[i] \in Nat
  BY LenProperties, ElementOfSeq
<1>2. PICK g : IsPartialSums(g, s, w) /\ BytesOf(s, w) = g[n]
  BY BytesOfIsPartialSum
<1> DEFINE Good == {k \in Nat : k <= n => g[k] = h[k]}
<1>3. 0 \in Good
  BY <1>2 DEF IsPartialSums
<1>4. ASSUME NEW k \in Nat, k \in Good
      PROVE  k + 1 \in Good
  BY <1>1, <1>2, <1>4 DEF IsPartialSums
<1>5. n \in Good
  <2> HIDE DEF Good
  <2> QED BY <1>1, <1>3, <1>4, SetInduction
<1> QED BY <1>2, <1>5

(* Nothing takes no room; one more element takes its own; without the      *)
(* first there is the rest.                                                *)
LEMMA BytesOfEmpty == ASSUME NEW w \in Nat PROVE BytesOf(<<>>, w) = 0
<1>1. <<>> \in Seq(Nat) /\ Len(<<>>) = 0
  OBVIOUS
<1> QED BY <1>1, BytesOfIsPartialSum DEF IsPartialSums

LEMMA BytesOfLonger ==
    ASSUME NEW s \in Seq(Nat), NEW w \in Nat, NEW e \in Nat
    PROVE  BytesOf(s \o <<e>>, w) = BytesOf(s, w) + e + w
<1> DEFINE n == Len(s)
           r == s \o <<e>>
<1>1. n \in Nat /\ \A i \in 1..n : s[i] \in Nat
  BY LenProperties, ElementOfSeq
<1>2. r \in Seq(Nat) /\ Len(r) = n + 1 /\ r[n + 1] = e /\ \A i \in 1..n : r[i] = s[i]
  BY <1>1
<1>3. PICK h : IsPartialSums(h, s, w) /\ BytesOf(s, w) = h[n]
  BY BytesOfIsPartialSum
<1> DEFINE g == [k \in 0..n + 1 |-> IF k <= n THEN h[k] ELSE h[n] + e + w]
<1> HIDE DEF r
<1>4. IsPartialSums(g, r, w)
  <2>1. g \in [0..Len(r) -> Nat] /\ g[0] = 0
    BY <1>1, <1>2, <1>3 DEF IsPartialSums
  <2>2. ASSUME NEW k \in 0..Len(r) - 1
        PROVE  g[k + 1] = g[k] + r[k + 1] + w
    <3>1. CASE k = n
      BY <3>1, <1>1, <1>2
    <3>2. CASE k # n
      <4>1. k \in 0..n - 1 /\ k + 1 \in 1..n
        BY <3>2, <1>1, <1>2
      <4> QED BY <4>1, <1>1, <1>2, <1>3 DEF IsPartialSums
    <3> QED BY <3>1, <3>2
  <2> QED BY <2>1, <2>2 DEF IsPartialSums
<1>5. BytesOf(r, w) = g[n + 1]
  <2> HIDE DEF g
  <2> QED BY <1>2, <1>4, PartialSumsAreUnique
<1> QED BY <1>1, <1>3, <1>5 DEF r

LEMMA BytesOfRest ==
    ASSUME NEW s \in Seq(Nat), NEW w \in Nat, s # <<>>
    PROVE  /\ BytesOf(s, w) = BytesOf(SubSeq(s, 2, Len(s)), w) + s[1] + w
           /\ BytesOf(SubSeq(s, 2, Len(s)), w) \in Nat
           /\ s[1] \in Nat
<1> DEFINE n == Len(s)
           r == SubSeq(s, 2, n)
<1>1. n \in Nat \ {0} /\ \A i \in 1..n : s[i] \in Nat
  BY LenProperties, ElementOfSeq, EmptySeq
<1>2. r \in Seq(Nat) /\ Len(r) = n - 1 /\ \A i \in 1..n - 1 : r[i] = s[i + 1]
  <2>1. \A i \in 2..n : s[i] \in Nat
    BY <1>1
  <2>2. /\ r \in Seq(Nat)
        /\ Len(r) = IF 2 <= n THEN n - 2 + 1 ELSE 0
        /\ \A i \in 1..n - 2 + 1 : r[i] = s[2 + i - 1]
    BY <1>1, <2>1, SubSeqProperties
  <2> HIDE DEF r
  <2>3. Len(r) = n - 1
    <3>1. CASE 2 <= n
      BY <3>1, <1>1, <2>2
    <3>2. CASE ~(2 <= n)
      <4>1. n = 1
        <5> HIDE DEF n
        <5> QED BY <3>2, <1>1
      <4> QED BY <4>1, <2>2
    <3> QED BY <3>1, <3>2
  <2>4. ASSUME NEW i \in 1..n - 1
        PROVE  r[i] = s[i + 1]
    <3>1. i \in 1..n - 2 + 1 /\ 2 + i - 1 = i + 1
      BY <1>1
    <3> QED BY <3>1, <2>2
  <2> QED BY <2>2, <2>3, <2>4
<1> HIDE DEF r
<1>3. PICK h : IsPartialSums(h, s, w) /\ BytesOf(s, w) = h[n]
  BY BytesOfIsPartialSum
<1>4. PICK g : IsPartialSums(g, r, w) /\ BytesOf(r, w) = g[n - 1]
  BY <1>2, BytesOfIsPartialSum
<1> DEFINE Good == {k \in Nat : k <= n - 1 => h[k + 1] = g[k] + s[1] + w}
<1>5. 0 \in Good
  BY <1>1, <1>3, <1>4 DEF IsPartialSums
<1>6. ASSUME NEW k \in Nat, k \in Good
      PROVE  k + 1 \in Good
  <2>1. SUFFICES ASSUME k + 1 <= n - 1
                 PROVE  h[k + 2] = g[k + 1] + s[1] + w
    OBVIOUS
  <2>2. h[k + 2] = h[k + 1] + s[k + 2] + w
    BY <1>1, <1>3, <2>1 DEF IsPartialSums
  <2>a. k \in 0..Len(r) - 1 /\ k \in 0..Len(r) /\ k + 1 \in 1..n - 1
    BY <1>1, <1>2, <2>1
  <2>3. g[k + 1] = g[k] + s[k + 2] + w
    <3>1. r[k + 1] = s[k + 1 + 1] /\ k + 1 + 1 = k + 2
      BY <1>2, <2>a
    <3> QED BY <1>4, <2>a, <3>1 DEF IsPartialSums
  <2>4. g[k] \in Nat /\ s[k + 2] \in Nat /\ s[1] \in Nat
    <3>1. k + 2 \in 1..n /\ 1 \in 1..n
      BY <1>1, <2>1
    <3> QED BY <1>1, <1>4, <2>a, <3>1 DEF IsPartialSums
  <2>5. h[k + 1] = g[k] + s[1] + w
    BY <1>6, <2>1
  <2> HIDE DEF Good
  <2> QED BY <2>2, <2>3, <2>4, <2>5
<1>7. n - 1 \in Good
  <2> HIDE DEF Good, n
  <2>1. \A m \in Nat : m \in Good
    BY <1>5, <1>6, SetInduction
  <2> QED BY <1>1, <2>1
<1>8. g[n - 1] \in Nat
  <2>1. n - 1 \in 0..Len(r)
    BY <1>1, <1>2
  <2> QED BY <1>4, <2>1 DEF IsPartialSums
<1> QED BY <1>1, <1>3, <1>4, <1>7, <1>8 DEF r

(* Bytes without a header take as much room as there are.                  *)
LEMMA BytesOfBytes ==
    ASSUME NEW s \in Seq(Nat), \A i \in DOMAIN s : s[i] = 1
    PROVE  BytesOf(s, 0) = Len(s)
<1> DEFINE h == [k \in 0..Len(s) |-> k]
<1>1. Len(s) \in Nat /\ DOMAIN s = 1..Len(s)
  BY LenProperties
<1>2. IsPartialSums(h, s, 0)
  BY <1>1 DEF IsPartialSums
<1>3. BytesOf(s, 0) = h[Len(s)]
  <2> HIDE DEF h
  <2> QED BY <1>2, PartialSumsAreUnique
<1> QED BY <1>1, <1>3

-----------------------------------------------------------------------------
(* The ring.                                                               *)

(* The ring has room for all of its bytes but one, and the two counts      *)
(* share it.                                                               *)
LEMMA CountsShareTheRing ==
    ASSUME TypeOK
    PROVE  /\ prvBytesInBuffer \in 0..xLength - 1
           /\ xStreamBufferSpacesAvailable \in 0..xLength - 1
           /\ prvBytesInBuffer + xStreamBufferSpacesAvailable = xLength - 1
  BY StreamBufferAssumption DEF TypeOK, prvBytesInBuffer, xStreamBufferSpacesAvailable

(* ... and after a step.                                                   *)
LEMMA CountsAfterwards ==
    ASSUME TypeOK'
    PROVE  prvBytesInBuffer' \in Nat /\ xStreamBufferSpacesAvailable' \in Nat
<1> DEFINE Within(c) == IF c >= xLength THEN c - xLength ELSE c
<1>1. xHead' \in 0..xLength - 1 /\ xTail' \in 0..xLength - 1 /\ xLength \in Nat
  BY StreamBufferAssumption DEF TypeOK
<1>2. /\ prvBytesInBuffer' = Within(xLength + xHead' - xTail')
      /\ xStreamBufferSpacesAvailable' = Within(xLength + xTail' - xHead' - 1)
  BY DEF prvBytesInBuffer, xStreamBufferSpacesAvailable
<1>3. \A h, t \in 0..xLength - 1 :
          Within(xLength + h - t) \in Nat /\ Within(xLength + t - h - 1) \in Nat
  BY <1>1
<1> HIDE DEF Within
<1> QED BY <1>1, <1>2, <1>3

(* A step that leaves the ring alone.                                      *)
LEMMA RingKept ==
    ASSUME UNCHANGED <<isMessageBuffer, ringVars>>
    PROVE  /\ prvBytesInBuffer' = prvBytesInBuffer
           /\ xStreamBufferSpacesAvailable' = xStreamBufferSpacesAvailable
           /\ MessageLengthBytes' = MessageLengthBytes
           /\ \A n : RequiredSpace(n)' = RequiredSpace(n)
           /\ ContentsInv => ContentsInv'
           /\ RingIsExact => RingIsExact'
  BY DEF ringVars, prvBytesInBuffer, xStreamBufferSpacesAvailable, MessageLengthBytes,
         RequiredSpace, ContentsInv, RingIsExact

(* What is in the buffer is there as a whole: there is nothing, or more    *)
(* than the length of a message, and the first message is within it.       *)
LEMMA WholeMessages ==
    ASSUME TypeOK, CreatedOK, ContentsInv, RingIsExact
    PROVE  /\ MessageLengthBytes \in Nat
           /\ prvBytesInBuffer # 0 =>
                 /\ contents # <<>>
                 /\ prvBytesInBuffer > MessageLengthBytes
                 /\ Head(contents) = contents[1]
                 /\ contents[1] \in Nat \ {0}
                 /\ contents[1] + MessageLengthBytes <= prvBytesInBuffer
           /\ ~isMessageBuffer => prvBytesInBuffer = Len(contents) /\ MessageLengthBytes = 0
<1>1. MessageLengthBytes \in Nat /\ (~isMessageBuffer => MessageLengthBytes = 0)
  BY StreamBufferAssumption DEF MessageLengthBytes
<1>2. contents \in Seq(Nat)
  BY DEF TypeOK
<1>3. ASSUME prvBytesInBuffer # 0
      PROVE  /\ contents # <<>>
             /\ prvBytesInBuffer > MessageLengthBytes
             /\ Head(contents) = contents[1]
             /\ contents[1] \in Nat \ {0}
             /\ contents[1] + MessageLengthBytes <= prvBytesInBuffer
  <2>1. contents # <<>>
    BY <1>1, <1>3, BytesOfEmpty DEF RingIsExact
  <2>2. /\ BytesOf(contents, MessageLengthBytes) =
               BytesOf(SubSeq(contents, 2, Len(contents)), MessageLengthBytes)
                   + contents[1] + MessageLengthBytes
        /\ BytesOf(SubSeq(contents, 2, Len(contents)), MessageLengthBytes) \in Nat
        /\ contents[1] \in Nat
    BY <1>1, <1>2, <2>1, BytesOfRest
  <2>3. contents[1] # 0
    BY <1>2, <2>1, EmptySeq, LenProperties DEF ContentsInv
  <2>4. Head(contents) = contents[1]
    BY <1>2, <2>1
  <2> QED BY <1>1, <2>1, <2>2, <2>3, <2>4 DEF RingIsExact
<1>4. ASSUME ~isMessageBuffer
      PROVE  prvBytesInBuffer = Len(contents)
  BY <1>1, <1>2, <1>4, BytesOfBytes DEF ContentsInv, RingIsExact
<1> QED BY <1>1, <1>3, <1>4

(* Bytes are appended as a block.                                          *)
LEMMA AppendBytes ==
    ASSUME NEW s \in Seq(Nat), NEW n \in Nat, \A i \in DOMAIN s : s[i] = 1
    PROVE  LET r == s \o [i \in 1..n |-> 1]
           IN  /\ r \in Seq(Nat)
               /\ Len(r) = Len(s) + n
               /\ \A i \in DOMAIN r : r[i] = 1
<1> DEFINE b == [i \in 1..n |-> 1]
<1>1. b \in Seq(Nat) /\ Len(b) = n /\ \A i \in 1..n : b[i] = 1
  OBVIOUS
<1>2. Len(s) \in Nat /\ DOMAIN s = 1..Len(s)
  BY LenProperties
<1> HIDE DEF b
<1>3. /\ s \o b \in Seq(Nat)
      /\ Len(s \o b) = Len(s) + n
      /\ \A i \in 1..Len(s) + n : (s \o b)[i] = IF i <= Len(s) THEN s[i] ELSE b[i - Len(s)]
  BY <1>1, ConcatProperties
<1>4. DOMAIN (s \o b) = 1..Len(s) + n
  BY <1>3, LenProperties
<1>5. \A i \in 1..Len(s) + n : (s \o b)[i] = 1
  BY <1>1, <1>2, <1>3, SMTT(30)
<1> QED BY <1>3, <1>4, <1>5 DEF b

(* ... and taken off as one.                                               *)
LEMMA DropBytes ==
    ASSUME NEW s \in Seq(Nat), NEW n \in 0..Len(s)
    PROVE  LET r == SubSeq(s, n + 1, Len(s))
           IN  /\ r \in Seq(Nat)
               /\ Len(r) = Len(s) - n
               /\ \A i \in DOMAIN r : i + n \in DOMAIN s /\ r[i] = s[i + n]
<1> DEFINE r == SubSeq(s, n + 1, Len(s))
<1>1. Len(s) \in Nat /\ DOMAIN s = 1..Len(s)
  BY LenProperties
<1>2. \A i \in n + 1..Len(s) : s[i] \in Nat
  BY <1>1, ElementOfSeq
<1>3. /\ r \in Seq(Nat)
      /\ Len(r) = IF n + 1 <= Len(s) THEN Len(s) - (n + 1) + 1 ELSE 0
      /\ \A i \in 1..Len(s) - (n + 1) + 1 : r[i] = s[(n + 1) + i - 1]
  BY <1>1, <1>2, SubSeqProperties
<1> HIDE DEF r
<1>4. Len(r) = Len(s) - n
  <2>1. CASE n + 1 <= Len(s)
    BY <1>1, <1>3, <2>1
  <2>2. CASE ~(n + 1 <= Len(s))
    <3>1. \A a, b \in Nat : a <= b /\ ~(a + 1 <= b) => b - a = 0
      OBVIOUS
    <3>a. n \in Nat /\ n <= Len(s)
      BY <1>1
    <3>2. Len(s) - n = 0
      BY ONLY <3>a, <1>1, <2>2, <3>1
    <3> QED BY <1>3, <2>2, <3>2
  <2> QED BY <2>1, <2>2
<1>5. DOMAIN r = 1..Len(s) - n
  BY <1>3, <1>4, LenProperties
<1>6. ASSUME NEW i \in 1..Len(s) - n
      PROVE  i + n \in 1..Len(s) /\ r[i] = s[i + n]
  <2>1. i \in 1..Len(s) - (n + 1) + 1 /\ (n + 1) + i - 1 = i + n /\ i + n \in 1..Len(s)
    BY <1>1
  <2> QED BY <2>1, <1>3
<1> QED BY <1>1, <1>3, <1>4, <1>5, <1>6 DEF r

(* Writing what there is room for keeps the indices exact.                 *)
LEMMA WriteFacts ==
    ASSUME TypeOK, CreatedOK, ContentsInv, RingIsExact, UNCHANGED isMessageBuffer,
           NEW n \in Nat, Write(n),
           n # 0 => n + MessageLengthBytes <= xStreamBufferSpacesAvailable
    PROVE  /\ xHead' \in 0..xLength - 1 /\ xTail' \in 0..xLength - 1
           /\ contents' \in Seq(Nat)
           /\ ContentsInv' /\ RingIsExact'
           /\ prvBytesInBuffer' >= prvBytesInBuffer
           /\ n = 0 => /\ prvBytesInBuffer' = prvBytesInBuffer
                       /\ xStreamBufferSpacesAvailable' = xStreamBufferSpacesAvailable
<1>1. CASE n = 0
  <2>1. UNCHANGED <<isMessageBuffer, ringVars>>
    BY <1>1 DEF Write, ringVars
  <2> QED BY <2>1, RingKept, CountsShareTheRing DEF TypeOK, ringVars
<1>2. CASE n # 0
  <2> DEFINE m == n + MessageLengthBytes
  <2>1. /\ MessageLengthBytes \in Nat /\ MessageLengthBytes' = MessageLengthBytes
        /\ isMessageBuffer' = isMessageBuffer
    BY WholeMessages DEF MessageLengthBytes
  <2>2. m \in 1..xStreamBufferSpacesAvailable
    BY <1>2, <2>1, CountsShareTheRing
  <2>3. /\ xHead' \in 0..xLength - 1 /\ xTail' \in 0..xLength - 1
        /\ prvBytesInBuffer' = prvBytesInBuffer + m
    <3>1. xHead' = Advance(xHead, m) /\ xTail' = xTail
      BY <1>2 DEF Write
    <3>2. xLength \in Nat /\ xHead \in 0..xLength - 1 /\ xTail \in 0..xLength - 1
      BY StreamBufferAssumption DEF TypeOK
    <3> HIDE DEF m
    <3> QED BY ONLY <2>2, <3>1, <3>2
            DEF Advance, prvBytesInBuffer, xStreamBufferSpacesAvailable
  <2>4. CASE isMessageBuffer
    <3>1. contents' = contents \o <<n>>
      BY <1>2, <2>4 DEF Write
    <3>2. /\ contents' \in Seq(Nat) /\ contents \in Seq(Nat)
          /\ BytesOf(contents', MessageLengthBytes') = BytesOf(contents, MessageLengthBytes) + m
      <4>1. contents \in Seq(Nat)
        BY DEF TypeOK
      <4>2. contents' \in Seq(Nat)
        BY <3>1, <4>1
      <4>3. BytesOf(contents', MessageLengthBytes) =
                BytesOf(contents, MessageLengthBytes) + n + MessageLengthBytes
        BY <2>1, <3>1, <4>1, BytesOfLonger
      <4>4. BytesOf(contents, MessageLengthBytes) \in Nat
        BY CountsShareTheRing DEF RingIsExact
      <4> QED BY <2>1, <4>1, <4>2, <4>3, <4>4
    <3>3. ContentsInv'
      <4>1. /\ Len(contents) \in Nat
            /\ DOMAIN contents' = 1..Len(contents) + 1
            /\ DOMAIN contents = 1..Len(contents)
            /\ contents'[Len(contents) + 1] = n
            /\ \A i \in 1..Len(contents) : contents'[i] = contents[i]
        BY <3>1, <3>2
      <4> QED BY <1>2, <2>1, <2>4, <4>1 DEF ContentsInv
    <3> QED BY <2>1, <2>2, <2>3, <3>2, <3>3, <1>2, CountsShareTheRing DEF RingIsExact
  <2>5. CASE ~isMessageBuffer
    <3>1. contents' = contents \o [i \in 1..n |-> 1]
      BY <1>2, <2>5 DEF Write
    <3>2. /\ contents' \in Seq(Nat)
          /\ Len(contents') = Len(contents) + n
          /\ \A i \in DOMAIN contents' : contents'[i] = 1
      BY <2>5, <3>1, AppendBytes DEF TypeOK, ContentsInv
    <3>3. prvBytesInBuffer = Len(contents) /\ MessageLengthBytes = 0
      BY <2>5, WholeMessages
    <3>4. BytesOf(contents', 0) = Len(contents')
      BY <3>2, BytesOfBytes
    <3>5. ContentsInv' /\ RingIsExact'
      BY <2>1, <2>3, <2>5, <3>2, <3>3, <3>4 DEF ContentsInv, RingIsExact
    <3> QED BY <1>2, <2>2, <2>3, <3>2, <3>5, CountsShareTheRing
  <2> QED BY <2>4, <2>5
<1> QED BY <1>1, <1>2

(* Reading a message as a whole, or bytes that are there, does too.        *)
LEMMA ReadFacts ==
    ASSUME TypeOK, CreatedOK, ContentsInv, RingIsExact, UNCHANGED isMessageBuffer,
           NEW n \in Nat, Read(n),
           n # 0 => /\ n + MessageLengthBytes <= prvBytesInBuffer
                    /\ isMessageBuffer => n = Head(contents)
    PROVE  /\ xHead' \in 0..xLength - 1 /\ xTail' \in 0..xLength - 1
           /\ contents' \in Seq(Nat)
           /\ ContentsInv' /\ RingIsExact'
           /\ xStreamBufferSpacesAvailable' >= xStreamBufferSpacesAvailable
           /\ n = 0 => /\ prvBytesInBuffer' = prvBytesInBuffer
                       /\ xStreamBufferSpacesAvailable' = xStreamBufferSpacesAvailable
<1>1. CASE n = 0
  <2>1. UNCHANGED <<isMessageBuffer, ringVars>>
    BY <1>1 DEF Read, ringVars
  <2> QED BY <2>1, RingKept, CountsShareTheRing DEF TypeOK, ringVars
<1>2. CASE n # 0
  <2> DEFINE m == n + MessageLengthBytes
  <2>1. /\ MessageLengthBytes \in Nat /\ MessageLengthBytes' = MessageLengthBytes
        /\ isMessageBuffer' = isMessageBuffer
    BY WholeMessages DEF MessageLengthBytes
  <2>2. m \in 1..prvBytesInBuffer
    BY <1>2, <2>1, CountsShareTheRing
  <2>3. /\ xHead' \in 0..xLength - 1 /\ xTail' \in 0..xLength - 1
        /\ prvBytesInBuffer' = prvBytesInBuffer - m
        /\ xStreamBufferSpacesAvailable' = xStreamBufferSpacesAvailable + m
    <3>1. xTail' = Advance(xTail, m) /\ xHead' = xHead
      BY <1>2 DEF Read
    <3>2. xLength \in Nat /\ xHead \in 0..xLength - 1 /\ xTail \in 0..xLength - 1
      BY StreamBufferAssumption DEF TypeOK
    <3> HIDE DEF m
    <3>3. xTail' \in 0..xLength - 1 /\ prvBytesInBuffer' = prvBytesInBuffer - m
      BY ONLY <2>2, <3>1, <3>2 DEF Advance, prvBytesInBuffer
    <3>4. xStreamBufferSpacesAvailable' = xStreamBufferSpacesAvailable + m
      BY ONLY <2>2, <3>1, <3>2 DEF Advance, prvBytesInBuffer, xStreamBufferSpacesAvailable
    <3> QED BY <3>1, <3>2, <3>3, <3>4
  <2>4. /\ contents # <<>>
        /\ Head(contents) = contents[1]
        /\ contents \in Seq(Nat)
        /\ Len(contents) \in Nat \ {0}
        /\ DOMAIN contents = 1..Len(contents)
    BY <2>2, WholeMessages, CountsShareTheRing, EmptySeq, LenProperties DEF TypeOK
  <2> DEFINE k == IF isMessageBuffer THEN 1 ELSE n
  <2>5. k \in 0..Len(contents)
    <3>1. CASE isMessageBuffer
      BY <3>1, <2>4
    <3>2. CASE ~isMessageBuffer
      BY <3>2, <2>1, <2>2, WholeMessages, <1>2
    <3> QED BY <3>1, <3>2
  <2>6. contents' = SubSeq(contents, k + 1, Len(contents))
    BY <1>2 DEF Read
  <2>7. /\ contents' \in Seq(Nat)
        /\ Len(contents') = Len(contents) - k
        /\ \A i \in DOMAIN contents' : i + k \in DOMAIN contents /\ contents'[i] = contents[i + k]
    <3> HIDE DEF k
    <3> QED BY <2>4, <2>5, <2>6, DropBytes
  <2>8. ContentsInv'
    <3> HIDE DEF k
    <3> QED BY <2>1, <2>7 DEF ContentsInv
  <2>9. RingIsExact'
    <3>1. CASE isMessageBuffer
      <4>1. contents' = SubSeq(contents, 2, Len(contents)) /\ n = contents[1]
        BY <1>2, <2>4, <2>6, <3>1
      <4>2. /\ BytesOf(contents, MessageLengthBytes) =
                   BytesOf(contents', MessageLengthBytes) + contents[1] + MessageLengthBytes
            /\ BytesOf(contents', MessageLengthBytes) \in Nat
        BY <2>1, <2>4, <4>1, BytesOfRest
      <4> QED BY <2>1, <2>3, <4>1, <4>2 DEF RingIsExact
    <3>2. CASE ~isMessageBuffer
      <4>1. prvBytesInBuffer = Len(contents) /\ MessageLengthBytes = 0
        BY <3>2, WholeMessages
      <4>2. BytesOf(contents', 0) = Len(contents')
        BY <2>1, <2>7, <2>8, <3>2, BytesOfBytes DEF ContentsInv
      <4> QED BY <2>1, <2>3, <2>7, <3>2, <4>1, <4>2 DEF RingIsExact
    <3> QED BY <3>1, <3>2
  <2> QED BY <1>2, <2>2, <2>3, <2>7, <2>8, <2>9, CountsShareTheRing
<1> QED BY <1>1, <1>2

-----------------------------------------------------------------------------
(* Steps of the running task that leave the scheduler alone.               *)

(* The running task is ready, and it alone may hold the scheduler.         *)
LEMMA RunningIsReady ==
    ASSUME IInv, NEW t \in Task, Running(t)
    PROVE  /\ t \in Ready
           /\ pc[t] \in {"notify", "resume"} <=> uxSchedulerSuspended # 0
           /\ pc[t] # "waited" => ucNotifyState[t] # "waiting"
           /\ \A u \in Task \ {t} : pc[u] \notin {"notify", "resume"}
  BY DEF IInv, HeldInv, BlockedInv, Running, Waiting, TypeOK, SchedTypeOK

(* A task that is neither about to hold the scheduler nor holds it goes on *)
(* without marking itself as waiting.                                      *)
LEMMA QuietStep ==
    ASSUME IInv, NEW t \in Task, Running(t), UNCHANGED scheduled,
           pc[t] \notin {"notify", "resume"}, pc'[t] \notin {"notify", "resume"},
           \A u \in Task \ {t} : /\ pc'[u] = pc[u] /\ op'[u] = op[u]
                                 /\ ucNotifyState'[u] = ucNotifyState[u]
                                 /\ ulNotifiedValue'[u] = ulNotifiedValue[u],
           ucNotifyState'[t] # "waiting"
    PROVE  HeldInv' /\ BlockedInv' /\ NoneSleepsNotified'
<1>1. t \in Ready /\ uxSchedulerSuspended = 0
  BY RunningIsReady
<1>2. Ready' = Ready /\ \A u \in Task : Asleep(u)' = Asleep(u)
  BY DEF scheduled, others, Ready, Asleep
<1>3. HeldInv'
  BY <1>1, <1>2 DEF IInv, HeldInv, scheduled, others
<1>4. BlockedInv'
  BY <1>1, <1>2 DEF IInv, BlockedInv, Waiting
<1>5. NoneSleepsNotified'
  <2>1. ~Asleep(t)
    BY <1>1 DEF Asleep
  <2>2. ASSUME NEW u \in Task, Asleep(u)'
        PROVE  Waiting(u)' /\ (op'[u] = "take" => ulNotifiedValue'[u] = 0)
    BY <1>2, <2>1, <2>2 DEF IInv, NoneSleepsNotified, Waiting
  <2> QED BY <2>2 DEF NoneSleepsNotified
<1> QED BY <1>3, <1>4, <1>5

(* What the buffer is set to keeps its type.                               *)
LEMMA CreatedKept == ASSUME IInv, UNCHANGED settings PROVE CreatedOK'
  BY DEF IInv, CreatedOK, settings

(* Only the deadline of the task changes.                                  *)
LEMMA SchedTypeKept ==
    ASSUME IInv, UNCHANGED scheduled, deadline' \in [Task -> {"none", "armed", "expired"}]
    PROVE  SchedTypeOK'
  BY DEF IInv, TypeOK, SchedTypeOK, scheduled, others

(* The ring and what the calls know of it, when no step of a call is made. *)
LEMMA RingStays ==
    ASSUME IInv, UNCHANGED <<settings, ringVars>>
    PROVE  /\ CreatedOK' /\ ContentsInv' /\ RingIsExact'
           /\ prvBytesInBuffer' = prvBytesInBuffer
           /\ xStreamBufferSpacesAvailable' = xStreamBufferSpacesAvailable
           /\ prvBytesInBuffer \in Nat /\ xStreamBufferSpacesAvailable \in Nat
           /\ LevelReached' = LevelReached
  BY RingKept, CreatedKept, CountsShareTheRing DEF IInv, settings, LevelReached

(* ... and when only the level changes that the reader goes by.            *)
LEMMA RingStaysTested ==
    ASSUME IInv, UNCHANGED <<isMessageBuffer, isr, xTriggerLevelBytes, ringVars>>,
           testedLevel' \in {testedLevel, xTriggerLevelBytes}
    PROVE  /\ CreatedOK' /\ ContentsInv' /\ RingIsExact'
           /\ prvBytesInBuffer' = prvBytesInBuffer
           /\ xStreamBufferSpacesAvailable' = xStreamBufferSpacesAvailable
           /\ prvBytesInBuffer \in Nat /\ xStreamBufferSpacesAvailable \in Nat
           /\ \A n : RequiredSpace(n)' = RequiredSpace(n)
  BY RingKept, CountsShareTheRing DEF IInv, CreatedOK

-----------------------------------------------------------------------------
(* The actions: the application.                                           *)

(* A call of the writer begins.                                            *)
LEMMA SendKeeps == ASSUME IInv, NEW t \in Task, Send(t) PROVE IInv'
<1>1. Running(t) /\ pc[t] = "app" /\ op[t] = "none" /\ t = Writer /\ isr # "writes"
  BY DEF Send, At, IInv, CallInv
<1>2. PICK n \in Sizes, w \in {"zero", "ticks", "max"}, label \in {"look", "enter"},
           d \in {"none", "armed"} :
        Begin(t, "send", n, w, label) /\ Deadline(t, d)
  BY StreamBufferAssumption DEF Send
<1>3. UNCHANGED <<scheduled, settings, ringVars, waitingVars, notifyVars, amount>>
  BY <1>2 DEF Send, Begin
<1>4. /\ pc' = [pc EXCEPT ![t] = label] /\ op' = [op EXCEPT ![t] = "send"]
      /\ size' = [size EXCEPT ![t] = n]
      /\ xTicksToWait' = [xTicksToWait EXCEPT ![t] = w]
      /\ deadline' = [deadline EXCEPT ![t] = d]
  BY <1>2 DEF Begin, GoTo, Deadline
<1>5. TypeOK'
  <2>1. SchedTypeOK'
    BY <1>3, <1>4, SchedTypeKept DEF IInv, TypeOK, SchedTypeOK
  <2>2. /\ pc' \in [Task -> {"app", "enter", "wait", "waited", "clear", "look", "transfer",
                             "written", "complete", "notify", "resume"}]
        /\ op' \in [Task -> {"none", "send", "receive", "take"}]
        /\ size' \in [Task -> Sizes \cup {0}]
        /\ xTicksToWait' \in [Task -> {"zero", "ticks", "max", "over"}]
    BY <1>4 DEF IInv, TypeOK
  <2> QED BY <1>3, <2>1, <2>2 DEF IInv, TypeOK, ringVars, waitingVars, notifyVars
<1>6. CallInv'
  BY <1>1, <1>3, <1>4, StreamBufferAssumption DEF IInv, CallInv, TypeOK, settings
<1>7. HeldInv' /\ BlockedInv' /\ NoneSleepsNotified'
  BY <1>1, <1>3, <1>4, QuietStep, RunningIsReady DEF IInv, TypeOK, notifyVars
<1>8. AmountInv'
  BY <1>1, <1>3, <1>4, RingStays DEF IInv, AmountInv, CallInv, TypeOK
<1>9. ReaderInv' /\ WriterInv'
  BY <1>1, <1>3, <1>4, RingStays, StreamBufferAssumption
     DEF IInv, ReaderInv, WriterCompletes, WriterInv, MaySleep, TypeOK, waitingVars, notifyVars
<1> QED BY <1>3, <1>5, <1>6, <1>7, <1>8, <1>9, RingStays DEF IInv

(* A call of the reader begins.                                            *)
LEMMA ReceiveKeeps == ASSUME IInv, NEW t \in Task, Receive(t) PROVE IInv'
<1>1. Running(t) /\ pc[t] = "app" /\ op[t] = "none" /\ t = Reader /\ isr # "reads"
  BY DEF Receive, At, IInv, CallInv
<1>2. PICK n \in Sizes, w \in {"zero", "ticks", "max"}, label \in {"look", "enter"} :
        Begin(t, "receive", n, w, label) /\ Deadline(t, "none")
  BY StreamBufferAssumption DEF Receive
<1>3. UNCHANGED <<scheduled, settings, ringVars, waitingVars, notifyVars, amount>>
  BY <1>2 DEF Receive, Begin
<1>4. /\ pc' = [pc EXCEPT ![t] = label] /\ op' = [op EXCEPT ![t] = "receive"]
      /\ size' = [size EXCEPT ![t] = n]
      /\ xTicksToWait' = [xTicksToWait EXCEPT ![t] = w]
      /\ deadline' = [deadline EXCEPT ![t] = "none"]
  BY <1>2 DEF Begin, GoTo, Deadline
<1>5. TypeOK'
  <2>1. SchedTypeOK'
    BY <1>3, <1>4, SchedTypeKept DEF IInv, TypeOK, SchedTypeOK
  <2>2. /\ pc' \in [Task -> {"app", "enter", "wait", "waited", "clear", "look", "transfer",
                             "written", "complete", "notify", "resume"}]
        /\ op' \in [Task -> {"none", "send", "receive", "take"}]
        /\ size' \in [Task -> Sizes \cup {0}]
        /\ xTicksToWait' \in [Task -> {"zero", "ticks", "max", "over"}]
    BY <1>4 DEF IInv, TypeOK
  <2> QED BY <1>3, <2>1, <2>2 DEF IInv, TypeOK, ringVars, waitingVars, notifyVars
<1>6. CallInv'
  BY <1>1, <1>3, <1>4, StreamBufferAssumption DEF IInv, CallInv, TypeOK, settings
<1>7. HeldInv' /\ BlockedInv' /\ NoneSleepsNotified'
  BY <1>1, <1>3, <1>4, QuietStep, RunningIsReady DEF IInv, TypeOK, notifyVars
<1>8. AmountInv'
  BY <1>1, <1>3, <1>4, RingStays DEF IInv, AmountInv, CallInv, TypeOK
<1>9. ReaderInv' /\ WriterInv'
  <2>1. ReaderInv'
    BY <1>1, <1>4 DEF IInv, ReaderInv, WriterCompletes, MaySleep, TypeOK
  <2>2. WriterInv'
    <3>1. /\ pc'[Writer] = pc[Writer] /\ op'[Writer] = op[Writer] /\ size'[Writer] = size[Writer]
          /\ ucNotifyState' = ucNotifyState /\ waitingVars' = waitingVars
      BY <1>1, <1>3, <1>4, StreamBufferAssumption DEF notifyVars, TypeOK, IInv
    <3>2. op[Writer] = "send" => HasToWait(Writer)' = HasToWait(Writer)
      BY <1>3, <3>1, RingStays, RingKept DEF HasToWait, Found, settings
    <3> QED BY <1>1, <3>1, <3>2 DEF IInv, WriterInv, MaySleep, waitingVars
  <2> QED BY <2>1, <2>2
<1> QED BY <1>3, <1>5, <1>6, <1>7, <1>8, <1>9, RingStays DEF IInv

(* The application waits for a notification of its own.                    *)
LEMMA TakeKeeps == ASSUME IInv, NEW t \in Task, Take(t) PROVE IInv'
<1>1. Running(t) /\ pc[t] = "app" /\ op[t] = "none" /\ t \in Takers
  BY DEF Take, At, IInv, CallInv
<1>2. PICK w \in {"zero", "ticks", "max"} :
        Begin(t, "take", 0, w, "wait") /\ Deadline(t, "none")
  BY StreamBufferAssumption DEF Take
<1>3. UNCHANGED <<scheduled, settings, ringVars, waitingVars, notifyVars, amount>>
  BY <1>2 DEF Take, Begin
<1>4. /\ pc' = [pc EXCEPT ![t] = "wait"] /\ op' = [op EXCEPT ![t] = "take"]
      /\ size' = [size EXCEPT ![t] = 0]
      /\ xTicksToWait' = [xTicksToWait EXCEPT ![t] = w]
      /\ deadline' = [deadline EXCEPT ![t] = "none"]
  BY <1>2 DEF Begin, GoTo, Deadline
<1>5. TypeOK'
  <2>1. SchedTypeOK'
    BY <1>3, <1>4, SchedTypeKept DEF IInv, TypeOK, SchedTypeOK
  <2>2. /\ pc' \in [Task -> {"app", "enter", "wait", "waited", "clear", "look", "transfer",
                             "written", "complete", "notify", "resume"}]
        /\ op' \in [Task -> {"none", "send", "receive", "take"}]
        /\ size' \in [Task -> Sizes \cup {0}]
        /\ xTicksToWait' \in [Task -> {"zero", "ticks", "max", "over"}]
    BY <1>4 DEF IInv, TypeOK
  <2> QED BY <1>3, <2>1, <2>2 DEF IInv, TypeOK, ringVars, waitingVars, notifyVars
<1>6. CallInv'
  BY <1>1, <1>3, <1>4, StreamBufferAssumption DEF IInv, CallInv, TypeOK, settings
<1>7. HeldInv' /\ BlockedInv' /\ NoneSleepsNotified'
  BY <1>1, <1>3, <1>4, QuietStep, RunningIsReady DEF IInv, TypeOK, notifyVars
<1>8. AmountInv'
  BY <1>1, <1>3, <1>4, RingStays DEF IInv, AmountInv, TypeOK
<1>9. /\ \A v \in Task \ {t} : pc'[v] = pc[v] /\ op'[v] = op[v] /\ size'[v] = size[v]
      /\ op'[t] = "take"
  BY <1>4 DEF IInv, TypeOK
<1>10. ReaderInv'
  BY <1>1, <1>3, <1>9, RingStays, StreamBufferAssumption
     DEF IInv, ReaderInv, WriterCompletes, MaySleep, waitingVars, notifyVars
<1>11. WriterInv'
  BY <1>1, <1>3, <1>9, RingStays, RingKept, StreamBufferAssumption
     DEF IInv, WriterInv, MaySleep, HasToWait, Found, waitingVars, notifyVars, settings
<1> QED BY <1>3, <1>5, <1>6, <1>7, <1>8, <1>10, <1>11, RingStays DEF IInv

(* A task is notified by the running one: it may not sleep any more.       *)
LEMMA NotifyFacts ==
    ASSUME IInv, NEW t \in Task, Running(t), NEW u \in Task, xTaskGenericNotify(u),
           UNCHANGED <<others, uxSchedulerSuspended, deadline>>
    PROVE  /\ SchedTypeOK'
           /\ ucNotifyState' \in [Task -> {"notWaiting", "waiting", "received"}]
           /\ ucNotifyState'[u] = "received"
           /\ \A v \in Task \ {u} : ucNotifyState'[v] = ucNotifyState[v]
           /\ t \in Ready' /\ t = pxCurrentTCB'
           /\ \A v \in Task : v \notin Ready' => v # u \/ v \in xPendingReadyList'
           /\ \A v \in Task : v \notin Ready' => v \notin Ready
           /\ \A v \in Task : Asleep(v)' => v # u /\ Asleep(v)
<1>1. /\ ucNotifyState' = [ucNotifyState EXCEPT ![u] = "received"]
      /\ xStateListItem' = [xStateListItem EXCEPT ![u] = IF Waiting(u) THEN "ready" ELSE @]
      /\ pendSV' \in BOOLEAN
  BY DEF xTaskGenericNotify
<1>2. /\ xStateListItem \in [Task -> {"ready", "delayed", "suspended"}]
      /\ ucNotifyState \in [Task -> {"notWaiting", "waiting", "received"}]
  BY DEF IInv, TypeOK, SchedTypeOK
<1>3. SchedTypeOK'
  BY <1>1, <1>2 DEF IInv, TypeOK, SchedTypeOK, others
<1>4. \A v \in Task : v \notin Ready' => v \notin Ready /\ (Waiting(u) => v # u)
  BY <1>1, <1>2 DEF Ready
<1>5. xPendingReadyList' = xPendingReadyList /\ pxCurrentTCB' = pxCurrentTCB
  BY DEF others
<1>6. \A v \in Task : Asleep(v)' => v # u /\ Asleep(v)
  BY <1>4, <1>5 DEF Asleep, IInv, NoneSleepsNotified
<1>7. t \in Ready /\ t = pxCurrentTCB
  BY RunningIsReady DEF Running
<1> QED BY <1>1, <1>2, <1>3, <1>4, <1>5, <1>6, <1>7 DEF Asleep

(* The application gives a notification.                                   *)
LEMMA GiveKeeps == ASSUME IInv, NEW t \in Task, Give(t) PROVE IInv'
<1>1. Running(t) /\ pc[t] = "app"
  BY DEF Give, At
<1>2. PICK u \in Takers : /\ ulNotifiedValue[u] < MaxValue
                          /\ ulNotifiedValue' = [ulNotifiedValue EXCEPT ![u] = @ + 1]
                          /\ xTaskGenericNotify(u)
  BY DEF Give
<1>3. UNCHANGED <<others, uxSchedulerSuspended, deadline, settings, ringVars, waitingVars, callVars>>
  BY DEF Give
<1>4. u \in Task
  BY StreamBufferAssumption
<1>5. /\ SchedTypeOK'
      /\ ucNotifyState' \in [Task -> {"notWaiting", "waiting", "received"}]
      /\ ucNotifyState'[u] = "received"
      /\ \A v \in Task \ {u} : ucNotifyState'[v] = ucNotifyState[v]
      /\ t \in Ready' /\ t = pxCurrentTCB'
      /\ \A v \in Task : v \notin Ready' => v \notin Ready
      /\ \A v \in Task : Asleep(v)' => v # u /\ Asleep(v)
  BY <1>1, <1>2, <1>3, <1>4, NotifyFacts
<1>6. TypeOK'
  <2>1. ulNotifiedValue[u] + 1 \in 0..MaxValue
    BY <1>2, <1>4, StreamBufferAssumption DEF IInv, TypeOK
  <2>2. ulNotifiedValue' \in [Task -> 0..MaxValue]
    BY <1>2, <1>4, <2>1 DEF IInv, TypeOK
  <2> QED BY <1>3, <1>5, <2>2 DEF IInv, TypeOK, ringVars, waitingVars, callVars
<1>7. CallInv' /\ AmountInv'
  BY <1>3, RingStays DEF IInv, CallInv, AmountInv, callVars, settings
<1>8. HeldInv' /\ BlockedInv'
  BY <1>1, <1>3, <1>5 DEF IInv, HeldInv, BlockedInv, Waiting, others, callVars
<1>9. NoneSleepsNotified'
  BY <1>2, <1>3, <1>4, <1>5 DEF IInv, NoneSleepsNotified, Waiting, callVars, TypeOK
<1>10. \A v \in Task : MaySleep(v)' => MaySleep(v)
  BY <1>3, <1>5 DEF MaySleep, callVars
<1>11. ReaderInv'
  BY <1>3, <1>10, RingStays, StreamBufferAssumption DEF IInv, ReaderInv, WriterCompletes, waitingVars, callVars
<1>12. WriterInv'
  BY <1>3, <1>10, RingStays, RingKept, StreamBufferAssumption
     DEF IInv, WriterInv, HasToWait, Found, waitingVars, callVars, settings
<1> QED BY <1>3, <1>6, <1>7, <1>8, <1>9, <1>11, <1>12, RingStays DEF IInv

(* The buffer is emptied while nobody is in a call of it.                  *)
LEMMA ResetKeeps == ASSUME IInv, NEW t \in Task, xStreamBufferReset(t) PROVE IInv'
<1>1. /\ \A u \in Task : op[u] \in {"none", "take"}
      /\ xHead' = 0 /\ xTail' = 0 /\ contents' = <<>>
      /\ UNCHANGED <<schedVars, settings, waitingVars, notifyVars, callVars>>
  BY DEF xStreamBufferReset
<1>2. TypeOK'
  <2>1. SchedTypeOK'
    BY <1>1 DEF IInv, TypeOK, SchedTypeOK, schedVars
  <2>2. <<>> \in Seq(Nat) /\ 0 \in 0..xLength - 1
    BY StreamBufferAssumption
  <2> QED BY <1>1, <2>1, <2>2 DEF IInv, TypeOK, waitingVars, notifyVars, callVars
<1>3. CallInv' /\ HeldInv' /\ BlockedInv' /\ NoneSleepsNotified'
  BY <1>1 DEF IInv, CallInv, HeldInv, BlockedInv, NoneSleepsNotified, Waiting, Asleep, Ready,
              schedVars, settings, notifyVars, callVars
<1>4. ContentsInv'
  BY <1>1 DEF ContentsInv
<1>5. RingIsExact'
  <2>1. prvBytesInBuffer' = 0
    BY <1>1, StreamBufferAssumption DEF prvBytesInBuffer
  <2>2. MessageLengthBytes' \in Nat
    BY <1>1, StreamBufferAssumption DEF MessageLengthBytes
  <2> QED BY <1>1, <2>1, <2>2, BytesOfEmpty DEF RingIsExact
<1>6. AmountInv' /\ ReaderInv' /\ WriterInv'
  BY <1>1, StreamBufferAssumption DEF AmountInv, ReaderInv, WriterCompletes, WriterInv, callVars
<1> QED BY <1>1, <1>2, <1>3, <1>4, <1>5, <1>6, CreatedKept DEF IInv

(* The trigger level changes; a reader that waits goes by the old one.     *)
LEMMA SetTriggerLevelKeeps ==
    ASSUME IInv, NEW t \in Task, xStreamBufferSetTriggerLevel(t)
    PROVE  IInv'
<1>1. /\ xTriggerLevelBytes' \in Triggers
      /\ UNCHANGED <<schedVars, isMessageBuffer, isr, testedLevel, ringVars, waitingVars,
                     notifyVars, callVars>>
  BY DEF xStreamBufferSetTriggerLevel
<1>2. TypeOK'
  <2>1. SchedTypeOK'
    BY <1>1 DEF IInv, TypeOK, SchedTypeOK, schedVars
  <2> QED BY <1>1, <2>1 DEF IInv, TypeOK, waitingVars, notifyVars, callVars, ringVars
<1>3. CreatedOK'
  BY <1>1 DEF IInv, CreatedOK
<1>4. CallInv' /\ HeldInv' /\ BlockedInv' /\ NoneSleepsNotified'
  BY <1>1 DEF IInv, CallInv, HeldInv, BlockedInv, NoneSleepsNotified, Waiting, Asleep, Ready,
              schedVars, notifyVars, callVars
<1>5. AmountInv' /\ ContentsInv' /\ RingIsExact'
  BY <1>1, RingKept DEF IInv, AmountInv, callVars
<1>6. ReaderInv'
  BY <1>1, RingKept DEF IInv, ReaderInv, WriterCompletes, LevelReached, MaySleep, callVars,
                        notifyVars, waitingVars
<1>7. WriterInv'
  BY <1>1, RingKept DEF IInv, WriterInv, MaySleep, HasToWait, Found, callVars, notifyVars, waitingVars
<1> QED BY <1>2, <1>3, <1>4, <1>5, <1>6, <1>7 DEF IInv

-----------------------------------------------------------------------------
(* The actions: the steps of the calls.                                    *)

(* A step of the buffer's API is one of the writer or of the reader.       *)
LEMMA WhoCalls ==
    ASSUME IInv, NEW t \in Task, pc[t] # "app", op[t] # "take"
    PROVE  /\ \/ t = Writer /\ op[t] = "send" /\ isr # "writes"
              \/ t = Reader /\ op[t] = "receive" /\ isr # "reads" /\ pc[t] # "written"
           /\ Writer \in Task /\ Reader \in Task /\ Writer # Reader
           /\ size[t] # 0
  BY StreamBufferAssumption DEF IInv, CallInv, TypeOK

(* The writer's need, as long as its call and the ring stay the same.      *)
LEMMA NeedKept ==
    ASSUME IInv, UNCHANGED <<settings, ringVars>>, op'[Writer] = op[Writer],
           size'[Writer] = size[Writer]
    PROVE  op[Writer] = "send" => HasToWait(Writer)' = HasToWait(Writer)
  BY RingKept DEF HasToWait, Found, settings

(* The test finds too little only when a reader finds nothing.             *)
LEMMA EnterKeeps == ASSUME IInv, NEW t \in Task, Enter(t) PROVE IInv'
<1>1. Running(t) /\ pc[t] = "enter" /\ op[t] # "take"
  BY DEF Enter, At, IInv, CallInv
<1>2. /\ \/ t = Writer /\ op[t] = "send"
         \/ t = Reader /\ op[t] = "receive"
      /\ Writer \in Task /\ Reader \in Task /\ Writer # Reader
  BY <1>1, WhoCalls
<1>3. UNCHANGED <<scheduled, deadline, isMessageBuffer, isr, xTriggerLevelBytes, ringVars,
                  ulNotifiedValue, op, size, xTicksToWait>>
  BY DEF Enter, Continue
<1>4. PICK label \in {"wait", "look"} : /\ pc' = [pc EXCEPT ![t] = label]
                                        /\ label = "wait" <=> HasToWait(t)
                                        /\ amount' = [amount EXCEPT ![t] = Found(t)]
  BY DEF Enter, Continue, GoTo
<1>5. /\ HasToWait(t) => ucNotifyState' = StateCleared(t) /\ Register(t)
      /\ ~HasToWait(t) => UNCHANGED <<ucNotifyState, testedLevel, waitingVars>>
  BY DEF Enter
<1>6. /\ ucNotifyState' \in [Task -> {"notWaiting", "waiting", "received"}]
      /\ ucNotifyState'[t] # "waiting"
      /\ \A u \in Task \ {t} : ucNotifyState'[u] = ucNotifyState[u]
  BY <1>1, <1>5, RunningIsReady DEF StateCleared, IInv, TypeOK
<1>7. /\ t = Writer /\ HasToWait(t) => /\ xTaskWaitingToSend' = Writer
                                       /\ UNCHANGED <<xTaskWaitingToReceive, testedLevel>>
      /\ t = Reader /\ HasToWait(t) => /\ xTaskWaitingToReceive' = Reader
                                       /\ UNCHANGED xTaskWaitingToSend
                                       /\ testedLevel' = xTriggerLevelBytes
      /\ ~HasToWait(t) => UNCHANGED <<xTaskWaitingToSend, xTaskWaitingToReceive, testedLevel>>
  BY <1>2, <1>5 DEF Register, LevelTested, waitingVars
<1>r. /\ CreatedOK' /\ ContentsInv' /\ RingIsExact'
      /\ prvBytesInBuffer' = prvBytesInBuffer
      /\ xStreamBufferSpacesAvailable' = xStreamBufferSpacesAvailable
      /\ prvBytesInBuffer \in Nat /\ xStreamBufferSpacesAvailable \in Nat
      /\ \A n : RequiredSpace(n)' = RequiredSpace(n)
  <2>1. testedLevel' \in {testedLevel, xTriggerLevelBytes}
    BY <1>2, <1>7
  <2> QED BY <1>3, <2>1, RingStaysTested
<1>8. /\ Found(t) \in 0..xLength - 1
      /\ t = Writer => Found(t) = xStreamBufferSpacesAvailable
      /\ t = Reader => Found(t) = prvBytesInBuffer
  BY <1>2, CountsShareTheRing DEF Found, IInv
<1>9. TypeOK'
  <2>1. SchedTypeOK'
    BY <1>3, SchedTypeKept DEF IInv, TypeOK, SchedTypeOK
  <2>2. /\ pc' \in [Task -> {"app", "enter", "wait", "waited", "clear", "look", "transfer",
                             "written", "complete", "notify", "resume"}]
        /\ amount' \in [Task -> 0..xLength - 1]
    BY <1>4, <1>8 DEF IInv, TypeOK
  <2>3. /\ xTaskWaitingToSend' \in {NoTask, Writer}
        /\ xTaskWaitingToReceive' \in {NoTask, Reader}
    BY <1>2, <1>7 DEF IInv, TypeOK
  <2> QED BY <1>3, <1>6, <2>1, <2>2, <2>3 DEF IInv, TypeOK, ringVars
<1>10. CallInv'
  BY <1>1, <1>2, <1>3, <1>4 DEF IInv, CallInv, TypeOK
<1>11. HeldInv' /\ BlockedInv' /\ NoneSleepsNotified'
  BY <1>1, <1>3, <1>4, <1>6, QuietStep DEF IInv, TypeOK
<1>12. AmountInv'
  BY <1>r, <1>2, <1>3, <1>4, <1>8 DEF IInv, AmountInv, TypeOK
<1>13. ReaderInv'
  <2>1. CASE t = Reader /\ HasToWait(t)
    <3>1. prvBytesInBuffer < xTriggerLevelBytes
      <4>1. xTriggerLevelBytes \in Nat /\ xTriggerLevelBytes >= 1
        BY StreamBufferAssumption DEF IInv, CreatedOK
      <4>2. prvBytesInBuffer = 0
        BY <1>2, <1>8, <2>1, WholeMessages DEF HasToWait, IInv
      <4> QED BY <4>1, <4>2
    <3>2. ~(prvBytesInBuffer >= xTriggerLevelBytes)
      BY <1>r, <3>1, StreamBufferAssumption DEF IInv, CreatedOK
    <3> QED BY <1>r, <1>7, <2>1, <3>2 DEF ReaderInv, LevelReached
  <2>2. CASE t = Reader /\ ~HasToWait(t)
    BY <1>2, <1>4, <2>2 DEF ReaderInv, MaySleep, IInv, TypeOK
  <2>3. CASE t = Writer
    <3>1. UNCHANGED <<xTaskWaitingToReceive, testedLevel>> /\ LevelReached' = LevelReached
      BY <1>r, <1>2, <1>7, <2>3 DEF LevelReached
    <3>2. /\ pc'[Reader] = pc[Reader] /\ ucNotifyState'[Reader] = ucNotifyState[Reader]
          /\ op' = op
      BY <1>2, <1>3, <1>4, <1>6, <2>3 DEF IInv, TypeOK
    <3>3. ~WriterCompletes
      BY <1>1, <2>3 DEF WriterCompletes
    <3> QED BY <3>1, <3>2, <3>3 DEF IInv, ReaderInv, MaySleep
  <2> QED BY <1>2, <2>1, <2>2, <2>3
<1>14. WriterInv'
  <2>1. op[Writer] = "send" => HasToWait(Writer)' = HasToWait(Writer)
    BY <1>r, <1>3 DEF HasToWait, Found
  <2>2. CASE t = Writer
    BY <1>2, <1>3, <1>4, <1>7, <2>1, <2>2 DEF WriterInv, MaySleep, IInv, TypeOK
  <2>3. CASE t = Reader
    BY <1>1, <1>2, <1>3, <1>4, <1>6, <1>7, <2>1, <2>3 DEF WriterInv, MaySleep, IInv, TypeOK
  <2> QED BY <1>2, <2>2, <2>3
<1> QED BY <1>r, <1>9, <1>10, <1>11, <1>12, <1>13, <1>14 DEF IInv

(* The task marks itself as waiting and may block.                         *)
LEMMA WaitKeeps == ASSUME IInv, NEW t \in Task, Wait(t) PROVE IInv'
<1>1. Running(t) /\ pc[t] = "wait"
  BY DEF Wait, At
<1>2. UNCHANGED <<others, uxSchedulerSuspended, settings, ringVars, waitingVars,
                  ulNotifiedValue, op, size, amount>>
  BY DEF Wait
<1>3. /\ pc' = [pc EXCEPT ![t] = "waited"]
      /\ ucNotifyState' = [ucNotifyState EXCEPT ![t] = IF MayBlock(t) THEN "waiting" ELSE @]
      /\ pendSV' = (MayBlock(t) /\ xTicksToWait[t] # "zero")
  BY DEF Wait, GoTo
<1>4. PICK s \in {"ready", "delayed", "suspended"}, d \in {"none", "armed", "expired"},
           w \in {"zero", "ticks", "max", "over"} :
        /\ xStateListItem' = [xStateListItem EXCEPT ![t] = s]
        /\ s # "ready" => MayBlock(t) /\ xTicksToWait[t] # "zero"
        /\ deadline' = [deadline EXCEPT ![t] = d]
        /\ xTicksToWait' = [xTicksToWait EXCEPT ![t] = w]
  <2>1. /\ xStateListItem[t] = "ready" /\ deadline[t] \in {"none", "armed", "expired"}
        /\ xTicksToWait[t] \in {"zero", "ticks", "max", "over"}
    BY <1>1, RunningIsReady DEF IInv, TypeOK, SchedTypeOK, Ready
  <2>2. \E s \in {"ready", "delayed", "suspended"} :
            /\ xStateListItem' = [xStateListItem EXCEPT ![t] = s]
            /\ s # "ready" <=> MayBlock(t) /\ xTicksToWait[t] # "zero"
    BY <2>1 DEF Wait
  <2>3. \E d \in {"none", "armed", "expired"} : deadline' = [deadline EXCEPT ![t] = d]
    BY <2>1 DEF Wait, Deadline
  <2>4. \E w \in {"zero", "ticks", "max", "over"} :
            xTicksToWait' = [xTicksToWait EXCEPT ![t] = w]
    BY <2>1 DEF Wait
  <2> QED BY <2>2, <2>3, <2>4
<1>5. t \in Ready /\ uxSchedulerSuspended = 0 /\ xPendingReadyList = {} /\ t = pxCurrentTCB
  BY <1>1, RunningIsReady DEF IInv, HeldInv, Running
<1>6. TypeOK'
  <2>1. xStateListItem' \in [Task -> {"ready", "delayed", "suspended"}]
    BY <1>4 DEF IInv, TypeOK, SchedTypeOK
  <2>2. deadline' \in [Task -> {"none", "armed", "expired"}]
    BY <1>4 DEF IInv, TypeOK, SchedTypeOK
  <2>3. SchedTypeOK'
    BY <1>2, <1>3, <2>1, <2>2 DEF IInv, TypeOK, SchedTypeOK, others
  <2>4. /\ pc' \in [Task -> {"app", "enter", "wait", "waited", "clear", "look", "transfer",
                             "written", "complete", "notify", "resume"}]
        /\ ucNotifyState' \in [Task -> {"notWaiting", "waiting", "received"}]
        /\ xTicksToWait' \in [Task -> {"zero", "ticks", "max", "over"}]
    BY <1>3, <1>4 DEF IInv, TypeOK
  <2> QED BY <1>2, <2>3, <2>4 DEF IInv, TypeOK, ringVars, waitingVars
<1>7. CallInv' /\ AmountInv'
  BY <1>1, <1>2, <1>3, RingStays DEF IInv, CallInv, AmountInv, TypeOK, settings
<1>8. \A u \in Task \ {t} : /\ u \in Ready' <=> u \in Ready
                            /\ Waiting(u)' = Waiting(u) /\ pc'[u] = pc[u]
  BY <1>3, <1>4 DEF Ready, Waiting, IInv, TypeOK, SchedTypeOK
<1>9. /\ Waiting(t)' <=> MayBlock(t)
      /\ t \notin Ready' => MayBlock(t) /\ xTicksToWait[t] # "zero"
      /\ pc'[t] = "waited"
  BY <1>1, <1>3, <1>4, RunningIsReady DEF Ready, Waiting, IInv, TypeOK, SchedTypeOK
<1>10. HeldInv'
  BY <1>2, <1>3, <1>5, <1>8, <1>9 DEF IInv, HeldInv, others
<1>11. BlockedInv'
  BY <1>8, <1>9 DEF IInv, BlockedInv
<1>12. NoneSleepsNotified'
  <2>1. SUFFICES ASSUME NEW u \in Task, Asleep(u)'
                 PROVE  Waiting(u)' /\ (op'[u] = "take" => ulNotifiedValue'[u] = 0)
    BY DEF NoneSleepsNotified
  <2>2. CASE u = t
    BY <1>2, <1>9, <2>1, <2>2 DEF Asleep, MayBlock
  <2>3. CASE u # t
    BY <1>2, <1>8, <2>1, <2>3 DEF Asleep, IInv, NoneSleepsNotified, others
  <2> QED BY <2>2, <2>3
<1>13. \A u \in Task : op[u] # "take" /\ MaySleep(u)' => MaySleep(u)
  BY <1>1, <1>2, <1>3 DEF MaySleep, MayBlock, IInv, TypeOK
<1>14. ReaderInv'
  <2>1. op[Writer] = "send" /\ pc[Writer] \in {"written", "complete", "notify"} =>
            pc'[Writer] = pc[Writer]
    BY <1>1, <1>8, StreamBufferAssumption
  <2> QED BY <1>2, <1>13, <2>1, RingStays, StreamBufferAssumption
          DEF IInv, ReaderInv, WriterCompletes, waitingVars
<1>15. WriterInv'
  <2>1. op[Reader] = "receive" /\ pc[Reader] \in {"complete", "notify"} =>
            pc'[Reader] = pc[Reader]
    BY <1>1, <1>8, StreamBufferAssumption
  <2> QED BY <1>2, <1>13, <2>1, NeedKept, StreamBufferAssumption
          DEF IInv, WriterInv, waitingVars
<1> QED BY <1>2, <1>6, <1>7, <1>10, <1>11, <1>12, <1>14, <1>15, RingStays DEF IInv

(* The task has been woken or never blocked: it waits no longer.           *)
LEMMA WaitedKeeps == ASSUME IInv, NEW t \in Task, Waited(t) PROVE IInv'
<1>1. Running(t) /\ pc[t] = "waited" /\ op[t] # "take"
  BY DEF Waited, At
<1>2. /\ \/ t = Writer /\ op[t] = "send"
         \/ t = Reader /\ op[t] = "receive"
      /\ Writer \in Task /\ Reader \in Task /\ Writer # Reader
  BY <1>1, WhoCalls
<1>3. UNCHANGED <<scheduled, deadline, settings, ringVars, waitingVars, ulNotifiedValue,
                  op, size, xTicksToWait>>
  BY DEF Waited, Continue
<1>4. /\ pc' = [pc EXCEPT ![t] = "clear"]
      /\ amount' = [amount EXCEPT ![t] = amount[t]]
      /\ ucNotifyState' = [ucNotifyState EXCEPT ![t] = "notWaiting"]
  BY DEF Waited, Continue, GoTo
<1>5. TypeOK'
  <2>1. SchedTypeOK'
    BY <1>3, SchedTypeKept DEF IInv, TypeOK, SchedTypeOK
  <2>2. /\ pc' \in [Task -> {"app", "enter", "wait", "waited", "clear", "look", "transfer",
                             "written", "complete", "notify", "resume"}]
        /\ ucNotifyState' \in [Task -> {"notWaiting", "waiting", "received"}]
        /\ amount' = amount
    BY <1>4 DEF IInv, TypeOK
  <2> QED BY <1>3, <2>1, <2>2 DEF IInv, TypeOK, ringVars, waitingVars
<1>6. CallInv' /\ AmountInv'
  BY <1>1, <1>2, <1>3, <1>4, RingStays DEF IInv, CallInv, AmountInv, TypeOK, settings
<1>7. HeldInv' /\ BlockedInv' /\ NoneSleepsNotified'
  BY <1>1, <1>3, <1>4, QuietStep DEF IInv, TypeOK
<1>8. ReaderInv'
  BY <1>1, <1>2, <1>3, <1>4, RingStays DEF ReaderInv, WriterCompletes, MaySleep, IInv, TypeOK, waitingVars
<1>9. WriterInv'
  BY <1>1, <1>2, <1>3, <1>4, NeedKept DEF WriterInv, MaySleep, IInv, TypeOK, waitingVars
<1> QED BY <1>3, <1>5, <1>6, <1>7, <1>8, <1>9, RingStays DEF IInv

(* ... and in ulTaskNotifyTake returns.                                    *)
LEMMA TakenKeeps == ASSUME IInv, NEW t \in Task, Taken(t) PROVE IInv'
<1>1. Running(t) /\ pc[t] = "waited" /\ op[t] = "take"
  BY DEF Taken, At
<1>2. UNCHANGED <<scheduled, settings, ringVars, waitingVars>>
  BY DEF Taken
<1>3. PICK n \in {0, ulNotifiedValue[t] - 1} \cap Nat :
        ulNotifiedValue' = [ulNotifiedValue EXCEPT ![t] = n]
  BY DEF Taken
<1>4. /\ pc' = [pc EXCEPT ![t] = "app"] /\ op' = [op EXCEPT ![t] = "none"]
      /\ size' = [size EXCEPT ![t] = 0] /\ amount' = [amount EXCEPT ![t] = 0]
      /\ xTicksToWait' = [xTicksToWait EXCEPT ![t] = "zero"]
      /\ deadline' = [deadline EXCEPT ![t] = "none"]
      /\ ucNotifyState' = [ucNotifyState EXCEPT ![t] = "notWaiting"]
  BY DEF Taken, Return, GoTo, Deadline
<1>5. TypeOK'
  <2>1. SchedTypeOK'
    BY <1>2, <1>4, SchedTypeKept DEF IInv, TypeOK, SchedTypeOK
  <2>2. n \in 0..MaxValue
    BY <1>3, StreamBufferAssumption DEF IInv, TypeOK
  <2>3. ulNotifiedValue' \in [Task -> 0..MaxValue]
    BY <1>3, <2>2 DEF IInv, TypeOK
  <2>4. 0 \in 0..xLength - 1
    BY StreamBufferAssumption
  <2>5. /\ pc' \in [Task -> {"app", "enter", "wait", "waited", "clear", "look", "transfer",
                             "written", "complete", "notify", "resume"}]
        /\ op' \in [Task -> {"none", "send", "receive", "take"}]
        /\ size' \in [Task -> Sizes \cup {0}]
        /\ amount' \in [Task -> 0..xLength - 1]
        /\ ucNotifyState' \in [Task -> {"notWaiting", "waiting", "received"}]
        /\ xTicksToWait' \in [Task -> {"zero", "ticks", "max", "over"}]
    BY <1>4, <2>4 DEF IInv, TypeOK
  <2> QED BY <1>2, <2>1, <2>3, <2>5 DEF IInv, TypeOK, ringVars, waitingVars
<1>6. /\ \A v \in Task \ {t} : /\ pc'[v] = pc[v] /\ op'[v] = op[v] /\ size'[v] = size[v]
                               /\ amount'[v] = amount[v] /\ ucNotifyState'[v] = ucNotifyState[v]
                               /\ ulNotifiedValue'[v] = ulNotifiedValue[v]
      /\ pc'[t] = "app" /\ op'[t] = "none" /\ size'[t] = 0 /\ amount'[t] = 0
      /\ ucNotifyState'[t] = "notWaiting"
  BY <1>3, <1>4 DEF IInv, TypeOK
<1>7. CallInv' /\ AmountInv'
  BY <1>2, <1>6, RingStays, StreamBufferAssumption DEF IInv, CallInv, AmountInv, settings
<1>8. HeldInv' /\ BlockedInv' /\ NoneSleepsNotified'
  BY <1>1, <1>2, <1>6, QuietStep
<1>9. ReaderInv'
  BY <1>1, <1>2, <1>6, RingStays, StreamBufferAssumption
     DEF IInv, ReaderInv, WriterCompletes, MaySleep, waitingVars
<1>10. WriterInv'
  BY <1>1, <1>2, <1>6, NeedKept, StreamBufferAssumption
     DEF IInv, WriterInv, MaySleep, waitingVars
<1> QED BY <1>2, <1>5, <1>7, <1>8, <1>9, <1>10, RingStays DEF IInv

(* A step of a call that changes only where the task is and what it found: *)
(* it prepares no wait and does not leave the steps that notify.           *)
LEMMA PassingKeeps ==
    ASSUME IInv, NEW t \in Task, Running(t), pc[t] \in {"clear", "look"}, op[t] # "take",
           NEW label \in {"enter", "look", "transfer"}, NEW n \in 0..xLength - 1,
           Continue(t, label, n),
           t = Writer => n <= xStreamBufferSpacesAvailable,
           t = Reader => n <= prvBytesInBuffer,
           UNCHANGED <<scheduled, settings, ringVars, notifyVars>>,
           deadline' \in [Task -> {"none", "armed", "expired"}],
           t = Writer => /\ xTaskWaitingToReceive' = xTaskWaitingToReceive
                         /\ xTaskWaitingToSend' \in {NoTask, Writer},
           t = Reader => /\ xTaskWaitingToSend' = xTaskWaitingToSend
                         /\ xTaskWaitingToReceive' \in {NoTask, Reader}
    PROVE  IInv'
<1>1. /\ \/ t = Writer /\ op[t] = "send"
         \/ t = Reader /\ op[t] = "receive"
      /\ Writer \in Task /\ Reader \in Task /\ Writer # Reader
  BY WhoCalls
<1>2. /\ pc' = [pc EXCEPT ![t] = label] /\ amount' = [amount EXCEPT ![t] = n]
      /\ UNCHANGED <<op, size, xTicksToWait>>
  BY DEF Continue, GoTo
<1>3. TypeOK'
  <2>1. SchedTypeOK'
    BY SchedTypeKept
  <2>2. /\ pc' \in [Task -> {"app", "enter", "wait", "waited", "clear", "look", "transfer",
                             "written", "complete", "notify", "resume"}]
        /\ amount' \in [Task -> 0..xLength - 1]
    BY <1>2 DEF IInv, TypeOK
  <2>3. xTaskWaitingToSend' \in {NoTask, Writer} /\ xTaskWaitingToReceive' \in {NoTask, Reader}
    BY <1>1 DEF IInv, TypeOK
  <2> QED BY <1>2, <2>1, <2>2, <2>3 DEF IInv, TypeOK, ringVars, notifyVars
<1>4. CallInv' /\ AmountInv'
  BY <1>1, <1>2, RingStays, SMTT(30) DEF IInv, CallInv, AmountInv, TypeOK, settings
<1>5. HeldInv' /\ BlockedInv' /\ NoneSleepsNotified'
  BY <1>2, QuietStep, RunningIsReady DEF IInv, TypeOK, notifyVars
<1>6. ReaderInv'
  BY <1>1, <1>2, RingStays DEF ReaderInv, WriterCompletes, MaySleep, IInv, TypeOK, notifyVars
<1>7. WriterInv'
  BY <1>1, <1>2, NeedKept DEF WriterInv, MaySleep, IInv, TypeOK, notifyVars
<1> QED BY <1>3, <1>4, <1>5, <1>6, <1>7, RingStays DEF IInv

(* The task that waited is forgotten.                                      *)
LEMMA ClearKeeps == ASSUME IInv, NEW t \in Task, Clear(t) PROVE IInv'
<1>1. Running(t) /\ pc[t] = "clear" /\ op[t] # "take"
  BY DEF Clear, At, IInv, CallInv
<1>2. /\ \/ t = Writer /\ op[t] = "send"
         \/ t = Reader /\ op[t] = "receive"
      /\ Writer \in Task /\ Reader \in Task /\ Writer # Reader
  BY <1>1, WhoCalls
<1>3. PICK label \in {"enter", "look"} :
        Continue(t, label, IF op[t] = "send" THEN amount[t] ELSE 0)
  BY DEF Clear
<1>4. /\ (IF op[t] = "send" THEN amount[t] ELSE 0) \in 0..xLength - 1
      /\ t = Writer => amount[t] <= xStreamBufferSpacesAvailable
      /\ 0 <= prvBytesInBuffer
  BY <1>2, StreamBufferAssumption, CountsShareTheRing DEF IInv, TypeOK, AmountInv
<1>5. /\ op[t] = "send" => /\ xTaskWaitingToReceive' = xTaskWaitingToReceive
                           /\ xTaskWaitingToSend' = NoTask
      /\ op[t] = "receive" => /\ xTaskWaitingToSend' = xTaskWaitingToSend
                              /\ xTaskWaitingToReceive' = NoTask
  BY DEF Clear
<1>6. /\ UNCHANGED <<scheduled, settings, ringVars, notifyVars>>
      /\ deadline' \in [Task -> {"none", "armed", "expired"}]
  BY DEF Clear, IInv, TypeOK, SchedTypeOK
<1> QED BY <1>1, <1>2, <1>3, <1>4, <1>5, <1>6, PassingKeeps

(* What there is is found out, just before the transfer.                   *)
LEMMA LookKeeps == ASSUME IInv, NEW t \in Task, Look(t) PROVE IInv'
<1>1. Running(t) /\ pc[t] = "look" /\ op[t] # "take"
  BY DEF Look, At, IInv, CallInv
<1>2. /\ \/ t = Writer /\ op[t] = "send"
         \/ t = Reader /\ op[t] = "receive"
      /\ Writer \in Task /\ Reader \in Task /\ Writer # Reader
  BY <1>1, WhoCalls
<1> DEFINE n == IF amount[t] = 0 THEN Found(t) ELSE amount[t]
<1>3. Continue(t, "transfer", n)
  BY DEF Look
<1>4. /\ n \in 0..xLength - 1
      /\ t = Writer => n <= xStreamBufferSpacesAvailable
      /\ t = Reader => n <= prvBytesInBuffer
  BY <1>2, CountsShareTheRing, SMTT(30) DEF Found, IInv, TypeOK, AmountInv
<1>5. /\ UNCHANGED <<scheduled, settings, ringVars, waitingVars, notifyVars>>
      /\ deadline' \in [Task -> {"none", "armed", "expired"}]
  BY DEF Look, Deadline, IInv, TypeOK, SchedTypeOK
<1> HIDE DEF n
<1> QED BY <1>1, <1>2, <1>3, <1>4, <1>5, PassingKeeps DEF waitingVars, IInv, TypeOK

(* A call goes on, or returns; the other tasks stay where they are.        *)
LEMMA CallMoves ==
    ASSUME TypeOK, NEW t \in Task,
           \/ Return(t)
           \/ \E label \in {"notify", "resume", "written", "complete"} : Continue(t, label, 0)
    PROVE  /\ pc' \in [Task -> {"app", "enter", "wait", "waited", "clear", "look", "transfer",
                                "written", "complete", "notify", "resume"}]
           /\ op' \in [Task -> {"none", "send", "receive", "take"}]
           /\ size' \in [Task -> Sizes \cup {0}]
           /\ amount' \in [Task -> 0..xLength - 1]
           /\ xTicksToWait' \in [Task -> {"zero", "ticks", "max", "over"}]
           /\ \A v \in Task \ {t} : /\ pc'[v] = pc[v] /\ op'[v] = op[v] /\ size'[v] = size[v]
                                    /\ amount'[v] = amount[v]
           /\ amount'[t] = 0
           /\ Return(t) => pc'[t] = "app" /\ op'[t] = "none" /\ size'[t] = 0
           /\ \A label, n : Continue(t, label, n) =>
                  pc'[t] = label /\ op'[t] = op[t] /\ size'[t] = size[t]
<1>1. 0 \in 0..xLength - 1
  BY StreamBufferAssumption
<1>2. CASE Return(t)
  <2>1. /\ pc' = [pc EXCEPT ![t] = "app"] /\ op' = [op EXCEPT ![t] = "none"]
        /\ size' = [size EXCEPT ![t] = 0] /\ amount' = [amount EXCEPT ![t] = 0]
        /\ xTicksToWait' = [xTicksToWait EXCEPT ![t] = "zero"]
    BY <1>2 DEF Return, GoTo
  <2> QED BY <1>1, <2>1 DEF TypeOK, Continue, GoTo
<1>3. CASE ~Return(t)
  <2>1. PICK label \in {"notify", "resume", "written", "complete"} :
            /\ pc' = [pc EXCEPT ![t] = label] /\ amount' = [amount EXCEPT ![t] = 0]
            /\ UNCHANGED <<op, size, xTicksToWait>>
    BY <1>3 DEF Continue, GoTo
  <2> QED BY <1>1, <1>3, <2>1 DEF TypeOK, Continue, GoTo
<1> QED BY <1>2, <1>3

(* The writer writes what it found room for.                               *)
LEMMA WriterTransferKeeps ==
    ASSUME IInv, NEW t \in Task, Transfer(t), op[t] = "send"
    PROVE  IInv'
<1>1. Running(t) /\ pc[t] = "transfer"
  BY DEF Transfer, At
<1>2. t = Writer /\ isr # "writes" /\ Reader \in Task /\ Writer # Reader /\ size[t] # 0
  BY <1>1, WhoCalls
<1> DEFINE n == Written(size[t], amount[t])
<1>3. /\ Write(n)
      /\ IF n = 0 THEN Return(t) ELSE Continue(t, "written", 0)
      /\ UNCHANGED <<scheduled, deadline, settings, waitingVars, notifyVars>>
  BY DEF Transfer
<1>4. n \in Nat /\ (n # 0 => n + MessageLengthBytes <= xStreamBufferSpacesAvailable)
  <2>1. /\ size[t] \in Nat /\ amount[t] \in Nat
        /\ amount[t] <= xStreamBufferSpacesAvailable /\ xStreamBufferSpacesAvailable \in Nat
    <3>1. size[t] \in Nat
      <4>1. CASE size[t] = 0
        BY <4>1
      <4>2. CASE size[t] # 0
        BY <4>2, StreamBufferAssumption DEF IInv, TypeOK
      <4> QED BY <4>1, <4>2
    <3>2. amount[t] \in 0..xLength - 1
      BY DEF IInv, TypeOK
    <3>3. amount[t] <= xStreamBufferSpacesAvailable
      BY <1>2 DEF IInv, AmountInv
    <3> QED BY <3>1, <3>2, <3>3, CountsShareTheRing DEF IInv
  <2> QED BY <2>1, StreamBufferAssumption
          DEF Written, RequiredSpace, MessageLengthBytes, SmallerOf
<1> HIDE DEF n
<1>5. /\ xHead' \in 0..xLength - 1 /\ xTail' \in 0..xLength - 1
      /\ contents' \in Seq(Nat)
      /\ ContentsInv' /\ RingIsExact'
      /\ prvBytesInBuffer' >= prvBytesInBuffer
      /\ n = 0 => prvBytesInBuffer' = prvBytesInBuffer
  BY <1>3, <1>4, WriteFacts DEF IInv, settings
<1>6. /\ pc' \in [Task -> {"app", "enter", "wait", "waited", "clear", "look", "transfer",
                           "written", "complete", "notify", "resume"}]
      /\ op' \in [Task -> {"none", "send", "receive", "take"}]
      /\ size' \in [Task -> Sizes \cup {0}]
      /\ amount' \in [Task -> 0..xLength - 1]
      /\ xTicksToWait' \in [Task -> {"zero", "ticks", "max", "over"}]
      /\ \A v \in Task \ {t} : /\ pc'[v] = pc[v] /\ op'[v] = op[v] /\ size'[v] = size[v]
                               /\ amount'[v] = amount[v]
      /\ amount'[t] = 0
      /\ n = 0 => pc'[t] = "app" /\ op'[t] = "none" /\ size'[t] = 0
      /\ n # 0 => pc'[t] = "written" /\ op'[t] = op[t] /\ size'[t] = size[t]
  BY <1>3, CallMoves DEF IInv
<1>7. TypeOK'
  <2>1. SchedTypeOK'
    BY <1>3, SchedTypeKept DEF IInv, TypeOK, SchedTypeOK
  <2> QED BY <1>3, <1>5, <1>6, <2>1 DEF IInv, TypeOK, waitingVars, notifyVars
<1>8. CreatedOK' /\ CallInv'
  BY <1>1, <1>2, <1>3, <1>6, CreatedKept DEF IInv, CallInv, settings
<1>9. HeldInv' /\ BlockedInv' /\ NoneSleepsNotified'
  BY <1>1, <1>3, <1>6, QuietStep, RunningIsReady DEF notifyVars
<1>10. AmountInv'
  <2>1. prvBytesInBuffer \in Nat /\ prvBytesInBuffer' \in Nat /\ xStreamBufferSpacesAvailable' \in Nat
    BY <1>7, CountsShareTheRing, CountsAfterwards DEF IInv
  <2>2. amount[Reader] \in Nat
    BY <1>2, StreamBufferAssumption DEF IInv, TypeOK
  <2> QED BY <1>2, <1>5, <1>6, <2>1, <2>2 DEF IInv, AmountInv
<1>11. ReaderInv'
  BY <1>1, <1>2, <1>3, <1>5, <1>6
     DEF IInv, ReaderInv, WriterCompletes, MaySleep, LevelReached, settings, waitingVars, notifyVars
<1>12. WriterInv'
  BY <1>2, <1>6 DEF WriterInv, MaySleep
<1> QED BY <1>5, <1>7, <1>8, <1>9, <1>10, <1>11, <1>12 DEF IInv

(* The reader takes out a message, or bytes, that it found.                *)
LEMMA ReaderTransferKeeps ==
    ASSUME IInv, NEW t \in Task, Transfer(t), op[t] # "send"
    PROVE  IInv'
<1>1. Running(t) /\ pc[t] = "transfer" /\ op[t] # "take"
  BY DEF Transfer, At, IInv, CallInv
<1>2. /\ t = Reader /\ op[t] = "receive" /\ isr # "reads"
      /\ Writer \in Task /\ Writer # Reader /\ size[t] # 0
  BY <1>1, WhoCalls
<1> DEFINE n == ReadOut(size[t], amount[t])
<1>3. /\ Read(n)
      /\ IF n = 0 THEN Return(t) ELSE Continue(t, "complete", 0)
      /\ UNCHANGED <<scheduled, deadline, settings, waitingVars, notifyVars>>
  BY DEF Transfer
<1>4. /\ n \in Nat
      /\ n # 0 => /\ n + MessageLengthBytes <= prvBytesInBuffer
                  /\ isMessageBuffer => n = Head(contents)
  <2>1. /\ size[t] \in Nat /\ amount[t] \in Nat
        /\ amount[t] <= prvBytesInBuffer /\ prvBytesInBuffer \in Nat
    <3>1. size[t] \in Nat
      <4>1. CASE size[t] = 0
        BY <4>1
      <4>2. CASE size[t] # 0
        BY <4>2, StreamBufferAssumption DEF IInv, TypeOK
      <4> QED BY <4>1, <4>2
    <3>2. amount[t] \in 0..xLength - 1
      BY DEF IInv, TypeOK
    <3>3. amount[t] <= prvBytesInBuffer
      BY <1>2 DEF IInv, AmountInv
    <3> QED BY <3>1, <3>2, <3>3, CountsShareTheRing DEF IInv
  <2>2. /\ MessageLengthBytes \in Nat
        /\ prvBytesInBuffer # 0 => /\ Head(contents) \in Nat
                                   /\ Head(contents) + MessageLengthBytes <= prvBytesInBuffer
        /\ ~isMessageBuffer => MessageLengthBytes = 0
    BY WholeMessages DEF IInv
  <2>3. CASE amount[t] <= MessageLengthBytes
    BY <2>3 DEF ReadOut
  <2>4. CASE ~(amount[t] <= MessageLengthBytes) /\ isMessageBuffer
    BY <2>1, <2>2, <2>4 DEF ReadOut
  <2>5. CASE ~(amount[t] <= MessageLengthBytes) /\ ~isMessageBuffer
    BY <2>1, <2>2, <2>5 DEF ReadOut, SmallerOf
  <2> QED BY <2>3, <2>4, <2>5
<1> HIDE DEF n
<1>5. /\ xHead' \in 0..xLength - 1 /\ xTail' \in 0..xLength - 1
      /\ contents' \in Seq(Nat)
      /\ ContentsInv' /\ RingIsExact'
      /\ xStreamBufferSpacesAvailable' >= xStreamBufferSpacesAvailable
      /\ n = 0 => xStreamBufferSpacesAvailable' = xStreamBufferSpacesAvailable
  BY <1>3, <1>4, ReadFacts DEF IInv, settings
<1>6. /\ pc' \in [Task -> {"app", "enter", "wait", "waited", "clear", "look", "transfer",
                           "written", "complete", "notify", "resume"}]
      /\ op' \in [Task -> {"none", "send", "receive", "take"}]
      /\ size' \in [Task -> Sizes \cup {0}]
      /\ amount' \in [Task -> 0..xLength - 1]
      /\ xTicksToWait' \in [Task -> {"zero", "ticks", "max", "over"}]
      /\ \A v \in Task \ {t} : /\ pc'[v] = pc[v] /\ op'[v] = op[v] /\ size'[v] = size[v]
                               /\ amount'[v] = amount[v]
      /\ amount'[t] = 0
      /\ n = 0 => pc'[t] = "app" /\ op'[t] = "none" /\ size'[t] = 0
      /\ n # 0 => pc'[t] = "complete" /\ op'[t] = op[t] /\ size'[t] = size[t]
  BY <1>3, CallMoves DEF IInv
<1>7. TypeOK'
  <2>1. SchedTypeOK'
    BY <1>3, SchedTypeKept DEF IInv, TypeOK, SchedTypeOK
  <2> QED BY <1>3, <1>5, <1>6, <2>1 DEF IInv, TypeOK, waitingVars, notifyVars
<1>8. CreatedOK' /\ CallInv'
  BY <1>1, <1>2, <1>3, <1>6, CreatedKept DEF IInv, CallInv, settings
<1>9. HeldInv' /\ BlockedInv' /\ NoneSleepsNotified'
  BY <1>1, <1>3, <1>6, QuietStep, RunningIsReady DEF notifyVars
<1>10. xStreamBufferSpacesAvailable \in Nat /\ xStreamBufferSpacesAvailable' \in Nat
       /\ prvBytesInBuffer' \in Nat
  BY <1>7, CountsShareTheRing, CountsAfterwards DEF IInv
<1>11. AmountInv'
  <2>1. amount[Writer] \in Nat
    BY <1>2, StreamBufferAssumption DEF IInv, TypeOK
  <2> QED BY <1>2, <1>5, <1>6, <1>10, <2>1 DEF IInv, AmountInv
<1>12. ReaderInv'
  BY <1>2, <1>6 DEF ReaderInv, WriterCompletes, MaySleep
<1>13. WriterInv'
  <2>1. CASE n # 0
    BY <1>2, <1>3, <1>6, <2>1 DEF IInv, WriterInv, MaySleep, waitingVars, notifyVars
  <2>2. CASE n = 0
    <3>1. \A k : RequiredSpace(k)' = RequiredSpace(k)
      BY <1>3 DEF settings, RequiredSpace
    <3>2. op[Writer] = "send" => HasToWait(Writer)' = HasToWait(Writer)
      BY <1>2, <1>5, <1>6, <2>2, <3>1 DEF HasToWait, Found
    <3> QED BY <1>1, <1>2, <1>3, <1>6, <3>2
            DEF IInv, WriterInv, MaySleep, waitingVars, notifyVars
  <2> QED BY <2>1, <2>2
<1> QED BY <1>5, <1>7, <1>8, <1>9, <1>11, <1>12, <1>13 DEF IInv

(* Having written, the writer looks whether the trigger level is reached.  *)
LEMMA TestTriggerKeeps == ASSUME IInv, NEW t \in Task, TestTrigger(t) PROVE IInv'
<1>1. Running(t) /\ pc[t] = "written" /\ op[t] # "take"
  BY DEF TestTrigger, At, IInv, CallInv
<1>2. /\ t = Writer /\ op[t] = "send" /\ isr # "writes"
      /\ Reader \in Task /\ Writer # Reader /\ size[t] # 0
  BY <1>1, WhoCalls
<1>3. /\ IF Triggered THEN Continue(t, "complete", 0) ELSE Return(t)
      /\ testedLevel' = xTriggerLevelBytes
      /\ UNCHANGED <<scheduled, deadline, isMessageBuffer, isr, xTriggerLevelBytes, ringVars,
                     waitingVars, notifyVars>>
  BY DEF TestTrigger, LevelTested
<1>r. /\ CreatedOK' /\ ContentsInv' /\ RingIsExact'
      /\ prvBytesInBuffer' = prvBytesInBuffer
      /\ xStreamBufferSpacesAvailable' = xStreamBufferSpacesAvailable
      /\ prvBytesInBuffer \in Nat /\ xStreamBufferSpacesAvailable \in Nat
  BY <1>3, RingStaysTested
<1>4. /\ pc' \in [Task -> {"app", "enter", "wait", "waited", "clear", "look", "transfer",
                           "written", "complete", "notify", "resume"}]
      /\ op' \in [Task -> {"none", "send", "receive", "take"}]
      /\ size' \in [Task -> Sizes \cup {0}]
      /\ amount' \in [Task -> 0..xLength - 1]
      /\ xTicksToWait' \in [Task -> {"zero", "ticks", "max", "over"}]
      /\ \A v \in Task \ {t} : /\ pc'[v] = pc[v] /\ op'[v] = op[v] /\ size'[v] = size[v]
                               /\ amount'[v] = amount[v]
      /\ amount'[t] = 0
      /\ ~Triggered => pc'[t] = "app" /\ op'[t] = "none" /\ size'[t] = 0
      /\ Triggered => pc'[t] = "complete" /\ op'[t] = op[t] /\ size'[t] = size[t]
  BY <1>3, CallMoves DEF IInv
<1>5. TypeOK'
  <2>1. SchedTypeOK'
    BY <1>3, SchedTypeKept DEF IInv, TypeOK, SchedTypeOK
  <2> QED BY <1>3, <1>4, <2>1 DEF IInv, TypeOK, ringVars, waitingVars, notifyVars
<1>6. CallInv' /\ AmountInv'
  BY <1>r, <1>1, <1>2, <1>3, <1>4 DEF IInv, CallInv, AmountInv
<1>7. HeldInv' /\ BlockedInv' /\ NoneSleepsNotified'
  BY <1>1, <1>3, <1>4, QuietStep, RunningIsReady DEF notifyVars
<1>8. ReaderInv'
  <2>1. LevelReached' <=> Triggered
    BY <1>r, <1>3 DEF LevelReached, Triggered
  <2>2. Triggered => WriterCompletes'
    BY <1>2, <1>4 DEF WriterCompletes
  <2>3. MaySleep(Reader)' /\ op'[Reader] = "receive" => xTaskWaitingToReceive' = Reader
    BY <1>2, <1>3, <1>4 DEF IInv, ReaderInv, MaySleep, waitingVars, notifyVars
  <2> QED BY <2>1, <2>2, <2>3 DEF ReaderInv
<1>9. WriterInv'
  BY <1>2, <1>4 DEF WriterInv, MaySleep
<1> QED BY <1>r, <1>5, <1>6, <1>7, <1>8, <1>9 DEF IInv

(* The scheduler is suspended for the notification.                        *)
LEMMA CompleteKeeps == ASSUME IInv, NEW t \in Task, Complete(t) PROVE IInv'
<1>1. Running(t) /\ pc[t] = "complete" /\ op[t] # "take"
  BY DEF Complete, At, IInv, CallInv
<1>2. /\ \/ t = Writer /\ op[t] = "send" /\ isr # "writes"
         \/ t = Reader /\ op[t] = "receive" /\ isr # "reads"
      /\ Writer \in Task /\ Reader \in Task /\ Writer # Reader /\ size[t] # 0
  BY <1>1, WhoCalls
<1>3. /\ Continue(t, "notify", 0)
      /\ UNCHANGED <<others, xStateListItem, pendSV, deadline, settings, ringVars, waitingVars,
                     notifyVars, op, size, xTicksToWait>>
  BY DEF Complete, Continue
<1>4. /\ pc' \in [Task -> {"app", "enter", "wait", "waited", "clear", "look", "transfer",
                           "written", "complete", "notify", "resume"}]
      /\ amount' \in [Task -> 0..xLength - 1]
      /\ \A v \in Task \ {t} : pc'[v] = pc[v] /\ amount'[v] = amount[v]
      /\ amount'[t] = 0 /\ pc'[t] = "notify"
  BY <1>3, CallMoves DEF IInv
<1>5. /\ t \in Ready /\ t = pxCurrentTCB /\ uxSchedulerSuspended = 0
      /\ ~Waiting(t)
  BY <1>1, RunningIsReady DEF Running, Waiting
<1>6. uxSchedulerSuspended' = 1 /\ uxSchedulerSuspended' \in 0..MaxNesting
  BY <1>5, TaskAssumption DEF Complete, vTaskSuspendAll
<1>7. TypeOK'
  <2>1. SchedTypeOK'
    BY <1>3, <1>6 DEF IInv, TypeOK, SchedTypeOK, others
  <2> QED BY <1>3, <1>4, <2>1 DEF IInv, TypeOK, ringVars, waitingVars, notifyVars
<1>8. CallInv' /\ AmountInv'
  BY <1>1, <1>2, <1>3, <1>4, RingStays DEF IInv, CallInv, AmountInv, settings
<1>9. HeldInv'
  BY <1>3, <1>4, <1>5, <1>6 DEF IInv, HeldInv, others, Ready
<1>10. BlockedInv' /\ NoneSleepsNotified'
  BY <1>3, <1>4, <1>5
     DEF IInv, BlockedInv, NoneSleepsNotified, Waiting, Asleep, Ready, others, notifyVars
<1>11. ReaderInv'
  BY <1>1, <1>2, <1>3, <1>4, RingStays DEF IInv, ReaderInv, WriterCompletes, MaySleep, waitingVars, notifyVars
<1>12. WriterInv'
  BY <1>1, <1>2, <1>3, <1>4, NeedKept DEF IInv, WriterInv, MaySleep, waitingVars, notifyVars
<1> QED BY <1>3, <1>7, <1>8, <1>9, <1>10, <1>11, <1>12, RingStays DEF IInv

(* The task registered on the other side is notified and forgotten: if it  *)
(* slept, or was about to, it was the one registered.                      *)
LEMMA NotifyKeeps == ASSUME IInv, NEW t \in Task, Notify(t) PROVE IInv'
<1>1. Running(t) /\ pc[t] = "notify" /\ op[t] # "take"
  BY DEF Notify, At, IInv, CallInv
<1>2. /\ \/ t = Writer /\ op[t] = "send" /\ isr # "writes"
         \/ t = Reader /\ op[t] = "receive" /\ isr # "reads"
      /\ Writer \in Task /\ Reader \in Task /\ Writer # Reader /\ size[t] # 0
  BY <1>1, WhoCalls
<1> DEFINE u == IF op[t] = "send" THEN xTaskWaitingToReceive ELSE xTaskWaitingToSend
<1>3. /\ Continue(t, "resume", 0)
      /\ UNCHANGED <<others, uxSchedulerSuspended, deadline, settings, ringVars,
                     ulNotifiedValue, op, size, xTicksToWait>>
      /\ u # NoTask => xTaskGenericNotify(u)
      /\ u = NoTask => UNCHANGED <<ucNotifyState, xStateListItem, pendSV>>
      /\ op[t] = "send" => xTaskWaitingToReceive' = NoTask /\ UNCHANGED xTaskWaitingToSend
      /\ op[t] # "send" => xTaskWaitingToSend' = NoTask /\ UNCHANGED xTaskWaitingToReceive
  BY DEF Notify, Continue
<1>4. /\ pc' \in [Task -> {"app", "enter", "wait", "waited", "clear", "look", "transfer",
                           "written", "complete", "notify", "resume"}]
      /\ amount' \in [Task -> 0..xLength - 1]
      /\ \A v \in Task \ {t} : pc'[v] = pc[v] /\ amount'[v] = amount[v]
      /\ amount'[t] = 0 /\ pc'[t] = "resume"
  BY <1>3, CallMoves DEF IInv
<1>5. /\ u \in {NoTask, Writer, Reader}
      /\ t = Writer => u = xTaskWaitingToReceive
      /\ t = Reader => u = xTaskWaitingToSend
  BY <1>2 DEF IInv, TypeOK
<1> HIDE DEF u
<1>6. /\ SchedTypeOK'
      /\ ucNotifyState' \in [Task -> {"notWaiting", "waiting", "received"}]
      /\ u # NoTask => ucNotifyState'[u] = "received"
      /\ \A v \in Task : v # u => ucNotifyState'[v] = ucNotifyState[v]
      /\ t \in Ready' /\ t = pxCurrentTCB'
      /\ \A v \in Task : v \notin Ready' => v \notin Ready
      /\ \A v \in Task : Asleep(v)' => v # u /\ Asleep(v)
  <2>1. CASE u # NoTask
    BY <1>1, <1>2, <1>3, <1>5, <2>1, NotifyFacts
  <2>2. CASE u = NoTask
    <3>1. SchedTypeOK'
      BY <1>3, <2>2 DEF IInv, TypeOK, SchedTypeOK, others
    <3>2. NoTask \notin Task
      BY StreamBufferAssumption
    <3> QED BY <1>1, <1>3, <2>2, <3>1, <3>2, RunningIsReady
            DEF IInv, TypeOK, Asleep, Ready, others, Running
  <2> QED BY <2>1, <2>2
<1>7. TypeOK'
  <2>1. /\ xTaskWaitingToSend' \in {NoTask, Writer}
        /\ xTaskWaitingToReceive' \in {NoTask, Reader}
    BY <1>3 DEF IInv, TypeOK
  <2> QED BY <1>3, <1>4, <1>6, <2>1 DEF IInv, TypeOK, ringVars
<1>8. CallInv' /\ AmountInv'
  BY <1>1, <1>2, <1>3, <1>4, RingStays DEF IInv, CallInv, AmountInv, settings
<1>9. HeldInv'
  BY <1>1, <1>3, <1>4, <1>6 DEF IInv, HeldInv, others
<1>10. BlockedInv'
  BY <1>1, <1>4, <1>6, RunningIsReady, StreamBufferAssumption DEF IInv, BlockedInv, Waiting
<1>11. NoneSleepsNotified'
  BY <1>3, <1>6 DEF IInv, NoneSleepsNotified, Waiting
<1>12. ReaderInv'
  <2>1. CASE t = Writer
    <3>1. MaySleep(Reader)' /\ op[Reader] = "receive" => u = Reader
      BY <1>2, <1>4, <1>5, <1>6, <2>1 DEF IInv, ReaderInv, WriterCompletes, MaySleep
    <3>2. MaySleep(Reader)' => u # Reader
      BY <1>2, <1>6, StreamBufferAssumption DEF MaySleep
    <3> QED BY <1>3, <3>1, <3>2 DEF ReaderInv, WriterCompletes
  <2>2. CASE t = Reader
    BY <1>4, <2>2 DEF ReaderInv, WriterCompletes, MaySleep
  <2> QED BY <1>2, <2>1, <2>2
<1>13. WriterInv'
  <2>1. CASE t = Reader
    <3>1. MaySleep(Writer)' /\ op[Writer] = "send" => u = Writer
      BY <1>2, <1>4, <1>5, <1>6, <2>1 DEF IInv, WriterInv, MaySleep
    <3>2. MaySleep(Writer)' => u # Writer
      BY <1>2, <1>6, StreamBufferAssumption DEF MaySleep
    <3> QED BY <1>3, <3>1, <3>2 DEF WriterInv
  <2>2. CASE t = Writer
    BY <1>4, <2>2 DEF WriterInv, MaySleep
  <2> QED BY <1>2, <2>1, <2>2
<1> QED BY <1>3, <1>7, <1>8, <1>9, <1>10, <1>11, <1>12, <1>13, RingStays DEF IInv

(* The scheduler is resumed.                                               *)
LEMMA ResumeAllKeeps == ASSUME IInv, NEW t \in Task, ResumeAll(t) PROVE IInv'
<1>1. Running(t) /\ pc[t] = "resume" /\ op[t] # "take"
  BY DEF ResumeAll, At, IInv, CallInv
<1>2. /\ \/ t = Writer /\ op[t] = "send" /\ isr # "writes"
         \/ t = Reader /\ op[t] = "receive" /\ isr # "reads"
      /\ Writer \in Task /\ Reader \in Task /\ Writer # Reader /\ size[t] # 0
  BY <1>1, WhoCalls
<1>3. PICK X \in SUBSET Armed : xTaskResumeAll(X)
  BY DEF ResumeAll
<1>4. /\ Return(t)
      /\ UNCHANGED <<pxCurrentTCB, uxPriority, settings, ringVars, waitingVars, notifyVars>>
  BY DEF ResumeAll
<1>5. /\ pc' \in [Task -> {"app", "enter", "wait", "waited", "clear", "look", "transfer",
                           "written", "complete", "notify", "resume"}]
      /\ op' \in [Task -> {"none", "send", "receive", "take"}]
      /\ size' \in [Task -> Sizes \cup {0}]
      /\ amount' \in [Task -> 0..xLength - 1]
      /\ xTicksToWait' \in [Task -> {"zero", "ticks", "max", "over"}]
      /\ \A v \in Task \ {t} : /\ pc'[v] = pc[v] /\ op'[v] = op[v] /\ size'[v] = size[v]
                               /\ amount'[v] = amount[v]
      /\ amount'[t] = 0 /\ pc'[t] = "app" /\ op'[t] = "none" /\ size'[t] = 0
  BY <1>4, CallMoves DEF IInv
<1>6. uxSchedulerSuspended = 1 /\ t = pxCurrentTCB /\ t \in Ready
  BY <1>1, RunningIsReady DEF IInv, HeldInv, Running
<1>7. /\ uxSchedulerSuspended' = 0 /\ xPendingReadyList' = {}
      /\ Expire(X, PendingMadeReady)
      /\ ticksPended' = FALSE /\ xYieldPending' \in BOOLEAN /\ pendSV' \in BOOLEAN
  BY <1>3, <1>6 DEF xTaskResumeAll, AlreadyYielded
<1>8. PendingMadeReady \in [Task -> {"ready", "delayed", "suspended"}]
  BY DEF PendingMadeReady, IInv, TypeOK, SchedTypeOK
<1>9. /\ deadline' \in [Task -> {"none", "armed", "expired"}]
      /\ xStateListItem' \in [Task -> {"ready", "delayed", "suspended"}]
      /\ eventList' \in [EventLists -> Seq(Task)]
      /\ \A v \in Task : v \notin Ready' => PendingMadeReady[v] # "ready"
  <2>1. X \in SUBSET Task /\ SchedTypeOK
    BY DEF Armed, IInv, TypeOK
  <2>2. Ready' = {v \in Task : PendingMadeReady[v] = "ready"}
                     \cup {v \in X : PendingMadeReady[v] = "delayed"}
    BY <1>7, <1>8, <2>1, ExpireListsFacts
  <2> QED BY <1>7, <1>8, <2>1, <2>2, ExpireListsFacts
<1>10. \A v \in Task : v \notin Ready' => v \notin Ready /\ Asleep(v)
  BY <1>9 DEF PendingMadeReady, Ready, Asleep, IInv, TypeOK, SchedTypeOK
<1>11. TypeOK'
  <2>1. SchedTypeOK'
    <3>1. uxSchedulerSuspended' \in 0..MaxNesting
      BY <1>7, TaskAssumption
    <3> QED BY <1>4, <1>7, <1>9, <3>1 DEF IInv, TypeOK, SchedTypeOK
  <2> QED BY <1>4, <1>5, <2>1 DEF IInv, TypeOK, ringVars, waitingVars, notifyVars
<1>12. CallInv' /\ AmountInv'
  BY <1>1, <1>2, <1>4, <1>5, RingStays DEF IInv, CallInv, AmountInv, settings
<1>13. HeldInv'
  <2>1. pxCurrentTCB' = t /\ xPendingReadyList' = {} /\ uxSchedulerSuspended' = 0
    BY <1>4, <1>6, <1>7
  <2>2. t \in Ready'
    BY <1>6, <1>10
  <2>3. \A v \in Task : pc'[v] \notin {"notify", "resume"}
    BY <1>5, <1>6 DEF IInv, HeldInv
  <2> QED BY <2>1, <2>2, <2>3 DEF HeldInv
<1>14. BlockedInv' /\ NoneSleepsNotified'
  BY <1>1, <1>4, <1>5, <1>6, <1>10, RunningIsReady
     DEF IInv, BlockedInv, NoneSleepsNotified, Waiting, Asleep, notifyVars
<1>15. ReaderInv'
  BY <1>1, <1>2, <1>4, <1>5, RingStays DEF IInv, ReaderInv, WriterCompletes, MaySleep, waitingVars, notifyVars
<1>16. WriterInv'
  BY <1>1, <1>2, <1>4, <1>5, NeedKept DEF IInv, WriterInv, MaySleep, waitingVars, notifyVars
<1> QED BY <1>4, <1>11, <1>12, <1>13, <1>14, <1>15, <1>16, RingStays DEF IInv

-----------------------------------------------------------------------------
(* The actions: interrupts and the scheduler.                              *)

(* A handler notifies a task: it may not sleep any more, although it is    *)
(* made ready later when the scheduler is suspended.                       *)
LEMMA NotifyFromISRFacts ==
    ASSUME IInv, NEW u \in Task, xTaskGenericNotifyFromISR(u),
           UNCHANGED <<pxCurrentTCB, uxPriority, eventList, uxSchedulerSuspended, ticksPended,
                       deadline, pc>>
    PROVE  /\ SchedTypeOK' /\ HeldInv' /\ BlockedInv'
           /\ ucNotifyState' \in [Task -> {"notWaiting", "waiting", "received"}]
           /\ ucNotifyState'[u] = "received"
           /\ \A v \in Task \ {u} : ucNotifyState'[v] = ucNotifyState[v]
           /\ \A v \in Task : Asleep(v)' => v # u /\ Asleep(v)
<1>1. /\ xStateListItem \in [Task -> {"ready", "delayed", "suspended"}]
      /\ ucNotifyState \in [Task -> {"notWaiting", "waiting", "received"}]
      /\ ucNotifyState' = [ucNotifyState EXCEPT ![u] = "received"]
      /\ xPendingReadyList \in SUBSET Task
      /\ xYieldPending \in BOOLEAN /\ pendSV \in BOOLEAN
  BY DEF xTaskGenericNotifyFromISR, IInv, TypeOK, SchedTypeOK
<1>2. /\ xStateListItem' \in [Task -> {"ready", "delayed", "suspended"}]
      /\ xPendingReadyList' \in SUBSET Task
      /\ xYieldPending' \in BOOLEAN /\ pendSV' \in BOOLEAN
      /\ ~pendSV' => ~pendSV
      /\ uxSchedulerSuspended = 0 => xPendingReadyList' = xPendingReadyList
      /\ \A v \in Task : v \in Ready => v \in Ready'
      /\ \A v \in Task : Asleep(v)' => Asleep(v)
      /\ Waiting(u) => ~Asleep(u)'
  <2>1. CASE ~Waiting(u)
    BY <1>1, <2>1 DEF xTaskGenericNotifyFromISR, Ready, Asleep
  <2>2. CASE Waiting(u) /\ uxSchedulerSuspended = 0
    <3>1. /\ xStateListItem' = [xStateListItem EXCEPT ![u] = "ready"]
          /\ xPendingReadyList' = xPendingReadyList
          /\ xYieldPending' = (xYieldPending \/ Preempts({u}))
          /\ pendSV' = pendSV \/ pendSV' = (pendSV \/ Preempts({u}))
      BY <2>2 DEF xTaskGenericNotifyFromISR
    <3>2. xYieldPending' \in BOOLEAN /\ pendSV' \in BOOLEAN /\ (~pendSV' => ~pendSV)
      BY <1>1, <3>1
    <3> QED BY <1>1, <3>1, <3>2 DEF Ready, Asleep
  <2>3. CASE Waiting(u) /\ uxSchedulerSuspended # 0
    <3>1. /\ xStateListItem' = xStateListItem
          /\ xPendingReadyList' = xPendingReadyList \cup {u}
          /\ xYieldPending' = (xYieldPending \/ Preempts({u}))
          /\ pendSV' = pendSV \/ pendSV' = (pendSV \/ Preempts({u}))
      BY <2>3 DEF xTaskGenericNotifyFromISR
    <3>2. xYieldPending' \in BOOLEAN /\ pendSV' \in BOOLEAN /\ (~pendSV' => ~pendSV)
      BY <1>1, <3>1
    <3> QED BY <1>1, <2>3, <3>1, <3>2 DEF Ready, Asleep
  <2> QED BY <2>1, <2>2, <2>3
<1>3. SchedTypeOK'
  BY <1>2 DEF IInv, TypeOK, SchedTypeOK
<1>4. HeldInv'
  BY <1>2 DEF IInv, HeldInv, TypeOK, SchedTypeOK
<1>5. BlockedInv'
  BY <1>1, <1>2 DEF IInv, BlockedInv, Waiting
<1>6. ~Waiting(u) => ~Asleep(u)
  BY DEF IInv, NoneSleepsNotified
<1> QED BY <1>1, <1>2, <1>3, <1>4, <1>5, <1>6

(* A handler notifies the writer or the reader for a reason of its own.    *)
LEMMA NotifyFromISRKeeps ==
    ASSUME IInv, NEW u \in {Reader, Writer}, NotifyFromISR(u)
    PROVE  IInv'
<1>1. PICK n \in {0, 1} : /\ ulNotifiedValue[u] + n <= MaxValue
                          /\ ulNotifiedValue' = [ulNotifiedValue EXCEPT ![u] = @ + n]
  BY DEF NotifyFromISR
<1>2. /\ xTaskGenericNotifyFromISR(u)
      /\ UNCHANGED <<pxCurrentTCB, uxPriority, eventList, uxSchedulerSuspended, ticksPended,
                     deadline, settings, ringVars, waitingVars, callVars>>
  BY DEF NotifyFromISR
<1>3. u \in Task
  BY StreamBufferAssumption
<1>4. /\ SchedTypeOK' /\ HeldInv' /\ BlockedInv'
      /\ ucNotifyState' \in [Task -> {"notWaiting", "waiting", "received"}]
      /\ ucNotifyState'[u] = "received"
      /\ \A v \in Task \ {u} : ucNotifyState'[v] = ucNotifyState[v]
      /\ \A v \in Task : Asleep(v)' => v # u /\ Asleep(v)
  BY <1>2, <1>3, NotifyFromISRFacts DEF callVars
<1>5. TypeOK'
  <2>1. ulNotifiedValue[u] + n \in 0..MaxValue
    BY <1>1, <1>3, StreamBufferAssumption DEF IInv, TypeOK
  <2>2. ulNotifiedValue' \in [Task -> 0..MaxValue]
    BY <1>1, <1>3, <2>1 DEF IInv, TypeOK
  <2> QED BY <1>2, <1>4, <2>2 DEF IInv, TypeOK, ringVars, waitingVars, callVars
<1>6. CallInv' /\ AmountInv'
  BY <1>2, RingStays DEF IInv, CallInv, AmountInv, callVars, settings
<1>7. NoneSleepsNotified'
  BY <1>1, <1>2, <1>3, <1>4 DEF IInv, NoneSleepsNotified, Waiting, callVars, TypeOK
<1>8. \A v \in Task : MaySleep(v)' => MaySleep(v)
  BY <1>2, <1>4 DEF MaySleep, callVars
<1>9. ReaderInv'
  BY <1>2, <1>8, RingStays, StreamBufferAssumption DEF IInv, ReaderInv, WriterCompletes, waitingVars, callVars
<1>10. WriterInv'
  BY <1>2, <1>8, NeedKept, StreamBufferAssumption DEF IInv, WriterInv, waitingVars, callVars
<1> QED BY <1>2, <1>4, <1>5, <1>6, <1>7, <1>9, <1>10, RingStays DEF IInv

(* The task that a handler finds registered, if any, is notified.          *)
LEMMA CompleteFromISRFacts ==
    ASSUME IInv, NEW u \in {NoTask, Writer, Reader}, CompleteFromISR(u),
           UNCHANGED <<pxCurrentTCB, uxPriority, eventList, uxSchedulerSuspended, ticksPended,
                       deadline, ulNotifiedValue, callVars>>
    PROVE  /\ SchedTypeOK' /\ HeldInv' /\ BlockedInv' /\ NoneSleepsNotified'
           /\ ucNotifyState' \in [Task -> {"notWaiting", "waiting", "received"}]
           /\ \A v \in Task : MaySleep(v)' => v # u /\ MaySleep(v)
<1>1. NoTask \notin Task /\ Writer \in Task /\ Reader \in Task
  BY StreamBufferAssumption
<1>2. CASE u # NoTask
  <2>1. xTaskGenericNotifyFromISR(u) /\ u \in Task
    BY <1>1, <1>2 DEF CompleteFromISR
  <2>2. /\ SchedTypeOK' /\ HeldInv' /\ BlockedInv'
        /\ ucNotifyState' \in [Task -> {"notWaiting", "waiting", "received"}]
        /\ ucNotifyState'[u] = "received"
        /\ \A v \in Task \ {u} : ucNotifyState'[v] = ucNotifyState[v]
        /\ \A v \in Task : Asleep(v)' => v # u /\ Asleep(v)
    BY <2>1, NotifyFromISRFacts DEF callVars
  <2>3. NoneSleepsNotified'
    BY <2>2 DEF IInv, NoneSleepsNotified, Waiting, callVars
  <2> QED BY <2>2, <2>3 DEF MaySleep, callVars
<1>3. CASE u = NoTask
  <2>1. UNCHANGED <<ucNotifyState, xStateListItem, xPendingReadyList, xYieldPending, pendSV>>
    BY <1>3 DEF CompleteFromISR
  <2>2. SchedTypeOK' /\ HeldInv' /\ BlockedInv' /\ NoneSleepsNotified'
    BY <2>1 DEF IInv, TypeOK, SchedTypeOK, HeldInv, BlockedInv, NoneSleepsNotified, Waiting,
                Asleep, Ready, callVars
  <2> QED BY <1>1, <1>3, <2>1, <2>2 DEF IInv, TypeOK, MaySleep, callVars
<1> QED BY <1>2, <1>3

(* A handler writes what there is room for.                                *)
LEMMA SendFromISRKeeps ==
    ASSUME IInv, NEW n \in Sizes \cup {0}, SendFromISR(n)
    PROVE  IInv'
<1> DEFINE k == Written(n, xStreamBufferSpacesAvailable)
           u == IF n = 0 \/ (k > 0 /\ Triggered') THEN xTaskWaitingToReceive ELSE NoTask
<1>1. /\ isr = "writes"
      /\ UNCHANGED <<pxCurrentTCB, uxPriority, eventList, uxSchedulerSuspended, ticksPended,
                     deadline, isMessageBuffer, isr, xTriggerLevelBytes, xTaskWaitingToSend,
                     ulNotifiedValue, callVars>>
      /\ IF k > 0 THEN testedLevel' = xTriggerLevelBytes ELSE UNCHANGED testedLevel
      /\ Write(k)
      /\ CompleteFromISR(u)
      /\ IF n = 0 \/ (k > 0 /\ Triggered') THEN xTaskWaitingToReceive' = NoTask
         ELSE UNCHANGED xTaskWaitingToReceive
  BY DEF SendFromISR, LevelTested
<1>2. /\ k \in Nat /\ (k # 0 => k + MessageLengthBytes <= xStreamBufferSpacesAvailable)
      /\ n = 0 => k = 0
  <2>1. n \in Nat
    <3>1. CASE n = 0
      BY <3>1
    <3>2. CASE n # 0
      BY <3>2, StreamBufferAssumption
    <3> QED BY <3>1, <3>2
  <2>2. xStreamBufferSpacesAvailable \in Nat /\ Header \in Nat
    BY CountsShareTheRing, StreamBufferAssumption DEF IInv
  <2> QED BY <2>1, <2>2 DEF Written, RequiredSpace, MessageLengthBytes, SmallerOf
<1>3. u \in {NoTask, Reader} /\ NoTask # Reader /\ Reader \in Task /\ Writer \in Task
  BY StreamBufferAssumption DEF IInv, TypeOK
<1> HIDE DEF k
<1>4. /\ xHead' \in 0..xLength - 1 /\ xTail' \in 0..xLength - 1
      /\ contents' \in Seq(Nat)
      /\ ContentsInv' /\ RingIsExact'
      /\ prvBytesInBuffer' >= prvBytesInBuffer
      /\ k = 0 => prvBytesInBuffer' = prvBytesInBuffer
  BY <1>1, <1>2, WriteFacts DEF IInv
<1>5. /\ SchedTypeOK' /\ HeldInv' /\ BlockedInv' /\ NoneSleepsNotified'
      /\ ucNotifyState' \in [Task -> {"notWaiting", "waiting", "received"}]
      /\ \A v \in Task : MaySleep(v)' => v # u /\ MaySleep(v)
  <2> HIDE DEF u
  <2> QED BY <1>1, <1>3, CompleteFromISRFacts
<1>6. TypeOK'
  BY <1>1, <1>4, <1>5 DEF IInv, TypeOK, callVars
<1>7. op[Writer] # "send"
  BY <1>1, <1>3 DEF IInv, CallInv
<1>8. CreatedOK' /\ CallInv'
  BY <1>1 DEF IInv, CreatedOK, CallInv, callVars
<1>9. AmountInv'
  <2>1. prvBytesInBuffer \in Nat /\ prvBytesInBuffer' \in Nat
    BY <1>6, CountsShareTheRing, CountsAfterwards DEF IInv
  <2>2. amount[Reader] \in 0..xLength - 1
    BY <1>3 DEF IInv, TypeOK
  <2> QED BY <1>1, <1>4, <1>7, <2>1, <2>2 DEF IInv, AmountInv, callVars
<1>10. ReaderInv'
  <2>1. SUFFICES ASSUME MaySleep(Reader)', op[Reader] = "receive"
                 PROVE  xTaskWaitingToReceive' = Reader /\ ~LevelReached'
    BY <1>1 DEF ReaderInv, callVars
  <2>2. MaySleep(Reader) /\ Reader # u
    BY <1>3, <1>5, <2>1
  <2>3. xTaskWaitingToReceive = Reader /\ ~LevelReached
    BY <1>7, <2>1, <2>2 DEF IInv, ReaderInv, WriterCompletes
  <2>4. ~(n = 0 \/ (k > 0 /\ Triggered'))
    BY <2>2, <2>3
  <2>5. CASE k = 0
    BY <1>1, <1>4, <2>3, <2>4, <2>5 DEF LevelReached
  <2>6. CASE k # 0
    <3>1. k > 0 /\ ~Triggered'
      BY <1>2, <2>4, <2>6
    <3> QED BY <1>1, <2>3, <2>4, <3>1 DEF LevelReached, Triggered
  <2> QED BY <2>5, <2>6
<1>11. WriterInv'
  BY <1>1, <1>7 DEF WriterInv, callVars
<1> QED BY <1>4, <1>5, <1>6, <1>8, <1>9, <1>10, <1>11 DEF IInv

(* A handler reads what is there.                                          *)
LEMMA ReceiveFromISRKeeps ==
    ASSUME IInv, NEW n \in Sizes \cup {0}, ReceiveFromISR(n)
    PROVE  IInv'
<1> DEFINE k == ReadOut(n, prvBytesInBuffer)
           u == IF n = 0 \/ k > 0 THEN xTaskWaitingToSend ELSE NoTask
<1>1. /\ isr = "reads"
      /\ UNCHANGED <<pxCurrentTCB, uxPriority, eventList, uxSchedulerSuspended, ticksPended,
                     deadline, settings, xTaskWaitingToReceive, ulNotifiedValue, callVars>>
      /\ Read(k)
      /\ CompleteFromISR(u)
      /\ IF n = 0 \/ k > 0 THEN xTaskWaitingToSend' = NoTask
         ELSE UNCHANGED xTaskWaitingToSend
  BY DEF ReceiveFromISR
<1>2. /\ k \in Nat
      /\ k # 0 => /\ k + MessageLengthBytes <= prvBytesInBuffer
                  /\ isMessageBuffer => k = Head(contents)
  <2>1. n \in Nat
    <3>1. CASE n = 0
      BY <3>1
    <3>2. CASE n # 0
      BY <3>2, StreamBufferAssumption
    <3> QED BY <3>1, <3>2
  <2>2. /\ MessageLengthBytes \in Nat /\ prvBytesInBuffer \in Nat
        /\ prvBytesInBuffer # 0 => /\ Head(contents) \in Nat
                                   /\ Head(contents) + MessageLengthBytes <= prvBytesInBuffer
        /\ ~isMessageBuffer => MessageLengthBytes = 0
    BY WholeMessages, CountsShareTheRing DEF IInv
  <2>3. CASE prvBytesInBuffer <= MessageLengthBytes
    BY <2>3 DEF ReadOut
  <2>4. CASE ~(prvBytesInBuffer <= MessageLengthBytes) /\ isMessageBuffer
    BY <2>1, <2>2, <2>4 DEF ReadOut
  <2>5. CASE ~(prvBytesInBuffer <= MessageLengthBytes) /\ ~isMessageBuffer
    BY <2>1, <2>2, <2>5 DEF ReadOut, SmallerOf
  <2> QED BY <2>3, <2>4, <2>5
<1>3. u \in {NoTask, Writer} /\ NoTask # Writer /\ Reader \in Task /\ Writer \in Task
  BY StreamBufferAssumption DEF IInv, TypeOK
<1> HIDE DEF k
<1>4. /\ xHead' \in 0..xLength - 1 /\ xTail' \in 0..xLength - 1
      /\ contents' \in Seq(Nat)
      /\ ContentsInv' /\ RingIsExact'
      /\ xStreamBufferSpacesAvailable' >= xStreamBufferSpacesAvailable
      /\ k = 0 => xStreamBufferSpacesAvailable' = xStreamBufferSpacesAvailable
  BY <1>1, <1>2, ReadFacts DEF IInv, settings
<1>5. /\ SchedTypeOK' /\ HeldInv' /\ BlockedInv' /\ NoneSleepsNotified'
      /\ ucNotifyState' \in [Task -> {"notWaiting", "waiting", "received"}]
      /\ \A v \in Task : MaySleep(v)' => v # u /\ MaySleep(v)
  <2> HIDE DEF u
  <2> QED BY <1>1, <1>3, CompleteFromISRFacts
<1>6. TypeOK'
  BY <1>1, <1>4, <1>5 DEF IInv, TypeOK, callVars
<1>7. op[Reader] # "receive"
  BY <1>1, <1>3 DEF IInv, CallInv
<1>8. CreatedOK' /\ CallInv'
  BY <1>1, CreatedKept DEF IInv, CallInv, callVars, settings
<1>9. AmountInv'
  <2>1. /\ xStreamBufferSpacesAvailable \in Nat /\ xStreamBufferSpacesAvailable' \in Nat
    BY <1>6, CountsShareTheRing, CountsAfterwards DEF IInv
  <2>2. amount[Writer] \in 0..xLength - 1
    BY <1>3 DEF IInv, TypeOK
  <2> QED BY <1>1, <1>4, <1>7, <2>1, <2>2 DEF IInv, AmountInv, callVars
<1>10. ReaderInv'
  BY <1>1, <1>7 DEF ReaderInv, WriterCompletes, callVars
<1>11. WriterInv'
  <2>1. SUFFICES ASSUME MaySleep(Writer)', op[Writer] = "send"
                 PROVE  xTaskWaitingToSend' = Writer /\ HasToWait(Writer)'
    BY <1>1 DEF WriterInv, callVars
  <2>2. MaySleep(Writer) /\ Writer # u
    BY <1>3, <1>5, <2>1
  <2>3. xTaskWaitingToSend = Writer /\ HasToWait(Writer)
    BY <1>7, <2>1, <2>2 DEF IInv, WriterInv
  <2>4. ~(n = 0 \/ k > 0)
    BY <2>2, <2>3
  <2>5. k = 0
    BY <1>2, <2>4
  <2>6. \A i : RequiredSpace(i)' = RequiredSpace(i)
    BY <1>1 DEF settings, RequiredSpace
  <2> QED BY <1>1, <1>4, <2>1, <2>3, <2>4, <2>5, <2>6 DEF HasToWait, Found, callVars
<1> QED BY <1>4, <1>5, <1>6, <1>8, <1>9, <1>10, <1>11 DEF IInv

(* A step of the scheduler puts no task to sleep.                          *)
LEMMA SchedulerStep ==
    ASSUME IInv, SchedTypeOK', HeldInv',
           UNCHANGED <<xPendingReadyList, settings, ringVars, waitingVars, notifyVars, callVars>>,
           \A v \in Task : v \in Ready => v \in Ready'
    PROVE  IInv'
<1>1. TypeOK'
  BY DEF IInv, TypeOK, ringVars, waitingVars, notifyVars, callVars
<1>2. CallInv' /\ AmountInv' /\ BlockedInv' /\ NoneSleepsNotified'
  BY RingStays DEF IInv, CallInv, AmountInv, BlockedInv, NoneSleepsNotified, Waiting, Asleep,
                   callVars, notifyVars, settings
<1>3. ReaderInv'
  BY RingStays DEF IInv, ReaderInv, WriterCompletes, MaySleep, callVars, waitingVars, notifyVars
<1>4. WriterInv'
  BY NeedKept DEF IInv, WriterInv, MaySleep, callVars, waitingVars, notifyVars
<1> QED BY <1>1, <1>2, <1>3, <1>4, RingStays DEF IInv

(* A tick.                                                                 *)
LEMMA SysTickKeeps == ASSUME IInv, SysTick PROVE IInv'
<1>1. PICK X \in SUBSET Armed : xTaskIncrementTick(X)
  BY DEF SysTick
<1>2. UNCHANGED <<pxCurrentTCB, uxPriority, xPendingReadyList, uxSchedulerSuspended,
                  xYieldPending, settings, ringVars, waitingVars, notifyVars, callVars>>
  BY DEF SysTick
<1>3. CASE uxSchedulerSuspended # 0
  <2>1. /\ UNCHANGED <<deadline, xStateListItem, eventList, pendSV>>
        /\ ticksPended' = TRUE
    BY <1>1, <1>3 DEF xTaskIncrementTick
  <2>2. SchedTypeOK' /\ HeldInv' /\ Ready' = Ready
    BY <1>2, <2>1 DEF IInv, TypeOK, SchedTypeOK, HeldInv, Ready, callVars
  <2> QED BY <1>2, <2>2, SchedulerStep
<1>4. CASE uxSchedulerSuspended = 0
  <2>1. /\ Expire(X, xStateListItem)
        /\ pendSV' = (pendSV \/ SwitchRequired(X, xStateListItem) \/ xYieldPending)
        /\ UNCHANGED ticksPended
    BY <1>1, <1>4 DEF xTaskIncrementTick
  <2>2. /\ X \in SUBSET Task /\ SchedTypeOK
        /\ xStateListItem \in [Task -> {"ready", "delayed", "suspended"}]
    BY DEF Armed, IInv, TypeOK, SchedTypeOK
  <2>3. /\ deadline' \in [Task -> {"none", "armed", "expired"}]
        /\ xStateListItem' \in [Task -> {"ready", "delayed", "suspended"}]
        /\ eventList' \in [EventLists -> Seq(Task)]
    BY <2>1, <2>2, ExpireListsFacts
  <2>4. Ready' = {v \in Task : xStateListItem[v] = "ready"}
                     \cup {v \in X : xStateListItem[v] = "delayed"}
    BY <2>1, <2>2, ExpireListsFacts
  <2>5. pendSV' \in BOOLEAN /\ (~pendSV' => ~pendSV)
    BY <2>1
  <2>6. SchedTypeOK'
    BY <1>2, <2>1, <2>3, <2>5 DEF IInv, TypeOK, SchedTypeOK
  <2>7. HeldInv' /\ \A v \in Task : v \in Ready => v \in Ready'
    BY <1>2, <2>4, <2>5 DEF IInv, HeldInv, Ready, callVars
  <2> QED BY <1>2, <2>6, <2>7, SchedulerStep
<1> QED BY <1>3, <1>4

(* A context switch, for which the scheduler is not held.                  *)
LEMMA PendSVKeeps == ASSUME IInv, PendSV PROVE IInv'
<1>1. /\ vTaskSwitchContext
      /\ UNCHANGED <<uxPriority, xStateListItem, eventList, xPendingReadyList,
                     uxSchedulerSuspended, ticksPended, deadline, settings, ringVars,
                     waitingVars, notifyVars, callVars>>
  BY DEF PendSV
<1>2. /\ pendSV' = FALSE /\ xYieldPending' \in BOOLEAN
      /\ uxSchedulerSuspended # 0 => UNCHANGED pxCurrentTCB
      /\ uxSchedulerSuspended = 0 => pxCurrentTCB' \in Ready
  BY <1>1 DEF vTaskSwitchContext, HighestReady
<1>3. Ready' = Ready
  BY <1>1 DEF Ready
<1>4. SchedTypeOK'
  BY <1>1, <1>2 DEF IInv, TypeOK, SchedTypeOK, Ready
<1>5. HeldInv'
  BY <1>1, <1>2, <1>3, <1>4 DEF IInv, HeldInv, BlockedInv, TypeOK, SchedTypeOK, callVars
<1> QED BY <1>1, <1>3, <1>4, <1>5, SchedulerStep

(* A stuttering step.                                                      *)
LEMMA StutterKeeps == ASSUME IInv, UNCHANGED vars PROVE IInv'
<1>1. SchedTypeOK' /\ HeldInv' /\ Ready' = Ready
  BY DEF vars, schedVars, callVars, IInv, TypeOK, SchedTypeOK, HeldInv, Ready
<1> QED BY <1>1, SchedulerStep DEF vars, schedVars

-----------------------------------------------------------------------------
(* The theorems.                                                           *)

(* The invariant holds when the scheduler has been started.                *)
LEMMA InitOK == ASSUME Init PROVE IInv
<1>1. SchedTypeOK
  BY SchedInitFacts DEF Init
<1>2. TypeOK
  <2>1. 0 \in 0..xLength - 1 /\ 0 \in 0..MaxValue /\ <<>> \in Seq(Nat)
    BY StreamBufferAssumption
  <2> QED BY <1>1, <2>1 DEF Init, TypeOK
<1>3. CreatedOK
  BY StreamBufferAssumption DEF Init, CreatedOK
<1>4. prvBytesInBuffer = 0 /\ RingIsExact /\ ContentsInv
  <2>1. prvBytesInBuffer = 0
    BY StreamBufferAssumption DEF Init, prvBytesInBuffer
  <2>2. MessageLengthBytes \in Nat
    BY StreamBufferAssumption DEF MessageLengthBytes
  <2> QED BY <2>1, <2>2, BytesOfEmpty DEF Init, RingIsExact, ContentsInv
<1>5. CallInv /\ HeldInv /\ BlockedInv /\ NoneSleepsNotified
  BY <1>2 DEF Init, SchedInit, CallInv, HeldInv, BlockedInv, NoneSleepsNotified, Asleep, Ready,
              Waiting, TypeOK, SchedTypeOK
<1>6. AmountInv /\ ReaderInv /\ WriterInv
  BY StreamBufferAssumption DEF Init, AmountInv, ReaderInv, WriterCompletes, WriterInv
<1> QED BY <1>2, <1>3, <1>4, <1>5, <1>6 DEF IInv

(* Every step keeps the invariant.                                         *)
LEMMA StepKeeps == ASSUME IInv, [Next]_vars PROVE IInv'
<1>1. ASSUME NEW t \in Task, App(t) PROVE IInv'
  BY <1>1, SendKeeps, ReceiveKeeps, TakeKeeps, GiveKeeps, ResetKeeps, SetTriggerLevelKeeps
     DEF App
<1>2. ASSUME NEW t \in Task, CallStep(t) PROVE IInv'
  BY <1>2, EnterKeeps, WaitKeeps, WaitedKeeps, TakenKeeps, ClearKeeps, LookKeeps,
     WriterTransferKeeps, ReaderTransferKeeps, TestTriggerKeeps, CompleteKeeps, NotifyKeeps,
     ResumeAllKeeps
     DEF CallStep
<1>3. ASSUME Interrupt PROVE IInv'
  BY <1>3, NotifyFromISRKeeps, SendFromISRKeeps, ReceiveFromISRKeeps DEF Interrupt
<1> QED BY <1>1, <1>2, <1>3, SysTickKeeps, PendSVKeeps, StutterKeeps DEF Next

(* The inductive invariant holds in every state that is reached.           *)
THEOREM Invariance == Spec => []IInv
<1>1. Init => IInv
  BY InitOK
<1>2. IInv /\ [Next]_vars => IInv'
  BY StepKeeps
<1> QED BY <1>1, <1>2, PTL DEF Spec

(* Every variable keeps its type: the indices stay inside the storage      *)
(* area, and what a call found is never more than it can hold.             *)
THEOREM TypeCorrect == Spec => []TypeOK
<1>1. IInv => TypeOK
  BY DEF IInv
<1> QED BY <1>1, Invariance, PTL

(* A task that is blocked for a notification has not been sent one, and    *)
(* one that takes a count has none to take.                                *)
THEOREM NotificationsWake == Spec => []NoneSleepsNotified
<1>1. IInv => NoneSleepsNotified
  BY DEF IInv
<1> QED BY <1>1, Invariance, PTL

(* The two indices tell exactly how much is in the buffer.                 *)
THEOREM RingExact == Spec => []RingIsExact
<1>1. IInv => RingIsExact
  BY DEF IInv
<1> QED BY <1>1, Invariance, PTL

(* A task that sleeps in a call has prepared to wait and was not notified. *)
LEMMA SleepersMaySleep == ASSUME IInv, NEW t \in Task, Asleep(t) PROVE MaySleep(t)
  BY DEF IInv, Asleep, MaySleep, BlockedInv, NoneSleepsNotified, Waiting

(* A sleeping reader is registered, and what it waits for is not there     *)
(* unless the writer is about to notify it.                                *)
THEOREM ReaderIsWoken == Spec => []ReaderNotStranded
<1>1. IInv => ReaderNotStranded
  BY SleepersMaySleep, StreamBufferAssumption DEF IInv, ReaderInv, WriterCompletes, ReaderNotStranded
<1> QED BY <1>1, Invariance, PTL

(* A sleeping writer is registered, and the room it needs is not there     *)
(* unless the reader is about to notify it.                                *)
THEOREM WriterIsWoken == Spec => []WriterNotStranded
<1>1. IInv => WriterNotStranded
  BY SleepersMaySleep, StreamBufferAssumption DEF IInv, WriterInv, WriterNotStranded
<1> QED BY <1>1, Invariance, PTL

(* If all that is sent fits beside the bytes that stay below any trigger   *)
(* level, writer and reader do not wait for each other: neither sleeps     *)
(* over its notification, and the room that a sleeping writer lacks and    *)
(* the bytes that a sleeping reader lacks are not in one buffer together.  *)
THEOREM NoDeadlock == ASSUME FitTogether PROVE Spec => []NoMutualWait
<1>1. ASSUME IInv PROVE NoMutualWait
  <2>1. SUFFICES ASSUME Asleep(Reader), op[Reader] = "receive",
                        Asleep(Writer), op[Writer] = "send"
                 PROVE  FALSE
    BY DEF NoMutualWait
  <2>2. ReaderNotStranded /\ WriterNotStranded
    BY <1>1, SleepersMaySleep, StreamBufferAssumption
       DEF IInv, ReaderInv, ReaderNotStranded, WriterInv, WriterNotStranded
  <2>3. /\ pc[Reader] \notin {"complete", "notify"}
        /\ pc[Writer] \notin {"written", "complete", "notify"}
    BY <1>1, <2>1, SleepersMaySleep, StreamBufferAssumption DEF MaySleep
  <2>4. /\ prvBytesInBuffer \in Nat /\ xStreamBufferSpacesAvailable \in Nat
        /\ prvBytesInBuffer + xStreamBufferSpacesAvailable = xLength - 1
        /\ testedLevel \in Triggers \cup {1} /\ testedLevel \in Nat
    BY <1>1, CountsShareTheRing, StreamBufferAssumption DEF IInv, CreatedOK
  <2>5. prvBytesInBuffer < testedLevel
    <3>1. ~LevelReached
      BY <2>1, <2>2, <2>3 DEF ReaderNotStranded, WriterCompletes
    <3> QED BY <2>4, <3>1 DEF LevelReached
  <2>6. size[Writer] \in Sizes /\ size[Writer] \in Nat
    <3>1. Writer \in Task /\ Sizes \subseteq Nat
      BY StreamBufferAssumption
    <3>2. size[Writer] # 0
      BY <1>1, <2>1, <3>1 DEF IInv, CallInv
    <3>3. size[Writer] \in Sizes \cup {0}
      BY <1>1, <3>1 DEF IInv, TypeOK
    <3> QED BY ONLY <3>1, <3>2, <3>3
  <2>7. /\ SmallerOf(size[Writer], xLength - 1) + testedLevel <= xLength
        /\ size[Writer] + Header +
               (IF testedLevel <= Header + 1 THEN 1 ELSE testedLevel) <= xLength
    BY <2>4, <2>6 DEF FitTogether
  <2>8. xStreamBufferSpacesAvailable < RequiredSpace(size[Writer])
    <3>1. HasToWait(Writer)
      BY <2>1, <2>2, <2>3 DEF WriterNotStranded
    <3> QED BY <2>1, <3>1 DEF HasToWait, Found
  <2>9. xLength \in Nat \ {0, 1} /\ Header \in Nat \ {0}
    BY StreamBufferAssumption
  <2>10. CASE ~isMessageBuffer
    <3>1. RequiredSpace(size[Writer]) = SmallerOf(size[Writer], xLength - 1)
      BY <2>10 DEF RequiredSpace
    <3>2. SmallerOf(size[Writer], xLength - 1) \in Nat
      BY <2>6, <2>9 DEF SmallerOf
    <3> QED BY ONLY <2>4, <2>5, <2>7, <2>8, <2>9, <3>1, <3>2
  <2>11. CASE isMessageBuffer
    <3>1. RequiredSpace(size[Writer]) = size[Writer] + Header
      BY <2>11 DEF RequiredSpace
    <3>2. prvBytesInBuffer # 0 => prvBytesInBuffer >= Header + 1
      <4>1. prvBytesInBuffer # 0 => /\ Head(contents) \in Nat \ {0}
                                    /\ Head(contents) + Header <= prvBytesInBuffer
        BY <1>1, <2>11, WholeMessages DEF IInv, MessageLengthBytes
      <4> QED BY ONLY <2>4, <2>9, <4>1
    <3>3. CASE testedLevel <= Header + 1
      <4>1. prvBytesInBuffer = 0
        BY ONLY <2>4, <2>5, <2>9, <3>2, <3>3
      <4> QED BY ONLY <2>4, <2>6, <2>7, <2>8, <2>9, <3>1, <3>3, <4>1
    <3>4. CASE ~(testedLevel <= Header + 1)
      BY ONLY <2>4, <2>5, <2>6, <2>7, <2>8, <2>9, <3>1, <3>4
    <3> QED BY <3>3, <3>4
  <2> QED BY <2>10, <2>11
<1> QED BY <1>1, Invariance, PTL
=============================================================================
