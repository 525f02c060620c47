----------------------------- MODULE TaskQueueFacts -------------------------
(***************************************************************************)
(* One task queue with the locals of its owner: what a processor sees of   *)
(* its own stores, the invariant of a queue, what pushes, pops and steals  *)
(* do to it and to its content; and the types of TaskQueue.                *)
(***************************************************************************)
EXTENDS TaskQueue, TLAPS

\* The prover of every leaf that does not name one.
USE ZenonT(60)

-----------------------------------------------------------------------------
(* Indexes modulo N.                                                       *)

\* increment_index stays in the array and wraps at its end.
LEMMA IncrementFacts ==
  ASSUME NEW i \in Index
  PROVE  increment_index(i) \in Index /\ increment_index(i) = IF i = N - 1 THEN 0 ELSE i + 1
BY SMTT(30), NAssumption DEF increment_index, Index

\* decrement_index stays in the array, wraps at its start and undoes increment_index.
LEMMA DecrementFacts ==
  ASSUME NEW i \in Index
  PROVE  /\ decrement_index(i) \in Index
         /\ decrement_index(i) = IF i = 0 THEN N - 1 ELSE i - 1
         /\ increment_index(decrement_index(i)) = i
BY SMTT(30), NAssumption DEF increment_index, decrement_index, Index

\* The distance of an index above the top.
LEMMA DistanceFacts ==
  ASSUME NEW i \in Index, NEW t \in Index
  PROVE  /\ dirty_size(i, t) \in Index
         /\ dirty_size(i, t) = IF i >= t THEN i - t ELSE i - t + N
BY SMTT(30), NAssumption DEF dirty_size, Index

\* dirty_size is a number below N.
LEMMA DistanceNat ==
  ASSUME NEW i \in Index, NEW t \in Index
  PROVE  dirty_size(i, t) \in Nat /\ dirty_size(i, t) <= N - 1
<1>1. dirty_size(i, t) \in Index
  BY DistanceFacts
<1> QED BY SMTT(30), NAssumption, <1>1 DEF Index

\* For one top, dirty_size tells indexes apart.
LEMMA DistanceOrder ==
  ASSUME NEW i \in Index, NEW j \in Index, NEW t \in Index
  PROVE  /\ dirty_size(i, t) = 0 <=> i = t
         /\ dirty_size(i, t) = dirty_size(j, t) <=> i = j
<1>1. /\ dirty_size(i, t) = IF i >= t THEN i - t ELSE i - t + N
      /\ dirty_size(j, t) = IF j >= t THEN j - t ELSE j - t + N
  BY DistanceFacts
<1> QED BY SMTT(30), NAssumption, <1>1 DEF Index

\* One index further.
LEMMA DistanceNext ==
  ASSUME NEW i \in Index, NEW t \in Index
  PROVE  /\ dirty_size(increment_index(i), t) =
              IF dirty_size(i, t) = N - 1 THEN 0 ELSE dirty_size(i, t) + 1
         /\ dirty_size(decrement_index(i), t) =
              IF i = t THEN N - 1 ELSE dirty_size(i, t) - 1
<1>1. increment_index(i) \in Index /\ decrement_index(i) \in Index
  BY IncrementFacts, DecrementFacts
<1> DEFINE up == increment_index(i)
           down == decrement_index(i)
<1>2. up = (IF i = N - 1 THEN 0 ELSE i + 1) /\ down = (IF i = 0 THEN N - 1 ELSE i - 1)
  BY IncrementFacts, DecrementFacts
<1>3. /\ dirty_size(i, t) = IF i >= t THEN i - t ELSE i - t + N
      /\ dirty_size(up, t) = IF up >= t THEN up - t ELSE up - t + N
      /\ dirty_size(down, t) = IF down >= t THEN down - t ELSE down - t + N
  BY <1>1, DistanceFacts
<1> HIDE DEF up, down
<1>4. /\ dirty_size(up, t) = IF dirty_size(i, t) = N - 1 THEN 0 ELSE dirty_size(i, t) + 1
      /\ dirty_size(down, t) = IF i = t THEN N - 1 ELSE dirty_size(i, t) - 1
  BY SMTT(30), NAssumption, <1>2, <1>3 DEF Index
<1> QED BY <1>4 DEF up, down

\* The top one index further.
LEMMA DistanceTop ==
  ASSUME NEW i \in Index, NEW t \in Index
  PROVE  dirty_size(i, increment_index(t)) =
           IF i = t THEN N - 1 ELSE dirty_size(i, t) - 1
<1>1. increment_index(t) \in Index
  BY IncrementFacts
<1> DEFINE up == increment_index(t)
<1>2. up = IF t = N - 1 THEN 0 ELSE t + 1
  BY IncrementFacts
<1>3. /\ dirty_size(i, t) = IF i >= t THEN i - t ELSE i - t + N
      /\ dirty_size(i, up) = IF i >= up THEN i - up ELSE i - up + N
  BY <1>1, DistanceFacts
<1> HIDE DEF up
<1>4. dirty_size(i, up) = IF i = t THEN N - 1 ELSE dirty_size(i, t) - 1
  BY SMTT(30), NAssumption, <1>2, <1>3 DEF Index
<1> QED BY <1>4 DEF up

\* The index at a distance above the top.
LEMMA AtDistance ==
  ASSUME NEW t \in Index, NEW k \in Index
  PROVE  (t + k) % N \in Index /\ dirty_size((t + k) % N, t) = k
<1>1. (t + k) % N = IF t + k >= N THEN t + k - N ELSE t + k
  BY SMTT(30), NAssumption DEF Index
<1>2. (t + k) % N \in Index
  BY SMTT(30), NAssumption, <1>1 DEF Index
<1> DEFINE i == (t + k) % N
<1>3. dirty_size(i, t) = IF i >= t THEN i - t ELSE i - t + N
  BY <1>2, DistanceFacts
<1> HIDE DEF i
<1>4. i = IF t + k >= N THEN t + k - N ELSE t + k
  BY <1>1 DEF i
<1>5. dirty_size(i, t) = k
  BY SMTT(30), NAssumption, <1>3, <1>4 DEF Index
<1> QED BY <1>2, <1>5 DEF i

-----------------------------------------------------------------------------
(* Ages.                                                                   *)

\* The order in which the ages of a queue come: by tag, then by top.
Before(a, b) == a.tag < b.tag \/ (a.tag = b.tag /\ a.top < b.top)

\* The order of ages is strict and transitive.
LEMMA BeforeFacts ==
  ASSUME NEW a \in Ages, NEW b \in Ages
  PROVE  /\ ~(Before(a, b) /\ a = b)
         /\ \A c \in Ages : Before(a, b) /\ Before(b, c) => Before(a, c)
BY SMTT(30), NAssumption DEF Before, Ages, Index

\* While the tag does not overflow, every new age comes after the old one.
LEMMA NewAgeFacts ==
  ASSUME NEW a \in Ages, NEW i \in Index, a.tag + 1 < TagValues
  PROVE  /\ NewAge(i, a.tag) \in Ages /\ Before(a, NewAge(i, a.tag))
         /\ NewAge(i, a.tag).top = i /\ NewAge(i, a.tag).tag = a.tag + 1
<1>1. a.tag \in 0 .. TagValues - 1
  BY DEF Ages
<1>2. (a.tag + 1) % TagValues = a.tag + 1 /\ a.tag + 1 \in 0 .. TagValues - 1
  BY SMTT(30), NAssumption, <1>1
<1> QED BY SMTT(30), <1>1, <1>2 DEF NewAge, Ages, Before

\* Age::increment moves the top up, and counts a tag when the top wraps.
LEMMA IncrementAge ==
  ASSUME NEW a \in Ages, a.tag + 1 < TagValues
  PROVE  /\ Increment(a) \in Ages /\ Before(a, Increment(a))
         /\ Increment(a).top = increment_index(a.top)
         /\ Increment(a).tag = IF a.top = N - 1 THEN a.tag + 1 ELSE a.tag
<1>1. a.top \in Index /\ a.tag \in 0 .. TagValues - 1
  BY DEF Ages
<1>2. /\ increment_index(a.top) \in Index
      /\ increment_index(a.top) = IF a.top = N - 1 THEN 0 ELSE a.top + 1
  BY <1>1, IncrementFacts
<1>3. CASE a.top = N - 1
  <2>1. increment_index(a.top) = 0
    BY <1>2, <1>3
  <2> QED BY <1>2, <1>3, <2>1, NewAgeFacts DEF Increment
<1>4. CASE a.top # N - 1
  <2>1. increment_index(a.top) # 0 /\ a.top < increment_index(a.top)
    BY SMTT(30), NAssumption, <1>1, <1>2, <1>4 DEF Index
  <2>2. Increment(a) = [a EXCEPT !.top = increment_index(a.top)]
    BY <2>1 DEF Increment
  <2> QED BY SMTT(30), <1>1, <1>2, <1>4, <2>1, <2>2 DEF Ages, Before
<1> QED BY <1>3, <1>4

-----------------------------------------------------------------------------
(* What a thread sees of its own stores.                                   *)

\* A store to the location.
To(s, to, at) == s.to = to /\ s.at = at

\* The last pending store to the location.
Latest(b, i, to, at) ==
  /\ i \in DOMAIN b /\ To(b[i], to, at)
  /\ \A j \in DOMAIN b : To(b[j], to, at) => j <= i

\* Every location with pending stores has a last one.
Settled(b) == \A k \in DOMAIN b : \E i \in DOMAIN b : Latest(b, i, b[k].to, b[k].at)

\* A processor with no pending store to a location reads memory.
LEMMA SeenMemory ==
  ASSUME NEW b, NEW to, NEW at, NEW memory, \A i \in DOMAIN b : ~Latest(b, i, to, at)
  PROVE  Seen(b, to, at, memory) = memory
BY DEF Seen, To, Latest

\* A processor reads the last of its pending stores to a location.
LEMMA SeenLatest ==
  ASSUME NEW S, NEW b \in Seq(S), NEW i, NEW to, NEW at, NEW memory,
         Latest(b, i, to, at)
  PROVE  Seen(b, to, at, memory) = b[i].val
<1> DEFINE mine == {j \in DOMAIN b : b[j].to = to /\ b[j].at = at}
           last == {k \in mine : \A j \in mine : j <= k}
<1>1. i \in last /\ \A k \in last : k <= i /\ i <= k
  BY DEF To, Latest
<1>2. last \subseteq Int
  BY SMTT(30)
<1> HIDE DEF last
<1>3. \A k \in last : k = i
  BY SMTT(30), <1>1, <1>2
<1>4. (CHOOSE k \in last : TRUE) = i /\ last # {}
  BY <1>1, <1>3
<1> QED BY <1>4 DEF Seen, last

\* What a store appended to a buffer leaves in its places.
LEMMA NewBuffer ==
  ASSUME NEW S, NEW b \in Seq(S), NEW s \in S
  PROVE  /\ Append(b, s) \in Seq(S) /\ Append(b, s)[Len(b) + 1] = s
         /\ Len(b) + 1 \in DOMAIN Append(b, s)
         /\ \A i \in DOMAIN b : i \in DOMAIN Append(b, s) /\ Append(b, s)[i] = b[i]
         /\ \A i \in DOMAIN Append(b, s) : (i \in DOMAIN b \/ i = Len(b) + 1) /\ i <= Len(b) + 1
<1> DEFINE c == Append(b, s)
<1>1. /\ c \in Seq(S) /\ DOMAIN b = 1 .. Len(b) /\ DOMAIN c = 1 .. Len(b) + 1
      /\ Len(b) \in Nat /\ c[Len(b) + 1] = s /\ \A i \in DOMAIN b : c[i] = b[i]
  BY SMTT(30)
<1> HIDE DEF c
<1>2. /\ \A i \in DOMAIN c : (i \in DOMAIN b \/ i = Len(b) + 1) /\ i <= Len(b) + 1
      /\ Len(b) + 1 \in DOMAIN c /\ \A i \in DOMAIN b : i \in DOMAIN c
  BY SMTT(30), <1>1
<1> QED BY <1>1, <1>2 DEF c

\* A stack without its newest element.
LEMMA Popped ==
  ASSUME NEW S, NEW s \in Seq(S), s # <<>>
  PROVE  s[Len(s)] \in S /\ SubSeq(s, 1, Len(s) - 1) \in Seq(S)
BY SMTT(30)

\* A new store is the last to its location, and changes nothing elsewhere.
LEMMA LatestAppend ==
  ASSUME NEW S, NEW b \in Seq(S), NEW s \in S, NEW to, NEW at
  PROVE  /\ To(s, to, at) => Latest(Append(b, s), Len(b) + 1, to, at)
         /\ ~To(s, to, at) =>
              \A i : Latest(Append(b, s), i, to, at) <=> Latest(b, i, to, at)
<1> DEFINE c == Append(b, s)
<1>1. /\ c[Len(b) + 1] = s /\ Len(b) + 1 \in DOMAIN c
      /\ \A i \in DOMAIN b : i \in DOMAIN c /\ c[i] = b[i]
      /\ \A i \in DOMAIN c : (i \in DOMAIN b \/ i = Len(b) + 1) /\ i <= Len(b) + 1
  BY SMTT(30), NewBuffer
<1> HIDE DEF c
<1>2. To(s, to, at) => Latest(c, Len(b) + 1, to, at)
  BY <1>1 DEF Latest
<1>3. ASSUME ~To(s, to, at), NEW i PROVE Latest(c, i, to, at) <=> Latest(b, i, to, at)
  BY <1>1, <1>3 DEF Latest
<1> QED BY <1>2, <1>3 DEF c

\* A new store is seen by its thread at once.
LEMMA SeenAppend ==
  ASSUME NEW S, NEW b \in Seq(S), NEW s \in S, NEW to, NEW at, NEW memory
  PROVE  Seen(Append(b, s), to, at, memory) =
           IF To(s, to, at) THEN s.val ELSE Seen(b, to, at, memory)
<1> DEFINE c == Append(b, s)
<1>1. /\ c \in Seq(S) /\ c[Len(b) + 1] = s
      /\ \A i \in DOMAIN b : i \in DOMAIN c /\ c[i] = b[i]
      /\ To(s, to, at) => Latest(c, Len(b) + 1, to, at)
      /\ ~To(s, to, at) => \A i : Latest(c, i, to, at) <=> Latest(b, i, to, at)
  BY SMTT(30), NewBuffer, LatestAppend
<1> HIDE DEF c
<1>2. ASSUME To(s, to, at) PROVE Seen(c, to, at, memory) = s.val
  <2>1. Latest(c, Len(b) + 1, to, at)
    BY <1>1, <1>2
  <2> QED BY SMTT(30), <1>1, <2>1, SeenLatest
<1>3. ASSUME ~To(s, to, at) PROVE Seen(c, to, at, memory) = Seen(b, to, at, memory)
  <2>1. CASE \E i : Latest(b, i, to, at)
    <3>1. PICK i : Latest(b, i, to, at)
      BY <2>1
    <3>2. Latest(c, i, to, at) /\ c[i] = b[i]
      BY <1>1, <1>3, <3>1 DEF Latest
    <3>3. Seen(b, to, at, memory) = b[i].val
      BY SMTT(30), <3>1, SeenLatest
    <3>4. Seen(c, to, at, memory) = c[i].val
      BY SMTT(30), <1>1, <3>2, SeenLatest
    <3> QED BY <3>2, <3>3, <3>4
  <2>2. CASE ~\E i : Latest(b, i, to, at)
    <3>1. Seen(b, to, at, memory) = memory /\ Seen(c, to, at, memory) = memory
      BY <1>1, <1>3, <2>2, SeenMemory
    <3> QED BY <3>1
  <2> QED BY <2>1, <2>2
<1> QED BY <1>2, <1>3 DEF c

\* A new store keeps a buffer settled.
LEMMA SettledAppend ==
  ASSUME NEW S, NEW b \in Seq(S), NEW s \in S, Settled(b)
  PROVE  Settled(Append(b, s))
<1> DEFINE c == Append(b, s)
<1>1. ASSUME NEW to, NEW at
      PROVE  /\ To(s, to, at) => Latest(c, Len(b) + 1, to, at)
             /\ ~To(s, to, at) => \A i : Latest(c, i, to, at) <=> Latest(b, i, to, at)
  BY LatestAppend
<1>2. ASSUME NEW k \in DOMAIN c
      PROVE  (k \in DOMAIN b => c[k] = b[k]) /\ (k \in DOMAIN b \/ c[k] = s)
  BY SMTT(30), NewBuffer
<1> HIDE DEF c
<1>3. ASSUME NEW k \in DOMAIN c PROVE \E i : Latest(c, i, c[k].to, c[k].at)
  <2> DEFINE to == c[k].to
             at == c[k].at
  <2>1. c[k] = s => To(s, to, at)
    BY DEF To
  <2>2. k \in DOMAIN b => \E i : Latest(b, i, to, at)
    BY <1>2 DEF Settled
  <2> HIDE DEF to, at
  <2>3. \E i : Latest(c, i, to, at)
    BY <1>1, <1>2, <2>1, <2>2
  <2> QED BY <2>3 DEF to, at
<1> QED BY <1>3 DEF Settled, Latest, c

\* What the oldest store leaves behind when it reaches memory.
LEMMA TailOfBuffer ==
  ASSUME NEW S, NEW b \in Seq(S), b # <<>>
  PROVE  /\ Tail(b) \in Seq(S) /\ Len(b) \in Nat \ {0} /\ Len(Tail(b)) = Len(b) - 1
         /\ DOMAIN b = 1 .. Len(b) /\ DOMAIN Tail(b) = 1 .. Len(b) - 1
         /\ Head(b) = b[1] /\ b[1] \in S
         /\ \A i \in DOMAIN Tail(b) : Tail(b)[i] = b[i + 1]
         /\ (Tail(b) = <<>> <=> Len(b) = 1)
<1>1. /\ Tail(b) \in Seq(S) /\ Len(b) \in Nat \ {0} /\ Len(Tail(b)) = Len(b) - 1
      /\ DOMAIN b = 1 .. Len(b) /\ DOMAIN Tail(b) = 1 .. Len(b) - 1
      /\ Head(b) = b[1] /\ b[1] \in S
      /\ \A i \in DOMAIN Tail(b) : Tail(b)[i] = b[i + 1]
  BY SMTT(30)
<1> DEFINE c == Tail(b)
             n == Len(b)
<1>2. c \in Seq(S) /\ n \in Nat /\ Len(c) = n - 1
  BY <1>1
<1> HIDE DEF c, n
<1>3. c = <<>> <=> Len(c) = 0
  <2>1. c \in Seq(S)
    BY <1>2
  <2> QED BY SMTT(30), <2>1
<1>4. n - 1 = 0 <=> n = 1
  BY SMTT(30), <1>2
<1> QED BY <1>1, <1>2, <1>3, <1>4 DEF c, n

\* When the oldest store has gone, the last of the others are where they were.
LEMMA LatestTail ==
  ASSUME NEW S, NEW b \in Seq(S), b # <<>>, NEW to, NEW at
  PROVE  /\ \A i \in DOMAIN Tail(b) : i + 1 \in DOMAIN b /\ i + 1 # 1 /\ Tail(b)[i] = b[i + 1]
         /\ \A i \in DOMAIN Tail(b) : Latest(Tail(b), i, to, at) => Latest(b, i + 1, to, at)
         /\ \A i \in DOMAIN b : Latest(b, i, to, at) /\ i # 1 =>
              i - 1 \in DOMAIN Tail(b) /\ Latest(Tail(b), i - 1, to, at)
<1> DEFINE c == Tail(b)
<1>1. /\ Len(b) \in Nat \ {0} /\ DOMAIN b = 1 .. Len(b) /\ DOMAIN c = 1 .. Len(b) - 1
      /\ \A i \in DOMAIN c : c[i] = b[i + 1]
  BY TailOfBuffer
<1> HIDE DEF c
<1>2. /\ \A i \in DOMAIN c : i + 1 \in DOMAIN b /\ i + 1 # 1 /\ i \in Int /\ i >= 1
      /\ \A i \in DOMAIN b : i \in Int /\ (i # 1 => i - 1 \in DOMAIN c /\ c[i - 1] = b[i])
  BY SMTT(30), <1>1
<1>3. ASSUME NEW i \in DOMAIN c, Latest(c, i, to, at) PROVE Latest(b, i + 1, to, at)
  <2>1. i + 1 \in DOMAIN b /\ c[i] = b[i + 1]
    BY <1>1, <1>2
  <2>2. ASSUME NEW j \in DOMAIN b, To(b[j], to, at) PROVE j <= i + 1
    <3>1. j = 1 \/ j - 1 <= i
      BY <1>2, <1>3, <2>2 DEF Latest
    <3>2. i \in Int /\ i >= 1 /\ j \in Int
      BY <1>2
    <3> QED BY SMTT(30), <3>1, <3>2
  <2> QED BY <1>3, <2>1, <2>2 DEF Latest
<1>4. ASSUME NEW i \in DOMAIN b, Latest(b, i, to, at), i # 1
      PROVE  i - 1 \in DOMAIN c /\ Latest(c, i - 1, to, at)
  <2>1. i - 1 \in DOMAIN c /\ c[i - 1] = b[i]
    BY <1>2, <1>4
  <2>2. ASSUME NEW j \in DOMAIN c, To(c[j], to, at) PROVE j <= i - 1
    <3>1. j + 1 <= i
      BY <1>1, <1>2, <1>4, <2>2 DEF Latest
    <3>2. i \in Int /\ j \in Int
      BY <1>2
    <3> QED BY SMTT(30), <3>1, <3>2
  <2> QED BY <1>4, <2>1, <2>2 DEF Latest
<1> QED BY <1>1, <1>2, <1>3, <1>4 DEF c

\* A store that reaches memory changes nothing for its thread.
LEMMA SeenDrain ==
  ASSUME NEW S, NEW b \in Seq(S), b # <<>>, Settled(b), NEW to, NEW at, NEW memory
  PROVE  Seen(Tail(b), to, at, IF To(Head(b), to, at) THEN Head(b).val ELSE memory) =
           Seen(b, to, at, memory)
<1> DEFINE c == Tail(b)
           m == IF To(Head(b), to, at) THEN Head(b).val ELSE memory
<1>1. c \in Seq(S) /\ Head(b) = b[1] /\ 1 \in DOMAIN b
  <2>1. c \in Seq(S) /\ Head(b) = b[1] /\ Len(b) \in Nat \ {0} /\ DOMAIN b = 1 .. Len(b)
    BY TailOfBuffer
  <2> QED BY SMTT(30), <2>1
<1>2. /\ \A i \in DOMAIN c : c[i] = b[i + 1]
      /\ \A i \in DOMAIN c : Latest(c, i, to, at) => Latest(b, i + 1, to, at)
      /\ \A i \in DOMAIN b : Latest(b, i, to, at) /\ i # 1 =>
           i - 1 \in DOMAIN c /\ Latest(c, i - 1, to, at)
  BY LatestTail
<1> HIDE DEF c
<1>3. ASSUME \A i \in DOMAIN c : ~Latest(c, i, to, at)
      PROVE  Seen(c, to, at, m) = Seen(b, to, at, memory)
  <2>1. \A i \in DOMAIN b : Latest(b, i, to, at) => i = 1
    BY <1>2, <1>3
  <2>2. Seen(c, to, at, m) = m
    BY <1>3, SeenMemory
  <2>3. CASE To(b[1], to, at)
    <3>1. Latest(b, 1, to, at)
      BY <1>1, <2>1, <2>3 DEF Settled, To
    <3>2. Seen(b, to, at, memory) = b[1].val
      BY SMTT(30), <3>1, SeenLatest
    <3> QED BY <1>1, <2>2, <2>3, <3>2
  <2>4. CASE ~To(b[1], to, at)
    <3>1. \A i \in DOMAIN b : ~Latest(b, i, to, at)
      BY <2>1, <2>4 DEF Latest
    <3>2. Seen(b, to, at, memory) = memory
      BY <3>1, SeenMemory
    <3> QED BY <1>1, <2>2, <2>4, <3>2
  <2> QED BY <2>3, <2>4
<1>4. ASSUME NEW i \in DOMAIN c, Latest(c, i, to, at)
      PROVE  Seen(c, to, at, m) = Seen(b, to, at, memory)
  <2>1. Latest(b, i + 1, to, at) /\ c[i] = b[i + 1]
    BY <1>2, <1>4
  <2>2. Seen(b, to, at, memory) = b[i + 1].val
    BY SMTT(30), <2>1, SeenLatest
  <2>3. Seen(c, to, at, m) = c[i].val
    BY SMTT(30), <1>1, <1>4, SeenLatest
  <2> QED BY <2>1, <2>2, <2>3
<1>5. Seen(c, to, at, m) = Seen(b, to, at, memory)
  BY <1>3, <1>4
<1> QED BY <1>5 DEF c

\* A store that reaches memory keeps a buffer settled.
LEMMA SettledTail ==
  ASSUME NEW S, NEW b \in Seq(S), b # <<>>, Settled(b)
  PROVE  Settled(Tail(b))
<1> DEFINE c == Tail(b)
<1>1. Len(b) \in Nat \ {0} /\ DOMAIN b = 1 .. Len(b) /\ DOMAIN c = 1 .. Len(b) - 1
  BY TailOfBuffer
<1>2. ASSUME NEW k \in DOMAIN c PROVE \E i \in DOMAIN c : Latest(c, i, c[k].to, c[k].at)
  <2>1. k + 1 \in DOMAIN b /\ c[k] = b[k + 1]
    BY LatestTail
  <2>2. PICK i \in DOMAIN b : Latest(b, i, c[k].to, c[k].at)
    BY <2>1 DEF Settled
  <2>3. k + 1 <= i
    BY <2>1, <2>2 DEF Latest, To
  <2>4. i # 1
    <3> HIDE DEF c
    <3>1. k \in Int /\ k >= 1 /\ i \in Int
      BY SMTT(30), <1>1
    <3> QED BY SMTT(30), <2>3, <3>1
  <2>5. i - 1 \in DOMAIN c /\ Latest(c, i - 1, c[k].to, c[k].at)
    BY <2>2, <2>4, LatestTail
  <2> QED BY <2>5
<1> QED BY <1>2 DEF Settled

-----------------------------------------------------------------------------
(* The stores of a queue's owner, in the order of the queue.               *)

Stores == [to : {"bottom"}, at : {0}, val : Index]
     \cup [to : {"age"}, at : {0}, val : Ages]
     \cup [to : {"elem"}, at : Index, val : Tasks]

\* The index that a store to the bottom or to an element is about.
Key(s) == IF s.to = "elem" THEN s.at ELSE s.val

\* The bottom in memory is not above that of any pending store, and a pending
\* bottom is not above a later store, with c tasks from the top on: thieves
\* that read a bottom find every element below it in memory.
Ordered(b, bf, n, top, c) ==
  /\ dirty_size(b, top) <= c
  /\ \A i \in 1 .. n : bf[i].to # "age" =>
       /\ dirty_size(b, top) <= dirty_size(Key(bf[i]), top)
       /\ dirty_size(Key(bf[i]), top) <= c
  /\ \A i, j \in 1 .. n : i < j /\ bf[i].to = "bottom" /\ bf[j].to # "age" =>
       dirty_size(Key(bf[i]), top) <= dirty_size(Key(bf[j]), top)

\* The fields of a store, by the location it goes to.
LEMMA StoreFacts ==
  ASSUME NEW s \in Stores
  PROVE  /\ s.to \in {"bottom", "age", "elem"}
         /\ s.to = "bottom" => s.at = 0 /\ s.val \in Index /\ Key(s) = s.val
         /\ s.to = "age" => s.at = 0 /\ s.val \in Ages
         /\ s.to = "elem" => s.at \in Index /\ s.val \in Tasks /\ Key(s) = s.at
         /\ s.to # "age" => Key(s) \in Index
BY SMTT(30) DEF Stores, Key

\* The stores that the queue makes are stores.
LEMMA NewStores ==
  /\ \A i \in Index : Bottom(i) \in Stores /\ Bottom(i).to = "bottom" /\ Key(Bottom(i)) = i
  /\ \A a \in Ages : AgeStore(a) \in Stores
  /\ \A i \in Index, t \in Tasks :
       Elem(i, t) \in Stores /\ Elem(i, t).to = "elem" /\ Key(Elem(i, t)) = i
BY SMTT(30) DEF Stores, Bottom, AgeStore, Elem, Key

\* A store at or above the tasks counted so far keeps the buffer ordered.
LEMMA OrderedAppend ==
  ASSUME NEW b \in Index, NEW bf \in Seq(Stores), NEW top \in Index,
         NEW c \in Nat, NEW d \in Nat, NEW s \in Stores, s.to # "age",
         Ordered(b, bf, Len(bf), top, c),
         c <= dirty_size(Key(s), top), dirty_size(Key(s), top) <= d
  PROVE  Ordered(b, Append(bf, s), Len(bf) + 1, top, d)
<1> DEFINE bg == Append(bf, s)
           D(i) == dirty_size(i, top)
<1>1. /\ Len(bf) \in Nat /\ bg[Len(bf) + 1] = s
      /\ \A i \in 1 .. Len(bf) : bg[i] = bf[i] /\ bf[i] \in Stores
  BY SMTT(30)
<1> HIDE DEF bg
<1>2. \A i \in Index : D(i) \in Nat
  BY DistanceNat
<1>3. \A i \in 1 .. Len(bf) + 1 : i \in 1 .. Len(bf) \/ i = Len(bf) + 1
  BY SMTT(30), <1>1
<1>4. D(b) \in Nat /\ D(Key(s)) \in Nat
  BY <1>2, StoreFacts
<1> HIDE DEF D
<1>5. /\ D(b) <= c /\ c <= D(Key(s)) /\ D(Key(s)) <= d
      /\ \A i \in 1 .. Len(bf) : bf[i].to # "age" => D(b) <= D(Key(bf[i])) /\ D(Key(bf[i])) <= c
      /\ \A i, j \in 1 .. Len(bf) : i < j /\ bf[i].to = "bottom" /\ bf[j].to # "age" =>
           D(Key(bf[i])) <= D(Key(bf[j]))
  BY DEF Ordered, D
<1>6. D(b) <= d /\ D(b) <= D(Key(s)) /\ c <= d
  BY SMTT(30), <1>4, <1>5
<1>7. ASSUME NEW i \in 1 .. Len(bf) + 1, bg[i].to # "age"
      PROVE  D(b) <= D(Key(bg[i])) /\ D(Key(bg[i])) <= d
  <2>1. CASE i = Len(bf) + 1
    BY <1>1, <1>5, <1>6, <2>1
  <2>2. CASE i \in 1 .. Len(bf)
    <3>1. bg[i] = bf[i] /\ bf[i] \in Stores
      BY <1>1, <2>2
    <3>2. D(Key(bf[i])) \in Nat
      BY <1>2, <1>7, <3>1, StoreFacts
    <3>3. D(b) <= D(Key(bf[i])) /\ D(Key(bf[i])) <= c
      BY <1>5, <1>7, <2>2, <3>1
    <3>4. D(Key(bf[i])) <= d
      BY SMTT(30), <1>6, <3>2, <3>3
    <3> QED BY <3>1, <3>3, <3>4
  <2> QED BY <1>3, <2>1, <2>2
<1>8. ASSUME NEW i \in 1 .. Len(bf) + 1, NEW j \in 1 .. Len(bf) + 1, i < j,
             bg[i].to = "bottom", bg[j].to # "age"
      PROVE  D(Key(bg[i])) <= D(Key(bg[j]))
  <2>1. i \in 1 .. Len(bf)
    BY SMTT(30), <1>1, <1>8
  <2>2. bg[i] = bf[i] /\ bf[i] \in Stores /\ bf[i].to # "age"
    BY <1>1, <1>8, <2>1
  <2>3. D(Key(bf[i])) \in Nat /\ D(Key(bf[i])) <= c
    BY <1>2, <1>5, <2>1, <2>2, StoreFacts
  <2>4. CASE j = Len(bf) + 1
    <3>1. D(Key(bf[i])) <= D(Key(s))
      BY SMTT(30), <1>4, <1>5, <2>3
    <3> QED BY <1>1, <2>2, <2>4, <3>1
  <2>5. CASE j \in 1 .. Len(bf)
    BY <1>1, <1>5, <1>8, <2>1, <2>5
  <2> QED BY <1>3, <2>4, <2>5
<1> QED BY <1>6, <1>7, <1>8 DEF Ordered, D, bg

\* The store of a pop is not among the ordered ones.
LEMMA OrderedPrefix ==
  ASSUME NEW b, NEW bf \in Seq(Stores), NEW top, NEW c, NEW s \in Stores,
         Ordered(b, bf, Len(bf), top, c)
  PROVE  Ordered(b, Append(bf, s), Len(bf), top, c)
<1>1. \A i \in 1 .. Len(bf) : Append(bf, s)[i] = bf[i]
  BY SMTT(30)
<1> QED BY <1>1 DEF Ordered

\* A store that reaches memory keeps the buffer ordered, and bottom in memory does not go down.
LEMMA OrderedDrain ==
  ASSUME NEW b \in Index, NEW bf \in Seq(Stores), NEW top \in Index, NEW c \in Nat,
         NEW n \in 1 .. Len(bf), Ordered(b, bf, n, top, c),
         NEW d, d = IF bf[1].to = "bottom" THEN bf[1].val ELSE b
  PROVE  /\ d \in Index /\ dirty_size(b, top) <= dirty_size(d, top)
         /\ Ordered(d, Tail(bf), n - 1, top, c)
<1> DEFINE bg == Tail(bf)
           D(i) == dirty_size(i, top)
<1>1. /\ n \in Nat /\ 1 \in 1 .. n /\ \A i \in 1 .. n : bf[i] \in Stores
      /\ \A i \in 1 .. n - 1 : i + 1 \in 1 .. n /\ 1 < i + 1 /\ bg[i] = bf[i + 1]
      /\ \A i, j \in 1 .. n - 1 : i < j => i + 1 < j + 1
  BY SMTT(30)
<1> HIDE DEF bg
<1>2. \A i \in Index : D(i) \in Nat
  BY DistanceNat
<1> HIDE DEF D
<1>3. /\ D(b) <= c
      /\ \A i \in 1 .. n : bf[i].to # "age" => D(b) <= D(Key(bf[i])) /\ D(Key(bf[i])) <= c
      /\ \A i, j \in 1 .. n : i < j /\ bf[i].to = "bottom" /\ bf[j].to # "age" =>
           D(Key(bf[i])) <= D(Key(bf[j]))
  BY DEF Ordered, D
<1>4. d \in Index /\ D(b) <= D(d) /\ D(d) <= c
  <2>1. CASE bf[1].to = "bottom"
    <3>1. d \in Index /\ d = Key(bf[1]) /\ bf[1].to # "age"
      BY <1>1, <2>1, StoreFacts
    <3> QED BY <1>1, <1>3, <3>1
  <2>2. CASE bf[1].to # "bottom"
    <3>1. d = b
      BY <2>2
    <3>2. D(b) \in Nat
      BY <1>2
    <3>3. D(b) <= D(b)
      BY SMTT(30), <3>2
    <3> QED BY <1>3, <3>1, <3>3
  <2> QED BY <2>1, <2>2
<1>5. ASSUME NEW i \in 1 .. n - 1, bg[i].to # "age"
      PROVE  D(d) <= D(Key(bg[i])) /\ D(Key(bg[i])) <= c
  <2>1. i + 1 \in 1 .. n /\ 1 < i + 1 /\ bg[i] = bf[i + 1]
    BY <1>1
  <2>2. CASE bf[1].to = "bottom"
    <3>1. d = Key(bf[1])
      BY <1>1, <2>2, StoreFacts
    <3> QED BY <1>1, <1>3, <1>5, <2>1, <2>2, <3>1
  <2>3. CASE bf[1].to # "bottom"
    <3>1. d = b
      BY <2>3
    <3> QED BY <1>3, <1>5, <2>1, <3>1
  <2> QED BY <2>2, <2>3
<1>6. ASSUME NEW i \in 1 .. n - 1, NEW j \in 1 .. n - 1, i < j,
             bg[i].to = "bottom", bg[j].to # "age"
      PROVE  D(Key(bg[i])) <= D(Key(bg[j]))
  <2>1. i + 1 \in 1 .. n /\ j + 1 \in 1 .. n /\ i + 1 < j + 1
    BY <1>1, <1>6
  <2>2. bg[i] = bf[i + 1] /\ bg[j] = bf[j + 1]
    BY <1>1
  <2> QED BY <1>3, <1>6, <2>1, <2>2
<1> QED BY <1>4, <1>5, <1>6 DEF Ordered, D, bg

\* A thief takes the task at the top.
LEMMA OrderedSteal ==
  ASSUME NEW b \in Index, NEW bf \in Seq(Stores), NEW top \in Index, NEW c \in Nat,
         NEW n \in Int, n <= Len(bf), Ordered(b, bf, n, top, c), dirty_size(b, top) >= 1
  PROVE  Ordered(b, bf, n, increment_index(top), c - 1)
<1> DEFINE D(i) == dirty_size(i, top)
           E(i) == dirty_size(i, increment_index(top))
<1>1. \A i \in 1 .. n : bf[i] \in Stores
  BY SMTT(30)
<1>2. \A i \in Index : D(i) \in Nat
  BY DistanceNat
<1>3. ASSUME NEW i \in Index, D(i) >= 1 PROVE E(i) = D(i) - 1
  <2>1. D(i) # 0
    BY SMTT(30), <1>3
  <2>2. i # top
    BY <2>1, DistanceOrder
  <2> QED BY <2>2, DistanceTop
<1>4. D(b) >= 1
  OBVIOUS
<1> HIDE DEF D, E
<1>5. /\ D(b) <= c
      /\ \A i \in 1 .. n : bf[i].to # "age" => D(b) <= D(Key(bf[i])) /\ D(Key(bf[i])) <= c
      /\ \A i, j \in 1 .. n : i < j /\ bf[i].to = "bottom" /\ bf[j].to # "age" =>
           D(Key(bf[i])) <= D(Key(bf[j]))
  BY DEF Ordered, D
<1>6. E(b) = D(b) - 1 /\ D(b) \in Nat /\ E(b) <= c - 1
  <2>1. E(b) = D(b) - 1 /\ D(b) \in Nat
    BY <1>2, <1>3, <1>4
  <2> QED BY SMTT(30), <1>5, <2>1
<1>7. ASSUME NEW i \in 1 .. n, bf[i].to # "age"
      PROVE  /\ D(Key(bf[i])) \in Nat /\ E(Key(bf[i])) = D(Key(bf[i])) - 1
             /\ E(b) <= E(Key(bf[i])) /\ E(Key(bf[i])) <= c - 1
  <2>1. Key(bf[i]) \in Index
    BY <1>1, <1>7, StoreFacts
  <2>2. D(Key(bf[i])) \in Nat /\ D(b) <= D(Key(bf[i])) /\ D(Key(bf[i])) <= c
    BY <1>2, <1>5, <1>7, <2>1
  <2>3. D(Key(bf[i])) >= 1
    BY SMTT(30), <1>4, <1>6, <2>2
  <2>4. E(Key(bf[i])) = D(Key(bf[i])) - 1
    BY <1>3, <2>1, <2>3
  <2> QED BY SMTT(30), <1>6, <2>2, <2>4
<1>8. ASSUME NEW i \in 1 .. n, NEW j \in 1 .. n, i < j,
             bf[i].to = "bottom", bf[j].to # "age"
      PROVE  E(Key(bf[i])) <= E(Key(bf[j]))
  <2>1. D(Key(bf[i])) <= D(Key(bf[j])) /\ bf[i].to # "age"
    BY <1>5, <1>8
  <2>2. /\ D(Key(bf[i])) \in Nat /\ E(Key(bf[i])) = D(Key(bf[i])) - 1
        /\ D(Key(bf[j])) \in Nat /\ E(Key(bf[j])) = D(Key(bf[j])) - 1
    BY <1>7, <1>8, <2>1
  <2> QED BY SMTT(30), <2>1, <2>2
<1> QED BY <1>6, <1>7, <1>8 DEF Ordered, E

-----------------------------------------------------------------------------
(* One queue with the locals of its owner, as a record q: what the owner   *)
(* sees of it, and its invariant.                                          *)

QueueType(q) ==
  /\ q.bottom \in Index /\ q.age \in Ages /\ q.buf \in Seq(Stores)
  /\ q.localBot \in Index /\ q.oldAge \in Ages
  /\ q.found \in Nat /\ 2 * q.found < TagValues

BottomOf(q) == Seen(q.buf, "bottom", 0, q.bottom)
AgeOf(q) == Seen(q.buf, "age", 0, q.age)
ElemOf(q, i) == Seen(q.buf, "elem", i, q.elems[i])

Top(q) == AgeOf(q).top
End(q) == IF q.pc \in PopPcs THEN increment_index(q.localBot) ELSE BottomOf(q)
Count(q) == dirty_size(End(q), Top(q))

\* In the end of a pop the bottom in memory is the one it has lowered.
Exposed(q) == q.pc \notin PopPcs \/ q.buf # <<>>

\* The pending stores but the one of a pop.
Committed(q) == IF q.pc = "fence" THEN Len(q.buf) - 1 ELSE Len(q.buf)

\* The queue never holds more than max_elems tasks, and its tag has been
\* counted at most twice for every task that has left it.
SizeInv(q) ==
  /\ Count(q) <= N - 2
  /\ AgeOf(q).tag + 2 * Count(q) <= 2 * q.found

OrderInv(q) == Exposed(q) => Ordered(q.bottom, q.buf, Committed(q), Top(q), Count(q))

ElemInv(q) == \A i \in Index : dirty_size(i, Top(q)) < Count(q) => ElemOf(q, i) \in Tasks

\* An age waits only behind a pop that lost its task: it is the oldest store,
\* it comes after the age in memory, and until it arrives thieves find the
\* bottom below the top.
AgeInv(q) ==
  \A i \in DOMAIN q.buf : q.buf[i].to = "age" =>
    /\ i = 1 /\ Before(q.age, q.buf[i].val)
    /\ q.bottom = q.buf[i].val.top /\ q.age.top = increment_index(q.bottom)

AgeInMemory(q) == \A i \in DOMAIN q.buf : q.buf[i].to # "age"

\* A pop between its store to the bottom and its end.
PopInv(q) ==
  /\ q.pc \in PopPcs => /\ BottomOf(q) = q.localBot
                        /\ Count(q) = 0 => AgeOf(q).tag + 1 <= 2 * q.found
  /\ q.pc = "fence" /\ q.buf # <<>> => q.buf[Len(q.buf)] = Bottom(q.localBot)
  /\ q.pc \in {"slow", "cas"} => q.buf = <<>> /\ Count(q) <= 1
  /\ q.pc = "cas" => /\ q.oldAge.top = q.localBot /\ q.oldAge.tag + 1 <= 2 * q.found
                     /\ q.age = IF Count(q) = 1 THEN q.oldAge ELSE Increment(q.oldAge)

QueueInv(q) ==
  /\ QueueType(q) /\ Settled(q.buf)
  /\ SizeInv(q) /\ OrderInv(q) /\ ElemInv(q) /\ AgeInv(q) /\ PopInv(q)

\* What a thief can rely on that has found the queue not empty, for as long
\* as the age is the one it read.
Live(q) ==
  /\ AgeInMemory(q) /\ Count(q) >= 1
  /\ Exposed(q) => dirty_size(q.bottom, Top(q)) >= 1

\* What a step from q to r owes to the queue and to its thieves.
Kept(q, r) ==
  /\ QueueInv(r)
  /\ r.age = q.age \/ Before(q.age, r.age)
  /\ r.age = q.age /\ Live(q) =>
       Live(r) /\ Top(r) = Top(q) /\ ElemOf(r, Top(r)) = ElemOf(q, Top(q))

\* What the owner sees of its queue has the right types.
LEMMA ViewFacts ==
  ASSUME NEW q, QueueType(q)
  PROVE  /\ BottomOf(q) \in Index /\ AgeOf(q) \in Ages /\ Top(q) \in Index
         /\ AgeOf(q).tag \in Nat /\ AgeOf(q).tag < TagValues
         /\ End(q) \in Index /\ Count(q) \in Nat /\ Count(q) <= N - 1
<1>1. q.buf \in Seq(Stores) /\ q.bottom \in Index /\ q.age \in Ages /\ q.localBot \in Index
  BY DEF QueueType
<1>2. \A i \in DOMAIN q.buf : q.buf[i] \in Stores
  BY SMTT(30), <1>1
<1>3. ASSUME NEW to, NEW memory PROVE
        \/ Seen(q.buf, to, 0, memory) = memory
        \/ \E i \in DOMAIN q.buf : q.buf[i].to = to /\ Seen(q.buf, to, 0, memory) = q.buf[i].val
  <2>1. ASSUME NEW i \in DOMAIN q.buf, Latest(q.buf, i, to, 0)
        PROVE  q.buf[i].to = to /\ Seen(q.buf, to, 0, memory) = q.buf[i].val
    <3>1. q.buf[i].to = to
      BY <2>1 DEF Latest, To
    <3>2. Seen(q.buf, to, 0, memory) = q.buf[i].val
      BY SMTT(30), <1>1, <2>1, SeenLatest
    <3> QED BY <3>1, <3>2
  <2> QED BY <2>1, SeenMemory
<1>4. BottomOf(q) \in Index
  <2>1. \/ BottomOf(q) = q.bottom
        \/ \E i \in DOMAIN q.buf : q.buf[i].to = "bottom" /\ BottomOf(q) = q.buf[i].val
    BY SMTT(30), <1>3 DEF BottomOf
  <2>2. \A i \in DOMAIN q.buf : q.buf[i].to = "bottom" => q.buf[i].val \in Index
    BY <1>2, StoreFacts
  <2> QED BY <1>1, <2>1, <2>2
<1>5. AgeOf(q) \in Ages
  <2>1. \/ AgeOf(q) = q.age
        \/ \E i \in DOMAIN q.buf : q.buf[i].to = "age" /\ AgeOf(q) = q.buf[i].val
    BY SMTT(30), <1>3 DEF AgeOf
  <2>2. \A i \in DOMAIN q.buf : q.buf[i].to = "age" => q.buf[i].val \in Ages
    BY <1>2, StoreFacts
  <2> QED BY <1>1, <2>1, <2>2
<1>6. Top(q) \in Index /\ AgeOf(q).tag \in 0 .. TagValues - 1
  BY <1>5 DEF Ages, Top
<1>7. AgeOf(q).tag \in Nat /\ AgeOf(q).tag < TagValues
  BY SMTT(30), <1>6, NAssumption
<1>8. End(q) \in Index
  BY <1>1, <1>4, IncrementFacts DEF End
<1> QED BY <1>4, <1>5, <1>6, <1>7, <1>8, DistanceNat DEF Count

\* The owner sees memory when nothing of it is pending.
LEMMA MemoryView ==
  ASSUME NEW q
  PROVE  /\ AgeInMemory(q) => AgeOf(q) = q.age
         /\ q.buf = <<>> => /\ AgeInMemory(q) /\ BottomOf(q) = q.bottom
                           /\ \A i \in Index : ElemOf(q, i) = q.elems[i]
<1>1. ASSUME AgeInMemory(q) PROVE AgeOf(q) = q.age
  <2>1. \A i \in DOMAIN q.buf : ~Latest(q.buf, i, "age", 0)
    BY <1>1 DEF AgeInMemory, Latest, To
  <2> QED BY <2>1, SeenMemory DEF AgeOf
<1>2. ASSUME q.buf = <<>>
      PROVE  /\ AgeInMemory(q) /\ BottomOf(q) = q.bottom
             /\ \A i \in Index : ElemOf(q, i) = q.elems[i]
  <2>1. DOMAIN q.buf = {}
    BY SMTT(30), <1>2
  <2>2. \A to, at, memory : Seen(q.buf, to, at, memory) = memory
    BY <2>1 DEF Seen
  <2> QED BY <2>1, <2>2 DEF AgeInMemory, BottomOf, ElemOf
<1> QED BY <1>1, <1>2

\* Steps outside of the pops that leave the queue alone.
LEMMA KeptOutside ==
  ASSUME NEW q, NEW r, QueueInv(q), QueueType(r),
         r.bottom = q.bottom, r.age = q.age, r.elems = q.elems, r.buf = q.buf,
         q.pc \notin PopPcs, r.pc \notin PopPcs, q.found <= r.found
  PROVE  /\ Kept(q, r) /\ Top(r) = Top(q) /\ Count(r) = Count(q)
         /\ \A i \in Index : ElemOf(r, i) = ElemOf(q, i)
<1>1. /\ BottomOf(r) = BottomOf(q) /\ AgeOf(r) = AgeOf(q)
      /\ \A i : ElemOf(r, i) = ElemOf(q, i)
  BY DEF BottomOf, AgeOf, ElemOf
<1>2. Top(r) = Top(q) /\ End(r) = End(q)
  BY <1>1 DEF Top, End
<1>3. Count(r) = Count(q)
  BY <1>2 DEF Count
<1>4. Exposed(r) /\ Exposed(q) /\ Committed(r) = Committed(q)
  BY DEF Exposed, Committed, PopPcs
<1>5. SizeInv(r)
  <2>1. /\ AgeOf(q).tag \in Nat /\ Count(q) \in Nat /\ q.found \in Nat /\ r.found \in Nat
        /\ SizeInv(q) /\ q.found <= r.found
    BY ViewFacts DEF QueueInv, QueueType
  <2>2. AgeOf(q).tag + 2 * Count(q) <= 2 * r.found /\ Count(q) <= N - 2
    BY SMTT(30), <2>1 DEF SizeInv
  <2> QED BY <1>1, <1>3, <2>2 DEF SizeInv
<1>6. OrderInv(r)
  BY <1>2, <1>3, <1>4 DEF QueueInv, OrderInv
<1>7. ElemInv(r) /\ AgeInv(r)
  BY <1>1, <1>2, <1>3 DEF QueueInv, ElemInv, AgeInv
<1>8. PopInv(r)
  BY DEF PopInv, PopPcs
<1>9. QueueInv(r)
  BY <1>5, <1>6, <1>7, <1>8 DEF QueueInv
<1>10. Live(q) => Live(r)
  BY <1>2, <1>3, <1>4 DEF Live, AgeInMemory
<1> QED BY <1>1, <1>2, <1>3, <1>9, <1>10 DEF Kept

\* What a push and a steal do to the numbers in SizeInv.
LEMMA PushCounts ==
  ASSUME NEW c \in Nat, NEW tag \in Nat, NEW f \in Nat, c < N - 2, tag + 2 * c <= 2 * f
  PROVE  c + 1 <= N - 2 /\ tag + 2 * (c + 1) <= 2 * (f + 1)
BY SMTT(30), NAssumption

\* A task less, and at most one tag more.
LEMMA StealCounts ==
  ASSUME NEW c \in Nat, NEW tag \in Nat, NEW new, NEW f \in Nat, new = tag \/ new = tag + 1,
         c >= 1, c <= N - 2, tag + 2 * c <= 2 * f
  PROVE  /\ c - 1 \in Nat /\ new \in Nat /\ new + 1 <= tag + 2
         /\ new + 2 * (c - 1) <= 2 * f /\ c - 1 <= N - 2
BY SMTT(30), NAssumption

\* push: an element, then the bottom above it.
LEMMA KeptPush ==
  ASSUME NEW q, NEW r, QueueInv(q), NEW t \in Tasks,
         q.pc = "work", r.pc = "work", Count(q) < N - 2,
         r.bottom = q.bottom, r.age = q.age, r.elems = q.elems,
         r.buf = Append(Append(q.buf, Elem(BottomOf(q), t)), Bottom(increment_index(BottomOf(q)))),
         r.localBot = q.localBot, r.oldAge = q.oldAge,
         r.found = q.found + 1, 2 * r.found < TagValues
  PROVE  /\ Kept(q, r) /\ Top(r) = Top(q) /\ Count(r) = Count(q) + 1
         /\ \A i \in Index : ElemOf(r, i) = IF i = BottomOf(q) THEN t ELSE ElemOf(q, i)
<1> DEFINE bot == BottomOf(q)
           up == increment_index(bot)
           e == Elem(bot, t)
           b == Bottom(up)
           one == Append(q.buf, e)
<1>1. /\ QueueType(q) /\ q.buf \in Seq(Stores) /\ q.bottom \in Index
      /\ q.found \in Nat
  BY DEF QueueInv, QueueType
<1>2. /\ bot \in Index /\ Top(q) \in Index /\ Count(q) \in Nat /\ AgeOf(q).tag \in Nat
      /\ up \in Index
  BY <1>1, ViewFacts, IncrementFacts
<1>3. q.pc \notin PopPcs /\ r.pc \notin PopPcs /\ q.pc # "fence" /\ r.pc # "fence"
  BY DEF PopPcs
<1>4. /\ e \in Stores /\ e.to = "elem" /\ Key(e) = bot /\ e.at = bot /\ e.val = t
      /\ b \in Stores /\ b.to = "bottom" /\ Key(b) = up /\ b.at = 0 /\ b.val = up
  BY SMTT(30), <1>2, NewStores DEF Elem, Bottom
<1> HIDE DEF e, b
<1>5. /\ one \in Seq(Stores) /\ Len(one) = Len(q.buf) + 1
      /\ r.buf = Append(one, b) /\ r.buf \in Seq(Stores) /\ Len(r.buf) = Len(q.buf) + 2
      /\ Len(q.buf) + 1 + 1 = Len(q.buf) + 2
      /\ Len(q.buf) \in Nat /\ r.buf # <<>>
      /\ r.buf[Len(q.buf) + 1] = e /\ r.buf[Len(q.buf) + 2] = b
      /\ \A i \in 1 .. Len(q.buf) : r.buf[i] = q.buf[i]
      /\ DOMAIN r.buf = 1 .. Len(q.buf) + 2 /\ DOMAIN q.buf = 1 .. Len(q.buf)
  <2>1. r.buf = Append(one, b)
    BY DEF e, b
  <2>2. /\ one \in Seq(Stores) /\ Len(one) = Len(q.buf) + 1 /\ Len(q.buf) \in Nat
        /\ DOMAIN q.buf = 1 .. Len(q.buf) /\ one[Len(q.buf) + 1] = e
        /\ \A i \in 1 .. Len(q.buf) : one[i] = q.buf[i]
    BY SMTT(30), <1>1, <1>4
  <2> HIDE DEF one
  <2>3. /\ r.buf \in Seq(Stores) /\ Len(r.buf) = Len(one) + 1 /\ r.buf # <<>>
        /\ DOMAIN r.buf = 1 .. Len(one) + 1
    BY SMTT(30), <1>4, <2>1, <2>2
  <2>6. r.buf[Len(one) + 1] = b /\ \A i \in 1 .. Len(one) : r.buf[i] = one[i]
    BY SMTT(30), <1>4, <2>1, <2>2
  <2>4. Len(q.buf) + 1 + 1 = Len(q.buf) + 2 /\ Len(q.buf) + 1 \in 1 .. Len(q.buf) + 1
    BY SMTT(30), <2>2
  <2>5. \A i \in 1 .. Len(q.buf) : i \in 1 .. Len(q.buf) + 1
    BY SMTT(30), <2>2
  <2> QED BY <2>1, <2>2, <2>3, <2>4, <2>5, <2>6
<1> HIDE DEF one
<1>6. \A to, at, memory :
        Seen(r.buf, to, at, memory) =
          IF to = "bottom" /\ at = 0 THEN up
          ELSE IF to = "elem" /\ at = bot THEN t ELSE Seen(q.buf, to, at, memory)
  <2> TAKE to, at, memory
  <2>1. Seen(r.buf, to, at, memory) =
          IF To(b, to, at) THEN b.val ELSE Seen(one, to, at, memory)
    BY SMTT(30), <1>4, <1>5, SeenAppend
  <2>2. Seen(one, to, at, memory) =
          IF To(e, to, at) THEN e.val ELSE Seen(q.buf, to, at, memory)
    BY SMTT(30), <1>1, <1>4, SeenAppend DEF one
  <2> QED BY <1>4, <2>1, <2>2 DEF To
<1>7. BottomOf(r) = up /\ AgeOf(r) = AgeOf(q) /\ Top(r) = Top(q)
  BY SMTT(30), <1>6 DEF BottomOf, AgeOf, Top
<1>8. \A i \in Index : ElemOf(r, i) = IF i = bot THEN t ELSE ElemOf(q, i)
  BY <1>6 DEF ElemOf
<1>9. End(r) = up /\ End(q) = bot /\ Count(q) = dirty_size(bot, Top(q))
  BY <1>3, <1>7 DEF End, Count
<1>10. Count(r) = Count(q) + 1
  <2>1. Count(r) = IF Count(q) = N - 1 THEN 0 ELSE Count(q) + 1
    BY SMTT(30), <1>2, <1>7, <1>9, DistanceNext DEF Count
  <2> QED BY SMTT(30), NAssumption, <1>2, <2>1
<1>11. SizeInv(r)
  <2>1. SizeInv(q)
    BY DEF QueueInv
  <2>2. Count(q) + 1 <= N - 2 /\ AgeOf(q).tag + 2 * (Count(q) + 1) <= 2 * (q.found + 1)
    BY <1>1, <1>2, <2>1, PushCounts DEF SizeInv
  <2> QED BY <1>7, <1>10, <2>2 DEF SizeInv
<1>12. Exposed(q) /\ Exposed(r) /\ Committed(q) = Len(q.buf) /\ Committed(r) = Len(r.buf)
  BY <1>3 DEF Exposed, Committed
<1>13. OrderInv(r)
  <2>1. Ordered(q.bottom, q.buf, Len(q.buf), Top(q), Count(q))
    BY <1>12 DEF QueueInv, OrderInv
  <2>2. Count(q) <= dirty_size(Key(e), Top(q)) /\ dirty_size(Key(e), Top(q)) <= Count(q)
    BY SMTT(30), <1>2, <1>4, <1>9
  <2>3. Ordered(q.bottom, one, Len(one), Top(q), Count(q))
    <3>1. e.to # "age"
      BY <1>4
    <3>2. Ordered(q.bottom, Append(q.buf, e), Len(q.buf) + 1, Top(q), Count(q))
      BY <1>1, <1>2, <1>4, <2>1, <2>2, <3>1, OrderedAppend
    <3> QED BY <1>5, <3>2 DEF one
  <2>4. dirty_size(Key(b), Top(q)) = Count(q) + 1
    BY <1>4, <1>7, <1>9, <1>10 DEF Count
  <2>5. /\ Count(q) + 1 \in Nat /\ Count(q) <= dirty_size(Key(b), Top(q))
        /\ dirty_size(Key(b), Top(q)) <= Count(q) + 1
    BY SMTT(30), <1>2, <2>4
  <2>6. Ordered(q.bottom, r.buf, Len(one) + 1, Top(q), Count(q) + 1)
    <3>1. b.to # "age"
      BY <1>4
    <3>2. Ordered(q.bottom, Append(one, b), Len(one) + 1, Top(q), Count(q) + 1)
      BY <1>1, <1>2, <1>4, <1>5, <2>3, <2>5, <3>1, OrderedAppend
    <3> QED BY <1>5, <3>2
  <2>7. Len(one) + 1 = Len(r.buf)
    BY SMTT(30), <1>5
  <2> QED BY <1>7, <1>10, <1>12, <2>6, <2>7 DEF OrderInv
<1>14. ElemInv(r)
  <2> SUFFICES ASSUME NEW i \in Index, dirty_size(i, Top(q)) < Count(q) + 1
               PROVE  ElemOf(r, i) \in Tasks
    BY <1>7, <1>10 DEF ElemInv
  <2>1. CASE i = bot
    BY <1>8, <2>1
  <2>2. CASE i # bot
    <3>1. dirty_size(i, Top(q)) # Count(q)
      BY SMTT(30), <1>2, <1>9, <2>2, DistanceOrder
    <3>2. dirty_size(i, Top(q)) \in Nat
      BY <1>2, DistanceNat
    <3>3. dirty_size(i, Top(q)) < Count(q)
      BY SMTT(30), <1>2, <3>1, <3>2
    <3> QED BY <1>8, <2>2, <3>3 DEF QueueInv, ElemInv
  <2> QED BY <2>1, <2>2
<1>15. \A i \in DOMAIN r.buf : r.buf[i].to = "age" => i \in DOMAIN q.buf /\ r.buf[i] = q.buf[i]
  <2>1. \A i \in DOMAIN r.buf : i \in DOMAIN q.buf \/ i = Len(q.buf) + 1 \/ i = Len(q.buf) + 2
    BY SMTT(30), <1>5
  <2> QED BY <1>4, <1>5, <2>1
<1>16. AgeInv(r)
  BY <1>15 DEF AgeInv, QueueInv
<1>17. PopInv(r)
  BY <1>3 DEF PopInv, PopPcs
<1>18. QueueType(r)
  BY <1>1, <1>5, SMTT(30) DEF QueueType
<1>19. ASSUME Live(q) PROVE Live(r) /\ ElemOf(r, Top(r)) = ElemOf(q, Top(q))
  <2>1. AgeInMemory(r)
    BY <1>15, <1>19 DEF Live, AgeInMemory
  <2>2. Count(r) >= 1 /\ Count(q) # 0
    BY SMTT(30), <1>2, <1>10, <1>19 DEF Live
  <2>3. bot # Top(q)
    BY <1>2, <1>9, <2>2, DistanceOrder
  <2> QED BY <1>2, <1>7, <1>8, <1>12, <1>19, <2>1, <2>2, <2>3 DEF Live
<1>21. Settled(r.buf)
  <2>1. Settled(one)
    BY SMTT(30), <1>1, <1>4, SettledAppend DEF one, QueueInv
  <2> QED BY SMTT(30), <1>4, <1>5, <2>1, SettledAppend
<1>20. QueueInv(r)
  BY <1>11, <1>13, <1>14, <1>16, <1>17, <1>18, <1>21 DEF QueueInv
<1> QED BY <1>7, <1>8, <1>10, <1>19, <1>20 DEF Kept

\* pop_local lowers the bottom.
LEMMA KeptPop ==
  ASSUME NEW q, NEW r, QueueInv(q), q.pc = "local", r.pc = "fence", Count(q) # 0,
         r.bottom = q.bottom, r.age = q.age, r.elems = q.elems,
         r.localBot = decrement_index(BottomOf(q)),
         r.buf = Append(q.buf, Bottom(r.localBot)),
         r.oldAge = q.oldAge, r.found = q.found
  PROVE  /\ Kept(q, r) /\ Top(r) = Top(q) /\ Count(r) = Count(q)
         /\ \A i \in Index : ElemOf(r, i) = ElemOf(q, i)
<1> DEFINE b == Bottom(r.localBot)
<1>1. /\ QueueType(q) /\ q.buf \in Seq(Stores) /\ BottomOf(q) \in Index
      /\ Count(q) \in Nat
  BY ViewFacts DEF QueueInv, QueueType
<1>2. r.localBot \in Index /\ increment_index(r.localBot) = BottomOf(q)
  BY <1>1, DecrementFacts
<1>3. b \in Stores /\ b.to = "bottom" /\ b.at = 0 /\ b.val = r.localBot
  BY SMTT(30), <1>2, NewStores DEF Bottom
<1> HIDE DEF b
<1>4. /\ r.buf = Append(q.buf, b) /\ r.buf \in Seq(Stores) /\ r.buf # <<>>
      /\ Len(q.buf) \in Nat /\ Len(r.buf) = Len(q.buf) + 1 /\ Len(r.buf) - 1 = Len(q.buf)
      /\ r.buf[Len(r.buf)] = b /\ r.buf[Len(q.buf) + 1] = b
      /\ DOMAIN q.buf = 1 .. Len(q.buf) /\ DOMAIN r.buf = 1 .. Len(q.buf) + 1
      /\ \A i \in DOMAIN q.buf : r.buf[i] = q.buf[i]
  <2>1. r.buf = Append(q.buf, b)
    BY DEF b
  <2> QED BY SMTT(30), <1>1, <1>3, <2>1
<1>5. \A to, at, memory :
        Seen(r.buf, to, at, memory) =
          IF to = "bottom" /\ at = 0 THEN r.localBot ELSE Seen(q.buf, to, at, memory)
  <2> TAKE to, at, memory
  <2>1. Seen(r.buf, to, at, memory) =
          IF To(b, to, at) THEN b.val ELSE Seen(q.buf, to, at, memory)
    BY SMTT(30), <1>1, <1>3, <1>4, SeenAppend
  <2> QED BY <1>3, <2>1 DEF To
<1>6. /\ BottomOf(r) = r.localBot /\ AgeOf(r) = AgeOf(q) /\ Top(r) = Top(q)
      /\ \A i \in Index : ElemOf(r, i) = ElemOf(q, i)
  BY SMTT(30), <1>5 DEF BottomOf, AgeOf, Top, ElemOf
<1>7. End(r) = BottomOf(q) /\ End(q) = BottomOf(q)
  BY <1>2 DEF End, PopPcs
<1>8. Count(r) = Count(q)
  BY <1>6, <1>7 DEF Count
<1>9. Exposed(q) /\ Exposed(r) /\ Committed(q) = Len(q.buf) /\ Committed(r) = Len(q.buf)
  BY <1>4 DEF Exposed, Committed, PopPcs
<1>10. OrderInv(r)
  <2>1. Ordered(q.bottom, q.buf, Len(q.buf), Top(q), Count(q))
    BY <1>9 DEF QueueInv, OrderInv
  <2>2. Ordered(q.bottom, r.buf, Len(q.buf), Top(q), Count(q))
    BY SMTT(30), <1>1, <1>3, <1>4, <2>1, OrderedPrefix
  <2> QED BY <1>6, <1>8, <1>9, <2>2 DEF OrderInv
<1>11. \A i \in DOMAIN r.buf : r.buf[i].to = "age" => i \in DOMAIN q.buf /\ r.buf[i] = q.buf[i]
  <2>1. \A i \in DOMAIN r.buf : i \in DOMAIN q.buf \/ i = Len(q.buf) + 1
    BY SMTT(30), <1>4
  <2> QED BY <1>3, <1>4, <2>1
<1>12. AgeInv(r)
  BY <1>11 DEF AgeInv, QueueInv
<1>13. SizeInv(r) /\ ElemInv(r)
  BY <1>6, <1>8 DEF QueueInv, SizeInv, ElemInv
<1>14. PopInv(r)
  BY <1>4, <1>6, <1>8 DEF PopInv, b
<1>15. QueueType(r)
  BY <1>2, <1>4 DEF QueueInv, QueueType
<1>20. Settled(r.buf)
  BY SMTT(30), <1>1, <1>3, <1>4, SettledAppend DEF QueueInv
<1>16. QueueInv(r)
  BY <1>10, <1>12, <1>13, <1>14, <1>15, <1>20 DEF QueueInv
<1>17. ASSUME Live(q) PROVE Live(r)
  BY <1>6, <1>8, <1>9, <1>11, <1>17 DEF Live, AgeInMemory
<1>18. QueueType(q) => Top(q) \in Index
  BY ViewFacts
<1> QED BY <1>1, <1>6, <1>8, <1>16, <1>17, <1>18 DEF Kept

\* What a pop knows behind its fence.
LEMMA PopFacts ==
  ASSUME NEW q, QueueInv(q), q.pc \in PopPcs, q.buf = <<>>
  PROVE  /\ q.bottom = q.localBot /\ BottomOf(q) = q.bottom /\ AgeOf(q) = q.age
         /\ Top(q) = q.age.top /\ AgeInMemory(q)
         /\ q.localBot \in Index /\ Top(q) \in Index /\ Count(q) \in Nat
         /\ q.age.tag \in Nat
         /\ Count(q) = IF dirty_size(q.localBot, Top(q)) = N - 1 THEN 0
                       ELSE dirty_size(q.localBot, Top(q)) + 1
<1>1. /\ QueueType(q) /\ q.localBot \in Index /\ Top(q) \in Index /\ Count(q) \in Nat
      /\ AgeOf(q).tag \in Nat
  BY ViewFacts DEF QueueInv, QueueType
<1>2. AgeInMemory(q) /\ BottomOf(q) = q.bottom /\ AgeOf(q) = q.age
  BY MemoryView
<1>3. BottomOf(q) = q.localBot
  BY DEF QueueInv, PopInv
<1>4. Count(q) = dirty_size(increment_index(q.localBot), Top(q))
  BY DEF Count, End
<1>5. Count(q) = IF dirty_size(q.localBot, Top(q)) = N - 1 THEN 0
                 ELSE dirty_size(q.localBot, Top(q)) + 1
  BY SMTT(30), <1>1, <1>4, DistanceNext
<1> QED BY <1>1, <1>2, <1>3, <1>5 DEF Top

\* The pop that left something below it for the thieves.
LEMMA KeptTaken ==
  ASSUME NEW q, NEW r, QueueInv(q), q.pc = "fence", q.buf = <<>>, r.pc = "work",
         size(q.localBot, q.age.top) > 0,
         r.bottom = q.bottom, r.age = q.age, r.elems = q.elems, r.buf = q.buf,
         r.localBot \in Index, r.oldAge \in Ages, r.found = q.found
  PROVE  /\ Kept(q, r) /\ Top(r) = Top(q) /\ Count(r) = Count(q) - 1
         /\ Count(q) \in Nat /\ Count(q) >= 2
         /\ Count(q) - 1 = dirty_size(q.localBot, Top(q))
         /\ \A i \in Index : ElemOf(r, i) = ElemOf(q, i)
<1> DEFINE d == dirty_size(q.localBot, Top(q))
<1>1. q.pc \in PopPcs /\ r.pc \notin PopPcs
  BY DEF PopPcs
<1>2. /\ q.bottom = q.localBot /\ BottomOf(q) = q.bottom /\ AgeOf(q) = q.age
      /\ Top(q) = q.age.top /\ AgeInMemory(q)
      /\ q.localBot \in Index /\ Top(q) \in Index /\ Count(q) \in Nat /\ q.age.tag \in Nat
      /\ Count(q) = IF d = N - 1 THEN 0 ELSE d + 1
  BY <1>1, PopFacts
<1>3. d \in Nat /\ d <= N - 1
  BY <1>2, DistanceNat
<1>4. (IF d = N - 1 THEN 0 ELSE d) > 0
  BY <1>2 DEF size
<1> HIDE DEF d
<1>5. d >= 1 /\ Count(q) = d + 1 /\ Count(q) >= 2 /\ d = Count(q) - 1
  BY SMTT(30), NAssumption, <1>2, <1>3, <1>4
<1>6. /\ BottomOf(r) = q.localBot /\ AgeOf(r) = q.age /\ Top(r) = Top(q)
      /\ \A i \in Index : ElemOf(r, i) = ElemOf(q, i)
  BY <1>2 DEF BottomOf, AgeOf, Top, ElemOf
<1>7. Count(r) = d
  BY <1>1, <1>6 DEF Count, End, d
<1>8. SizeInv(r)
  <2>1. Count(q) <= N - 2 /\ q.age.tag + 2 * Count(q) <= 2 * q.found /\ q.found \in Nat
    BY <1>2 DEF QueueInv, SizeInv, QueueType
  <2>2. d <= N - 2 /\ q.age.tag + 2 * d <= 2 * q.found
    BY SMTT(30), NAssumption, <1>2, <1>3, <1>5, <2>1
  <2> QED BY <1>6, <1>7, <2>2 DEF SizeInv
<1>9. Len(q.buf) = 0 /\ DOMAIN q.buf = {} /\ 1 .. 0 = {}
  BY SMTT(30)
<1>10. OrderInv(r)
  <2>1. dirty_size(r.bottom, Top(r)) = Count(r) /\ Count(r) <= Count(r)
    BY SMTT(30), <1>2, <1>3, <1>6, <1>7 DEF d
  <2>2. Committed(r) = 0
    BY <1>9 DEF Committed
  <2> QED BY <1>9, <2>1, <2>2 DEF OrderInv, Ordered
<1>11. ElemInv(r)
  <2> SUFFICES ASSUME NEW i \in Index, dirty_size(i, Top(q)) < d PROVE ElemOf(q, i) \in Tasks
    BY <1>6, <1>7 DEF ElemInv
  <2>1. dirty_size(i, Top(q)) \in Nat
    BY <1>2, DistanceNat
  <2>2. dirty_size(i, Top(q)) < Count(q)
    BY SMTT(30), <1>3, <1>5, <2>1
  <2> QED BY <2>2 DEF QueueInv, ElemInv
<1>12. AgeInv(r) /\ AgeInMemory(r)
  BY <1>9 DEF AgeInv, AgeInMemory
<1>13. PopInv(r)
  BY <1>1 DEF PopInv, PopPcs
<1>14. QueueType(r)
  BY DEF QueueInv, QueueType
<1>15. QueueInv(r)
  BY <1>8, <1>10, <1>11, <1>12, <1>13, <1>14 DEF QueueInv
<1>16. Live(r)
  BY <1>2, <1>5, <1>6, <1>7, <1>12 DEF Live, d
<1>17. ElemOf(r, Top(r)) = ElemOf(q, Top(q))
  BY <1>2, <1>6
<1> QED BY <1>2, <1>5, <1>6, <1>7, <1>15, <1>16, <1>17 DEF Kept, d

\* pop_local goes on to pop_local_slow, and there to its CAS.
LEMMA KeptSlow ==
  ASSUME NEW q, NEW r, QueueInv(q), q.buf = <<>>,
         r.bottom = q.bottom, r.age = q.age, r.elems = q.elems, r.buf = q.buf,
         r.localBot = q.localBot, r.found = q.found,
         \/ /\ q.pc = "fence" /\ ~(size(q.localBot, q.age.top) > 0)
            /\ r.pc = "slow" /\ r.oldAge = q.oldAge
         \/ /\ q.pc = "slow" /\ q.localBot = q.age.top
            /\ r.pc = "cas" /\ r.oldAge = q.age
  PROVE  /\ Kept(q, r) /\ Top(r) = Top(q) /\ Count(r) = Count(q)
         /\ \A i \in Index : ElemOf(r, i) = ElemOf(q, i)
<1> DEFINE d == dirty_size(q.localBot, Top(q))
<1>1. q.pc \in PopPcs /\ r.pc \in PopPcs
  BY DEF PopPcs
<1>2. /\ Top(q) = q.age.top /\ q.localBot \in Index /\ Top(q) \in Index
      /\ Count(q) \in Nat /\ Count(q) = IF d = N - 1 THEN 0 ELSE d + 1
  BY <1>1, PopFacts
<1>3. d \in Nat /\ d <= N - 1
  BY <1>2, DistanceNat
<1>4. /\ BottomOf(r) = BottomOf(q) /\ AgeOf(r) = AgeOf(q)
      /\ \A i \in Index : ElemOf(r, i) = ElemOf(q, i)
  BY DEF BottomOf, AgeOf, ElemOf
<1>5. Top(r) = Top(q) /\ Count(r) = Count(q)
  BY <1>1, <1>4 DEF Top, Count, End
<1>6. ~Exposed(q) /\ ~Exposed(r)
  BY <1>1 DEF Exposed
<1>7. SizeInv(r) /\ OrderInv(r) /\ ElemInv(r) /\ AgeInv(r)
  BY <1>4, <1>5, <1>6 DEF QueueInv, SizeInv, OrderInv, ElemInv, AgeInv
<1>8. /\ BottomOf(r) = r.localBot
      /\ Count(r) = 0 => AgeOf(r).tag + 1 <= 2 * r.found
      /\ r.pc # "fence" /\ r.buf = <<>>
  BY <1>1, <1>4, <1>5 DEF QueueInv, PopInv
<1>9. Count(r) <= 1 /\ (r.pc = "cas" => r.oldAge.top = r.localBot /\ Count(r) = 1)
  <2>1. CASE q.pc = "fence"
    <3>1. ~((IF d = N - 1 THEN 0 ELSE d) > 0) /\ r.pc # "cas"
      BY <1>2, <2>1 DEF size
    <3>2. Count(q) <= 1
      BY SMTT(30), NAssumption, <1>2, <1>3, <3>1
    <3> QED BY <1>5, <3>1, <3>2
  <2>2. CASE q.pc = "slow"
    <3>1. d = 0 /\ r.oldAge.top = r.localBot
      BY SMTT(30), <1>2, <2>2, DistanceOrder
    <3>2. Count(q) = 1
      BY SMTT(30), NAssumption, <1>2, <3>1
    <3>3. 1 <= 1
      BY SMTT(30)
    <3> QED BY <1>5, <3>1, <3>2, <3>3
  <2> QED BY <2>1, <2>2
<1>10. r.pc = "cas" => r.age = r.oldAge /\ r.oldAge.tag + 1 <= 2 * r.found
  <2> SUFFICES ASSUME r.pc = "cas" PROVE r.age = r.oldAge /\ r.oldAge.tag + 1 <= 2 * r.found
    OBVIOUS
  <2>1. Count(q) = 1 /\ AgeOf(q) = q.age /\ q.age.tag \in Nat
    BY <1>1, <1>5, <1>9, PopFacts
  <2>2. q.age.tag + 2 * Count(q) <= 2 * q.found /\ q.found \in Nat
    BY <2>1 DEF QueueInv, QueueType, SizeInv
  <2>3. r.oldAge = q.age /\ r.age = q.age /\ r.found = q.found
    BY SMTT(30)
  <2> QED BY SMTT(30), <2>1, <2>2, <2>3
<1>11. PopInv(r)
  BY <1>8, <1>9, <1>10 DEF PopInv
<1>12. QueueType(r)
  BY DEF QueueInv, QueueType
<1>13. QueueInv(r)
  BY <1>7, <1>11, <1>12 DEF QueueInv
<1>14. Live(q) => Live(r)
  BY <1>5, <1>6 DEF Live, AgeInMemory
<1>15. ElemOf(r, Top(r)) = ElemOf(q, Top(q))
  BY <1>2, <1>4, <1>5
<1> QED BY <1>4, <1>5, <1>13, <1>14, <1>15 DEF Kept

\* A pop that lost its task to a thief stores the age of the empty queue.
LEMMA KeptLose ==
  ASSUME NEW q, NEW r, QueueInv(q), q.pc \in {"slow", "cas"}, Count(q) = 0,
         NEW a \in Ages, a.top = q.localBot, a.tag <= 2 * q.found, Before(q.age, a),
         r.bottom = q.bottom, r.age = q.age, r.elems = q.elems,
         r.buf = Append(q.buf, AgeStore(a)), r.pc = "drained",
         r.localBot \in Index, r.oldAge \in Ages, r.found = q.found
  PROVE  Kept(q, r) /\ Count(r) = 0
<1> DEFINE s == AgeStore(a)
           d == dirty_size(q.localBot, Top(q))
<1>1. q.pc \in PopPcs /\ r.pc \notin PopPcs /\ r.pc # "fence"
  BY DEF PopPcs
<1>2. q.buf = <<>>
  BY DEF QueueInv, PopInv
<1>3. /\ q.bottom = q.localBot /\ BottomOf(q) = q.bottom /\ Top(q) = q.age.top
      /\ q.localBot \in Index /\ Top(q) \in Index
      /\ Count(q) = IF d = N - 1 THEN 0 ELSE d + 1
  BY <1>1, <1>2, PopFacts
<1>4. s \in Stores /\ s.to = "age" /\ s.at = 0 /\ s.val = a
  BY SMTT(30), NewStores DEF AgeStore
<1>5. q.age.top = increment_index(q.bottom)
  <2>1. dirty_size(increment_index(q.localBot), Top(q)) = 0
    BY <1>1 DEF Count, End
  <2>2. increment_index(q.localBot) \in Index
    BY <1>3, IncrementFacts
  <2>3. increment_index(q.localBot) = Top(q)
    BY SMTT(30), <1>3, <2>1, <2>2, DistanceOrder
  <2> QED BY <1>3, <2>3
<1> HIDE DEF s
<1>6. /\ r.buf = Append(q.buf, s) /\ r.buf \in Seq(Stores) /\ q.buf \in Seq(Stores)
      /\ Len(r.buf) = 1 /\ DOMAIN r.buf = {1} /\ r.buf[1] = s /\ 1 .. 1 = {1}
  <2>1. r.buf = Append(q.buf, s) /\ q.buf \in Seq(Stores)
    BY DEF s, QueueInv, QueueType
  <2> QED BY SMTT(30), <1>2, <1>4, <2>1
<1>7. \A to, at, memory :
        Seen(r.buf, to, at, memory) =
          IF to = "age" /\ at = 0 THEN a ELSE Seen(q.buf, to, at, memory)
  <2> TAKE to, at, memory
  <2>1. Seen(r.buf, to, at, memory) =
          IF To(s, to, at) THEN s.val ELSE Seen(q.buf, to, at, memory)
    BY SMTT(30), <1>4, <1>6, SeenAppend
  <2> QED BY <1>4, <2>1 DEF To
<1>8. BottomOf(r) = q.localBot /\ AgeOf(r) = a
  <2>1. BottomOf(r) = BottomOf(q) /\ AgeOf(r) = a
    BY SMTT(30), <1>7 DEF BottomOf, AgeOf
  <2> QED BY <1>3, <2>1
<1>9. Top(r) = q.localBot /\ Count(r) = 0 /\ dirty_size(q.localBot, q.localBot) = 0
  <2>1. dirty_size(q.localBot, q.localBot) = 0
    BY SMTT(30), <1>3, DistanceOrder
  <2> QED BY <1>1, <1>8, <2>1 DEF Top, Count, End
<1>10. SizeInv(r)
  <2>1. q.found \in Nat /\ a.tag \in 0 .. TagValues - 1
    BY DEF QueueInv, QueueType, Ages
  <2>2. 0 <= N - 2 /\ a.tag + 2 * 0 <= 2 * q.found
    BY SMTT(30), NAssumption, <2>1
  <2> QED BY <1>8, <1>9, <2>2 DEF SizeInv
<1>11. OrderInv(r)
  <2>1. Committed(r) = 1 /\ 0 <= 0 /\ r.buf[1].to = "age"
    BY SMTT(30), <1>1, <1>4, <1>6 DEF Committed
  <2>2. \A i \in 1 .. Committed(r) : r.buf[i].to = "age"
    BY <1>6, <2>1
  <2>3. dirty_size(r.bottom, Top(r)) <= Count(r)
    BY <1>3, <1>9, <2>1
  <2> QED BY <2>2, <2>3 DEF OrderInv, Ordered
<1>12. ElemInv(r)
  <2> SUFFICES ASSUME NEW i \in Index PROVE ~(dirty_size(i, q.localBot) < 0)
    BY <1>9 DEF ElemInv
  <2>1. dirty_size(i, q.localBot) \in Nat
    BY <1>3, DistanceNat
  <2> QED BY SMTT(30), <2>1
<1>13. AgeInv(r)
  BY <1>3, <1>4, <1>5, <1>6 DEF AgeInv
<1>14. PopInv(r)
  BY <1>1 DEF PopInv, PopPcs
<1>15. QueueType(r)
  BY <1>6 DEF QueueInv, QueueType
<1>18. Settled(r.buf)
  BY SMTT(30), <1>4, <1>6, SettledAppend DEF QueueInv
<1>16. QueueInv(r)
  BY <1>10, <1>11, <1>12, <1>13, <1>14, <1>15, <1>18 DEF QueueInv
<1>17. ~Live(q)
  <2>1. ~(0 >= 1)
    BY SMTT(30)
  <2> QED BY <2>1 DEF Live
<1> QED BY <1>9, <1>16, <1>17 DEF Kept

\* pop_local_slow wins the CAS for the last task.
LEMMA KeptCas ==
  ASSUME NEW q, NEW r, QueueInv(q), q.pc = "cas", q.age = q.oldAge,
         r.age = NewAge(q.localBot, q.oldAge.tag), r.pc = "work",
         r.bottom = q.bottom, r.elems = q.elems, r.buf = q.buf,
         r.localBot \in Index, r.oldAge \in Ages, r.found = q.found
  PROVE  /\ Kept(q, r) /\ Count(r) = 0 /\ Count(q) = 1 /\ q.localBot = Top(q)
         /\ \A i \in Index : ElemOf(q, i) = q.elems[i]
<1>1. q.pc \in PopPcs /\ r.pc \notin PopPcs /\ r.pc # "fence"
  BY DEF PopPcs
<1>2. q.buf = <<>> /\ Count(q) <= 1 /\ q.oldAge.top = q.localBot
      /\ q.age = IF Count(q) = 1 THEN q.oldAge ELSE Increment(q.oldAge)
  BY DEF QueueInv, PopInv
<1>3. /\ q.bottom = q.localBot /\ AgeOf(q) = q.age /\ Top(q) = q.age.top
      /\ q.localBot \in Index /\ Count(q) \in Nat /\ q.age.tag \in Nat
  BY <1>1, <1>2, PopFacts
<1>4. /\ q.found \in Nat /\ 2 * q.found < TagValues /\ q.age \in Ages
      /\ q.age.tag + 2 * Count(q) <= 2 * q.found
      /\ (Count(q) = 0 => q.age.tag + 1 <= 2 * q.found)
  BY <1>1, <1>3 DEF QueueInv, QueueType, SizeInv, PopInv
<1>5. q.age.tag + 1 < TagValues
  BY SMTT(30), NAssumption, <1>2, <1>3, <1>4
<1>6. Count(q) = 1
  <2>1. Increment(q.age) # q.age
    BY <1>4, <1>5, IncrementAge, BeforeFacts
  <2> QED BY <1>2, <2>1
<1>7. /\ r.age \in Ages /\ Before(q.age, r.age) /\ r.age.top = q.localBot
      /\ r.age.tag = q.age.tag + 1
  BY SMTT(30), <1>3, <1>4, <1>5, NewAgeFacts
<1>8. BottomOf(r) = q.localBot /\ AgeOf(r) = r.age /\ AgeInMemory(r)
  BY <1>2, <1>3, MemoryView
<1>9. Top(r) = q.localBot /\ Count(r) = 0 /\ dirty_size(q.localBot, q.localBot) = 0
  <2>1. dirty_size(q.localBot, q.localBot) = 0
    BY SMTT(30), <1>3, DistanceOrder
  <2> QED BY <1>1, <1>7, <1>8, <2>1 DEF Top, Count, End
<1>10. SizeInv(r)
  <2>1. 0 <= N - 2 /\ q.age.tag + 1 + 2 * 0 <= 2 * q.found
    BY SMTT(30), NAssumption, <1>3, <1>4, <1>6
  <2> QED BY <1>7, <1>8, <1>9, <2>1 DEF SizeInv
<1>11. Len(q.buf) = 0 /\ 1 .. 0 = {} /\ 0 <= 0
  BY SMTT(30), <1>2
<1>12. OrderInv(r)
  <2>1. Committed(r) = 0
    BY <1>1, <1>11 DEF Committed
  <2> QED BY <1>3, <1>9, <1>11, <2>1 DEF OrderInv, Ordered
<1>13. ElemInv(r)
  <2> SUFFICES ASSUME NEW i \in Index PROVE ~(dirty_size(i, q.localBot) < 0)
    BY <1>9 DEF ElemInv
  <2>1. dirty_size(i, q.localBot) \in Nat
    BY <1>3, DistanceNat
  <2> QED BY SMTT(30), <2>1
<1>14. AgeInv(r)
  BY <1>8 DEF AgeInv, AgeInMemory
<1>15. PopInv(r)
  BY <1>1 DEF PopInv, PopPcs
<1>16. QueueType(r)
  BY <1>7 DEF QueueInv, QueueType
<1>17. QueueInv(r)
  BY <1>10, <1>12, <1>13, <1>14, <1>15, <1>16 DEF QueueInv
<1>18. r.age # q.age
  BY <1>4, <1>7, BeforeFacts
<1>19. \A i \in Index : ElemOf(q, i) = q.elems[i]
  BY <1>2, MemoryView
<1> QED BY <1>2, <1>3, <1>6, <1>7, <1>9, <1>17, <1>18, <1>19 DEF Kept

\* A thief wins the CAS for the task at the top.
LEMMA KeptStolen ==
  ASSUME NEW q, NEW r, QueueInv(q), Live(q), r.age = Increment(q.age),
         r.bottom = q.bottom, r.elems = q.elems, r.buf = q.buf, r.pc = q.pc,
         r.localBot = q.localBot, r.oldAge = q.oldAge, r.found = q.found
  PROVE  /\ Kept(q, r) /\ Top(r) = increment_index(Top(q)) /\ Count(r) = Count(q) - 1
         /\ Count(q) \in Nat /\ Count(q) >= 1 /\ Top(q) = q.age.top
         /\ \A i \in Index : ElemOf(r, i) = ElemOf(q, i)
<1>1. /\ QueueType(q) /\ Count(q) \in Nat /\ Top(q) \in Index /\ End(q) \in Index
      /\ AgeOf(q).tag \in Nat
  BY ViewFacts DEF QueueInv
<1>2. /\ AgeOf(q) = q.age /\ AgeOf(r) = r.age /\ AgeInMemory(r) /\ Top(q) = q.age.top
      /\ Count(q) >= 1
  <2>1. AgeInMemory(q) /\ AgeInMemory(r) /\ Count(q) >= 1
    BY DEF Live, AgeInMemory
  <2> QED BY <2>1, MemoryView DEF Top
<1>3. /\ q.found \in Nat /\ 2 * q.found < TagValues /\ q.age \in Ages
      /\ q.bottom \in Index /\ q.buf \in Seq(Stores)
      /\ q.age.tag + 2 * Count(q) <= 2 * q.found /\ Count(q) <= N - 2
  BY <1>2 DEF QueueInv, QueueType, SizeInv
<1>4. q.age.tag + 1 < TagValues /\ q.age.tag \in Nat
  <2> DEFINE c == Count(q)
             tag == q.age.tag
             f == q.found
  <2>1. /\ c \in Nat /\ tag \in Nat /\ f \in Nat /\ c >= 1
        /\ 2 * f < TagValues /\ tag + 2 * c <= 2 * f
    BY <1>1, <1>2, <1>3
  <2> HIDE DEF c, tag, f
  <2>2. tag + 1 < TagValues
    BY SMTT(30), NAssumption, <2>1
  <2> QED BY <2>1, <2>2 DEF tag
<1>5. /\ r.age \in Ages /\ Before(q.age, r.age) /\ r.age.top = increment_index(q.age.top)
      /\ r.age.tag = IF q.age.top = N - 1 THEN q.age.tag + 1 ELSE q.age.tag
  BY <1>3, <1>4, IncrementAge
<1>6. Top(r) = increment_index(Top(q))
  BY <1>2, <1>5 DEF Top
<1>7. /\ BottomOf(r) = BottomOf(q) /\ End(r) = End(q)
      /\ \A i \in Index : ElemOf(r, i) = ElemOf(q, i)
  BY DEF BottomOf, End, ElemOf
<1>8. Count(r) = Count(q) - 1
  <2>1. Count(q) # 0
    BY SMTT(30), <1>1, <1>2
  <2>2. End(q) # Top(q)
    BY SMTT(30), <1>1, <2>1, DistanceOrder DEF Count
  <2>3. dirty_size(End(q), increment_index(Top(q))) = dirty_size(End(q), Top(q)) - 1
    BY SMTT(30), <1>1, <2>2, DistanceTop
  <2> QED BY <1>6, <1>7, <2>3 DEF Count
<1>9. Count(q) - 1 \in Nat /\ r.age.tag + 1 <= q.age.tag + 2 /\ r.age.tag \in Nat
      /\ r.age.tag + 2 * (Count(q) - 1) <= 2 * q.found /\ Count(q) - 1 <= N - 2
  <2> DEFINE c == Count(q)
             new == r.age.tag
             tag == q.age.tag
  <2>1. /\ c \in Nat /\ c >= 1 /\ c <= N - 2 /\ tag \in Nat
        /\ tag + 2 * c <= 2 * q.found /\ (new = tag \/ new = tag + 1)
    BY <1>1, <1>2, <1>3, <1>4, <1>5
  <2> HIDE DEF c, new, tag
  <2>2. /\ c - 1 \in Nat /\ new + 1 <= tag + 2 /\ new \in Nat
        /\ new + 2 * (c - 1) <= 2 * q.found /\ c - 1 <= N - 2
    BY <1>3, <2>1, StealCounts
  <2> QED BY <2>2 DEF c, new, tag
<1>10. SizeInv(r)
  BY <1>2, <1>8, <1>9 DEF SizeInv
<1>11. OrderInv(r)
  <2> SUFFICES ASSUME Exposed(r)
               PROVE  Ordered(q.bottom, q.buf, Committed(q), Top(r), Count(r))
    BY DEF OrderInv, Committed
  <2>1. Exposed(q)
    BY DEF Exposed
  <2>2. /\ Ordered(q.bottom, q.buf, Committed(q), Top(q), Count(q))
        /\ dirty_size(q.bottom, Top(q)) >= 1
    BY <2>1 DEF Live, QueueInv, OrderInv
  <2>3. Committed(q) \in Int /\ Committed(q) <= Len(q.buf)
    BY SMTT(30), <1>3 DEF Committed
  <2>4. Ordered(q.bottom, q.buf, Committed(q), increment_index(Top(q)), Count(q) - 1)
    BY SMTT(30), <1>1, <1>3, <2>2, <2>3, OrderedSteal
  <2> QED BY <1>6, <1>8, <2>4
<1>12. ElemInv(r)
  <2> SUFFICES ASSUME NEW i \in Index,
                      dirty_size(i, increment_index(Top(q))) < Count(q) - 1
               PROVE  ElemOf(q, i) \in Tasks
    BY <1>6, <1>7, <1>8 DEF ElemInv
  <2>1. dirty_size(i, Top(q)) \in Nat
    BY <1>1, DistanceNat
  <2>2. dirty_size(i, increment_index(Top(q))) =
          IF i = Top(q) THEN N - 1 ELSE dirty_size(i, Top(q)) - 1
    BY <1>1, DistanceTop
  <2>3. dirty_size(i, Top(q)) < Count(q)
    BY SMTT(30), NAssumption, <1>1, <1>3, <2>1, <2>2
  <2> QED BY <2>3 DEF QueueInv, ElemInv
<1>13. AgeInv(r)
  BY <1>2 DEF AgeInv, AgeInMemory
<1>14. PopInv(r)
  <2>1. ASSUME r.pc \in PopPcs
        PROVE  /\ BottomOf(r) = r.localBot
               /\ Count(r) = 0 => AgeOf(r).tag + 1 <= 2 * r.found
    <3>1. BottomOf(q) = q.localBot
      BY <2>1 DEF QueueInv, PopInv
    <3> DEFINE c == Count(q)
               new == r.age.tag
               tag == q.age.tag
               f == q.found
    <3>a. c \in Nat /\ new \in Nat /\ tag \in Nat /\ f \in Nat
          /\ new + 1 <= tag + 2 /\ tag + 2 * c <= 2 * f
      BY <1>1, <1>3, <1>4, <1>9
    <3> HIDE DEF c, new, tag, f
    <3>b. c - 1 = 0 => new + 1 <= 2 * f
      BY SMTT(30), <3>a
    <3>2. Count(q) - 1 = 0 => r.age.tag + 1 <= 2 * q.found
      BY <3>b DEF c, new, tag, f
    <3> QED BY <1>2, <1>7, <1>8, <3>1, <3>2
  <2>2. r.pc = "fence" /\ r.buf # <<>> => r.buf[Len(r.buf)] = Bottom(r.localBot)
    BY DEF QueueInv, PopInv
  <2>3. ASSUME r.pc \in {"slow", "cas"}
        PROVE  /\ r.buf = <<>> /\ Count(r) <= 1 /\ Count(r) # 1 /\ Count(q) = 1
    <3>1. q.buf = <<>> /\ Count(q) <= 1
      BY <2>3 DEF QueueInv, PopInv
    <3>2. Count(q) = 1 /\ Count(r) <= 1 /\ Count(r) # 1
      BY SMTT(30), <1>1, <1>2, <1>8, <3>1
    <3> QED BY <3>1, <3>2
  <2>4. r.pc = "cas" => /\ r.oldAge.top = r.localBot /\ r.oldAge.tag + 1 <= 2 * r.found
                       /\ r.age = IF Count(r) = 1 THEN r.oldAge ELSE Increment(r.oldAge)
    BY <2>3 DEF QueueInv, PopInv
  <2> QED BY <2>1, <2>2, <2>3, <2>4 DEF PopInv
<1>15. QueueType(r)
  BY <1>5 DEF QueueInv, QueueType
<1>16. QueueInv(r)
  BY <1>10, <1>11, <1>12, <1>13, <1>14, <1>15 DEF QueueInv
<1>17. r.age # q.age
  BY <1>3, <1>5, BeforeFacts
<1> QED BY <1>1, <1>2, <1>5, <1>6, <1>7, <1>8, <1>16, <1>17 DEF Kept

\* A store reaches memory.
LEMMA KeptDrain ==
  ASSUME NEW q, NEW r, QueueInv(q), q.buf # <<>>, NEW s, s = Head(q.buf),
         r.bottom = IF s.to = "bottom" THEN s.val ELSE q.bottom,
         r.age = IF s.to = "age" THEN s.val ELSE q.age,
         \A i \in Index : r.elems[i] = IF s.to = "elem" /\ s.at = i THEN s.val ELSE q.elems[i],
         r.buf = Tail(q.buf), r.pc = q.pc,
         r.localBot = q.localBot, r.oldAge = q.oldAge, r.found = q.found
  PROVE  /\ Kept(q, r) /\ Top(r) = Top(q) /\ Count(r) = Count(q)
         /\ \A i \in Index : ElemOf(r, i) = ElemOf(q, i)
<1>1. /\ QueueType(q) /\ q.buf \in Seq(Stores) /\ q.bottom \in Index /\ q.age \in Ages
      /\ Count(q) \in Nat /\ Top(q) \in Index
  BY ViewFacts DEF QueueInv, QueueType
<1>2. /\ r.buf \in Seq(Stores) /\ Len(q.buf) \in Nat \ {0} /\ Len(r.buf) = Len(q.buf) - 1
      /\ DOMAIN q.buf = 1 .. Len(q.buf) /\ DOMAIN r.buf = 1 .. Len(q.buf) - 1
      /\ s = q.buf[1] /\ s \in Stores
      /\ \A i \in DOMAIN r.buf : r.buf[i] = q.buf[i + 1]
      /\ (r.buf = <<>> <=> Len(q.buf) = 1)
  BY SMTT(30), <1>1, TailOfBuffer
<1>3. /\ 1 \in DOMAIN q.buf
      /\ \A i \in DOMAIN r.buf : i + 1 \in DOMAIN q.buf /\ i + 1 # 1
  BY SMTT(30), <1>2
<1>4. /\ s.to \in {"bottom", "age", "elem"}
      /\ s.to = "bottom" => s.at = 0 /\ s.val \in Index
      /\ s.to = "age" => s.at = 0 /\ s.val \in Ages
  BY <1>2, StoreFacts
<1>5. ASSUME NEW to, NEW at, NEW memory
      PROVE  Seen(r.buf, to, at, IF To(s, to, at) THEN s.val ELSE memory) =
               Seen(q.buf, to, at, memory)
  <2>1. Seen(Tail(q.buf), to, at, IF To(Head(q.buf), to, at) THEN Head(q.buf).val ELSE memory) =
          Seen(q.buf, to, at, memory)
    BY SMTT(30), <1>1, SeenDrain DEF QueueInv
  <2> QED BY <2>1
<1>6. BottomOf(r) = BottomOf(q)
  <2>1. r.bottom = IF To(s, "bottom", 0) THEN s.val ELSE q.bottom
    BY <1>4 DEF To
  <2> QED BY SMTT(30), <1>5, <2>1 DEF BottomOf
<1>7. AgeOf(r) = AgeOf(q)
  <2>1. r.age = IF To(s, "age", 0) THEN s.val ELSE q.age
    BY <1>4 DEF To
  <2> QED BY SMTT(30), <1>5, <2>1 DEF AgeOf
<1>8. ASSUME NEW i \in Index PROVE ElemOf(r, i) = ElemOf(q, i)
  <2>1. r.elems[i] = IF To(s, "elem", i) THEN s.val ELSE q.elems[i]
    BY DEF To
  <2> QED BY SMTT(30), <1>5, <2>1 DEF ElemOf
<1>9. Top(r) = Top(q) /\ End(r) = End(q) /\ Count(r) = Count(q)
  BY <1>6, <1>7 DEF Top, End, Count
<1>10. ASSUME Exposed(r)
       PROVE  /\ Exposed(q) /\ r.bottom \in Index
              /\ dirty_size(q.bottom, Top(q)) <= dirty_size(r.bottom, Top(q))
              /\ Ordered(r.bottom, r.buf, Committed(r), Top(q), Count(q))
  <2>1. Exposed(q)
    BY DEF Exposed
  <2>2. Ordered(q.bottom, q.buf, Committed(q), Top(q), Count(q))
    BY <2>1 DEF QueueInv, OrderInv
  <2>3. Committed(q) \in 1 .. Len(q.buf) /\ Committed(r) = Committed(q) - 1
    <3>1. CASE q.pc = "fence"
      <4>1. r.buf # <<>> /\ Committed(q) = Len(q.buf) - 1 /\ Committed(r) = Len(r.buf) - 1
        BY <1>10, <3>1 DEF Exposed, Committed, PopPcs
      <4> DEFINE n == Len(q.buf)
                 m == Len(r.buf)
      <4>2. n \in Nat \ {0} /\ m = n - 1 /\ n # 1
        BY <1>2, <4>1
      <4> HIDE DEF n, m
      <4>3. n - 1 \in 1 .. n /\ m - 1 = (n - 1) - 1
        BY SMTT(30), <4>2
      <4> QED BY <4>1, <4>3 DEF n, m
    <3>2. CASE q.pc # "fence"
      <4>1. Committed(q) = Len(q.buf) /\ Committed(r) = Len(r.buf)
        BY <3>2 DEF Committed
      <4> QED BY SMTT(30), <1>2, <4>1
    <3> QED BY <3>1, <3>2
  <2>4. r.bottom = IF q.buf[1].to = "bottom" THEN q.buf[1].val ELSE q.bottom
    BY <1>2
  <2>5. /\ r.bottom \in Index /\ dirty_size(q.bottom, Top(q)) <= dirty_size(r.bottom, Top(q))
        /\ Ordered(r.bottom, Tail(q.buf), Committed(q) - 1, Top(q), Count(q))
    BY SMTT(30), <1>1, <2>2, <2>3, <2>4, OrderedDrain
  <2> QED BY <2>1, <2>3, <2>5
<1>11. SizeInv(r) /\ OrderInv(r) /\ ElemInv(r)
  BY <1>7, <1>8, <1>9, <1>10 DEF QueueInv, SizeInv, OrderInv, ElemInv
<1>12. AgeInMemory(r)
  BY <1>2, <1>3 DEF QueueInv, AgeInv, AgeInMemory
<1>13. AgeInv(r)
  BY <1>12 DEF AgeInv, AgeInMemory
<1>14. r.pc \notin {"slow", "cas"} /\ r.pc # "cas"
  BY DEF QueueInv, PopInv
<1>15. ASSUME r.pc = "fence", r.buf # <<>> PROVE r.buf[Len(r.buf)] = Bottom(r.localBot)
  <2>1. Len(r.buf) \in DOMAIN r.buf /\ Len(r.buf) + 1 = Len(q.buf)
    BY SMTT(30), <1>2, <1>15
  <2>2. q.buf[Len(q.buf)] = Bottom(q.localBot)
    BY <1>15 DEF QueueInv, PopInv
  <2> QED BY <1>2, <2>1, <2>2
<1>16. ASSUME r.pc \in PopPcs
       PROVE  BottomOf(r) = r.localBot /\ (Count(r) = 0 => AgeOf(r).tag + 1 <= 2 * r.found)
  BY <1>6, <1>7, <1>9, <1>16 DEF QueueInv, PopInv
<1>17. PopInv(r)
  BY <1>14, <1>15, <1>16 DEF PopInv
<1>18. QueueType(r)
  BY <1>1, <1>2, <1>4 DEF QueueInv, QueueType
<1>23. Settled(r.buf)
  BY SMTT(30), <1>1, SettledTail DEF QueueInv
<1>19. QueueInv(r)
  BY <1>11, <1>13, <1>17, <1>18, <1>23 DEF QueueInv
<1>20. r.age = q.age \/ Before(q.age, r.age)
  BY <1>2, <1>3 DEF QueueInv, AgeInv
<1>21. ASSUME Live(q) PROVE Live(r)
  <2>1. ASSUME Exposed(r) PROVE dirty_size(r.bottom, Top(r)) >= 1
    <3>1. dirty_size(q.bottom, Top(q)) >= 1
      BY <1>10, <1>21, <2>1 DEF Live
    <3>2. dirty_size(q.bottom, Top(q)) \in Nat /\ dirty_size(r.bottom, Top(q)) \in Nat
      BY <1>1, <1>10, <2>1, DistanceNat
    <3>3. dirty_size(q.bottom, Top(q)) <= dirty_size(r.bottom, Top(q))
      BY <1>10, <2>1
    <3>4. dirty_size(r.bottom, Top(q)) >= 1
      BY SMTT(30), <3>1, <3>2, <3>3
    <3> QED BY <1>9, <3>4
  <2> QED BY <1>9, <1>12, <1>21, <2>1 DEF Live
<1>22. ElemOf(r, Top(r)) = ElemOf(q, Top(q))
  BY <1>1, <1>8, <1>9
<1> QED BY <1>8, <1>9, <1>19, <1>20, <1>21, <1>22 DEF Kept

-----------------------------------------------------------------------------
(* The tasks of a queue.                                                   *)

Content(q) == [i \in 1 .. Count(q) |-> ElemOf(q, (Top(q) + i - 1) % N)]

\* The queue holds the same tasks.
SameTasks(q, r) ==
  /\ Top(r) = Top(q) /\ Count(r) = Count(q)
  /\ \A i \in Index : ElemOf(r, i) = ElemOf(q, i)

\* The positions of the tasks in the array, from the top up.
LEMMA Slots ==
  ASSUME NEW t \in Index, NEW c \in Nat, c <= N - 1, NEW i \in 1 .. c
  PROVE  /\ (t + i - 1) % N \in Index /\ dirty_size((t + i - 1) % N, t) = i - 1
         /\ i - 1 < c
<1>1. i - 1 \in Index /\ t + (i - 1) = t + i - 1 /\ i - 1 < c
  BY SMTT(30), NAssumption DEF Index
<1> QED BY <1>1, AtDistance

\* The slot at a distance from the top is the only one.
LEMMA SlotOf ==
  ASSUME NEW t \in Index, NEW c \in Nat \ {0}, c <= N - 1,
         NEW i \in Index, dirty_size(i, t) = c - 1
  PROVE  (t + c - 1) % N = i
<1>1. c \in 1 .. c
  BY SMTT(30)
<1>2. (t + c - 1) % N \in Index /\ dirty_size((t + c - 1) % N, t) = c - 1
  BY <1>1, Slots
<1> QED BY SMTT(30), <1>2, DistanceOrder

\* The content of a queue is as long as its count, and all tasks.
LEMMA ContentType ==
  ASSUME NEW q, QueueInv(q)
  PROVE  Content(q) \in Seq(Tasks) /\ Len(Content(q)) = Count(q)
<1>1. Count(q) \in Nat /\ Count(q) <= N - 1 /\ Top(q) \in Index
  BY ViewFacts DEF QueueInv
<1>2. ASSUME NEW i \in 1 .. Count(q) PROVE ElemOf(q, (Top(q) + i - 1) % N) \in Tasks
  <2>1. /\ (Top(q) + i - 1) % N \in Index
        /\ dirty_size((Top(q) + i - 1) % N, Top(q)) = i - 1 /\ i - 1 < Count(q)
    BY <1>1, Slots
  <2> QED BY <2>1 DEF QueueInv, ElemInv
<1>3. Content(q) \in [1 .. Count(q) -> Tasks]
  BY <1>2 DEF Content
<1> QED BY SMTT(30), <1>1, <1>3

\* The same tasks in the same positions make the same content.
LEMMA ContentSame ==
  ASSUME NEW q, NEW r, QueueInv(q), SameTasks(q, r)
  PROVE  Content(r) = Content(q)
<1>1. Count(q) \in Nat /\ Count(q) <= N - 1 /\ Top(q) \in Index
  BY ViewFacts DEF QueueInv
<1>2. ASSUME NEW i \in 1 .. Count(q)
      PROVE  ElemOf(r, (Top(q) + i - 1) % N) = ElemOf(q, (Top(q) + i - 1) % N)
  <2>1. (Top(q) + i - 1) % N \in Index
    BY <1>1, Slots
  <2> QED BY <2>1 DEF SameTasks
<1> QED BY <1>2 DEF Content, SameTasks

\* Two sequences of the same length with the same elements.
LEMMA SameSequence ==
  ASSUME NEW S, NEW s \in Seq(S), NEW t \in Seq(S), Len(s) = Len(t),
         \A i \in 1 .. Len(s) : s[i] = t[i]
  PROVE  s = t
<1>1. /\ s = [i \in 1 .. Len(s) |-> s[i]] /\ t = [i \in 1 .. Len(t) |-> t[i]]
  BY SMTT(30)
<1> QED BY <1>1

\* A queue that counts no task has no content.
LEMMA ContentEmpty ==
  ASSUME NEW q, QueueInv(q)
  PROVE  Content(q) = <<>> <=> Count(q) = 0
<1>1. Content(q) \in Seq(Tasks) /\ Len(Content(q)) = Count(q)
  BY ContentType
<1> QED BY SMTT(30), <1>1

\* push adds its task to the end of the content.
LEMMA ContentPush ==
  ASSUME NEW q, NEW r, NEW t \in Tasks, QueueInv(q), QueueInv(r), q.pc = "work",
         Top(r) = Top(q), Count(r) = Count(q) + 1,
         \A i \in Index : ElemOf(r, i) = IF i = BottomOf(q) THEN t ELSE ElemOf(q, i)
  PROVE  Content(r) = Append(Content(q), t)
<1> DEFINE s == Append(Content(q), t)
           slot(i) == (Top(q) + i - 1) % N
<1>1. /\ Count(q) \in Nat /\ Count(q) <= N - 1 /\ Top(q) \in Index /\ BottomOf(q) \in Index
      /\ Count(r) \in Nat /\ Count(r) <= N - 1
  BY ViewFacts DEF QueueInv
<1>2. Count(q) = dirty_size(BottomOf(q), Top(q))
  BY DEF Count, End, PopPcs
<1>3. /\ Content(q) \in Seq(Tasks) /\ Len(Content(q)) = Count(q)
      /\ Content(r) \in Seq(Tasks) /\ Len(Content(r)) = Count(r)
  BY ContentType
<1>4. /\ s \in Seq(Tasks) /\ Len(s) = Count(q) + 1 /\ s[Count(q) + 1] = t
      /\ \A i \in 1 .. Count(q) : s[i] = Content(q)[i]
  BY SMTT(30), <1>3
<1>5. ASSUME NEW i \in 1 .. Count(r)
      PROVE  /\ Content(r)[i] = ElemOf(r, slot(i)) /\ slot(i) \in Index
             /\ dirty_size(slot(i), Top(q)) = i - 1
             /\ i \in 1 .. Count(q) => Content(q)[i] = ElemOf(q, slot(i))
  BY <1>1, Slots DEF Content
<1> HIDE DEF s, slot
<1>6. ASSUME NEW i \in 1 .. Count(r) PROVE Content(r)[i] = s[i]
  <2>1. CASE i \in 1 .. Count(q)
    <3>1. i - 1 # Count(q)
      BY SMTT(30), <1>1, <2>1
    <3>2. slot(i) # BottomOf(q)
      BY <1>2, <1>5, <3>1
    <3> QED BY <1>4, <1>5, <2>1, <3>2
  <2>2. CASE i = Count(q) + 1
    <3>1. i - 1 = Count(q)
      BY SMTT(30), <1>1, <2>2
    <3>2. slot(i) = BottomOf(q)
      BY SMTT(30), <1>1, <1>2, <1>5, <3>1, DistanceOrder
    <3> QED BY <1>4, <1>5, <2>2, <3>2
  <2>3. i \in 1 .. Count(q) \/ i = Count(q) + 1
    BY SMTT(30), <1>1
  <2> QED BY <2>1, <2>2, <2>3
<1>7. Content(r) = s
  BY <1>3, <1>4, <1>6, SameSequence
<1> QED BY <1>7 DEF s

\* The newest task leaves.
LEMMA ContentPop ==
  ASSUME NEW q, NEW r, QueueInv(q), QueueInv(r), Count(q) >= 1, Count(r) = Count(q) - 1,
         Count(r) > 0 => Top(r) = Top(q) /\ \A i \in Index : ElemOf(r, i) = ElemOf(q, i),
         NEW b \in Index, dirty_size(b, Top(q)) = Count(q) - 1
  PROVE  /\ Content(q) # <<>> /\ Content(q)[Len(Content(q))] = ElemOf(q, b)
         /\ Content(r) = SubSeq(Content(q), 1, Len(Content(q)) - 1)
<1> DEFINE s == SubSeq(Content(q), 1, Len(Content(q)) - 1)
<1>1. Count(q) \in Nat /\ Count(q) <= N - 1 /\ Top(q) \in Index /\ Count(r) \in Nat
  BY ViewFacts DEF QueueInv
<1>2. Count(q) \in Nat \ {0} /\ Count(q) \in 1 .. Count(q) /\ Count(q) # 0
  BY SMTT(30), <1>1
<1>3. /\ Content(q) \in Seq(Tasks) /\ Len(Content(q)) = Count(q)
      /\ Content(r) \in Seq(Tasks) /\ Len(Content(r)) = Count(r)
  BY ContentType
<1>4. Content(q)[Count(q)] = ElemOf(q, b)
  <2>1. (Top(q) + Count(q) - 1) % N = b
    BY <1>1, <1>2, SlotOf
  <2> QED BY <1>2, <2>1 DEF Content
<1>5. /\ s \in Seq(Tasks) /\ Len(s) = Count(q) - 1
      /\ \A i \in 1 .. Count(q) - 1 : s[i] = Content(q)[i]
  BY SMTT(30), <1>2, <1>3
<1>6. ASSUME NEW i \in 1 .. Count(r) PROVE Content(r)[i] = s[i]
  <2>1. Count(r) > 0 /\ i \in 1 .. Count(q) /\ i \in 1 .. Count(q) - 1
    BY SMTT(30), <1>1
  <2>2. (Top(q) + i - 1) % N \in Index
    BY <1>1, <2>1, Slots
  <2>3. Content(r)[i] = ElemOf(q, (Top(q) + i - 1) % N)
    BY <2>1, <2>2 DEF Content
  <2> QED BY <1>5, <2>1, <2>3 DEF Content
<1> HIDE DEF s
<1>7. Content(r) = s
  BY <1>3, <1>5, <1>6, SameSequence
<1>8. Content(q) # <<>>
  BY <1>2, ContentEmpty
<1> QED BY <1>3, <1>4, <1>7, <1>8 DEF s

\* The oldest task leaves.
LEMMA ContentSteal ==
  ASSUME NEW q, NEW r, QueueInv(q), QueueInv(r), Count(q) >= 1, Count(r) = Count(q) - 1,
         Top(r) = increment_index(Top(q)), \A i \in Index : ElemOf(r, i) = ElemOf(q, i)
  PROVE  /\ Content(q) # <<>> /\ Head(Content(q)) = ElemOf(q, Top(q))
         /\ Content(r) = Tail(Content(q))
<1>1. Count(q) \in Nat /\ Count(q) <= N - 1 /\ Top(q) \in Index /\ Count(r) \in Nat
  BY ViewFacts DEF QueueInv
<1>2. /\ Content(q) \in Seq(Tasks) /\ Len(Content(q)) = Count(q)
      /\ Content(r) \in Seq(Tasks) /\ Len(Content(r)) = Count(r)
  BY ContentType
<1>3. Count(q) # 0 /\ 1 \in 1 .. Count(q) /\ Top(q) + 1 - 1 = Top(q)
  BY SMTT(30), NAssumption, <1>1 DEF Index
<1>4. Content(q) # <<>>
  BY <1>3, ContentEmpty
<1>5. /\ Tail(Content(q)) \in Seq(Tasks) /\ Len(Tail(Content(q))) = Count(q) - 1
      /\ Head(Content(q)) = Content(q)[1]
      /\ \A i \in 1 .. Count(q) - 1 : Tail(Content(q))[i] = Content(q)[i + 1]
  BY SMTT(30), <1>2, <1>4
<1>6. Head(Content(q)) = ElemOf(q, Top(q))
  <2>1. Top(q) % N = Top(q)
    BY SMTT(30), NAssumption, <1>1 DEF Index
  <2> QED BY <1>3, <1>5, <2>1 DEF Content
<1>7. ASSUME NEW i \in 1 .. Count(r) PROVE Content(r)[i] = Tail(Content(q))[i]
  <2>1. i + 1 \in 1 .. Count(q) /\ i \in 1 .. Count(q) - 1
    BY SMTT(30), <1>1
  <2>2. (increment_index(Top(q)) + i - 1) % N = (Top(q) + (i + 1) - 1) % N
    <3>1. i \in Index
      BY SMTT(30), <1>1, <2>1, NAssumption DEF Index
    <3>2. increment_index(Top(q)) = IF Top(q) = N - 1 THEN 0 ELSE Top(q) + 1
      BY <1>1, IncrementFacts
    <3>3. CASE Top(q) = N - 1
      <4>1. increment_index(Top(q)) + i - 1 = i - 1 /\ Top(q) + (i + 1) - 1 = N + (i - 1)
        BY SMTT(30), <1>1, <3>1, <3>2, <3>3, NAssumption DEF Index
      <4>2. (i - 1) % N = i - 1 /\ (N + (i - 1)) % N = i - 1
        BY SMTT(30), <3>1, NAssumption DEF Index
      <4> QED BY <4>1, <4>2
    <3>4. CASE Top(q) # N - 1
      <4>1. increment_index(Top(q)) + i - 1 = Top(q) + (i + 1) - 1
        BY SMTT(30), <1>1, <3>1, <3>2, <3>4, NAssumption DEF Index
      <4> QED BY <4>1
    <3> QED BY <3>3, <3>4
  <2>3. (Top(q) + (i + 1) - 1) % N \in Index
    BY <1>1, <2>1, Slots
  <2>4. Content(r)[i] = ElemOf(q, (Top(q) + (i + 1) - 1) % N)
    BY <2>2, <2>3 DEF Content
  <2>5. Content(q)[i + 1] = ElemOf(q, (Top(q) + (i + 1) - 1) % N)
    BY <2>1 DEF Content
  <2> QED BY <1>5, <2>1, <2>4, <2>5
<1>8. Content(r) = Tail(Content(q))
  BY <1>2, <1>5, <1>7, SameSequence
<1> QED BY <1>4, <1>6, <1>8

-----------------------------------------------------------------------------
(* The workers and their queues.                                           *)

\* A tag is counted at most twice per task, so tags do not come back as long
\* as no queue gets half as many tasks as there are tags (2^31).
TagsLast == \A w \in Workers : 2 * MaxFound[w] < TagValues

ThiefPcs == {"readBottom", "readElem", "casTop"}
IdlePcs == {"steal", "readBottom", "readElem", "casTop", "offer"} \cup OfferPcs
Pcs == {"work", "overflow", "local", "drained"} \cup PopPcs \cup IdlePcs

TypeOK ==
  /\ _bottom \in [Workers -> Index] /\ _age \in [Workers -> Ages]
  /\ _elems \in [Workers -> [Index -> Tasks \cup {None}]]
  /\ buf \in [Workers -> Seq(Stores)] /\ overflow \in [Workers -> Seq(Tasks)]
  /\ pc \in [Workers -> Pcs] /\ back \in [Workers -> {"overflow", "local"}]
  /\ task \in [Workers -> Tasks \cup {Roots, None}]
  /\ localBot \in [Workers -> Index] /\ oldAge \in [Workers -> Ages]
  /\ victim \in [Workers -> Workers] /\ next \in [Workers -> SUBSET Workers]
  /\ tries \in [Workers -> Nat]
  /\ found \in [Workers -> Nat] /\ \A w \in Workers : found[w] <= MaxFound[w]

Q(w) ==
  [bottom |-> _bottom[w], age |-> _age[w], elems |-> _elems[w], buf |-> buf[w],
   pc |-> pc[w], localBot |-> localBot[w], oldAge |-> oldAge[w], found |-> found[w]]

\* A worker at work has a task; one that steals or offers has nothing left.
OwnerInv(w) ==
  /\ pc[w] = "work" => task[w] # None
  /\ pc[w] \in IdlePcs => Count(Q(w)) = 0 /\ overflow[w] = <<>>

\* The age that a thief has read is that of its victim or an earlier one; and
\* if it is still that of the victim, there is a task at the top, and it is the
\* one the thief has read.
ThiefInv(w) ==
  pc[w] \in ThiefPcs =>
    /\ victim[w] # w
    /\ oldAge[w] = _age[victim[w]] \/ Before(oldAge[w], _age[victim[w]])
    /\ pc[w] # "readBottom" /\ oldAge[w] = _age[victim[w]] =>
         /\ Live(Q(victim[w]))
         /\ pc[w] = "casTop" => task[w] = ElemOf(Q(victim[w]), Top(Q(victim[w])))

OfferInv == _offered_termination = Cardinality({w \in Workers : pc[w] \in OfferPcs})

Inv ==
  /\ TypeOK /\ OfferInv
  /\ \A w \in Workers : QueueInv(Q(w)) /\ OwnerInv(w) /\ ThiefInv(w)

\* The fields of the queue of a worker.
LEMMA Fields ==
  ASSUME NEW w
  PROVE  /\ Q(w).bottom = _bottom[w] /\ Q(w).age = _age[w] /\ Q(w).elems = _elems[w]
         /\ Q(w).buf = buf[w] /\ Q(w).pc = pc[w] /\ Q(w).localBot = localBot[w]
         /\ Q(w).oldAge = oldAge[w] /\ Q(w).found = found[w]
BY DEF Q

\* The fields of the queue of a worker after a step.
LEMMA FieldsPrime ==
  ASSUME NEW w
  PROVE  /\ Q(w)'.bottom = _bottom'[w] /\ Q(w)'.age = _age'[w] /\ Q(w)'.elems = _elems'[w]
         /\ Q(w)'.buf = buf'[w] /\ Q(w)'.pc = pc'[w] /\ Q(w)'.localBot = localBot'[w]
         /\ Q(w)'.oldAge = oldAge'[w] /\ Q(w)'.found = found'[w]
BY DEF Q

\* The queue of a worker is typed.
LEMMA TypeOfQueue ==
  ASSUME TagsLast, TypeOK, NEW w \in Workers
  PROVE  QueueType(Q(w))
<1>1. /\ _bottom[w] \in Index /\ _age[w] \in Ages /\ buf[w] \in Seq(Stores)
      /\ localBot[w] \in Index /\ oldAge[w] \in Ages /\ found[w] \in Nat
      /\ found[w] <= MaxFound[w]
  BY DEF TypeOK
<1>2. 2 * found[w] < TagValues
  BY SMTT(30), <1>1, WorkersAssumption, NAssumption DEF TagsLast
<1> QED BY <1>1, <1>2, Fields DEF QueueType

\* The queue of a worker is typed after a step that keeps the types.
LEMMA TypeOfQueuePrime ==
  ASSUME TagsLast, TypeOK', NEW w \in Workers
  PROVE  QueueType(Q(w)')
<1>1. /\ _bottom'[w] \in Index /\ _age'[w] \in Ages /\ buf'[w] \in Seq(Stores)
      /\ localBot'[w] \in Index /\ oldAge'[w] \in Ages /\ found'[w] \in Nat
      /\ found'[w] <= MaxFound[w]
  BY DEF TypeOK
<1>2. 2 * found'[w] < TagValues
  BY SMTT(30), <1>1, WorkersAssumption, NAssumption DEF TagsLast
<1> QED BY <1>1, <1>2, FieldsPrime DEF QueueType

\* The owner's views, as the actions name them.
LEMMA OwnViews ==
  ASSUME NEW w
  PROVE  /\ ownBottom(w) = BottomOf(Q(w)) /\ ownAge(w) = AgeOf(Q(w))
         /\ ownAge(w).top = Top(Q(w)) /\ \A i : ownElem(w, i) = ElemOf(Q(w), i)
         /\ pc[w] \notin PopPcs => Count(Q(w)) = dirty_size(ownBottom(w), ownAge(w).top)
BY Fields DEF ownBottom, ownAge, ownElem, BottomOf, AgeOf, ElemOf, Top, Count, End

-----------------------------------------------------------------------------
(* Types.                                                                  *)

\* The types hold initially.
LEMMA TypeInit == Init => TypeOK
<1> SUFFICES ASSUME Init PROVE TypeOK
  OBVIOUS
<1>1. 0 \in Index /\ NoAge \in Ages /\ 0 \in Nat
  BY SMTT(30), NAssumption DEF Index, Ages, NoAge
<1>2. <<>> \in Seq(Stores) /\ <<>> \in Seq(Tasks)
  BY SMTT(30)
<1>3. \A w \in Workers : 0 <= MaxFound[w]
  BY SMTT(30), WorkersAssumption
<1> QED BY <1>1, <1>2, <1>3 DEF Init, TypeOK, Pcs

\* Ages that the code computes.
LEMMA AgesClosed ==
  ASSUME NEW a \in Ages, NEW i \in Index
  PROVE  NewAge(i, a.tag) \in Ages /\ Increment(a) \in Ages
<1>1. a.top \in Index /\ a.tag \in 0 .. TagValues - 1
  BY DEF Ages
<1>2. (a.tag + 1) % TagValues \in 0 .. TagValues - 1
  BY SMTT(30), <1>1, NAssumption
<1>3. \A j \in Index : NewAge(j, a.tag) \in Ages
  BY <1>2 DEF NewAge, Ages
<1>4. increment_index(a.top) \in Index
  BY <1>1, IncrementFacts
<1>5. [a EXCEPT !.top = increment_index(a.top)] \in Ages
  BY SMTT(30), <1>1, <1>4 DEF Ages
<1> QED BY <1>3, <1>4, <1>5 DEF Increment

\* The task a worker finds next.
LEMMA NewTask ==
  ASSUME TypeOK, NEW w \in Workers, found[w] < MaxFound[w]
  PROVE  /\ <<w, found[w] + 1>> \in Tasks /\ found[w] + 1 \in Nat
         /\ found[w] + 1 <= MaxFound[w]
<1>1. found[w] \in Nat /\ MaxFound[w] \in Nat
  BY WorkersAssumption DEF TypeOK
<1>2. found[w] + 1 \in 1 .. MaxFound[w] /\ found[w] + 1 \in Nat /\ found[w] + 1 <= MaxFound[w]
  BY SMTT(30), <1>1
<1> DEFINE own == {<<w, k>> : k \in 1 .. MaxFound[w]}
<1>3. <<w, found[w] + 1>> \in own
  BY <1>2
<1>4. own \in {{<<v, k>> : k \in 1 .. MaxFound[v]} : v \in Workers}
  OBVIOUS
<1> HIDE DEF own
<1> QED BY <1>2, <1>3, <1>4 DEF Tasks

\* push keeps the types.
LEMMA TypePush ==
  ASSUME TagsLast, TypeOK, NEW w \in Workers, Push(w)
  PROVE  TypeOK'
<1> DEFINE bot == ownBottom(w)
           t == <<w, found[w] + 1>>
<1>1. QueueType(Q(w))
  BY TypeOfQueue
<1>2. bot \in Index /\ increment_index(bot) \in Index
  <2>1. BottomOf(Q(w)) \in Index
    BY <1>1, ViewFacts
  <2>2. bot \in Index
    BY <2>1, OwnViews
  <2> QED BY <2>2, IncrementFacts
<1>3. t \in Tasks /\ found[w] + 1 \in Nat /\ found[w] + 1 <= MaxFound[w]
  BY NewTask DEF Push
<1>4. Elem(bot, t) \in Stores /\ Bottom(increment_index(bot)) \in Stores
  BY <1>2, <1>3, NewStores
<1>5. found' = [found EXCEPT ![w] = found[w] + 1] /\ found'[w] = found[w] + 1
  BY DEF Push, TypeOK
<1>6. found' \in [Workers -> Nat] /\ \A v \in Workers : found'[v] <= MaxFound[v]
  BY <1>3, <1>5 DEF TypeOK
<1>7. \/ /\ buf' = [buf EXCEPT ![w] = Append(Append(buf[w], Elem(bot, t)), Bottom(increment_index(bot)))]
         /\ overflow' = overflow
      \/ overflow' = [overflow EXCEPT ![w] = Append(overflow[w], t)] /\ buf' = buf
  BY <1>5 DEF Push
<1> HIDE DEF bot, t
<1>8. buf[w] \in Seq(Stores) /\ overflow[w] \in Seq(Tasks)
  BY DEF TypeOK
<1>9. /\ Append(Append(buf[w], Elem(bot, t)), Bottom(increment_index(bot))) \in Seq(Stores)
      /\ Append(overflow[w], t) \in Seq(Tasks)
  BY SMTT(30), <1>3, <1>4, <1>8
<1>10. buf' \in [Workers -> Seq(Stores)] /\ overflow' \in [Workers -> Seq(Tasks)]
  <2>1. \A b \in Seq(Stores) : [buf EXCEPT ![w] = b] \in [Workers -> Seq(Stores)]
    BY DEF TypeOK
  <2>2. \A o \in Seq(Tasks) : [overflow EXCEPT ![w] = o] \in [Workers -> Seq(Tasks)]
    BY DEF TypeOK
  <2>3. buf \in [Workers -> Seq(Stores)] /\ overflow \in [Workers -> Seq(Tasks)]
    BY DEF TypeOK
  <2>4. CASE /\ buf' = [buf EXCEPT ![w] = Append(Append(buf[w], Elem(bot, t)), Bottom(increment_index(bot)))]
             /\ overflow' = overflow
    BY <1>9, <2>1, <2>3, <2>4
  <2>5. CASE overflow' = [overflow EXCEPT ![w] = Append(overflow[w], t)] /\ buf' = buf
    BY <1>9, <2>2, <2>3, <2>5
  <2> QED BY <1>7, <2>4, <2>5
<1> QED BY <1>6, <1>10 DEF Push, TypeOK, queues, popVars, stealVars

\* The steps of pop_local and pop_local_slow keep the types.
LEMMA TypePops ==
  ASSUME TagsLast, TypeOK, NEW w \in Workers,
         pop_local(w) \/ Reread(w) \/ ReadAge(w) \/ pop_local_slow(w)
  PROVE  TypeOK'
<1>1. QueueType(Q(w))
  BY TypeOfQueue
<1>2. ownBottom(w) \in Index /\ decrement_index(ownBottom(w)) \in Index
  <2>1. BottomOf(Q(w)) \in Index
    BY <1>1, ViewFacts
  <2>2. ownBottom(w) \in Index
    BY <2>1, OwnViews
  <2> QED BY <2>2, DecrementFacts
<1>3. 0 \in Index /\ NoAge \in Ages
  BY SMTT(30), NAssumption DEF Index, Ages, NoAge
<1>4. /\ buf[w] \in Seq(Stores) /\ localBot[w] \in Index /\ oldAge[w] \in Ages
      /\ _age[w] \in Ages /\ _elems[w][localBot[w]] \in Tasks \cup {Roots, None}
  <2>1. _elems[w] \in [Index -> Tasks \cup {None}] /\ localBot[w] \in Index
    BY DEF TypeOK
  <2>2. _elems[w][localBot[w]] \in Tasks \cup {Roots, None}
    BY <2>1
  <2> QED BY <2>2 DEF TypeOK
<1>5. \A s \in Stores : Append(buf[w], s) \in Seq(Stores)
  BY SMTT(30), <1>4
<1>6. /\ NewAge(localBot[w], _age[w].tag) \in Ages /\ NewAge(localBot[w], oldAge[w].tag) \in Ages
  BY <1>4, AgesClosed
<1>7. CASE pop_local(w)
  <2>1. CASE buf' = buf /\ localBot' = localBot /\ Goto(w, "drained")
    BY <1>7, <2>1 DEF pop_local, Goto, TypeOK, Pcs, queues, popVars, stealVars
  <2>2. CASE /\ localBot' = [localBot EXCEPT ![w] = decrement_index(ownBottom(w))]
             /\ buf' = [buf EXCEPT ![w] = Append(buf[w], Bottom(localBot'[w]))]
             /\ Goto(w, "fence")
    <3>1. localBot' \in [Workers -> Index] /\ localBot'[w] \in Index
      BY <1>2, <2>2 DEF TypeOK
    <3>2. buf' \in [Workers -> Seq(Stores)]
      BY <1>5, <2>2, <3>1, NewStores DEF TypeOK
    <3>3. pc' \in [Workers -> Pcs]
      BY <2>2 DEF Goto, TypeOK, Pcs, PopPcs
    <3> QED BY <1>7, <3>1, <3>2, <3>3 DEF pop_local, TypeOK, queues, stealVars
  <2> QED BY <1>7, <2>1, <2>2 DEF pop_local
<1>8. ASSUME NEW t \in Tasks \cup {Roots, None}, Got(w, t, "local")
      PROVE  /\ pc' \in [Workers -> Pcs] /\ back' \in [Workers -> {"overflow", "local"}]
             /\ task' \in [Workers -> Tasks \cup {Roots, None}]
             /\ localBot' \in [Workers -> Index] /\ oldAge' \in [Workers -> Ages]
  BY <1>3, <1>8 DEF Got, Goto, Forget, TypeOK, Pcs
<1>9. ASSUME NEW a \in Ages, Lose(w, a)
      PROVE  /\ pc' \in [Workers -> Pcs] /\ buf' \in [Workers -> Seq(Stores)]
             /\ localBot' \in [Workers -> Index] /\ oldAge' \in [Workers -> Ages]
             /\ back' = back /\ task' = task
  <2>1. Append(buf[w], AgeStore(a)) \in Seq(Stores)
    BY <1>5, NewStores
  <2> QED BY <1>3, <1>9, <2>1 DEF Lose, Goto, Forget, TypeOK, Pcs
<1>10. CASE Reread(w)
  <2>1. CASE Got(w, _elems[w][localBot[w]], "local")
    BY <1>4, <1>8, <1>10, <2>1 DEF Reread, TypeOK, queues, stealVars
  <2>2. CASE Goto(w, "slow") /\ UNCHANGED <<back, task, popVars>>
    BY <1>10, <2>2 DEF Reread, Goto, TypeOK, Pcs, PopPcs, queues, stealVars, popVars
  <2> QED BY <1>10, <2>1, <2>2 DEF Reread
<1>11. CASE ReadAge(w)
  <2>1. CASE /\ oldAge' = [oldAge EXCEPT ![w] = _age[w]]
             /\ Goto(w, "cas") /\ UNCHANGED <<buf, back, task, localBot>>
    BY <1>4, <1>11, <2>1 DEF ReadAge, Goto, TypeOK, Pcs, PopPcs, queues, stealVars
  <2>2. CASE Lose(w, NewAge(localBot[w], _age[w].tag))
    BY <1>6, <1>9, <1>11, <2>2 DEF ReadAge, TypeOK, queues, stealVars
  <2> QED BY <1>11, <2>1, <2>2 DEF ReadAge
<1>12. CASE pop_local_slow(w)
  <2>1. CASE /\ _age' = [_age EXCEPT ![w] = NewAge(localBot[w], oldAge[w].tag)]
             /\ Got(w, _elems[w][localBot[w]], "local") /\ UNCHANGED buf
    BY <1>4, <1>6, <1>8, <1>12, <2>1 DEF pop_local_slow, TypeOK, stealVars
  <2>2. CASE Lose(w, NewAge(localBot[w], oldAge[w].tag)) /\ UNCHANGED _age
    BY <1>6, <1>9, <1>12, <2>2 DEF pop_local_slow, TypeOK, stealVars
  <2> QED BY <1>12, <2>1, <2>2 DEF pop_local_slow
<1> QED BY <1>7, <1>10, <1>11, <1>12

\* A store that reaches memory keeps the types.
LEMMA TypeDrain ==
  ASSUME TypeOK, NEW w \in Workers, Drain(w)
  PROVE  TypeOK'
<1> DEFINE s == Head(buf[w])
<1>1. buf[w] \in Seq(Stores) /\ buf[w] # <<>>
  BY DEF TypeOK, Drain
<1>2. s \in Stores /\ Tail(buf[w]) \in Seq(Stores)
  BY SMTT(30), <1>1
<1> HIDE DEF s
<1>3. /\ s.to = "bottom" => s.val \in Index
      /\ s.to = "age" => s.val \in Ages
      /\ s.to = "elem" => s.at \in Index /\ s.val \in Tasks
  BY <1>2, StoreFacts
<1>4. /\ _bottom' = IF s.to = "bottom" THEN [_bottom EXCEPT ![w] = s.val] ELSE _bottom
      /\ _age' = IF s.to = "age" THEN [_age EXCEPT ![w] = s.val] ELSE _age
      /\ _elems' = IF s.to = "elem" THEN [_elems EXCEPT ![w][s.at] = s.val] ELSE _elems
      /\ buf' = [buf EXCEPT ![w] = Tail(buf[w])]
  BY DEF Drain, s
<1>5. _bottom' \in [Workers -> Index] /\ _age' \in [Workers -> Ages]
  BY <1>3, <1>4 DEF TypeOK
<1>6. _elems' \in [Workers -> [Index -> Tasks \cup {None}]]
  BY SMTT(30), <1>3, <1>4 DEF TypeOK
<1>7. buf' \in [Workers -> Seq(Stores)]
  BY <1>2, <1>4 DEF TypeOK
<1> QED BY <1>5, <1>6, <1>7 DEF Drain, TypeOK, popVars, stealVars

\* The steps outside of the pops.
LEMMA TypeOutside ==
  ASSUME TypeOK, NEW w \in Workers,
         \/ Processed(w) \/ pop_overflow(w) \/ Drained(w) \/ steal(w) \/ ReadBottom(w)
         \/ ReadElem(w) \/ pop_global(w) \/ offer_termination(w) \/ Check(w)
         \/ PeekBottom(w) \/ PeekTop(w) \/ Withdraw(w)
  PROVE  TypeOK'
<1>1. /\ 0 \in Index /\ NoAge \in Ages /\ 0 \in Nat /\ tries[w] + 1 \in Nat
  <2>1. tries[w] \in Nat
    BY DEF TypeOK
  <2> QED BY SMTT(30), <2>1, NAssumption DEF Index, Ages, NoAge
<1>2. /\ victim[w] \in Workers /\ oldAge[w] \in Ages /\ task[w] \in Tasks \cup {Roots, None}
      /\ back[w] \in {"overflow", "local"} /\ next[w] \subseteq Workers
      /\ overflow[w] \in Seq(Tasks)
  BY DEF TypeOK
<1>3. ASSUME NEW l \in Pcs, Goto(w, l) PROVE pc' \in [Workers -> Pcs]
  BY <1>3 DEF Goto, TypeOK
<1>4. ASSUME Forget(w) PROVE localBot' \in [Workers -> Index] /\ oldAge' \in [Workers -> Ages]
  BY <1>1, <1>4 DEF Forget, TypeOK
<1>5. {"work", "overflow", "local", "drained"} \cup IdlePcs \subseteq Pcs
  BY DEF Pcs
<1>6. ASSUME NEW t \in Tasks \cup {Roots, None}, Got(w, t, "overflow")
      PROVE  /\ pc' \in [Workers -> Pcs] /\ back' \in [Workers -> {"overflow", "local"}]
             /\ task' \in [Workers -> Tasks \cup {Roots, None}]
             /\ localBot' \in [Workers -> Index] /\ oldAge' \in [Workers -> Ages]
  BY <1>3, <1>4, <1>5, <1>6 DEF Got, TypeOK
<1>7. ASSUME Failed(w)
      PROVE  /\ pc' \in [Workers -> Pcs] /\ back' = back
             /\ task' \in [Workers -> Tasks \cup {Roots, None}]
             /\ localBot' \in [Workers -> Index] /\ oldAge' \in [Workers -> Ages]
             /\ victim' \in [Workers -> Workers] /\ tries' \in [Workers -> Nat]
  BY <1>1, <1>3, <1>4, <1>5, <1>7 DEF Failed, TypeOK, IdlePcs
<1>8. CASE Processed(w)
  <2>1. pc' \in [Workers -> Pcs]
    BY <1>2, <1>3, <1>5, <1>8 DEF Processed
  <2> QED BY <1>8, <2>1 DEF Processed, TypeOK, queues, popVars, stealVars
<1>9. CASE pop_overflow(w)
  <2>1. CASE overflow[w] = <<>>
    <3>1. pc' \in [Workers -> Pcs]
      BY <1>3, <1>5, <1>9, <2>1 DEF pop_overflow
    <3> QED BY <1>9, <2>1, <3>1 DEF pop_overflow, TypeOK, queues, popVars, stealVars
  <2>2. CASE overflow[w] # <<>>
    <3>1. /\ overflow[w][Len(overflow[w])] \in Tasks
          /\ SubSeq(overflow[w], 1, Len(overflow[w]) - 1) \in Seq(Tasks)
      BY <1>2, <2>2, Popped
    <3>2. /\ Got(w, overflow[w][Len(overflow[w])], "overflow")
          /\ overflow' = [overflow EXCEPT ![w] = SubSeq(overflow[w], 1, Len(overflow[w]) - 1)]
      BY <1>9, <2>2 DEF pop_overflow
    <3>3. overflow' \in [Workers -> Seq(Tasks)]
      BY <3>1, <3>2 DEF TypeOK
    <3> QED BY <1>6, <1>9, <3>1, <3>2, <3>3 DEF pop_overflow, TypeOK, queues, stealVars
  <2> QED BY <2>1, <2>2
<1>10. CASE Drained(w)
  <2>1. pc' \in [Workers -> Pcs]
    BY <1>3, <1>5, <1>10 DEF Drained, IdlePcs
  <2> QED BY <1>10, <2>1 DEF Drained, TypeOK, queues, popVars, stealVars
<1>11. CASE steal(w)
  <2>1. pc' \in [Workers -> Pcs]
    BY <1>3, <1>5, <1>11 DEF steal, IdlePcs
  <2>2. /\ victim' \in [Workers -> Workers] /\ oldAge' \in [Workers -> Ages]
        /\ tries' \in [Workers -> Nat]
    <3>1. CASE tries[w] < 2 * Cardinality(Workers) /\ tries' = tries
      <4>1. ASSUME NEW v \in Workers, victim' = [victim EXCEPT ![w] = v],
                   oldAge' = [oldAge EXCEPT ![w] = _age[v]]
            PROVE  victim' \in [Workers -> Workers] /\ oldAge' \in [Workers -> Ages]
        BY <4>1 DEF TypeOK
      <4>2. CASE victim' = victim /\ oldAge' = oldAge
        BY <3>1, <4>2 DEF TypeOK
      <4> QED BY <1>11, <3>1, <4>1, <4>2 DEF steal, TypeOK
    <3>2. CASE tries' = [tries EXCEPT ![w] = 0] /\ victim' = victim /\ oldAge' = oldAge
      BY <1>1, <3>2 DEF TypeOK
    <3> QED BY <1>11, <3>1, <3>2 DEF steal
  <2> QED BY <1>11, <2>1, <2>2 DEF steal, TypeOK, queues
<1>12. CASE ReadBottom(w)
  <2>1. CASE Failed(w)
    BY <1>7, <1>12, <2>1 DEF ReadBottom, TypeOK, queues
  <2>2. CASE Goto(w, "readElem") /\ UNCHANGED <<back, task, popVars, stealVars>>
    <3>1. pc' \in [Workers -> Pcs]
      BY <1>3, <1>5, <2>2 DEF IdlePcs
    <3> QED BY <1>12, <2>2, <3>1 DEF ReadBottom, TypeOK, queues, popVars, stealVars
  <2> QED BY <1>12, <2>1, <2>2 DEF ReadBottom
<1>13. CASE ReadElem(w)
  <2>1. pc' \in [Workers -> Pcs]
    BY <1>3, <1>5, <1>13 DEF ReadElem, IdlePcs
  <2>2. _elems[victim[w]][oldAge[w].top] \in Tasks \cup {Roots, None}
    <3>1. oldAge[w].top \in Index /\ _elems[victim[w]] \in [Index -> Tasks \cup {None}]
      BY <1>2 DEF TypeOK, Ages
    <3> QED BY <3>1
  <2> QED BY <1>13, <2>1, <2>2 DEF ReadElem, TypeOK, queues, popVars, stealVars
<1>14. CASE pop_global(w)
  <2>1. CASE _age[victim[w]] = oldAge[w]
    <3>1. /\ _age' = [_age EXCEPT ![victim[w]] = Increment(_age[victim[w]])]
          /\ Got(w, task[w], "overflow") /\ tries' = [tries EXCEPT ![w] = 0]
          /\ victim' = [victim EXCEPT ![w] = w]
      BY <1>14, <2>1 DEF pop_global
    <3>2. _age' \in [Workers -> Ages]
      <4>1. Increment(_age[victim[w]]) \in Ages
        BY <1>1, <1>2, <2>1, AgesClosed
      <4> QED BY <1>2, <3>1, <4>1 DEF TypeOK
    <3>3. tries' \in [Workers -> Nat] /\ victim' \in [Workers -> Workers]
      BY <1>1, <3>1 DEF TypeOK
    <3> QED BY <1>2, <1>6, <1>14, <3>1, <3>2, <3>3 DEF pop_global, TypeOK
  <2>2. CASE _age[victim[w]] # oldAge[w]
    <3>1. Failed(w) /\ _age' = _age
      BY <1>14, <2>2 DEF pop_global
    <3> QED BY <1>7, <1>14, <3>1 DEF pop_global, TypeOK
  <2> QED BY <2>1, <2>2
<1>15. CASE offer_termination(w)
  <2>1. pc' \in [Workers -> Pcs]
    BY <1>3, <1>5, <1>15 DEF offer_termination, IdlePcs, OfferPcs
  <2> QED BY <1>15, <2>1 DEF offer_termination, TypeOK, queues, popVars, stealVars
<1>16. CASE Check(w)
  <2>1. pc' \in [Workers -> Pcs]
    BY <1>3, <1>5, <1>16 DEF Check, IdlePcs, OfferPcs
  <2>2. next' \in [Workers -> SUBSET Workers]
    BY <1>16 DEF Check, TypeOK
  <2> QED BY <1>16, <2>1, <2>2 DEF Check, TypeOK, queues, popVars, stealVars
<1>17. CASE PeekBottom(w)
  <2>1. pc' \in [Workers -> Pcs]
    BY <1>3, <1>5, <1>17 DEF PeekBottom, IdlePcs, OfferPcs
  <2>2. victim' \in [Workers -> Workers] /\ localBot' \in [Workers -> Index]
    <3>1. CASE next[w] = {}
      BY <1>17, <3>1 DEF PeekBottom, TypeOK
    <3>2. CASE next[w] # {}
      <4>1. PICK q \in next[w] : /\ victim' = [victim EXCEPT ![w] = q]
                                /\ localBot' = [localBot EXCEPT ![w] = _bottom[q]]
        BY <1>17, <3>2 DEF PeekBottom
      <4>2. q \in Workers /\ _bottom[q] \in Index
        BY <1>2 DEF TypeOK
      <4> QED BY <4>1, <4>2 DEF TypeOK
    <3> QED BY <3>1, <3>2
  <2> QED BY <1>17, <2>1, <2>2 DEF PeekBottom, TypeOK, queues
<1>18. CASE PeekTop(w)
  <2>1. pc' \in [Workers -> Pcs]
    BY <1>3, <1>5, <1>18 DEF PeekTop, IdlePcs, OfferPcs
  <2>2. next' \in [Workers -> SUBSET Workers] /\ victim' \in [Workers -> Workers]
    <3>1. next[w] \ {victim[w]} \in SUBSET Workers /\ {} \in SUBSET Workers
      BY <1>2
    <3>2. \A n \in SUBSET Workers : [next EXCEPT ![w] = n] \in [Workers -> SUBSET Workers]
      BY DEF TypeOK
    <3>3. \/ next' = [next EXCEPT ![w] = {}]
          \/ next' = [next EXCEPT ![w] = next[w] \ {victim[w]}]
      BY <1>18 DEF PeekTop
    <3>4. next' \in [Workers -> SUBSET Workers]
      BY <3>1, <3>2, <3>3
    <3>5. victim' \in [Workers -> Workers]
      BY <1>18 DEF PeekTop, TypeOK
    <3> QED BY <3>4, <3>5
  <2>3. localBot' \in [Workers -> Index] /\ oldAge' \in [Workers -> Ages]
    BY <1>4, <1>18 DEF PeekTop
  <2> QED BY <1>18, <2>1, <2>2, <2>3 DEF PeekTop, TypeOK, queues
<1>19. CASE Withdraw(w)
  <2>1. pc' \in [Workers -> Pcs]
    BY <1>3, <1>5, <1>19 DEF Withdraw, IdlePcs
  <2> QED BY <1>19, <2>1 DEF Withdraw, TypeOK, queues, popVars, stealVars
<1> QED BY <1>8, <1>9, <1>10, <1>11, <1>12, <1>13, <1>14, <1>15, <1>16, <1>17, <1>18, <1>19
=============================================================================
