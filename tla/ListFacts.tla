------------------------------ MODULE ListFacts ------------------------------
(***************************************************************************)
(* What pushing, appending, popping, unlinking and concatenating do to the *)
(* elements of a list without duplicates.                                  *)
(***************************************************************************)
EXTENDS Lists, TLAPS

\* The prover of every leaf that does not name one.
USE ZenonT(60)

\* Lists stay lists when an element is pushed, appended or unlinked.
LEMMA ListType ==
  ASSUME NEW S, NEW s \in Seq(S)
  PROVE  /\ \A e \in S : <<e>> \o s \in Seq(S)
         /\ s # <<>> => Head(s) \in S /\ Tail(s) \in Seq(S)
         /\ \A i \in DOMAIN s : Omit(s, i) \in Seq(S)
<1>1. \A e \in S : <<e>> \o s \in Seq(S)
  BY SMTT(60)
<1>2. s # <<>> => Head(s) \in S /\ Tail(s) \in Seq(S)
  BY SMTT(60)
<1>3. ASSUME NEW i \in DOMAIN s PROVE Omit(s, i) \in Seq(S)
  <2>1. Len(s) \in Nat /\ i \in 1 .. Len(s) /\ \A j \in 1 .. Len(s) : s[j] \in S
    BY SMTT(60)
  <2>2. Len(s) - 1 \in Nat
    BY SMTT(60), <2>1
  <2>3. \A j \in 1 .. Len(s) - 1 : (IF j < i THEN s[j] ELSE s[j + 1]) \in S
    BY SMTT(60), <2>1
  <2>4. Omit(s, i) \in [1 .. Len(s) - 1 -> S]
    BY <2>3 DEF Omit
  <2> QED BY SMTT(60), <2>2, <2>4
<1> QED BY <1>1, <1>2, <1>3

\* Pushing a new element.
LEMMA PushFacts ==
  ASSUME NEW S, NEW s \in Seq(S), NEW e \in S, Injective(s), e \notin In(s)
  PROVE  In(<<e>> \o s) = In(s) \cup {e} /\ Injective(<<e>> \o s)
<1> DEFINE p == <<e>> \o s
<1>1. /\ p \in Seq(S) /\ Len(p) = Len(s) + 1 /\ p[1] = e /\ Len(s) \in Nat
      /\ \A i \in 1 .. Len(s) : p[i + 1] = s[i]
  BY SMTT(60)
<1>2. DOMAIN p = 1 .. Len(s) + 1 /\ DOMAIN s = 1 .. Len(s)
  BY SMTT(60), <1>1
<1>3. \A j \in DOMAIN p : j = 1 \/ (j - 1 \in DOMAIN s /\ p[j] = s[j - 1])
  BY SMTT(60), <1>1, <1>2
<1>4. In(p) = In(s) \cup {e}
  <2>1. In(p) \subseteq In(s) \cup {e}
    BY SMTT(60), <1>1, <1>3 DEF In
  <2>2. \A i \in DOMAIN s : s[i] \in In(p)
    <3> TAKE i \in DOMAIN s
    <3>1. i + 1 \in DOMAIN p /\ p[i + 1] = s[i]
      BY SMTT(60), <1>1, <1>2
    <3> QED BY <3>1 DEF In
  <2>3. e \in In(p)
    BY SMTT(60), <1>1, <1>2 DEF In
  <2> QED BY <2>1, <2>2, <2>3 DEF In
<1>5. Injective(p)
  <2> SUFFICES ASSUME NEW i \in DOMAIN p, NEW j \in DOMAIN p, p[i] = p[j] PROVE i = j
    BY DEF Injective
  <2>1. CASE i = 1 \/ j = 1
    BY <1>1, <1>3, <2>1 DEF In
  <2>2. CASE i # 1 /\ j # 1
    BY SMTT(60), <1>2, <1>3, <2>2 DEF Injective
  <2> QED BY <2>1, <2>2
<1> QED BY <1>4, <1>5

\* Leaving out one element.
LEMMA LeaveOutFacts ==
  ASSUME NEW S, NEW s \in Seq(S), Injective(s), NEW i \in DOMAIN s,
         NEW p, DOMAIN p = 1 .. Len(s) - 1,
         \A j \in DOMAIN p : p[j] = IF j < i THEN s[j] ELSE s[j + 1]
  PROVE  In(p) = In(s) \ {s[i]} /\ Injective(p)
<1>1. Len(s) \in Nat /\ DOMAIN s = 1 .. Len(s)
  BY SMTT(60)
<1>2. /\ DOMAIN p = 1 .. Len(s) - 1
      /\ \A j \in DOMAIN p : p[j] = IF j < i THEN s[j] ELSE s[j + 1]
  OBVIOUS
<1> DEFINE k(j) == IF j < i THEN j ELSE j + 1
<1>3. \A j \in DOMAIN p : k(j) \in DOMAIN s /\ k(j) # i /\ p[j] = s[k(j)]
  BY SMTT(60), <1>1, <1>2
<1>4. In(p) \subseteq In(s) \ {s[i]}
  <2> SUFFICES ASSUME NEW j \in DOMAIN p PROVE p[j] \in In(s) /\ p[j] # s[i]
    BY DEF In
  <2> QED BY <1>3 DEF In, Injective
<1>5. ASSUME NEW j \in DOMAIN s, s[j] # s[i] PROVE s[j] \in In(p)
  <2>1. CASE j < i
    <3>1. j \in DOMAIN p /\ p[j] = s[j]
      BY SMTT(60), <1>1, <1>2, <2>1
    <3> QED BY <3>1 DEF In
  <2>2. CASE j > i
    <3>1. j - 1 \in DOMAIN p /\ p[j - 1] = s[j]
      BY SMTT(60), <1>1, <1>2, <2>2
    <3> QED BY <3>1 DEF In
  <2>3. j # i
    BY <1>5
  <2> QED BY SMTT(60), <1>1, <2>1, <2>2, <2>3
<1>6. In(p) = In(s) \ {s[i]}
  BY <1>4, <1>5 DEF In
<1>7. Injective(p)
  <2> SUFFICES ASSUME NEW a \in DOMAIN p, NEW b \in DOMAIN p, p[a] = p[b] PROVE a = b
    BY DEF Injective
  <2>1. k(a) = k(b)
    BY <1>3 DEF Injective
  <2> QED BY SMTT(60), <1>1, <1>2, <2>1
<1> QED BY <1>6, <1>7

\* Unlinking from the middle.
LEMMA OmitFacts ==
  ASSUME NEW S, NEW s \in Seq(S), Injective(s), NEW i \in DOMAIN s
  PROVE  In(Omit(s, i)) = In(s) \ {s[i]} /\ Injective(Omit(s, i))
<1>1. /\ DOMAIN Omit(s, i) = 1 .. Len(s) - 1
      /\ \A j \in DOMAIN Omit(s, i) : Omit(s, i)[j] = IF j < i THEN s[j] ELSE s[j + 1]
  BY DEF Omit
<1> QED BY <1>1, LeaveOutFacts

\* Popping the head.
LEMMA TailFacts ==
  ASSUME NEW S, NEW s \in Seq(S), Injective(s), s # <<>>
  PROVE  /\ In(Tail(s)) = In(s) \ {Head(s)} /\ Injective(Tail(s))
         /\ Head(s) \in In(s)
<1>1. Len(s) \in Nat /\ Len(s) # 0 /\ DOMAIN s = 1 .. Len(s) /\ Head(s) = s[1]
  BY SMTT(60)
<1>2. 1 \in DOMAIN s
  BY SMTT(60), <1>1
<1>3. /\ DOMAIN Tail(s) = 1 .. Len(s) - 1
      /\ \A j \in DOMAIN Tail(s) : Tail(s)[j] = IF j < 1 THEN s[j] ELSE s[j + 1]
  BY SMTT(60), <1>1
<1>4. In(Tail(s)) = In(s) \ {s[1]} /\ Injective(Tail(s))
  BY <1>2, <1>3, LeaveOutFacts
<1> QED BY <1>1, <1>2, <1>4 DEF In

\* Appending a new element.
LEMMA AppendFacts ==
  ASSUME NEW S, NEW s \in Seq(S), NEW e \in S, Injective(s), e \notin In(s)
  PROVE  In(Append(s, e)) = In(s) \cup {e} /\ Injective(Append(s, e))
<1> DEFINE p == Append(s, e)
<1>1. /\ DOMAIN s = 1 .. Len(s) /\ Len(s) \in Nat
      /\ DOMAIN p = 1 .. Len(s) + 1 /\ p[Len(s) + 1] = e
      /\ \A i \in DOMAIN s : p[i] = s[i]
  BY SMTT(60)
<1>2. /\ \A i \in DOMAIN p : i \in DOMAIN s \/ i = Len(s) + 1
      /\ \A i \in DOMAIN s : i \in DOMAIN p
      /\ Len(s) + 1 \in DOMAIN p
  BY SMTT(60), <1>1
<1>3. In(p) = In(s) \cup {e}
  BY <1>1, <1>2 DEF In
<1>4. Injective(p)
  BY <1>1, <1>2 DEF In, Injective
<1> QED BY <1>3, <1>4

\* Two lists with no element in common, one after the other.
LEMMA ConcatFacts ==
  ASSUME NEW S, NEW a \in Seq(S), NEW b \in Seq(S), Injective(a), Injective(b),
         In(a) \cap In(b) = {}
  PROVE  a \o b \in Seq(S) /\ In(a \o b) = In(a) \cup In(b) /\ Injective(a \o b)
<1> DEFINE p == a \o b
<1>1. /\ p \in Seq(S)
      /\ DOMAIN a = 1 .. Len(a) /\ Len(a) \in Nat
      /\ DOMAIN b = 1 .. Len(b) /\ Len(b) \in Nat
      /\ DOMAIN p = 1 .. Len(a) + Len(b)
      /\ \A i \in DOMAIN a : p[i] = a[i]
      /\ \A i \in DOMAIN b : p[Len(a) + i] = b[i]
  BY SMTT(60)
<1>2. /\ \A i \in DOMAIN p : i \in DOMAIN a \/ i - Len(a) \in DOMAIN b
      /\ \A i \in DOMAIN p : i - Len(a) \in DOMAIN b => p[i] = b[i - Len(a)]
      /\ \A i \in DOMAIN a : i \in DOMAIN p
      /\ \A i \in DOMAIN b : Len(a) + i \in DOMAIN p
  BY SMTT(60), <1>1
<1>3. \A i, j \in DOMAIN p : i - Len(a) = j - Len(a) => i = j
  BY SMTT(60), <1>1
<1>4. In(p) = In(a) \cup In(b)
  <2>1. \A i \in DOMAIN a : a[i] \in In(p)
    BY <1>1, <1>2 DEF In
  <2>2. \A i \in DOMAIN b : b[i] \in In(p)
    BY <1>1, <1>2 DEF In
  <2>3. \A i \in DOMAIN p : p[i] \in In(a) \/ p[i] \in In(b)
    BY <1>1, <1>2 DEF In
  <2> QED BY <2>1, <2>2, <2>3 DEF In
<1>5. Injective(p)
  <2> SUFFICES ASSUME NEW i \in DOMAIN p, NEW j \in DOMAIN p, p[i] = p[j] PROVE i = j
    BY DEF Injective
  <2>1. CASE i \in DOMAIN a /\ j \in DOMAIN a
    BY <1>1, <2>1 DEF Injective
  <2>2. CASE i - Len(a) \in DOMAIN b /\ j - Len(a) \in DOMAIN b
    BY <1>2, <1>3, <2>2 DEF Injective
  <2>3. CASE i \in DOMAIN a /\ j - Len(a) \in DOMAIN b
    BY <1>1, <1>2, <2>3 DEF In
  <2>4. CASE j \in DOMAIN a /\ i - Len(a) \in DOMAIN b
    BY <1>1, <1>2, <2>4 DEF In
  <2> QED BY <1>2, <2>1, <2>2, <2>3, <2>4
<1> QED BY <1>1, <1>4, <1>5

=============================================================================
