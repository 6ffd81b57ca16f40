--------------------------- MODULE MapReduceProofs ---------------------------
(***************************************************************************)
(* Proofs about MapReduce: for every number of mappers and of reducers,    *)
(* every input and every hash function, the engine counts each word        *)
(* exactly and writes it to one file, once.                                *)
(***************************************************************************)
EXTENDS MapReduce, Integers, FiniteSetTheorems, SequenceTheorems,
        WellFoundedInduction, TLAPS

-------------------------------------------------------------------------------
(* Induction over an interval, and functions defined along one             *)

\* A set of natural numbers that is not empty has a least element.
LEMMA LeastNumber ==
    ASSUME NEW T, T \subseteq Nat, T # {}
    PROVE  \E x \in T : \A y \in T : ~(y < x)
<1>1. IsWellFoundedOn(OpToRel(<, Nat), Nat)
  BY NatLessThanWellFounded, Zenon
<1> DEFINE less == OpToRel(<, Nat)
<1>2. \A x, y \in Nat : y < x => <<y, x>> \in less
  BY DEF OpToRel
<1> HIDE DEF less
<1>3. IsWellFoundedOn(less, Nat)
  BY <1>1, Zenon DEF less
<1>4. \E x \in T : \A y \in T : ~(<<y, x>> \in less)
  BY <1>3, WFMin
<1> QED BY <1>2, <1>4

\* A set that holds lo, and with each number below hi the next, holds them all.
LEMMA Ascend ==
    ASSUME NEW lo \in Int, NEW hi \in Int, NEW S,
           lo \in S, \A n \in lo .. hi - 1 : n \in S => n + 1 \in S
    PROVE  lo .. hi \subseteq S
<1> SUFFICES ASSUME NEW z \in lo .. hi, z \notin S PROVE FALSE
  OBVIOUS
<1> DEFINE T == {n \in Nat : lo + n =< hi /\ lo + n \notin S}
<1>1. z - lo \in T
  <2>1. z - lo \in Nat /\ lo + (z - lo) = z
    OBVIOUS
  <2> QED BY <2>1
<1>2. PICK x \in T : \A y \in T : ~(y < x)
  BY <1>1, LeastNumber
<1> HIDE DEF T
<1>3. x \in Nat /\ lo + x =< hi /\ lo + x \notin S
  BY <1>2 DEF T
<1>4. x # 0
  BY <1>3
<1>5. x - 1 \in Nat /\ lo + (x - 1) \in lo .. hi - 1 /\ (lo + (x - 1)) + 1 = lo + x
  BY <1>3, <1>4
<1>6. x - 1 \notin T
  BY <1>2, <1>3
<1>7. lo + (x - 1) \in S
  BY <1>5, <1>6 DEF T
<1> QED BY <1>3, <1>5, <1>7

\* The functions over an interval that start with a and take a step of A at
\* every number after: there is one.
Steps(lo, hi, A) == [lo + 1 .. hi -> [A -> A]]
Runs(lo, hi, A, a, step) ==
    {f \in [lo .. hi -> A] :
        f[lo] = a /\ \A i \in lo + 1 .. hi : f[i] = step[i][f[i - 1]]}

\* Such a function exists, by induction on hi.
LEMMA Iterates ==
    ASSUME NEW lo \in Int, NEW hi \in Int, lo =< hi,
           NEW A, NEW a \in A, NEW step \in Steps(lo, hi, A)
    PROVE  Runs(lo, hi, A, a, step) # {}
<1> USE DEF Steps
<1> DEFINE Follows(g, n) ==
              /\ g[lo] = a
              /\ \A i \in lo + 1 .. n : g[i] = step[i][g[i - 1]]
           S == {n \in lo .. hi : \E g \in [lo .. n -> A] : Follows(g, n)}
<1>1. lo \in S
  <2> DEFINE g == [i \in lo .. lo |-> a]
  <2>1. g \in [lo .. lo -> A] /\ Follows(g, lo)
    OBVIOUS
  <2> QED BY <2>1
<1>2. ASSUME NEW n \in lo .. hi - 1, n \in S
      PROVE  n + 1 \in S
  <2>1. PICK g \in [lo .. n -> A] : Follows(g, n)
    BY <1>2
  <2> HIDE DEF S
  <2> DEFINE h == [i \in lo .. n + 1 |-> IF i =< n THEN g[i] ELSE step[i][g[n]]]
  <2>2. step[n + 1] \in [A -> A] /\ g[n] \in A
    OBVIOUS
  <2>3. h \in [lo .. n + 1 -> A]
    <3> SUFFICES ASSUME NEW i \in lo .. n + 1
                 PROVE  (IF i =< n THEN g[i] ELSE step[i][g[n]]) \in A
      OBVIOUS
    <3>1. CASE i =< n
      BY <3>1
    <3>2. CASE ~(i =< n)
      <4>1. i = n + 1
        BY <3>2
      <4> QED BY <3>2, <4>1, <2>2
    <3> QED BY <3>1, <3>2
  <2>4. h[lo] = a
    BY <2>1
  <2>5. ASSUME NEW i \in lo + 1 .. n + 1
        PROVE  h[i] = step[i][h[i - 1]]
    <3>1. h[i - 1] = g[i - 1]
      OBVIOUS
    <3>2. CASE i =< n
      BY <3>1, <3>2, <2>1
    <3>3. CASE i = n + 1
      BY <3>1, <3>3
    <3> QED BY <3>2, <3>3
  <2>6. Follows(h, n + 1)
    BY <2>4, <2>5
  <2>7. n + 1 \in lo .. hi
    OBVIOUS
  <2> QED BY <2>3, <2>6, <2>7 DEF S
<1>3. hi \in S
  <2> HIDE DEF S
  <2>1. lo .. hi \subseteq S
    BY <1>1, <1>2, Ascend
  <2> QED BY <2>1
<1>4. PICK f \in [lo .. hi -> A] : Follows(f, hi)
  BY <1>3
<1> QED BY <1>4 DEF Runs

\* What holds of the empty sequence and survives Append holds of all sequences.
LEMMA SequenceInduction ==
    ASSUME NEW X, NEW Q,
           <<>> \in Q, \A s \in Seq(X), e \in X : s \in Q => Append(s, e) \in Q
    PROVE  Seq(X) \subseteq Q
<1> SUFFICES ASSUME NEW t \in Seq(X)
             PROVE  t \in Q
  OBVIOUS
<1> DEFINE S == {n \in Nat : \A s \in Seq(X) : Len(s) = n => s \in Q}
<1>1. 0 \in S
  <2>1. ASSUME NEW s \in Seq(X), Len(s) = 0
        PROVE  s = <<>>
    BY <2>1, EmptySeq
  <2> QED BY <2>1
<1>2. ASSUME NEW n \in 0 .. Len(t) - 1, n \in S
      PROVE  n + 1 \in S
  <2>1. ASSUME NEW s \in Seq(X), Len(s) = n + 1
        PROVE  s \in Q
    <3>1. s # <<>>
      BY <2>1
    <3>2. PICK u \in Seq(X), e \in X : s = Append(u, e)
      BY <3>1, SequenceEmptyOrAppend
    <3>3. Len(u) = n
      BY <2>1, <3>2
    <3> QED BY <3>2, <3>3, <1>2
  <2>2. n + 1 \in Nat
    OBVIOUS
  <2> QED BY <2>1, <2>2
<1> HIDE DEF S
<1>3. 0 \in Int /\ Len(t) \in Int /\ Len(t) \in 0 .. Len(t)
  OBVIOUS
<1>4. 0 .. Len(t) \subseteq S
  BY <1>1, <1>2, <1>3, Ascend
<1> QED BY <1>3, <1>4 DEF S

-------------------------------------------------------------------------------
(* What the sequential parts of the engine return                          *)

\* Gather walks its sequence, and keeps an element or drops it at every place.
GatherRuns(X, s, K) ==
    {f \in [0 .. Len(s) -> Seq(X)] :
        /\ f[0] = <<>>
        /\ \A i \in 1 .. Len(s) :
              f[i] = IF i \in K THEN Append(f[i - 1], s[i]) ELSE f[i - 1]}

\* Gather returns the last value of such a walk.
LEMMA GatherSteps ==
    ASSUME NEW X, NEW s \in Seq(X), NEW K
    PROVE  \E f \in GatherRuns(X, s, K) : Gather(s, K) = f[Len(s)]
<1> DEFINE Body(f) == [i \in 0 .. Len(s) |->
                         IF i = 0 THEN <<>>
                         ELSE IF i \in K THEN Append(f[i - 1], s[i]) ELSE f[i - 1]]
           step == [i \in 0 + 1 .. Len(s) |-> [c \in Seq(X) |->
                         IF i \in K THEN Append(c, s[i]) ELSE c]]
           G == CHOOSE f : f = Body(f)
<1>1. 0 \in Int /\ Len(s) \in Int /\ 0 =< Len(s) /\ <<>> \in Seq(X)
  OBVIOUS
<1>2. step \in Steps(0, Len(s), Seq(X))
  <2> SUFFICES ASSUME NEW i \in 0 + 1 .. Len(s), NEW c \in Seq(X)
               PROVE  (IF i \in K THEN Append(c, s[i]) ELSE c) \in Seq(X)
    BY DEF Steps
  <2>1. s[i] \in X
    OBVIOUS
  <2> QED BY <2>1
<1>3. PICK f : f \in Runs(0, Len(s), Seq(X), <<>>, step)
  <2> HIDE DEF step
  <2> QED BY <1>1, <1>2, Iterates
<1>4. /\ f \in [0 .. Len(s) -> Seq(X)]
      /\ f[0] = <<>>
      /\ \A i \in 1 .. Len(s) : f[i] = step[i][f[i - 1]]
  <2> HIDE DEF step
  <2> QED BY <1>3 DEF Runs
<1>5. ASSUME NEW i \in 1 .. Len(s)
      PROVE  f[i] = IF i \in K THEN Append(f[i - 1], s[i]) ELSE f[i - 1]
  <2>1. i \in 0 + 1 .. Len(s) /\ f[i - 1] \in Seq(X)
    BY <1>4
  <2> QED BY <1>4, <2>1
<1>6. f = Body(f)
  <2> HIDE DEF step
  <2>1. ASSUME NEW i \in 0 .. Len(s)
        PROVE  f[i] = Body(f)[i]
    <3>1. CASE i = 0
      BY <3>1, <1>4
    <3>2. CASE i \in 1 .. Len(s)
      BY <3>2, <1>5
    <3> QED BY <3>1, <3>2
  <2> QED BY <2>1, <1>4
<1>7. G = Body(G)
  <2> HIDE DEF Body
  <2> QED BY <1>6
<1>8. Gather(s, K) = G[Len(s)]
  BY DEF Gather
<1> HIDE DEF G, step
<1>9. \A i \in 0 .. Len(s) : G[i] = f[i]
  <2> DEFINE S == {i \in 0 .. Len(s) : G[i] = f[i]}
  <2>1. 0 \in S
    BY <1>4, <1>7
  <2>2. ASSUME NEW i \in 0 .. Len(s) - 1, i \in S
        PROVE  i + 1 \in S
    <3>1. i + 1 \in 1 .. Len(s) /\ i + 1 \in 0 .. Len(s) /\ (i + 1) - 1 = i
      OBVIOUS
    <3>2. G[i + 1] = Body(G)[i + 1]
      BY <1>7
    <3>3. Body(G)[i + 1] = IF i + 1 \in K THEN Append(G[i], s[i + 1]) ELSE G[i]
      BY <3>1
    <3>4. f[i + 1] = IF i + 1 \in K THEN Append(f[i], s[i + 1]) ELSE f[i]
      BY <3>1, <1>5
    <3> QED BY <3>1, <3>2, <3>3, <3>4, <2>2
  <2> HIDE DEF S
  <2>3. 0 .. Len(s) \subseteq S
    BY <1>1, <2>1, <2>2, Ascend
  <2> QED BY <2>3 DEF S
<1>10. Gather(s, K) = f[Len(s)]
  BY <1>1, <1>8, <1>9
<1> HIDE DEF Body
<1> QED BY <1>4, <1>5, <1>10 DEF GatherRuns

\* Gather is a sequence of the same elements, and goes on when its sequence does.
LEMMA GatherType ==
    ASSUME NEW X, NEW s \in Seq(X), NEW K
    PROVE  Gather(s, K) \in Seq(X)
<1>1. PICK f \in GatherRuns(X, s, K) : Gather(s, K) = f[Len(s)]
  BY GatherSteps
<1> QED BY <1>1 DEF GatherRuns

\* Nothing is gathered from the empty sequence.
LEMMA GatherEmpty ==
    ASSUME NEW K
    PROVE  Gather(<<>>, K) = <<>>
<1>1. <<>> \in Seq({}) /\ Len(<<>>) = 0
  OBVIOUS
<1>2. PICK f \in GatherRuns({}, <<>>, K) : Gather(<<>>, K) = f[Len(<<>>)]
  BY <1>1, GatherSteps
<1> QED BY <1>1, <1>2 DEF GatherRuns

\* One more element is gathered last, if its place is one of K.
LEMMA GatherAppend ==
    ASSUME NEW X, NEW s \in Seq(X), NEW e \in X, NEW K
    PROVE  Gather(Append(s, e), K) =
              IF Len(s) + 1 \in K THEN Append(Gather(s, K), e) ELSE Gather(s, K)
<1> DEFINE n == Len(s)
           t == Append(s, e)
<1>1. /\ t \in Seq(X) /\ Len(t) = n + 1 /\ t[n + 1] = e /\ n \in Nat
      /\ \A i \in 1 .. n : t[i] = s[i]
  OBVIOUS
<1> HIDE DEF t
<1>2. PICK f \in GatherRuns(X, s, K) : Gather(s, K) = f[n]
  BY GatherSteps
<1>3. PICK g \in GatherRuns(X, t, K) : Gather(t, K) = g[Len(t)]
  BY <1>1, GatherSteps
<1>4. /\ f[0] = <<>> /\ g[0] = <<>>
      /\ \A i \in 1 .. n : f[i] = IF i \in K THEN Append(f[i - 1], s[i]) ELSE f[i - 1]
      /\ \A i \in 1 .. n + 1 : g[i] = IF i \in K THEN Append(g[i - 1], t[i]) ELSE g[i - 1]
  BY <1>1 DEF GatherRuns
<1> HIDE DEF n
<1>5. \A i \in 0 .. n : g[i] = f[i]
  <2> DEFINE S == {i \in 0 .. n : g[i] = f[i]}
  <2>1. 0 \in S
    BY <1>1, <1>4
  <2>2. ASSUME NEW i \in 0 .. n - 1, i \in S
        PROVE  i + 1 \in S
    <3>1. i + 1 \in 1 .. n /\ i + 1 \in 1 .. n + 1 /\ i + 1 \in 0 .. n /\ (i + 1) - 1 = i
      BY <1>1
    <3> QED BY <3>1, <2>2, <1>1, <1>4
  <2>3. 0 \in Int /\ n \in Int
    BY <1>1
  <2> HIDE DEF S
  <2>4. 0 .. n \subseteq S
    BY <2>1, <2>2, <2>3, Ascend
  <2> QED BY <2>4 DEF S
<1>6. g[n] = f[n] /\ n + 1 \in 1 .. n + 1 /\ (n + 1) - 1 = n
  BY <1>1, <1>5
<1>7. g[n + 1] = IF n + 1 \in K THEN Append(f[n], e) ELSE f[n]
  BY <1>1, <1>4, <1>6
<1>8. Gather(t, K) = IF n + 1 \in K THEN Append(Gather(s, K), e) ELSE Gather(s, K)
  BY <1>1, <1>2, <1>3, <1>7
<1> QED BY <1>8 DEF t, n

-------------------------------------------------------------------------------
(* How often an element occurs in a sequence                               *)

Tally(s, x) == Cardinality({i \in DOMAIN s : s[i] = x})
Hit(e, x) == IF e = x THEN 1 ELSE 0

\* A tally is a number, and positive when x occurs.
LEMMA TallyType ==
    ASSUME NEW X, NEW s \in Seq(X), NEW x
    PROVE  /\ IsFiniteSet({i \in DOMAIN s : s[i] = x})
           /\ Tally(s, x) \in Nat
           /\ Tally(s, x) > 0 <=> \E i \in DOMAIN s : s[i] = x
<1> DEFINE I == {i \in DOMAIN s : s[i] = x}
<1>1. 1 \in Int /\ Len(s) \in Int /\ DOMAIN s = 1 .. Len(s)
  OBVIOUS
<1>2. IsFiniteSet(1 .. Len(s))
  BY <1>1, FS_Interval
<1>3. I \in SUBSET (1 .. Len(s))
  BY <1>1
<1> HIDE DEF I
<1>4. IsFiniteSet(I)
  BY <1>2, <1>3, FS_Subset
<1>5. Cardinality(I) \in Nat
  BY <1>4, FS_CardinalityType
<1>6. Cardinality(I) = 0 <=> I = {}
  BY <1>4, FS_EmptySet
<1>7. Cardinality(I) > 0 <=> I # {}
  BY <1>5, <1>6
<1> QED BY <1>4, <1>5, <1>7 DEF Tally, I

\* Nothing occurs in the empty sequence.
LEMMA TallyEmpty ==
    ASSUME NEW x
    PROVE  Tally(<<>>, x) = 0
<1>1. {i \in DOMAIN <<>> : <<>>[i] = x} = {}
  OBVIOUS
<1> QED BY <1>1, FS_EmptySet DEF Tally

\* One more element adds one to its own tally.
LEMMA TallyAppend ==
    ASSUME NEW X, NEW s \in Seq(X), NEW e \in X, NEW x
    PROVE  Tally(Append(s, e), x) = Tally(s, x) + Hit(e, x)
<1> DEFINE t == Append(s, e)
           n == Len(s)
           I == {i \in DOMAIN s : s[i] = x}
           J == {i \in DOMAIN t : t[i] = x}
<1>1. /\ n \in Nat /\ DOMAIN s = 1 .. n /\ DOMAIN t = 1 .. n + 1
      /\ t[n + 1] = e /\ \A i \in 1 .. n : t[i] = s[i]
  OBVIOUS
<1> HIDE DEF t, n
<1>2. IsFiniteSet(I) /\ Cardinality(I) \in Nat
  BY TallyType DEF Tally
<1>3. CASE e = x
  <2>1. J = I \cup {n + 1} /\ n + 1 \notin I
    BY <1>1, <1>3
  <2> HIDE DEF I, J
  <2>2. Cardinality(J) = Cardinality(I) + 1
    BY <1>2, <2>1, FS_AddElement
  <2> QED BY <1>3, <2>2 DEF Tally, Hit, I, J, t
<1>4. CASE e # x
  <2>1. J = I
    BY <1>1, <1>4
  <2> HIDE DEF I, J
  <2>2. Cardinality(J) = Cardinality(I) + 0
    BY <1>2, <2>1
  <2> QED BY <1>4, <2>2 DEF Tally, Hit, I, J, t
<1> QED BY <1>3, <1>4

\* The tally of a concatenation is the sum of the tallies.
LEMMA TallyConcat ==
    ASSUME NEW X, NEW s \in Seq(X), NEW t \in Seq(X), NEW x
    PROVE  Tally(s \o t, x) = Tally(s, x) + Tally(t, x)
<1> DEFINE Q == {u \in Seq(X) : Tally(s \o u, x) = Tally(s, x) + Tally(u, x)}
<1>1. <<>> \in Q
  <2>1. s \o <<>> = s /\ <<>> \in Seq(X)
    BY ConcatEmptySeq
  <2>2. Tally(s, x) \in Nat
    BY TallyType
  <2> QED BY <2>1, <2>2, TallyEmpty
<1>2. ASSUME NEW u \in Seq(X), NEW e \in X, u \in Q
      PROVE  Append(u, e) \in Q
  <2>1. s \o Append(u, e) = Append(s \o u, e) /\ s \o u \in Seq(X) /\ Append(u, e) \in Seq(X)
    OBVIOUS
  <2>2. Tally(Append(s \o u, e), x) = Tally(s \o u, x) + Hit(e, x)
    BY <2>1, TallyAppend, Zenon
  <2>3. Tally(Append(u, e), x) = Tally(u, x) + Hit(e, x)
    BY TallyAppend
  <2>4. Tally(s, x) \in Nat /\ Tally(u, x) \in Nat
    BY TallyType
  <2>5. Tally(s \o Append(u, e), x) = Tally(s, x) + Tally(Append(u, e), x)
    BY <1>2, <2>1, <2>2, <2>3, <2>4 DEF Hit
  <2> QED BY <2>1, <2>5
<1> HIDE DEF Q
<1>3. Seq(X) \subseteq Q
  BY <1>1, <1>2, SequenceInduction
<1> QED BY <1>3 DEF Q

\* Gathering keeps every occurrence of x if it takes every place that holds x,
\* and none if it takes no such place.
LEMMA TallyGather ==
    ASSUME NEW X, NEW s \in Seq(X), NEW K, NEW x
    PROVE  /\ (\A i \in DOMAIN s : s[i] = x => i \in K) =>
                  Tally(Gather(s, K), x) = Tally(s, x)
           /\ (\A i \in DOMAIN s : s[i] = x => i \notin K) =>
                  Tally(Gather(s, K), x) = 0
<1> DEFINE All(u) == \A i \in DOMAIN u : u[i] = x => i \in K
           None(u) == \A i \in DOMAIN u : u[i] = x => i \notin K
           Q == {u \in Seq(X) : /\ All(u) => Tally(Gather(u, K), x) = Tally(u, x)
                                /\ None(u) => Tally(Gather(u, K), x) = 0}
<1>1. <<>> \in Q
  <2>1. <<>> \in Seq(X)
    OBVIOUS
  <2> QED BY <2>1, GatherEmpty, TallyEmpty
<1>2. ASSUME NEW u \in Seq(X), NEW e \in X, u \in Q
      PROVE  Append(u, e) \in Q
  <2> DEFINE v == Append(u, e)
             n == Len(u) + 1
  <2>1. /\ v \in Seq(X) /\ DOMAIN u = 1 .. Len(u) /\ DOMAIN v = 1 .. n /\ n \in DOMAIN v
        /\ v[n] = e /\ \A i \in DOMAIN u : i \in DOMAIN v /\ v[i] = u[i]
    OBVIOUS
  <2> HIDE DEF n
  <2>2. /\ Gather(u, K) \in Seq(X)
        /\ Gather(v, K) = IF n \in K THEN Append(Gather(u, K), e) ELSE Gather(u, K)
    BY GatherType, GatherAppend DEF n
  <2>3. /\ Tally(Append(Gather(u, K), e), x) = Tally(Gather(u, K), x) + Hit(e, x)
        /\ Tally(v, x) = Tally(u, x) + Hit(e, x)
        /\ Tally(u, x) \in Nat /\ Tally(Gather(u, K), x) \in Nat
    BY <2>2, TallyAppend, TallyType, Zenon
  <2> HIDE DEF v
  <2>4. (All(v) => All(u)) /\ (None(v) => None(u))
    BY <2>1
  <2>5. (All(v) /\ e = x => n \in K) /\ (None(v) /\ e = x => n \notin K)
    BY <2>1
  <2> HIDE DEF All, None
  <2>6. All(v) => Tally(Gather(v, K), x) = Tally(v, x)
    BY <1>2, <2>2, <2>3, <2>4, <2>5 DEF Hit
  <2>7. None(v) => Tally(Gather(v, K), x) = 0
    BY <1>2, <2>2, <2>3, <2>4, <2>5 DEF Hit
  <2>8. v \in Q
    BY <2>1, <2>6, <2>7
  <2> QED BY <2>8 DEF v
<1> HIDE DEF Q
<1>3. Seq(X) \subseteq Q
  BY <1>1, <1>2, SequenceInduction
<1> QED BY <1>3 DEF Q

-------------------------------------------------------------------------------
(* The words of a sequence of lines                                        *)

FlattenRuns(X, ss) ==
    {f \in [1 .. Len(ss) -> Seq(X)] :
        /\ f[1] = ss[1]
        /\ \A i \in 2 .. Len(ss) : f[i] = f[i - 1] \o ss[i]}

\* FlattenSeq returns the last value of a run that appends line after line.
LEMMA FlattenSteps ==
    ASSUME NEW X, NEW ss \in Seq(Seq(X)), ss # <<>>
    PROVE  \E f \in FlattenRuns(X, ss) : FlattenSeq(ss) = f[Len(ss)]
<1> DEFINE Body(f) == [i \in 1 .. Len(ss) |->
                         IF i = 1 THEN ss[i] ELSE f[i - 1] \o ss[i]]
           step == [i \in 1 + 1 .. Len(ss) |-> [c \in Seq(X) |-> c \o ss[i]]]
           F == CHOOSE f : f = Body(f)
<1>1. 1 \in Int /\ Len(ss) \in Int /\ 1 =< Len(ss) /\ ss[1] \in Seq(X)
  OBVIOUS
<1>2. step \in Steps(1, Len(ss), Seq(X))
  <2> SUFFICES ASSUME NEW i \in 1 + 1 .. Len(ss), NEW c \in Seq(X)
               PROVE  c \o ss[i] \in Seq(X)
    BY DEF Steps
  <2>1. ss[i] \in Seq(X)
    OBVIOUS
  <2> QED BY <2>1
<1>3. PICK f : f \in Runs(1, Len(ss), Seq(X), ss[1], step)
  <2> HIDE DEF step
  <2> QED BY <1>1, <1>2, Iterates
<1>4. /\ f \in [1 .. Len(ss) -> Seq(X)]
      /\ f[1] = ss[1]
      /\ \A i \in 2 .. Len(ss) : f[i] = step[i][f[i - 1]]
  <2> HIDE DEF step
  <2> QED BY <1>3 DEF Runs
<1>5. ASSUME NEW i \in 2 .. Len(ss)
      PROVE  f[i] = f[i - 1] \o ss[i]
  <2>1. i \in 1 + 1 .. Len(ss) /\ i - 1 \in 1 .. Len(ss)
    OBVIOUS
  <2>2. f[i - 1] \in Seq(X)
    BY <1>4, <2>1
  <2> QED BY <1>4, <2>1, <2>2
<1>6. f = Body(f)
  <2> HIDE DEF step
  <2>1. ASSUME NEW i \in 1 .. Len(ss)
        PROVE  f[i] = Body(f)[i]
    <3>1. CASE i = 1
      BY <3>1, <1>4
    <3>2. CASE i \in 2 .. Len(ss)
      <4>1. f[i] = f[i - 1] \o ss[i]
        BY <3>2, <1>5, Zenon
      <4>2. i # 1
        BY <3>2
      <4> QED BY <4>1, <4>2
    <3> QED BY <3>1, <3>2
  <2> QED BY <2>1, <1>4
<1>7. F = Body(F)
  <2> HIDE DEF Body
  <2> QED BY <1>6
<1>8. FlattenSeq(ss) = F[Len(ss)]
  BY <1>1 DEF FlattenSeq
<1> HIDE DEF F, step
<1>9. \A i \in 1 .. Len(ss) : F[i] = f[i]
  <2> DEFINE S == {i \in 1 .. Len(ss) : F[i] = f[i]}
  <2>1. 1 \in S
    BY <1>1, <1>4, <1>7
  <2>2. ASSUME NEW i \in 1 .. Len(ss) - 1, i \in S
        PROVE  i + 1 \in S
    <3>1. i + 1 \in 2 .. Len(ss) /\ i + 1 \in 1 .. Len(ss) /\ (i + 1) - 1 = i
      OBVIOUS
    <3>2. F[i + 1] = Body(F)[i + 1]
      BY <1>7
    <3>3. Body(F)[i + 1] = F[i] \o ss[i + 1]
      <4>1. i + 1 # 1
        OBVIOUS
      <4> QED BY <3>1, <4>1
    <3>4. f[i + 1] = f[i] \o ss[i + 1]
      BY <3>1, <1>5
    <3> QED BY <3>1, <3>2, <3>3, <3>4, <2>2
  <2> HIDE DEF S
  <2>3. 1 .. Len(ss) \subseteq S
    BY <1>1, <2>1, <2>2, Ascend
  <2> QED BY <2>3 DEF S
<1>10. FlattenSeq(ss) = f[Len(ss)]
  BY <1>1, <1>8, <1>9
<1> HIDE DEF Body
<1> QED BY <1>4, <1>5, <1>10 DEF FlattenRuns

\* No lines, no words.
LEMMA FlattenEmpty == FlattenSeq(<<>>) = <<>>
  BY DEF FlattenSeq

\* The words of lines of X are words of X.
LEMMA FlattenType ==
    ASSUME NEW X, NEW ss \in Seq(Seq(X))
    PROVE  FlattenSeq(ss) \in Seq(X)
<1>1. CASE ss = <<>>
  <2>1. <<>> \in Seq(X)
    OBVIOUS
  <2> QED BY <1>1, <2>1, FlattenEmpty
<1>2. CASE ss # <<>>
  <2>1. PICK f \in FlattenRuns(X, ss) : FlattenSeq(ss) = f[Len(ss)]
    BY <1>2, FlattenSteps
  <2>2. Len(ss) \in 1 .. Len(ss)
    BY <1>2
  <2> QED BY <2>1, <2>2 DEF FlattenRuns
<1> QED BY <1>1, <1>2

\* The words of one more line come after the others.
LEMMA FlattenAppend ==
    ASSUME NEW X, NEW ss \in Seq(Seq(X)), NEW e \in Seq(X)
    PROVE  FlattenSeq(Append(ss, e)) = FlattenSeq(ss) \o e
<1> DEFINE n == Len(ss)
           t == Append(ss, e)
<1>1. /\ t \in Seq(Seq(X)) /\ t # <<>> /\ Len(t) = n + 1 /\ t[n + 1] = e /\ n \in Nat
      /\ \A i \in 1 .. n : t[i] = ss[i]
  <2> DEFINE Y == Seq(X)
  <2>1. ss \in Seq(Y) /\ e \in Y
    OBVIOUS
  <2> HIDE DEF Y
  <2>2. /\ t \in Seq(Y) /\ t # <<>> /\ Len(t) = n + 1 /\ t[n + 1] = e /\ n \in Nat
        /\ \A i \in 1 .. n : t[i] = ss[i]
    BY <2>1, AppendProperties
  <2> QED BY <2>2 DEF Y
<1> HIDE DEF t
<1>2. PICK g \in FlattenRuns(X, t) : FlattenSeq(t) = g[Len(t)]
  BY <1>1, FlattenSteps
<1>3. g[1] = t[1] /\ \A i \in 2 .. n + 1 : g[i] = g[i - 1] \o t[i]
  BY <1>1 DEF FlattenRuns
<1>4. CASE ss = <<>>
  <2>1. n = 0 /\ <<>> \o e = e
    BY <1>4, ConcatEmptySeq
  <2>2. FlattenSeq(t) = e
    BY <1>1, <1>2, <1>3, <2>1
  <2> QED BY <1>4, <2>1, <2>2, FlattenEmpty DEF t
<1>5. CASE ss # <<>>
  <2>1. PICK f \in FlattenRuns(X, ss) : FlattenSeq(ss) = f[n]
    BY <1>5, FlattenSteps
  <2>2. f[1] = ss[1] /\ \A i \in 2 .. n : f[i] = f[i - 1] \o ss[i]
    BY DEF FlattenRuns
  <2>3. n >= 1
    BY <1>5
  <2> HIDE DEF n
  <2>4. \A i \in 1 .. n : g[i] = f[i]
    <3> DEFINE S == {i \in 1 .. n : g[i] = f[i]}
    <3>1. 1 \in S
      BY <1>1, <1>3, <2>2, <2>3
    <3>2. ASSUME NEW i \in 1 .. n - 1, i \in S
          PROVE  i + 1 \in S
      <4>1. i + 1 \in 2 .. n /\ i + 1 \in 2 .. n + 1 /\ i + 1 \in 1 .. n /\ (i + 1) - 1 = i
        BY <1>1
      <4>2. g[i + 1] = g[i] \o t[i + 1] /\ f[i + 1] = f[i] \o ss[i + 1]
        BY <4>1, <1>3, <2>2
      <4>3. g[i] = f[i] /\ t[i + 1] = ss[i + 1]
        BY <4>1, <3>2, <1>1
      <4> QED BY <4>1, <4>2, <4>3
    <3>3. 1 \in Int /\ n \in Int
      BY <1>1
    <3> HIDE DEF S
    <3>4. 1 .. n \subseteq S
      BY <3>1, <3>2, <3>3, Ascend
    <3> QED BY <3>4 DEF S
  <2>5. n \in 1 .. n /\ n + 1 \in 2 .. n + 1 /\ (n + 1) - 1 = n
    BY <1>1, <2>3
  <2>6. g[n + 1] = f[n] \o e
    BY <1>1, <1>3, <2>4, <2>5
  <2>7. FlattenSeq(t) = FlattenSeq(ss) \o e
    BY <1>1, <1>2, <2>1, <2>6
  <2> QED BY <2>7 DEF t
<1> QED BY <1>4, <1>5

\* One more line adds its occurrences of x.
LEMMA TallyFlatten ==
    ASSUME NEW X, NEW ss \in Seq(Seq(X)), NEW e \in Seq(X), NEW x
    PROVE  Tally(FlattenSeq(Append(ss, e)), x) = Tally(FlattenSeq(ss), x) + Tally(e, x)
<1>1. FlattenSeq(ss) \in Seq(X) /\ FlattenSeq(Append(ss, e)) = FlattenSeq(ss) \o e
  BY FlattenType, FlattenAppend
<1> QED BY <1>1, TallyConcat

-------------------------------------------------------------------------------
(* The sum of F[0] to F[n - 1]                                             *)

Total(n, F) ==
    LET T[k \in 0 .. n] == IF k = 0 THEN 0 ELSE T[k - 1] + F[k - 1]
    IN  T[n]

Numbers(n, F) == \A k \in 0 .. n - 1 : F[k] \in Nat

TotalRuns(n, F) ==
    {f \in [0 .. n -> Nat] : f[0] = 0 /\ \A k \in 1 .. n : f[k] = f[k - 1] + F[k - 1]}

\* Total returns the last of the partial sums.
LEMMA TotalSteps ==
    ASSUME NEW n \in Nat, NEW F, Numbers(n, F)
    PROVE  \E f \in TotalRuns(n, F) : Total(n, F) = f[n]
<1> DEFINE Body(f) == [k \in 0 .. n |-> IF k = 0 THEN 0 ELSE f[k - 1] + F[k - 1]]
           step == [k \in 0 + 1 .. n |-> [c \in Nat |-> c + F[k - 1]]]
           T == CHOOSE f : f = Body(f)
<1>1. 0 \in Int /\ n \in Int /\ 0 =< n /\ 0 \in Nat
  OBVIOUS
<1>2. step \in Steps(0, n, Nat)
  <2> SUFFICES ASSUME NEW k \in 0 + 1 .. n, NEW c \in Nat
               PROVE  c + F[k - 1] \in Nat
    BY DEF Steps
  <2>1. F[k - 1] \in Nat
    BY DEF Numbers
  <2> QED BY <2>1
<1>3. PICK f : f \in Runs(0, n, Nat, 0, step)
  <2> HIDE DEF step
  <2> QED BY <1>1, <1>2, Iterates
<1>4. /\ f \in [0 .. n -> Nat]
      /\ f[0] = 0
      /\ \A k \in 1 .. n : f[k] = step[k][f[k - 1]]
  <2> HIDE DEF step
  <2> QED BY <1>3 DEF Runs
<1>5. ASSUME NEW k \in 1 .. n
      PROVE  f[k] = f[k - 1] + F[k - 1]
  <2>1. k \in 0 + 1 .. n /\ f[k - 1] \in Nat
    BY <1>4
  <2> QED BY <1>4, <2>1
<1>6. f = Body(f)
  <2> HIDE DEF step
  <2>1. ASSUME NEW k \in 0 .. n
        PROVE  f[k] = Body(f)[k]
    <3>1. CASE k = 0
      BY <3>1, <1>4
    <3>2. CASE k \in 1 .. n
      BY <3>2, <1>5
    <3> QED BY <3>1, <3>2
  <2> QED BY <2>1, <1>4
<1>7. T = Body(T)
  <2> HIDE DEF Body
  <2> QED BY <1>6
<1>8. Total(n, F) = T[n]
  BY DEF Total
<1> HIDE DEF T, step
<1>9. \A k \in 0 .. n : T[k] = f[k]
  <2> DEFINE S == {k \in 0 .. n : T[k] = f[k]}
  <2>1. 0 \in S
    BY <1>4, <1>7
  <2>2. ASSUME NEW k \in 0 .. n - 1, k \in S
        PROVE  k + 1 \in S
    <3>1. k + 1 \in 1 .. n /\ k + 1 \in 0 .. n /\ (k + 1) - 1 = k
      OBVIOUS
    <3>2. T[k + 1] = Body(T)[k + 1]
      BY <1>7
    <3>3. Body(T)[k + 1] = T[k] + F[k]
      BY <3>1
    <3>4. f[k + 1] = f[k] + F[k]
      BY <3>1, <1>5
    <3> QED BY <3>1, <3>2, <3>3, <3>4, <2>2
  <2> HIDE DEF S
  <2>3. 0 .. n \subseteq S
    BY <1>1, <2>1, <2>2, Ascend
  <2> QED BY <2>3 DEF S
<1>10. Total(n, F) = f[n]
  BY <1>1, <1>8, <1>9
<1> HIDE DEF Body
<1> QED BY <1>4, <1>5, <1>10 DEF TotalRuns

\* The sum of no numbers.
LEMMA TotalNone ==
    ASSUME NEW F
    PROVE  Total(0, F) = 0
<1>1. 0 \in Nat /\ Numbers(0, F)
  BY DEF Numbers
<1>2. PICK f \in TotalRuns(0, F) : Total(0, F) = f[0]
  BY <1>1, TotalSteps
<1> QED BY <1>2 DEF TotalRuns

\* The sum with one number more.
LEMMA TotalNext ==
    ASSUME NEW n \in Nat, NEW F, Numbers(n + 1, F)
    PROVE  Numbers(n, F) /\ Total(n, F) \in Nat /\ Total(n + 1, F) = Total(n, F) + F[n]
<1>1. n + 1 \in Nat /\ Numbers(n, F)
  BY DEF Numbers
<1>2. PICK f \in TotalRuns(n, F) : Total(n, F) = f[n]
  BY <1>1, TotalSteps
<1>3. PICK g \in TotalRuns(n + 1, F) : Total(n + 1, F) = g[n + 1]
  BY <1>1, TotalSteps
<1>4. /\ f[0] = 0 /\ g[0] = 0 /\ f \in [0 .. n -> Nat]
      /\ \A k \in 1 .. n : f[k] = f[k - 1] + F[k - 1]
      /\ \A k \in 1 .. n + 1 : g[k] = g[k - 1] + F[k - 1]
  BY DEF TotalRuns
<1>5. \A k \in 0 .. n : g[k] = f[k]
  <2> DEFINE S == {k \in 0 .. n : g[k] = f[k]}
  <2>1. 0 \in S
    BY <1>4
  <2>2. ASSUME NEW k \in 0 .. n - 1, k \in S
        PROVE  k + 1 \in S
    <3>1. k + 1 \in 1 .. n /\ k + 1 \in 1 .. n + 1 /\ k + 1 \in 0 .. n /\ (k + 1) - 1 = k
      OBVIOUS
    <3> QED BY <3>1, <2>2, <1>4
  <2> HIDE DEF S
  <2>3. 0 .. n \subseteq S
    BY <2>1, <2>2, Ascend
  <2> QED BY <2>3 DEF S
<1>6. g[n] = f[n] /\ n + 1 \in 1 .. n + 1 /\ (n + 1) - 1 = n /\ f[n] \in Nat
  BY <1>4, <1>5
<1>7. g[n + 1] = f[n] + F[n]
  BY <1>4, <1>6
<1> QED BY <1>1, <1>2, <1>3, <1>6, <1>7

\* Two sums whose summands are alike but for one differ by that one.
AlikeBut(n, F, G, j) == \A k \in 0 .. n - 1 : k # j => F[k] = G[k]

\* By induction on n: the sums agree up to j and differ by G[j] - F[j] after it.
LEMMA TotalAlike ==
    ASSUME NEW n \in Nat, NEW F, NEW G, NEW j \in Nat,
           Numbers(n, F), Numbers(n, G), AlikeBut(n, F, G, j)
    PROVE  Total(n, G) = IF j < n THEN (Total(n, F) + G[j]) - F[j] ELSE Total(n, F)
<1> DEFINE Same(k) == Total(k, G) = IF j < k THEN (Total(k, F) + G[j]) - F[j] ELSE Total(k, F)
           S == {k \in 0 .. n : Same(k)}
<1>1. 0 \in S
  <2>1. ~(j < 0)
    OBVIOUS
  <2>2. Total(0, F) = 0 /\ Total(0, G) = 0
    BY TotalNone
  <2> QED BY <2>1, <2>2
<1>2. ASSUME NEW k \in 0 .. n - 1, k \in S
      PROVE  k + 1 \in S
  <2>1. k \in Nat /\ Numbers(k + 1, F) /\ Numbers(k + 1, G) /\ F[k] \in Nat /\ G[k] \in Nat
    BY DEF Numbers
  <2>2. /\ Total(k, F) \in Nat /\ Total(k + 1, F) = Total(k, F) + F[k]
        /\ Total(k, G) \in Nat /\ Total(k + 1, G) = Total(k, G) + G[k]
    BY <2>1, TotalNext
  <2>3. k # j => F[k] = G[k]
    BY DEF AlikeBut
  <2>4. j < n => F[j] \in Nat /\ G[j] \in Nat
    BY DEF Numbers
  <2>5. Same(k)
    BY <1>2
  <2>6. CASE j < k
    <3>1. j < k + 1 /\ j < n /\ k # j
      BY <2>1, <2>6
    <3>2. Total(k, G) = (Total(k, F) + G[j]) - F[j]
      BY <2>5, <2>6
    <3>3. Total(k + 1, G) = (Total(k + 1, F) + G[j]) - F[j]
      BY <2>1, <2>2, <2>3, <2>4, <3>1, <3>2
    <3> QED BY <2>1, <3>1, <3>3
  <2>7. CASE j = k
    <3>1. j < k + 1 /\ ~(j < k)
      BY <2>1, <2>7
    <3>2. Total(k, G) = Total(k, F)
      BY <2>5, <3>1
    <3>3. Total(k + 1, G) = (Total(k + 1, F) + G[j]) - F[j]
      BY <2>1, <2>2, <2>7, <3>2
    <3> QED BY <2>1, <3>1, <3>3
  <2>8. CASE j > k
    <3>1. ~(j < k + 1) /\ ~(j < k) /\ k # j
      BY <2>1, <2>8
    <3>2. Total(k, G) = Total(k, F)
      BY <2>5, <3>1
    <3>3. Total(k + 1, G) = Total(k + 1, F)
      BY <2>1, <2>2, <2>3, <3>1, <3>2
    <3> QED BY <2>1, <3>1, <3>3
  <2> QED BY <2>1, <2>6, <2>7, <2>8
<1> HIDE DEF S
<1>3. 0 \in Int /\ n \in Int /\ n \in 0 .. n
  OBVIOUS
<1>4. 0 .. n \subseteq S
  BY <1>1, <1>2, <1>3, Ascend
<1> QED BY <1>3, <1>4 DEF S

\* The sum of zeros.
LEMMA TotalOfZeros ==
    ASSUME NEW n \in Nat, NEW F, \A k \in 0 .. n - 1 : F[k] = 0
    PROVE  Total(n, F) = 0
<1> DEFINE S == {k \in 0 .. n : Total(k, F) = 0}
<1>1. 0 \in S
  BY TotalNone
<1>2. ASSUME NEW k \in 0 .. n - 1, k \in S
      PROVE  k + 1 \in S
  <2>1. k \in Nat /\ Numbers(k + 1, F) /\ F[k] = 0
    BY DEF Numbers
  <2>2. Total(k + 1, F) = Total(k, F) + F[k]
    BY <2>1, TotalNext
  <2> QED BY <1>2, <2>1, <2>2
<1> HIDE DEF S
<1>3. 0 \in Int /\ n \in Int /\ n \in 0 .. n
  OBVIOUS
<1>4. 0 .. n \subseteq S
  BY <1>1, <1>2, <1>3, Ascend
<1> QED BY <1>3, <1>4 DEF S

\* Every line is in one chunk: the words of the chunks are those of the input.
Places(D, m) == {i \in D : (i - 1) % M = m}
ChunkTallies(D, u, w) == [m \in Mappers |-> Tally(FlattenSeq(Gather(u, Places(D, m))), w)]

\* The tallies of the chunks are numbers.
LEMMA ChunkTalliesType ==
    ASSUME NEW X, NEW u \in Seq(Seq(X)), NEW D, NEW w
    PROVE  Numbers(M, ChunkTallies(D, u, w))
<1> SUFFICES ASSUME NEW m \in 0 .. M - 1
             PROVE  ChunkTallies(D, u, w)[m] \in Nat
  BY DEF Numbers
<1>1. Gather(u, Places(D, m)) \in Seq(Seq(X))
  BY GatherType
<1>2. FlattenSeq(Gather(u, Places(D, m))) \in Seq(X)
  BY <1>1, FlattenType
<1>3. Tally(FlattenSeq(Gather(u, Places(D, m))), w) \in Nat
  BY <1>2, TallyType
<1> QED BY <1>3 DEF ChunkTallies, Mappers

\* By induction on the lines: one more line adds to one chunk, and to the whole.
LEMMA TotalOfChunks ==
    ASSUME NEW X, NEW ss \in Seq(Seq(X)), NEW w
    PROVE  Total(M, ChunkTallies(DOMAIN ss, ss, w)) = Tally(FlattenSeq(ss), w)
<1> DEFINE D == DOMAIN ss
           Goal(u) == Total(M, ChunkTallies(D, u, w)) = Tally(FlattenSeq(u), w)
           Q == {u \in Seq(Seq(X)) : 1 .. Len(u) \subseteq D => Goal(u)}
<1> HIDE DEF D
<1>1. M \in Nat /\ M > 0
  BY SizesAssumption
<1>2. <<>> \in Q
  <2>1. <<>> \in Seq(Seq(X))
    OBVIOUS
  <2>2. ASSUME NEW m \in 0 .. M - 1
        PROVE  ChunkTallies(D, <<>>, w)[m] = 0
    <3>1. FlattenSeq(Gather(<<>>, Places(D, m))) = <<>>
      BY GatherEmpty, FlattenEmpty
    <3>2. Tally(FlattenSeq(Gather(<<>>, Places(D, m))), w) = 0
      BY <3>1, TallyEmpty
    <3> QED BY <3>2 DEF ChunkTallies, Mappers
  <2>3. Total(M, ChunkTallies(D, <<>>, w)) = 0
    BY <1>1, <2>2, TotalOfZeros
  <2>4. Tally(FlattenSeq(<<>>), w) = 0
    BY FlattenEmpty, TallyEmpty
  <2> QED BY <2>1, <2>3, <2>4
<1>3. ASSUME NEW u \in Seq(Seq(X)), NEW e \in Seq(X), u \in Q
      PROVE  Append(u, e) \in Q
  <2> DEFINE v == Append(u, e)
             n == Len(u) + 1
             j == Len(u) % M
             F == ChunkTallies(D, u, w)
             G == ChunkTallies(D, v, w)
  <2>1. v \in Seq(Seq(X)) /\ Len(v) = n /\ n \in Nat /\ n \in 1 .. n /\ 1 .. Len(u) \subseteq 1 .. n
    <3>1. v \in Seq(Seq(X)) /\ Len(v) = n
      BY AppendProperties
    <3>2. Len(u) \in Nat
      OBVIOUS
    <3> QED BY <3>1, <3>2
  <2> SUFFICES ASSUME 1 .. n \subseteq D
               PROVE  Goal(v)
    BY <2>1
  <2>2. n \in D /\ Goal(u)
    BY <1>3, <2>1
  <2>3. j \in 0 .. M - 1
    <3>1. Len(u) \in Nat
      OBVIOUS
    <3> QED BY <1>1, <3>1
  <2>4. ASSUME NEW m \in 0 .. M - 1
        PROVE  /\ Gather(u, Places(D, m)) \in Seq(Seq(X))
               /\ Gather(v, Places(D, m)) =
                     IF m = j THEN Append(Gather(u, Places(D, m)), e)
                     ELSE Gather(u, Places(D, m))
    <3>1. n - 1 = Len(u)
      OBVIOUS
    <3>2. n \in Places(D, m) <=> m = j
      BY <2>2, <3>1 DEF Places
    <3>3. Gather(v, Places(D, m)) =
             IF n \in Places(D, m) THEN Append(Gather(u, Places(D, m)), e)
             ELSE Gather(u, Places(D, m))
      BY GatherAppend
    <3>4. Gather(u, Places(D, m)) \in Seq(Seq(X))
      BY GatherType
    <3> HIDE DEF v, j, n
    <3> QED BY <3>2, <3>3, <3>4
  <2>5. AlikeBut(M, F, G, j)
    <3> HIDE DEF v, j
    <3> QED BY <2>4 DEF AlikeBut, ChunkTallies, Mappers
  <2>6. G[j] = F[j] + Tally(e, w)
    <3>1. /\ F[j] = Tally(FlattenSeq(Gather(u, Places(D, j))), w)
          /\ G[j] = Tally(FlattenSeq(Gather(v, Places(D, j))), w)
      <4> HIDE DEF v, j
      <4> QED BY <2>3 DEF ChunkTallies, Mappers
    <3> HIDE DEF v, j
    <3>2. /\ Gather(u, Places(D, j)) \in Seq(Seq(X))
          /\ Gather(v, Places(D, j)) = Append(Gather(u, Places(D, j)), e)
      BY <2>3, <2>4
    <3> HIDE DEF F, G
    <3> QED BY <3>1, <3>2, TallyFlatten
  <2>7. Numbers(M, F) /\ Numbers(M, G)
    BY <2>1, ChunkTalliesType
  <2>8. F[j] \in Nat /\ G[j] \in Nat /\ j \in Nat /\ j < M
    <3> HIDE DEF F, G, j
    <3> QED BY <1>1, <2>3, <2>7 DEF Numbers
  <2>9. Total(M, G) = (Total(M, F) + G[j]) - F[j]
    <3> HIDE DEF F, G, j
    <3> QED BY <1>1, <2>5, <2>7, <2>8, TotalAlike
  <2>10. FlattenSeq(u) \in Seq(X) /\ Tally(FlattenSeq(u), w) \in Nat /\ Tally(e, w) \in Nat
    BY FlattenType, TallyType
  <2>11. Tally(FlattenSeq(v), w) = Tally(FlattenSeq(u), w) + Tally(e, w)
    BY TallyFlatten
  <2>12. Total(M, F) = Tally(FlattenSeq(u), w)
    BY <2>2
  <2>13. Total(M, G) = Tally(FlattenSeq(v), w)
    <3> HIDE DEF F, G, j, v
    <3> QED BY <2>6, <2>8, <2>9, <2>10, <2>11, <2>12
  <2> QED BY <2>13
<1> HIDE DEF Q
<1>4. Seq(Seq(X)) \subseteq Q
  BY <1>2, <1>3, SequenceInduction
<1>5. 1 .. Len(ss) \subseteq D
  BY DEF D
<1> QED BY <1>4, <1>5 DEF Q, D

-------------------------------------------------------------------------------
(* The mapper's records, and where they are sent                           *)

\* What the mapper writes for a word.
Record == Words \X {1}

\* The parts of a record.
LEMMA RecordFields ==
    ASSUME NEW e \in Record
    PROVE  e[1] \in Words /\ e[1] \in Nat /\ e[2] = 1 /\ e = <<e[1], 1>>
<1>1. PICK w \in Words : e = <<w, 1>>
  BY DEF Record
<1>2. e[1] = w /\ e[2] = 1
  BY <1>1
<1> QED BY <1>1, <1>2, WordsAssumption

\* The mapper writes a record for each occurrence of a word.
LEMMA MapperRecords ==
    ASSUME NEW chunk \in Seq(Seq(Words)), NEW w
    PROVE  /\ Mapper(chunk) \in Seq(Record)
           /\ Tally(Mapper(chunk), <<w, 1>>) = Tally(FlattenSeq(chunk), w)
<1>1. PICK words : words = FlattenSeq(chunk)
  OBVIOUS
<1>2. words \in Seq(Words)
  BY <1>1, FlattenType
<1>3. Mapper(chunk) = [i \in DOMAIN words |-> <<words[i], 1>>]
  BY <1>1 DEF Mapper
<1>4. DOMAIN words = 1 .. Len(words) /\ Len(words) \in Nat
  BY <1>2
<1>5. Mapper(chunk) \in [1 .. Len(words) -> Record]
  BY <1>2, <1>3, <1>4 DEF Record
<1>6. Mapper(chunk) \in Seq(Record)
  BY <1>4, <1>5
<1>7. {i \in DOMAIN Mapper(chunk) : Mapper(chunk)[i] = <<w, 1>>} = {i \in DOMAIN words : words[i] = w}
  BY <1>3
<1> QED BY <1>1, <1>6, <1>7 DEF Tally

\* All the records of a word go to the partition that the word's hash selects.
LEMMA RoutedRecords ==
    ASSUME NEW recs \in Seq(Record), NEW r, NEW w \in Words
    PROVE  /\ Routed(recs, r) \in Seq(Record)
           /\ Tally(Routed(recs, r), <<w, 1>>) =
                 IF hash[w] % R = r THEN Tally(recs, <<w, 1>>) ELSE 0
<1> DEFINE K == {i \in DOMAIN recs : hash[recs[i][1]] % R = r}
<1>1. Routed(recs, r) = Gather(recs, K)
  BY DEF Routed
<1>2. Gather(recs, K) \in Seq(Record)
  BY GatherType
<1>3. /\ hash[w] % R = r => \A i \in DOMAIN recs : recs[i] = <<w, 1>> => i \in K
      /\ hash[w] % R # r => \A i \in DOMAIN recs : recs[i] = <<w, 1>> => i \notin K
  OBVIOUS
<1> HIDE DEF K
<1>4. /\ hash[w] % R = r => Tally(Gather(recs, K), <<w, 1>>) = Tally(recs, <<w, 1>>)
      /\ hash[w] % R # r => Tally(Gather(recs, K), <<w, 1>>) = 0
  BY <1>3, TallyGather
<1> QED BY <1>1, <1>2, <1>4

-------------------------------------------------------------------------------
(* Sorting                                                                 *)

Ordered(s) == \A i, j \in DOMAIN s : i < j => s[i][1] =< s[j][1]
OrderedSeqs == {s \in Seq(Record) : Ordered(s)}

\* In an ordered sequence there is a place for kv: after it all are greater.
PlacesFor(s, kv) ==
    {k \in 0 .. Len(s) : /\ \A i \in 1 .. k : ~Less(kv, s[i])
                         /\ \A i \in k + 1 .. Len(s) : Less(kv, s[i])}

\* The place is before the first greater record, or at the end.
LEMMA PlaceExists ==
    ASSUME NEW s \in OrderedSeqs, NEW kv \in Record
    PROVE  PlacesFor(s, kv) # {}
<1>1. s \in Seq(Record) /\ Ordered(s) /\ Len(s) \in Nat /\ DOMAIN s = 1 .. Len(s)
  BY DEF OrderedSeqs
<1>2. kv[1] \in Nat /\ kv[2] = 1 /\ \A i \in 1 .. Len(s) : s[i][1] \in Nat /\ s[i][2] = 1
  <2>1. \A i \in 1 .. Len(s) : s[i] \in Record
    BY <1>1
  <2> QED BY <2>1, RecordFields
<1>3. \A i \in 1 .. Len(s) : Less(kv, s[i]) <=> kv[1] < s[i][1]
  BY <1>2 DEF Less
<1> DEFINE T == {i \in 1 .. Len(s) : Less(kv, s[i])}
<1>4. CASE T = {}
  <2>1. Len(s) \in PlacesFor(s, kv)
    BY <1>1, <1>4 DEF PlacesFor
  <2> QED BY <2>1
<1>5. CASE T # {}
  <2>1. T \subseteq Nat
    OBVIOUS
  <2>2. PICK x \in T : \A y \in T : ~(y < x)
    <3> HIDE DEF T
    <3> QED BY <1>5, <2>1, LeastNumber
  <2>3. x \in 1 .. Len(s) /\ x - 1 \in 0 .. Len(s) /\ (x - 1) + 1 = x
    BY <1>1, <2>2
  <2>4. \A i \in 1 .. x - 1 : ~Less(kv, s[i])
    BY <1>1, <2>2, <2>3
  <2>5. ASSUME NEW i \in x .. Len(s)
        PROVE  Less(kv, s[i])
    <3>1. i \in 1 .. Len(s) /\ (i = x \/ x < i)
      BY <1>1, <2>3
    <3>2. kv[1] < s[x][1]
      BY <1>3, <2>2
    <3>3. s[x][1] =< s[i][1]
      BY <1>1, <1>2, <2>3, <3>1 DEF Ordered
    <3> QED BY <1>2, <1>3, <2>3, <3>1, <3>2, <3>3
  <2>6. x - 1 \in PlacesFor(s, kv)
    BY <2>3, <2>4, <2>5 DEF PlacesFor
  <2> QED BY <2>6
<1> QED BY <1>4, <1>5

\* Inserting keeps a sequence ordered and adds one record.
LEMMA InsertOrdered ==
    ASSUME NEW s \in OrderedSeqs, NEW kv \in Record
    PROVE  /\ Insert(s, kv) \in OrderedSeqs
           /\ \A x : Tally(Insert(s, kv), x) = Tally(s, x) + Hit(kv, x)
<1> DEFINE k == CHOOSE k \in 0 .. Len(s) :
                     /\ \A i \in 1 .. k : ~Less(kv, s[i])
                     /\ \A i \in k + 1 .. Len(s) : Less(kv, s[i])
           a == SubSeq(s, 1, k)
           b == SubSeq(s, k + 1, Len(s))
           c == a \o <<kv>>
           t == c \o b
<1>1. s \in Seq(Record) /\ Ordered(s) /\ Len(s) \in Nat /\ DOMAIN s = 1 .. Len(s)
  BY DEF OrderedSeqs
<1>2. kv[1] \in Nat /\ kv[2] = 1 /\ \A i \in 1 .. Len(s) : s[i][1] \in Nat /\ s[i][2] = 1
  <2>1. \A i \in 1 .. Len(s) : s[i] \in Record
    BY <1>1
  <2> QED BY <2>1, RecordFields
<1>3. k \in 0 .. Len(s)
      /\ (\A i \in 1 .. k : ~Less(kv, s[i]))
      /\ (\A i \in k + 1 .. Len(s) : Less(kv, s[i]))
  BY PlaceExists DEF PlacesFor
<1>4. Insert(s, kv) = InsertAt(s, k + 1, kv)
  BY DEF Insert
<1> HIDE DEF k
<1>5. Insert(s, kv) = t
  <2>1. (k + 1) - 1 = k
    BY <1>3
  <2>2. InsertAt(s, k + 1, kv) = SubSeq(s, 1, (k + 1) - 1) \o <<kv>> \o SubSeq(s, k + 1, Len(s))
    BY DEF InsertAt
  <2> QED BY <1>4, <2>1, <2>2
<1>6. /\ a \in Seq(Record) /\ Len(a) = k
      /\ \A i \in 1 .. k : a[i] = s[i]
  <2>1. \A i \in 1 .. k : s[i] \in Record
    BY <1>1, <1>3
  <2>2. 1 \in Int /\ k \in Int /\ 0 =< k
    BY <1>3
  <2>3. /\ a \in Seq(Record)
        /\ Len(a) = IF 1 =< k THEN (k - 1) + 1 ELSE 0
        /\ \A i \in 1 .. (k - 1) + 1 : a[i] = s[(1 + i) - 1]
    BY <2>1, <2>2, SubSeqProperties
  <2> QED BY <2>2, <2>3
<1>7. /\ b \in Seq(Record) /\ Len(b) = Len(s) - k
      /\ \A i \in 1 .. Len(s) - k : b[i] = s[k + i]
  <2>1. \A i \in k + 1 .. Len(s) : s[i] \in Record
    BY <1>1, <1>3
  <2>2. k + 1 \in Int /\ Len(s) \in Int /\ k =< Len(s)
    BY <1>1, <1>3
  <2>3. /\ b \in Seq(Record)
        /\ Len(b) = IF k + 1 =< Len(s) THEN (Len(s) - (k + 1)) + 1 ELSE 0
        /\ \A i \in 1 .. (Len(s) - (k + 1)) + 1 : b[i] = s[((k + 1) + i) - 1]
    BY <2>1, <2>2, SubSeqProperties
  <2> QED BY <1>3, <2>2, <2>3
<1>8. a \o b = s
  <2>1. /\ 1 \in 1 .. Len(s) + 1 /\ k \in 1 - 1 .. Len(s) /\ Len(s) \in k .. Len(s)
    BY <1>1, <1>3
  <2>2. a \o b = SubSeq(s, 1, Len(s))
    BY <1>1, <2>1, ConcatAdjacentSubSeq
  <2> QED BY <1>1, <2>2, SubSeqFull
<1> HIDE DEF a, b
<1>9. c \in Seq(Record) /\ c = Append(a, kv) /\ Len(c) = k + 1 /\ c[k + 1] = kv
      /\ \A i \in 1 .. k : c[i] = a[i]
  <2>1. c = Append(a, kv)
    BY <1>6, AppendIsConcat
  <2> HIDE DEF c
  <2> QED BY <1>6, <2>1, AppendProperties
<1> HIDE DEF c
<1>10. /\ t \in Seq(Record) /\ Len(t) = Len(s) + 1
       /\ \A i \in 1 .. k : t[i] = s[i]
       /\ t[k + 1] = kv
       /\ \A i \in k + 2 .. Len(s) + 1 : t[i] = s[i - 1]
  <2>1. /\ t \in Seq(Record) /\ Len(t) = Len(c) + Len(b)
        /\ \A i \in 1 .. Len(c) + Len(b) : t[i] = IF i <= Len(c) THEN c[i] ELSE b[i - Len(c)]
    BY <1>7, <1>9, ConcatProperties
  <2> HIDE DEF t
  <2>2. Len(c) + Len(b) = Len(s) + 1
    BY <1>1, <1>3, <1>7, <1>9
  <2>3. ASSUME NEW i \in 1 .. k
        PROVE  t[i] = s[i]
    <3>1. i \in 1 .. Len(c) + Len(b) /\ i =< Len(c)
      BY <1>1, <1>3, <1>9, <2>2
    <3> QED BY <1>6, <1>9, <2>1, <3>1
  <2>4. t[k + 1] = kv
    <3>1. k + 1 \in 1 .. Len(c) + Len(b) /\ k + 1 =< Len(c)
      BY <1>1, <1>3, <1>9, <2>2
    <3> QED BY <1>9, <2>1, <3>1
  <2>5. ASSUME NEW i \in k + 2 .. Len(s) + 1
        PROVE  t[i] = s[i - 1]
    <3>1. i \in 1 .. Len(c) + Len(b) /\ ~(i =< Len(c))
      BY <1>1, <1>3, <1>9, <2>2
    <3>2. t[i] = b[i - (k + 1)]
      BY <1>9, <2>1, <3>1
    <3>3. i - (k + 1) \in 1 .. Len(s) - k /\ k + (i - (k + 1)) = i - 1
      BY <1>1, <1>3
    <3> QED BY <1>7, <3>2, <3>3
  <2> QED BY <2>1, <2>2, <2>3, <2>4, <2>5
<1>11. Ordered(t)
  <2> HIDE DEF t
  <2> SUFFICES ASSUME NEW i \in 1 .. Len(s) + 1, NEW j \in 1 .. Len(s) + 1, i < j
               PROVE  t[i][1] =< t[j][1]
    BY <1>10 DEF Ordered
  <2>1. \A p \in 1 .. k : s[p][1] =< kv[1]
    <3> SUFFICES ASSUME NEW p \in 1 .. k
                 PROVE  s[p][1] =< kv[1]
      OBVIOUS
    <3>1. ~Less(kv, s[p]) /\ p \in 1 .. Len(s)
      BY <1>1, <1>3
    <3> QED BY <1>2, <3>1 DEF Less
  <2>2. \A p \in k + 1 .. Len(s) : kv[1] =< s[p][1]
    <3> SUFFICES ASSUME NEW p \in k + 1 .. Len(s)
                 PROVE  kv[1] =< s[p][1]
      OBVIOUS
    <3>1. Less(kv, s[p]) /\ p \in 1 .. Len(s)
      BY <1>1, <1>3
    <3> QED BY <1>2, <3>1 DEF Less
  <2>3. \A p, q \in 1 .. Len(s) : p < q => s[p][1] =< s[q][1]
    BY <1>1 DEF Ordered
  <2>4. CASE j =< k
    <3>1. i \in 1 .. k /\ j \in 1 .. k /\ i \in 1 .. Len(s) /\ j \in 1 .. Len(s)
      BY <1>1, <1>3, <2>4
    <3> QED BY <1>10, <2>3, <3>1
  <2>5. CASE j = k + 1
    <3>1. i \in 1 .. k
      BY <1>3, <2>5
    <3> QED BY <1>10, <2>1, <2>5, <3>1
  <2>6. CASE j > k + 1
    <3>1. j \in k + 2 .. Len(s) + 1 /\ j - 1 \in k + 1 .. Len(s) /\ j - 1 \in 1 .. Len(s)
      BY <1>1, <1>3, <2>6
    <3>2. t[j] = s[j - 1]
      BY <1>10, <3>1
    <3>3. CASE i =< k
      <4>1. i \in 1 .. k /\ i \in 1 .. Len(s) /\ i < j - 1
        BY <1>1, <1>3, <2>6, <3>3
      <4> QED BY <1>10, <2>3, <3>1, <3>2, <4>1
    <3>4. CASE i = k + 1
      BY <1>10, <2>2, <3>1, <3>2, <3>4
    <3>5. CASE i > k + 1
      <4>1. i \in k + 2 .. Len(s) + 1 /\ i - 1 \in 1 .. Len(s) /\ i - 1 < j - 1
        BY <1>1, <1>3, <3>5
      <4>2. t[i] = s[i - 1]
        BY <1>10, <4>1
      <4> QED BY <2>3, <3>1, <3>2, <4>1, <4>2
    <3> QED BY <1>3, <3>3, <3>4, <3>5
  <2> QED BY <1>3, <2>4, <2>5, <2>6
<1>12. ASSUME NEW x
       PROVE  Tally(t, x) = Tally(s, x) + Hit(kv, x)
  <2>1. Tally(t, x) = Tally(c, x) + Tally(b, x)
    <3>1. c \in Seq(Record) /\ b \in Seq(Record)
      BY <1>7, <1>9
    <3> QED BY ONLY <3>1, TallyConcat
  <2>2. Tally(c, x) = Tally(a, x) + Hit(kv, x)
    BY <1>6, <1>9, TallyAppend
  <2>3. Tally(s, x) = Tally(a, x) + Tally(b, x)
    <3>1. Tally(a \o b, x) = Tally(a, x) + Tally(b, x)
      BY <1>6, <1>7, TallyConcat
    <3> QED BY <1>8, <3>1
  <2>4. Tally(a, x) \in Nat /\ Tally(b, x) \in Nat
    BY <1>6, <1>7, TallyType
  <2> HIDE DEF t
  <2> QED BY <2>1, <2>2, <2>3, <2>4 DEF Hit
<1> HIDE DEF t
<1> QED BY <1>5, <1>10, <1>11, <1>12 DEF OrderedSeqs

SortRuns(recs) ==
    {f \in [0 .. Len(recs) -> OrderedSeqs] :
        /\ f[0] = <<>>
        /\ \A i \in 1 .. Len(recs) : f[i] = Insert(f[i - 1], recs[i])}

\* Sorted returns the last value of a run that inserts record after record.
LEMMA SortSteps ==
    ASSUME NEW recs \in Seq(Record)
    PROVE  \E f \in SortRuns(recs) : Sorted(recs) = f[Len(recs)]
<1> DEFINE Body(f) == [i \in 0 .. Len(recs) |->
                         IF i = 0 THEN <<>> ELSE Insert(f[i - 1], recs[i])]
           step == [i \in 0 + 1 .. Len(recs) |-> [c \in OrderedSeqs |-> Insert(c, recs[i])]]
           T == CHOOSE f : f = Body(f)
<1>1. 0 \in Int /\ Len(recs) \in Int /\ 0 =< Len(recs)
  OBVIOUS
<1>2. <<>> \in OrderedSeqs
  BY DEF OrderedSeqs, Ordered
<1>3. step \in Steps(0, Len(recs), OrderedSeqs)
  <2> SUFFICES ASSUME NEW i \in 0 + 1 .. Len(recs), NEW c \in OrderedSeqs
               PROVE  Insert(c, recs[i]) \in OrderedSeqs
    BY DEF Steps
  <2>1. recs[i] \in Record
    OBVIOUS
  <2> QED BY <2>1, InsertOrdered
<1>4. PICK f : f \in Runs(0, Len(recs), OrderedSeqs, <<>>, step)
  <2> HIDE DEF step
  <2> QED BY <1>1, <1>2, <1>3, Iterates
<1>5. /\ f \in [0 .. Len(recs) -> OrderedSeqs]
      /\ f[0] = <<>>
      /\ \A i \in 1 .. Len(recs) : f[i] = step[i][f[i - 1]]
  <2> HIDE DEF step
  <2> QED BY <1>4 DEF Runs
<1>6. ASSUME NEW i \in 1 .. Len(recs)
      PROVE  f[i] = Insert(f[i - 1], recs[i])
  <2>1. i \in 0 + 1 .. Len(recs) /\ f[i - 1] \in OrderedSeqs
    BY <1>5
  <2> QED BY <1>5, <2>1
<1>7. f = Body(f)
  <2> HIDE DEF step
  <2>1. ASSUME NEW i \in 0 .. Len(recs)
        PROVE  f[i] = Body(f)[i]
    <3>1. CASE i = 0
      BY <3>1, <1>5
    <3>2. CASE i \in 1 .. Len(recs)
      BY <3>2, <1>6
    <3> QED BY <3>1, <3>2
  <2> QED BY <2>1, <1>5
<1>8. T = Body(T)
  <2> HIDE DEF Body
  <2> QED BY <1>7
<1>9. Sorted(recs) = T[Len(recs)]
  BY DEF Sorted
<1> HIDE DEF T, step
<1>10. \A i \in 0 .. Len(recs) : T[i] = f[i]
  <2> DEFINE S == {i \in 0 .. Len(recs) : T[i] = f[i]}
  <2>1. 0 \in S
    BY <1>5, <1>8
  <2>2. ASSUME NEW i \in 0 .. Len(recs) - 1, i \in S
        PROVE  i + 1 \in S
    <3>1. i + 1 \in 1 .. Len(recs) /\ i + 1 \in 0 .. Len(recs) /\ (i + 1) - 1 = i
      OBVIOUS
    <3>2. T[i + 1] = Body(T)[i + 1]
      BY <1>8
    <3>3. Body(T)[i + 1] = Insert(T[i], recs[i + 1])
      BY <3>1
    <3>4. f[i + 1] = Insert(f[i], recs[i + 1])
      BY <3>1, <1>6
    <3> QED BY <3>1, <3>2, <3>3, <3>4, <2>2
  <2> HIDE DEF S
  <2>3. 0 .. Len(recs) \subseteq S
    BY <1>1, <2>1, <2>2, Ascend
  <2> QED BY <2>3 DEF S
<1>11. Sorted(recs) = f[Len(recs)]
  BY <1>1, <1>9, <1>10
<1> HIDE DEF Body
<1> QED BY <1>5, <1>6, <1>11 DEF SortRuns

\* Sorting nothing.
LEMMA SortedEmpty == Sorted(<<>>) = <<>>
<1>1. <<>> \in Seq(Record) /\ Len(<<>>) = 0
  OBVIOUS
<1>2. PICK f \in SortRuns(<<>>) : Sorted(<<>>) = f[Len(<<>>)]
  BY <1>1, SortSteps
<1> QED BY <1>1, <1>2 DEF SortRuns

\* One more record is inserted among the sorted others.
LEMMA SortedAppend ==
    ASSUME NEW s \in Seq(Record), NEW e \in Record
    PROVE  Sorted(Append(s, e)) = Insert(Sorted(s), e) /\ Sorted(s) \in OrderedSeqs
<1> DEFINE n == Len(s)
           t == Append(s, e)
<1>1. /\ t \in Seq(Record) /\ Len(t) = n + 1 /\ t[n + 1] = e /\ n \in Nat
      /\ \A i \in 1 .. n : t[i] = s[i]
  OBVIOUS
<1> HIDE DEF t
<1>2. PICK f \in SortRuns(s) : Sorted(s) = f[n]
  BY SortSteps
<1>3. PICK g \in SortRuns(t) : Sorted(t) = g[Len(t)]
  BY <1>1, SortSteps
<1>4. /\ f[0] = <<>> /\ g[0] = <<>> /\ f \in [0 .. n -> OrderedSeqs]
      /\ \A i \in 1 .. n : f[i] = Insert(f[i - 1], s[i])
      /\ \A i \in 1 .. n + 1 : g[i] = Insert(g[i - 1], t[i])
  BY <1>1 DEF SortRuns
<1> HIDE DEF n
<1>5. \A i \in 0 .. n : g[i] = f[i]
  <2> DEFINE S == {i \in 0 .. n : g[i] = f[i]}
  <2>1. 0 \in S
    BY <1>1, <1>4
  <2>2. ASSUME NEW i \in 0 .. n - 1, i \in S
        PROVE  i + 1 \in S
    <3>1. i + 1 \in 1 .. n /\ i + 1 \in 1 .. n + 1 /\ i + 1 \in 0 .. n /\ (i + 1) - 1 = i
      BY <1>1
    <3> QED BY <3>1, <2>2, <1>1, <1>4
  <2>3. 0 \in Int /\ n \in Int
    BY <1>1
  <2> HIDE DEF S
  <2>4. 0 .. n \subseteq S
    BY <2>1, <2>2, <2>3, Ascend
  <2> QED BY <2>4 DEF S
<1>6. g[n] = f[n] /\ n + 1 \in 1 .. n + 1 /\ (n + 1) - 1 = n /\ f[n] \in OrderedSeqs
  BY <1>1, <1>4, <1>5
<1>7. g[n + 1] = Insert(f[n], e)
  BY <1>1, <1>4, <1>6
<1>8. Sorted(t) = Insert(Sorted(s), e) /\ Sorted(s) \in OrderedSeqs
  BY <1>1, <1>2, <1>3, <1>6, <1>7
<1> QED BY <1>8 DEF t

\* Sorting returns the same records, in order.
LEMMA SortedRecords ==
    ASSUME NEW recs \in Seq(Record)
    PROVE  /\ Sorted(recs) \in Seq(Record)
           /\ Ordered(Sorted(recs))
           /\ \A x : Tally(Sorted(recs), x) = Tally(recs, x)
<1> DEFINE Same(u) == \A x : Tally(Sorted(u), x) = Tally(u, x)
           Q == {u \in Seq(Record) : Same(u)}
<1>1. <<>> \in Q
  <2>1. <<>> \in Seq(Record)
    OBVIOUS
  <2> QED BY <2>1, SortedEmpty
<1>2. ASSUME NEW u \in Seq(Record), NEW e \in Record, u \in Q
      PROVE  Append(u, e) \in Q
  <2>1. Append(u, e) \in Seq(Record)
    OBVIOUS
  <2>2. Sorted(Append(u, e)) = Insert(Sorted(u), e) /\ Sorted(u) \in OrderedSeqs
    BY SortedAppend
  <2>3. ASSUME NEW x
        PROVE  Tally(Sorted(Append(u, e)), x) = Tally(Append(u, e), x)
    <3>1. Tally(Insert(Sorted(u), e), x) = Tally(Sorted(u), x) + Hit(e, x)
      BY <2>2, InsertOrdered
    <3>2. Tally(Append(u, e), x) = Tally(u, x) + Hit(e, x)
      BY TallyAppend
    <3>3. Tally(Sorted(u), x) = Tally(u, x)
      BY <1>2
    <3> QED BY <2>2, <3>1, <3>2, <3>3
  <2> QED BY <2>1, <2>3
<1> HIDE DEF Q
<1>3. Seq(Record) \subseteq Q
  BY <1>1, <1>2, SequenceInduction
<1>4. Sorted(recs) \in OrderedSeqs
  <2>1. PICK f \in SortRuns(recs) : Sorted(recs) = f[Len(recs)]
    BY SortSteps
  <2>2. Len(recs) \in 0 .. Len(recs)
    OBVIOUS
  <2> QED BY <2>1, <2>2 DEF SortRuns
<1> QED BY <1>3, <1>4 DEF Q, OrderedSeqs

-------------------------------------------------------------------------------
(* Reducing                                                                *)

Result == Words \X Nat
Accumulators == [key : Words, total : Nat, out : Seq(Result)]

\* What the reducer keeps after one more record.
LEMMA TakeType ==
    ASSUME NEW acc \in Accumulators, NEW kv \in Record
    PROVE  /\ Take(acc, kv) \in Accumulators
           /\ Take(acc, kv).key = kv[1]
           /\ kv[1] = acc.key => /\ Take(acc, kv).total = acc.total + 1
                                 /\ Take(acc, kv).out = acc.out
           /\ kv[1] # acc.key => /\ Take(acc, kv).total = 1
                                 /\ Take(acc, kv).out = Append(acc.out, <<acc.key, acc.total>>)
<1>1. kv[1] \in Words /\ kv[2] = 1
  BY RecordFields
<1>2. acc.key \in Words /\ acc.total \in Nat /\ acc.out \in Seq(Result)
  BY DEF Accumulators
<1>3. <<acc.key, acc.total>> \in Result
  BY <1>2 DEF Result
<1>4. Append(acc.out, <<acc.key, acc.total>>) \in Seq(Result)
  BY <1>2, <1>3, AppendProperties
<1>5. CASE kv[1] = acc.key
  <2>1. Take(acc, kv) = [key |-> acc.key, total |-> acc.total + 1, out |-> acc.out]
    BY <1>1, <1>5 DEF Take, Counting
  <2> QED BY <1>2, <1>5, <2>1 DEF Accumulators
<1>6. CASE kv[1] # acc.key
  <2> DEFINE o == Append(acc.out, <<acc.key, acc.total>>)
  <2>1. Take(acc, kv) = [key |-> kv[1], total |-> 1, out |-> o]
    BY <1>1, <1>6 DEF Take, Counting
  <2>2. o \in Seq(Result)
    BY <1>4
  <2> HIDE DEF o
  <2>3. /\ Take(acc, kv) \in Accumulators
        /\ Take(acc, kv).key = kv[1]
        /\ Take(acc, kv).total = 1
        /\ Take(acc, kv).out = o
    BY <1>1, <2>1, <2>2 DEF Accumulators
  <2> QED BY <1>6, <2>3 DEF o
<1> QED BY <1>5, <1>6

First(recs) == Counting(recs[1][1], recs[1][2], <<>>)
ReducerRuns(recs) ==
    {f \in [1 .. Len(recs) -> Accumulators] :
        /\ f[1] = First(recs)
        /\ \A i \in 2 .. Len(recs) : f[i] = Take(f[i - 1], recs[i])}

\* Reducer emits what is left after the last record of a run of Take.
LEMMA ReducerSteps ==
    ASSUME NEW recs \in Seq(Record), recs # <<>>
    PROVE  \E f \in ReducerRuns(recs) :
              Reducer(recs) = Append(f[Len(recs)].out, <<f[Len(recs)].key, f[Len(recs)].total>>)
<1> DEFINE n == Len(recs)
           Body(f) == [i \in 1 .. n |->
                         IF i = 1 THEN Counting(recs[1][1], recs[1][2], <<>>)
                         ELSE Take(f[i - 1], recs[i])]
           step == [i \in 1 + 1 .. n |-> [c \in Accumulators |-> Take(c, recs[i])]]
           B == CHOOSE f : f = Body(f)
<1>1. 1 \in Int /\ n \in Int /\ 1 =< n /\ n \in 1 .. n /\ recs[1] \in Record
  OBVIOUS
<1>2. First(recs) \in Accumulators
  <2>1. recs[1][1] \in Words /\ recs[1][2] = 1
    BY <1>1, RecordFields
  <2>2. <<>> \in Seq(Result)
    OBVIOUS
  <2> QED BY <2>1, <2>2 DEF First, Counting, Accumulators
<1>3. step \in Steps(1, n, Accumulators)
  <2> SUFFICES ASSUME NEW i \in 1 + 1 .. n, NEW c \in Accumulators
               PROVE  Take(c, recs[i]) \in Accumulators
    BY DEF Steps
  <2>1. recs[i] \in Record
    OBVIOUS
  <2> QED BY <2>1, TakeType
<1>4. PICK f : f \in Runs(1, n, Accumulators, First(recs), step)
  <2> HIDE DEF step, n
  <2> QED BY <1>1, <1>2, <1>3, Iterates
<1>5. /\ f \in [1 .. n -> Accumulators]
      /\ f[1] = First(recs)
      /\ \A i \in 2 .. n : f[i] = step[i][f[i - 1]]
  <2> HIDE DEF step, n
  <2> QED BY <1>4 DEF Runs
<1>6. ASSUME NEW i \in 2 .. n
      PROVE  f[i] = Take(f[i - 1], recs[i])
  <2>1. i \in 1 + 1 .. n /\ i - 1 \in 1 .. n
    BY <1>1
  <2>2. f[i - 1] \in Accumulators
    BY <1>5, <2>1
  <2> QED BY <1>5, <2>1, <2>2
<1>7. f = Body(f)
  <2> HIDE DEF step, n
  <2>1. ASSUME NEW i \in 1 .. n
        PROVE  f[i] = Body(f)[i]
    <3>1. CASE i = 1
      BY <3>1, <1>5 DEF First
    <3>2. CASE i \in 2 .. n
      <4>1. f[i] = Take(f[i - 1], recs[i])
        BY <3>2, <1>6, Zenon
      <4>2. i # 1
        BY <1>1, <3>2
      <4> QED BY <4>1, <4>2
    <3> QED BY <1>1, <3>1, <3>2
  <2> QED BY <2>1, <1>5
<1>8. B = Body(B)
  <2> HIDE DEF Body
  <2> QED BY <1>7
<1>9. Reducer(recs) = Append(B[n].out, <<B[n].key, B[n].total>>)
  BY DEF Reducer
<1> HIDE DEF B, step, n
<1>10. \A i \in 1 .. n : B[i] = f[i]
  <2> DEFINE S == {i \in 1 .. n : B[i] = f[i]}
  <2>1. 1 \in S
    BY <1>1, <1>5, <1>8 DEF First
  <2>2. ASSUME NEW i \in 1 .. n - 1, i \in S
        PROVE  i + 1 \in S
    <3>1. i + 1 \in 2 .. n /\ i + 1 \in 1 .. n /\ (i + 1) - 1 = i /\ i + 1 # 1
      BY <1>1
    <3>2. B[i + 1] = Body(B)[i + 1]
      BY <1>8
    <3>3. Body(B)[i + 1] = Take(B[i], recs[i + 1])
      BY <3>1
    <3>4. f[i + 1] = Take(f[i], recs[i + 1])
      BY <3>1, <1>6
    <3> QED BY <3>1, <3>2, <3>3, <3>4, <2>2
  <2> HIDE DEF S
  <2>3. 1 .. n \subseteq S
    BY <1>1, <2>1, <2>2, Ascend
  <2> QED BY <2>3 DEF S
<1>11. Reducer(recs) = Append(f[n].out, <<f[n].key, f[n].total>>)
  BY <1>1, <1>9, <1>10
<1> HIDE DEF Body
<1>12. f \in ReducerRuns(recs)
  BY <1>5, <1>6 DEF ReducerRuns, n
<1> QED BY <1>11, <1>12 DEF n

\* How many records of a word there are, and one more record.
Times(u, w) == Tally(u, <<w, 1>>)

\* One more record counts for its own word and for no other.
LEMMA TimesAppend ==
    ASSUME NEW u \in Seq(Record), NEW kv \in Record, NEW w
    PROVE  /\ Times(u, w) \in Nat
           /\ kv[1] = w => Times(Append(u, kv), w) = Times(u, w) + 1
           /\ kv[1] # w => Times(Append(u, kv), w) = Times(u, w)
<1>1. Tally(Append(u, kv), <<w, 1>>) = Tally(u, <<w, 1>>) + Hit(kv, <<w, 1>>)
  BY TallyAppend
<1>2. Tally(u, <<w, 1>>) \in Nat
  BY TallyType
<1>3. kv = <<w, 1>> <=> kv[1] = w
  BY RecordFields
<1> QED BY <1>1, <1>2, <1>3 DEF Times, Hit

\* The reducer's invariant, when it has read the records u: what it has emitted
\* rises to the current key, and every total is the number of records.
Rising(out) == \A k, l \in DOMAIN out : k < l => out[k][1] < out[l][1]
Counted(out, u) == \A k \in DOMAIN out : out[k][2] = Times(u, out[k][1]) /\ out[k][2] > 0
Holds(out, w) == \E k \in DOMAIN out : out[k][1] = w
Below(out, key) == \A k \in DOMAIN out : out[k][1] < key
InStep(acc, u) ==
    /\ Rising(acc.out) /\ Below(acc.out, acc.key) /\ Counted(acc.out, u)
    /\ acc.total = Times(u, acc.key) /\ acc.total > 0
    /\ \A w : Times(u, w) > 0 => w = acc.key \/ Holds(acc.out, w)

\* What the reducer should return for the records u.
Exact(out, u) ==
    /\ Rising(out) /\ Counted(out, u)
    /\ \A w : Times(u, w) > 0 => Holds(out, w)

\* When the current key is emitted too, the output is exact for what was read.
LEMMA EmitKey ==
    ASSUME NEW acc \in Accumulators, NEW u \in Seq(Record), InStep(acc, u)
    PROVE  LET out == Append(acc.out, <<acc.key, acc.total>>)
           IN  /\ out \in Seq(Result)
               /\ Exact(out, u)
               /\ \A key \in Nat : acc.key < key => Below(out, key)
<1> DEFINE out == Append(acc.out, <<acc.key, acc.total>>)
<1>1. acc.key \in Words /\ acc.key \in Nat /\ acc.total \in Nat /\ acc.out \in Seq(Result)
  BY WordsAssumption DEF Accumulators
<1>2. PICK n \in Nat : n = Len(acc.out)
  BY <1>1
<1>3. <<acc.key, acc.total>> \in Result
  BY <1>1 DEF Result
<1>4. out \in Seq(Result) /\ Len(out) = n + 1 /\ out[n + 1] = <<acc.key, acc.total>>
      /\ \A i \in 1 .. n : out[i] = acc.out[i]
  BY <1>1, <1>2, <1>3, AppendProperties
<1> HIDE DEF out
<1>5. /\ DOMAIN acc.out = 1 .. n /\ DOMAIN out = 1 .. n + 1
      /\ out[n + 1][1] = acc.key /\ out[n + 1][2] = acc.total
      /\ \A i \in 1 .. n : out[i][1] \in Nat
  <2>1. DOMAIN acc.out = 1 .. n /\ DOMAIN out = 1 .. n + 1
    BY <1>1, <1>2, <1>4, LenProperties
  <2>2. \A i \in 1 .. n : acc.out[i] \in Words \X Nat
    BY <1>1, <1>2, <2>1 DEF Result
  <2>3. ASSUME NEW i \in 1 .. n
        PROVE  out[i][1] \in Nat
    <3>1. acc.out[i][1] \in Words
      BY <2>2
    <3> QED BY <1>4, <3>1, WordsAssumption
  <2> QED BY <1>4, <2>1, <2>3
<1>6. ASSUME NEW i \in 1 .. n + 1
      PROVE  i \in 1 .. n \/ i = n + 1
  OBVIOUS
<1>7. Rising(out)
  <2> SUFFICES ASSUME NEW k \in 1 .. n + 1, NEW l \in 1 .. n + 1, k < l
               PROVE  out[k][1] < out[l][1]
    BY <1>5 DEF Rising
  <2>1. k \in 1 .. n
    OBVIOUS
  <2>2. CASE l \in 1 .. n
    BY <1>4, <1>5, <2>1, <2>2 DEF InStep, Rising
  <2>3. CASE l = n + 1
    BY <1>4, <1>5, <2>1, <2>3 DEF InStep, Below
  <2> QED BY <1>6, <2>2, <2>3
<1>8. Counted(out, u)
  <2> SUFFICES ASSUME NEW k \in 1 .. n + 1
               PROVE  out[k][2] = Times(u, out[k][1]) /\ out[k][2] > 0
    BY <1>5 DEF Counted
  <2>1. CASE k \in 1 .. n
    BY <1>4, <1>5, <2>1 DEF InStep, Counted
  <2>2. CASE k = n + 1
    BY <1>5, <2>2 DEF InStep
  <2> QED BY <1>6, <2>1, <2>2
<1>9. ASSUME NEW w, Times(u, w) > 0
      PROVE  Holds(out, w)
  <2>1. CASE w = acc.key
    <3>1. n + 1 \in DOMAIN out
      BY <1>5
    <3> QED BY <1>5, <2>1, <3>1 DEF Holds
  <2>2. CASE Holds(acc.out, w)
    <3>1. PICK k \in 1 .. n : acc.out[k][1] = w
      BY <1>5, <2>2 DEF Holds
    <3>2. k \in DOMAIN out /\ out[k][1] = w
      BY <1>4, <1>5, <3>1
    <3> QED BY <3>2 DEF Holds
  <2> QED BY <1>9, <2>1, <2>2 DEF InStep
<1>10. ASSUME NEW key \in Nat, acc.key < key
       PROVE  Below(out, key)
  <2> SUFFICES ASSUME NEW k \in 1 .. n + 1
               PROVE  out[k][1] < key
    BY <1>5 DEF Below
  <2>1. CASE k \in 1 .. n
    <3>1. out[k][1] < acc.key /\ out[k][1] \in Nat
      BY <1>4, <1>5, <2>1 DEF InStep, Below
    <3> QED BY <1>1, <1>10, <3>1
  <2>2. CASE k = n + 1
    BY <1>5, <1>10, <2>2
  <2> QED BY <1>6, <2>1, <2>2
<1>11. Exact(out, u)
  BY <1>7, <1>8, <1>9 DEF Exact
<1> QED BY <1>4, <1>10, <1>11 DEF out

\* A record that is not before the current key keeps the reducer in step: a
\* greater one is a word it has not met.
LEMMA TakeInStep ==
    ASSUME NEW acc \in Accumulators, NEW u \in Seq(Record), NEW kv \in Record,
           InStep(acc, u), acc.key =< kv[1]
    PROVE  InStep(Take(acc, kv), Append(u, kv))
<1>1. PICK v : v = Append(u, kv)
  OBVIOUS
<1>2. PICK new : new = Take(acc, kv)
  OBVIOUS
<1>3. /\ acc.key \in Nat /\ acc.total \in Nat /\ acc.out \in Seq(Result)
      /\ kv[1] \in Nat /\ new.key = kv[1]
  BY <1>2, WordsAssumption, RecordFields, TakeType DEF Accumulators
<1>4. \A w : /\ Times(u, w) \in Nat
             /\ kv[1] = w => Times(v, w) = Times(u, w) + 1
             /\ kv[1] # w => Times(v, w) = Times(u, w)
  BY <1>1, TimesAppend
<1>5. CASE kv[1] = acc.key
  <2>1. new.total = acc.total + 1 /\ new.out = acc.out /\ new.key = acc.key
    BY <1>2, <1>3, <1>5, TakeType
  <2>2. Counted(acc.out, v)
    <3> SUFFICES ASSUME NEW k \in DOMAIN acc.out
                 PROVE  acc.out[k][2] = Times(v, acc.out[k][1]) /\ acc.out[k][2] > 0
      BY DEF Counted
    <3>1. acc.out[k][1] < acc.key /\ acc.out[k][1] \in Nat
      <4>1. acc.out[k] \in Words \X Nat
        BY <1>3 DEF Result
      <4> QED BY <4>1, WordsAssumption DEF InStep, Below
    <3>2. acc.out[k][1] # kv[1]
      BY <1>3, <1>5, <3>1
    <3>3. acc.out[k][2] = Times(u, acc.out[k][1]) /\ acc.out[k][2] > 0
      BY DEF InStep, Counted
    <3> QED BY <1>4, <3>2, <3>3
  <2>3. new.total = Times(v, new.key) /\ new.total > 0
    <3>1. acc.total = Times(u, acc.key) /\ acc.total > 0
      BY DEF InStep
    <3> QED BY <1>3, <1>4, <1>5, <2>1, <3>1
  <2>4. ASSUME NEW w, Times(v, w) > 0
        PROVE  w = new.key \/ Holds(new.out, w)
    <3>1. Times(u, w) > 0 => w = acc.key \/ Holds(acc.out, w)
      BY DEF InStep
    <3> QED BY <1>3, <1>4, <1>5, <2>1, <2>4, <3>1
  <2> QED BY <1>1, <1>2, <2>1, <2>2, <2>3, <2>4 DEF InStep
<1>6. CASE kv[1] # acc.key
  <2>1. PICK out : out = Append(acc.out, <<acc.key, acc.total>>)
    OBVIOUS
  <2>2. new.total = 1 /\ new.out = out
    BY <1>2, <1>6, <2>1, TakeType
  <2>3. acc.key < kv[1]
    BY <1>3, <1>6
  <2>4. out \in Seq(Result) /\ Exact(out, u) /\ Below(out, kv[1])
    BY <1>3, <2>1, <2>3, EmitKey
  <2>5. \A k \in DOMAIN out : out[k][1] < kv[1] /\ out[k][1] # kv[1]
    <3> SUFFICES ASSUME NEW k \in DOMAIN out
                 PROVE  out[k][1] < kv[1] /\ out[k][1] # kv[1]
      OBVIOUS
    <3>1. out[k] \in Words \X Nat
      BY <2>4 DEF Result
    <3>2. out[k][1] < kv[1] /\ out[k][1] \in Nat
      BY <2>4, <3>1, WordsAssumption DEF Below
    <3> QED BY <1>3, <3>2
  <2>6. Counted(out, v)
    BY <1>4, <2>4, <2>5 DEF Counted, Exact
  <2>7. Times(u, kv[1]) = 0
    <3>1. ~Holds(out, kv[1])
      BY <2>5 DEF Holds
    <3>2. ~(Times(u, kv[1]) > 0)
      BY <2>4, <3>1 DEF Exact
    <3> QED BY <1>4, <3>2
  <2>8. Times(v, kv[1]) = 1
    BY <1>4, <2>7
  <2>9. ASSUME NEW w, Times(v, w) > 0
        PROVE  w = new.key \/ Holds(new.out, w)
    <3>1. CASE w = kv[1]
      BY <1>3, <3>1
    <3>2. CASE w # kv[1]
      <4>1. Times(u, w) > 0
        BY <1>4, <2>9, <3>2
      <4> QED BY <2>2, <2>4, <4>1 DEF Exact
    <3> QED BY <3>1, <3>2
  <2> QED BY <1>1, <1>2, <1>3, <2>2, <2>4, <2>6, <2>8, <2>9 DEF InStep, Exact
<1> QED BY <1>5, <1>6

\* The records before a place, and the next.
LEMMA PrefixGrows ==
    ASSUME NEW X, NEW s \in Seq(X), NEW i \in 0 .. Len(s) - 1
    PROVE  /\ SubSeq(s, 1, i) \in Seq(X)
           /\ SubSeq(s, 1, i + 1) = Append(SubSeq(s, 1, i), s[i + 1])
<1>1. i \in Int /\ 1 \in Int /\ i + 1 \in 1 .. Len(s) /\ 1 \in 1 .. Len(s) /\ (i + 1) - 1 = i
  OBVIOUS
<1>2. \A j \in 1 .. i : s[j] \in X
  OBVIOUS
<1>3. SubSeq(s, 1, i) \in Seq(X)
  BY <1>1, <1>2, SubSeqProperties
<1>4. SubSeq(s, 1, i + 1) = SubSeq(s, 1, (i + 1) - 1) \o <<s[i + 1]>>
  BY <1>1, SubSeqRecursiveSecond
<1>5. s[i + 1] \in X
  BY <1>1
<1>6. Append(SubSeq(s, 1, i), s[i + 1]) = SubSeq(s, 1, i) \o <<s[i + 1]>>
  BY <1>3, <1>5, AppendIsConcat
<1> QED BY <1>1, <1>3, <1>4, <1>6

\* From records in order the reducer makes one total for each word, the right one.
LEMMA ReducerIsExact ==
    ASSUME NEW recs \in Seq(Record), Ordered(recs)
    PROVE  Reducer(recs) \in Seq(Result) /\ Exact(Reducer(recs), recs)
<1>1. CASE recs = <<>>
  <2>1. Reducer(recs) = <<>>
    BY <1>1 DEF Reducer
  <2>2. \A w : Times(recs, w) = 0
    BY <1>1, TallyEmpty DEF Times
  <2>3. <<>> \in Seq(Result) /\ DOMAIN <<>> = {}
    OBVIOUS
  <2>4. Rising(<<>>) /\ Counted(<<>>, recs)
    BY <2>3 DEF Rising, Counted
  <2> QED BY <2>1, <2>2, <2>3, <2>4 DEF Exact
<1>2. CASE recs # <<>>
  <2> DEFINE n == Len(recs)
             Upto(i) == SubSeq(recs, 1, i)
  <2>1. n \in Nat /\ 1 =< n /\ n \in 1 .. n /\ DOMAIN recs = 1 .. n
    BY <1>2
  <2>2. \A i \in 1 .. n : recs[i] \in Record
    OBVIOUS
  <2>3. PICK f \in ReducerRuns(recs) :
              Reducer(recs) = Append(f[n].out, <<f[n].key, f[n].total>>)
    BY <1>2, ReducerSteps
  <2>4. /\ f \in [1 .. n -> Accumulators]
        /\ f[1] = First(recs)
        /\ \A i \in 2 .. n : f[i] = Take(f[i - 1], recs[i])
    BY DEF ReducerRuns
  <2>5. /\ \A i \in 0 .. n - 1 : /\ Upto(i) \in Seq(Record)
                                 /\ Upto(i + 1) = Append(Upto(i), recs[i + 1])
        /\ Upto(n) = recs
        /\ Upto(0) = <<>>
    <3>1. \A i \in 0 .. n - 1 : /\ Upto(i) \in Seq(Record)
                                /\ Upto(i + 1) = Append(Upto(i), recs[i + 1])
      BY PrefixGrows
    <3>2. Upto(n) = recs
      BY SubSeqFull
    <3>3. Upto(0) = <<>>
      <4>1. 1 \in Int /\ 0 \in Int /\ 0 < 1
        OBVIOUS
      <4> QED BY <4>1, SubSeqEmpty
    <3> QED BY <3>1, <3>2, <3>3
  <2> HIDE DEF n, Upto
  <2> DEFINE S == {i \in 1 .. n : f[i].key = recs[i][1] /\ InStep(f[i], Upto(i))}
  <2>6. 1 \in S
    <3>1. recs[1] \in Record /\ recs[1][1] \in Words /\ recs[1][1] \in Nat /\ recs[1][2] = 1
      BY <2>1, <2>2, RecordFields
    <3>2. f[1].key = recs[1][1] /\ f[1].total = 1 /\ f[1].out = <<>>
      BY <2>4, <3>1 DEF First, Counting
    <3>3. Upto(1) = Append(<<>>, recs[1]) /\ <<>> \in Seq(Record)
      <4>1. 0 \in 0 .. n - 1 /\ 0 + 1 = 1
        BY <2>1
      <4> QED BY <2>5, <4>1
    <3>4. \A w : Times(<<>>, w) = 0
      BY TallyEmpty DEF Times
    <3>5. \A w : /\ recs[1][1] = w => Times(Upto(1), w) = 1
                 /\ recs[1][1] # w => Times(Upto(1), w) = 0
      <4> SUFFICES ASSUME NEW w
                   PROVE  /\ recs[1][1] = w => Times(Upto(1), w) = 1
                          /\ recs[1][1] # w => Times(Upto(1), w) = 0
        OBVIOUS
      <4>1. /\ recs[1][1] = w => Times(Upto(1), w) = Times(<<>>, w) + 1
            /\ recs[1][1] # w => Times(Upto(1), w) = Times(<<>>, w)
        BY <3>1, <3>3, TimesAppend, Zenon
      <4> QED BY <3>4, <4>1
    <3>6. DOMAIN f[1].out = {}
      BY <3>2
    <3>7. InStep(f[1], Upto(1))
      BY <3>2, <3>5, <3>6 DEF InStep, Rising, Below, Counted
    <3> QED BY <2>1, <3>2, <3>7
  <2>7. ASSUME NEW i \in 1 .. n - 1, i \in S
        PROVE  i + 1 \in S
    <3>1. /\ i + 1 \in 2 .. n /\ i + 1 \in 1 .. n /\ (i + 1) - 1 = i /\ i \in 0 .. n - 1
          /\ i \in 1 .. n /\ i < i + 1
      BY <2>1
    <3>2. f[i] \in Accumulators /\ recs[i + 1] \in Record /\ Upto(i) \in Seq(Record)
      BY <2>2, <2>4, <2>5, <3>1
    <3>3. f[i + 1] = Take(f[i], recs[i + 1]) /\ Upto(i + 1) = Append(Upto(i), recs[i + 1])
      BY <2>4, <2>5, <3>1
    <3>4. f[i].key =< recs[i + 1][1]
      BY <2>1, <2>7, <3>1 DEF Ordered
    <3>5. InStep(f[i + 1], Upto(i + 1))
      BY <2>7, <3>2, <3>3, <3>4, TakeInStep
    <3>6. f[i + 1].key = recs[i + 1][1]
      BY <3>2, <3>3, TakeType
    <3> QED BY <3>1, <3>5, <3>6
  <2> HIDE DEF S
  <2>8. n \in S
    <3>1. 1 .. n \subseteq S
      BY <2>1, <2>6, <2>7, Ascend
    <3> QED BY <2>1, <3>1
  <2>9. f[n] \in Accumulators /\ InStep(f[n], recs)
    BY <2>1, <2>4, <2>5, <2>8 DEF S
  <2> QED BY <2>3, <2>9, EmitKey
<1> QED BY <1>1, <1>2

-------------------------------------------------------------------------------
(* The engine                                                              *)

\* The records that map task m makes for partition r.
Sent(m, r) == IF Chunk(m) = <<>> THEN <<>> ELSE Routed(Mapper(Chunk(m)), r)

\* How many records of w each map task has appended to partition r.
Arrived(r, w) ==
    [m \in Mappers |-> IF tpc[m] # NotStarted /\ r < tpc[m]
                       THEN Times(local[m][r], w) ELSE 0]

Types ==
    /\ lines \in Seq(Seq(Words))
    /\ hash \in [Words -> Nat]
    /\ phase \in {"map", "reduce", "done"}
    /\ tpc \in [Mappers -> 0 .. NotStarted]
    /\ local \in [Mappers -> [Partitions -> Seq(Record)]]
    /\ partitions \in [Partitions -> Seq(Record)]
    /\ rpc \in [Partitions -> {"reduce", "write", "finished"}]
    /\ reduced \in [Partitions -> Seq(Result)]
    /\ files \in [Partitions -> Seq(Result)]

LocalIsSent ==
    \A m \in Mappers, r \in Partitions : tpc[m] # NotStarted => local[m][r] = Sent(m, r)

\* In whatever order the tasks append, a partition holds what has been appended.
PartitionsAddUp ==
    \A r \in Partitions, w \in Words : Times(partitions[r], w) = Total(M, Arrived(r, w))

PhasesInOrder ==
    /\ phase # "map" => \A m \in Mappers : tpc[m] = Finished
    /\ phase = "done" => \A r \in Partitions : rpc[r] = "finished"
    /\ \A r \in Partitions :
          /\ rpc[r] # "reduce" => /\ phase # "map"
                                  /\ reduced[r] = Reducer(Sorted(partitions[r]))
          /\ files[r] = IF rpc[r] = "finished" THEN reduced[r] ELSE <<>>

EngineInv == Types /\ LocalIsSent /\ PartitionsAddUp /\ PhasesInOrder

\* What a map task sends to a partition: all its records of the words that hash
\* to it.
LEMMA SentRecords ==
    ASSUME Types, NEW m \in Mappers, NEW r \in Partitions
    PROVE  /\ Sent(m, r) \in Seq(Record)
           /\ \A w \in Words : Times(Sent(m, r), w) =
                 IF hash[w] % R = r THEN ChunkTallies(DOMAIN lines, lines, w)[m] ELSE 0
<1>1. Chunk(m) = Gather(lines, Places(DOMAIN lines, m))
  BY DEF Chunk, Places
<1>2. Chunk(m) \in Seq(Seq(Words))
  BY <1>1, GatherType DEF Types
<1>3. \A w : ChunkTallies(DOMAIN lines, lines, w)[m] = Tally(FlattenSeq(Chunk(m)), w)
  BY <1>1 DEF ChunkTallies
<1>4. CASE Chunk(m) = <<>>
  <2>1. Sent(m, r) = <<>> /\ <<>> \in Seq(Record)
    BY <1>4 DEF Sent
  <2>2. \A w : Tally(FlattenSeq(Chunk(m)), w) = 0
    BY <1>4, FlattenEmpty, TallyEmpty
  <2>3. \A w : Times(<<>>, w) = 0
    BY TallyEmpty DEF Times
  <2> QED BY <1>3, <2>1, <2>2, <2>3
<1>5. CASE Chunk(m) # <<>>
  <2>1. PICK recs : recs = Mapper(Chunk(m))
    OBVIOUS
  <2>2. recs \in Seq(Record) /\ \A w : Tally(recs, <<w, 1>>) = Tally(FlattenSeq(Chunk(m)), w)
    BY <1>2, <2>1, MapperRecords
  <2>3. Sent(m, r) = Routed(recs, r)
    BY <1>5, <2>1 DEF Sent
  <2>4. Sent(m, r) \in Seq(Record)
    <3>1. Routed(recs, r) = Gather(recs, {i \in DOMAIN recs : hash[recs[i][1]] % R = r})
      BY DEF Routed
    <3> QED BY <2>2, <2>3, <3>1, GatherType
  <2>5. \A w \in Words : Tally(Sent(m, r), <<w, 1>>) =
           IF hash[w] % R = r THEN Tally(recs, <<w, 1>>) ELSE 0
    <3>1. ASSUME NEW w \in Words
          PROVE  Tally(Routed(recs, r), <<w, 1>>) =
                    IF hash[w] % R = r THEN Tally(recs, <<w, 1>>) ELSE 0
      BY <2>2, RoutedRecords
    <3> QED BY <2>3, <3>1
  <2> QED BY <1>3, <2>2, <2>4, <2>5 DEF Times
<1> QED BY <1>4, <1>5

\* The numbers of appended records are numbers.
LEMMA ArrivedType ==
    ASSUME Types, NEW r \in Partitions, NEW w
    PROVE  Numbers(M, Arrived(r, w))
<1> SUFFICES ASSUME NEW m \in 0 .. M - 1
             PROVE  Arrived(r, w)[m] \in Nat
  BY DEF Numbers
<1>1. m \in Mappers
  BY DEF Mappers
<1>2. local[m][r] \in Seq(Record)
  BY <1>1 DEF Types
<1>3. Times(local[m][r], w) \in Nat
  BY <1>2, TallyType DEF Times
<1> QED BY <1>1, <1>3 DEF Arrived

\* The input and the hash stay, and with them what each task sends.
LEMMA SentStays ==
    ASSUME UNCHANGED <<lines, hash>>
    PROVE  /\ \A m : Chunk(m)' = Chunk(m)
           /\ \A m, r : Sent(m, r)' = Sent(m, r)
<1>1. \A m : Chunk(m)' = Chunk(m)
  BY DEF Chunk
<1>2. \A s, r : Routed(s, r)' = Routed(s, r)
  BY DEF Routed
<1> QED BY <1>1, <1>2 DEF Sent

\* At first nothing is sent, appended or written.
LEMMA EngineInit == Init => EngineInv
<1> SUFFICES ASSUME Init PROVE EngineInv
  OBVIOUS
<1>1. Types
  <2>1. lines \in Seq(Seq(Words))
    <3>1. \A l \in SeqOf(Words, MaxWords) : l \in Seq(Words)
      BY BoundsAssumption DEF SeqOf
    <3>2. PICK n \in 0 .. MaxLines : lines \in [1 .. n -> SeqOf(Words, MaxWords)]
      BY DEF Init, Line, SeqOf
    <3>3. n \in Nat
      BY BoundsAssumption
    <3>4. lines \in [1 .. n -> Seq(Words)]
      BY <3>1, <3>2
    <3> QED BY <3>3, <3>4
  <2>2. hash \in [Words -> Nat]
    BY SizesAssumption DEF Init
  <2>3. <<>> \in Seq(Record) /\ <<>> \in Seq(Result)
    OBVIOUS
  <2> QED BY <2>1, <2>2, <2>3, SizesAssumption DEF Init, Types, NotStarted
<1>2. LocalIsSent
  BY DEF Init, LocalIsSent
<1>3. PartitionsAddUp
  <2> SUFFICES ASSUME NEW r \in Partitions, NEW w \in Words
               PROVE  Times(partitions[r], w) = Total(M, Arrived(r, w))
    BY DEF PartitionsAddUp
  <2>1. Times(partitions[r], w) = 0
    BY TallyEmpty DEF Init, Times
  <2>2. \A m \in 0 .. M - 1 : Arrived(r, w)[m] = 0
    BY DEF Arrived, Init, Mappers
  <2>3. Total(M, Arrived(r, w)) = 0
    BY <2>2, SizesAssumption, TotalOfZeros
  <2> QED BY <2>1, <2>3
<1>4. PhasesInOrder
  BY DEF Init, PhasesInOrder
<1> QED BY <1>1, <1>2, <1>3, <1>4 DEF EngineInv

\* Every step of a task or of main keeps the invariant.
LEMMA EngineNext == EngineInv /\ [Next]_vars => EngineInv'
<1> SUFFICES ASSUME EngineInv, [Next]_vars
             PROVE  EngineInv'
  OBVIOUS
<1>1. Types /\ LocalIsSent /\ PartitionsAddUp /\ PhasesInOrder
  BY DEF EngineInv
<1>2. ASSUME NEW m \in Mappers, MapRun(m)
      PROVE  EngineInv'
  <2>1. UNCHANGED <<lines, hash, phase, partitions, rpc, reduced, files>>
        /\ phase = "map" /\ tpc[m] = NotStarted
    BY <1>2 DEF MapRun
  <2>2. \A r \in Partitions : local'[m][r] = Sent(m, r)
    BY <1>1, <1>2 DEF MapRun, Types, Sent
  <2>3. \A k \in Mappers : k # m => local'[k] = local[k] /\ tpc'[k] = tpc[k]
    BY <1>1, <1>2 DEF MapRun, Types
  <2>4. tpc'[m] = IF Chunk(m) = <<>> THEN Finished ELSE 0
    BY <1>1, <1>2 DEF MapRun, Types
  <2>5. \A r \in Partitions : Sent(m, r) \in Seq(Record)
    BY <1>1, SentRecords
  <2>6. Types'
    <3>1. local' \in [Mappers -> [Partitions -> Seq(Record)]]
      <4>1. PICK row : row = [r \in Partitions |-> Sent(m, r)]
        OBVIOUS
      <4>2. row \in [Partitions -> Seq(Record)]
        BY <2>5, <4>1
      <4>3. local' = [local EXCEPT ![m] = row]
        BY <1>2, <4>1 DEF MapRun, Sent
      <4> QED BY <1>1, <4>2, <4>3 DEF Types
    <3>2. tpc' \in [Mappers -> 0 .. NotStarted]
      <4>1. Finished \in 0 .. NotStarted /\ 0 \in 0 .. NotStarted
        BY SizesAssumption DEF Finished, NotStarted
      <4> QED BY <1>1, <1>2, <4>1 DEF MapRun, Types
    <3> QED BY <1>1, <2>1, <3>1, <3>2 DEF Types
  <2>7. LocalIsSent'
    <3>1. \A k \in Mappers, r \in Partitions : tpc'[k] # NotStarted => local'[k][r] = Sent(k, r)
      BY <1>1, <2>2, <2>3 DEF LocalIsSent
    <3> QED BY <2>1, <3>1, SentStays DEF LocalIsSent
  <2>8. PartitionsAddUp'
    <3> SUFFICES ASSUME NEW r \in Partitions, NEW w \in Words
                 PROVE  Times(partitions[r], w)' = Total(M, Arrived(r, w))'
      BY DEF PartitionsAddUp
    <3>1. ASSUME NEW k \in Mappers
          PROVE  (IF tpc'[k] # NotStarted /\ r < tpc'[k] THEN Times(local'[k][r], w) ELSE 0) =
                 (IF tpc[k] # NotStarted /\ r < tpc[k] THEN Times(local[k][r], w) ELSE 0)
      <4>1. CASE k # m
        BY <2>3, <4>1
      <4>2. CASE k = m /\ Chunk(m) = <<>>
        <5>1. local'[m][r] = <<>>
          BY <2>2, <4>2 DEF Sent
        <5>2. Times(local'[m][r], w) = 0
          BY <5>1, TallyEmpty DEF Times
        <5> QED BY <2>1, <4>2, <5>2
      <4>3. CASE k = m /\ Chunk(m) # <<>>
        <5>1. tpc'[k] = 0 /\ ~(r < 0)
          BY <2>4, <4>3 DEF Partitions
        <5> QED BY <2>1, <4>3, <5>1
      <4> QED BY <4>1, <4>2, <4>3
    <3>2. Arrived(r, w)' = Arrived(r, w)
      BY <3>1 DEF Arrived
    <3>3. Times(partitions[r], w) = Total(M, Arrived(r, w))
      BY <1>1 DEF PartitionsAddUp
    <3> QED BY <2>1, <3>2, <3>3
  <2>9. PhasesInOrder'
    BY <1>1, <2>1 DEF PhasesInOrder
  <2> QED BY <2>6, <2>7, <2>8, <2>9 DEF EngineInv
<1>3. ASSUME NEW m \in Mappers, MapAppend(m)
      PROVE  EngineInv'
  <2>1. UNCHANGED <<lines, hash, phase, local, rpc, reduced, files>> /\ tpc[m] < R
    BY <1>3 DEF MapAppend
  <2>2. PICK p : p = tpc[m]
    OBVIOUS
  <2>3. p \in Partitions /\ p \in Nat /\ p # NotStarted /\ R \in Nat
    BY <1>1, <2>1, <2>2, SizesAssumption DEF Types, Partitions, NotStarted
  <2>4. /\ \A k \in Mappers : k # m => tpc'[k] = tpc[k]
        /\ tpc'[m] = IF p + 1 = R THEN Finished ELSE p + 1
    BY <1>1, <1>3, <2>2 DEF MapAppend, Types
  <2>5. /\ tpc'[m] \in Nat /\ tpc'[m] # NotStarted
        /\ \A r \in Partitions : r < tpc'[m] <=> r < p \/ r = p
    BY <2>1, <2>2, <2>3, <2>4 DEF Partitions, NotStarted, Finished
  <2>6. phase = "map"
    BY <1>1, <2>1, SizesAssumption DEF PhasesInOrder, Finished
  <2>7. local[m][p] \in Seq(Record) /\ partitions[p] \in Seq(Record)
    BY <1>1, <2>3 DEF Types
  <2>8. partitions' = [partitions EXCEPT ![p] = partitions[p] \o local[m][p]]
    BY <1>3, <2>2 DEF MapAppend
  <2>9. Types'
    <3>1. partitions[p] \o local[m][p] \in Seq(Record)
      BY <2>7, ConcatProperties
    <3>2. partitions' \in [Partitions -> Seq(Record)]
      <4>1. PICK new : new = partitions[p] \o local[m][p]
        OBVIOUS
      <4> QED BY <1>1, <2>8, <3>1, <4>1 DEF Types
    <3>3. tpc' \in [Mappers -> 0 .. NotStarted]
      <4>1. (IF tpc[m] + 1 = R THEN Finished ELSE tpc[m] + 1) \in 0 .. NotStarted
        BY <2>1, <2>2, <2>3 DEF Finished, NotStarted
      <4> QED BY <1>1, <1>3, <4>1 DEF MapAppend, Types
    <3> QED BY <1>1, <2>1, <3>2, <3>3 DEF Types
  <2>10. LocalIsSent'
    <3>1. \A k \in Mappers, r \in Partitions : tpc'[k] # NotStarted => local'[k][r] = Sent(k, r)
      BY <1>1, <2>1, <2>2, <2>3, <2>4 DEF LocalIsSent
    <3> QED BY <2>1, <3>1, SentStays DEF LocalIsSent
  <2>11. PartitionsAddUp'
    <3> SUFFICES ASSUME NEW r \in Partitions, NEW w \in Words
                 PROVE  Times(partitions'[r], w) = Total(M, Arrived(r, w)')
      BY DEF PartitionsAddUp
    <3>1. PICK F : F = Arrived(r, w)
      OBVIOUS
    <3>2. PICK G : G = Arrived(r, w)'
      OBVIOUS
    <3>3. Times(partitions[r], w) = Total(M, F)
      BY <1>1, <3>1 DEF PartitionsAddUp
    <3>4. \A k \in Mappers : k # m => F[k] = G[k]
      BY <2>1, <2>4, <3>1, <3>2 DEF Arrived
    <3>5. CASE r # p
      <4>1. r < tpc'[m] <=> r < p
        BY <2>5, <3>5
      <4>2. F[m] = G[m]
        BY <2>1, <2>2, <2>3, <2>5, <3>1, <3>2, <4>1 DEF Arrived
      <4>3. F = G
        BY <3>1, <3>2, <3>4, <4>2 DEF Arrived
      <4>4. partitions'[r] = partitions[r]
        BY <1>1, <2>8, <3>5 DEF Types
      <4> QED BY <3>2, <3>3, <4>3, <4>4
    <3>6. CASE r = p
      <4>1. F[m] = 0 /\ G[m] = Times(local[m][p], w)
        <5>1. ~(r < tpc[m]) /\ r < tpc'[m]
          BY <2>2, <2>3, <2>5, <3>6
        <5> QED BY <2>1, <2>5, <3>1, <3>2, <3>6, <5>1 DEF Arrived
      <4>2. Numbers(M, F) /\ Numbers(M, G)
        <5>1. Numbers(M, F)
          BY <1>1, <3>1, ArrivedType
        <5>2. G[m] \in Nat
          BY <2>7, <4>1, TallyType DEF Times
        <5>3. Numbers(M, G)
          BY <3>4, <5>1, <5>2 DEF Numbers, Mappers
        <5> QED BY <5>1, <5>3
      <4>3. AlikeBut(M, F, G, m)
        BY <3>4 DEF AlikeBut, Mappers
      <4>4. M \in Nat /\ m \in Nat /\ m < M
        BY SizesAssumption DEF Mappers
      <4>5. Total(M, G) = (Total(M, F) + G[m]) - F[m]
        BY <4>2, <4>3, <4>4, TotalAlike
      <4>6. Times(partitions[p] \o local[m][p], w) = Times(partitions[p], w) + Times(local[m][p], w)
        BY <2>7, TallyConcat DEF Times
      <4>7. Times(partitions[p], w) \in Nat /\ Times(local[m][p], w) \in Nat
        BY <2>7, TallyType DEF Times
      <4>8. partitions'[r] = partitions[p] \o local[m][p]
        BY <1>1, <2>3, <2>8, <3>6 DEF Types
      <4>9. Times(partitions'[r], w) = Times(partitions[p], w) + Times(local[m][p], w)
        BY <4>6, <4>8
      <4>10. Times(partitions'[r], w) = Total(M, G)
        BY <3>3, <3>6, <4>1, <4>5, <4>7, <4>9
      <4> QED BY <3>2, <4>10
    <3> QED BY <3>5, <3>6
  <2>12. PhasesInOrder'
    <3>1. \A r \in Partitions : rpc[r] = "reduce"
      BY <1>1, <2>6 DEF PhasesInOrder
    <3> QED BY <1>1, <2>1, <2>6, <3>1 DEF PhasesInOrder
  <2> QED BY <2>9, <2>10, <2>11, <2>12 DEF EngineInv
<1>4. ASSUME UNCHANGED <<lines, hash, tpc, local, partitions>>
      PROVE  LocalIsSent' /\ PartitionsAddUp'
  <2>1. LocalIsSent'
    <3>1. \A k \in Mappers, r \in Partitions : tpc'[k] # NotStarted => local'[k][r] = Sent(k, r)
      BY <1>1, <1>4 DEF LocalIsSent
    <3> QED BY <1>4, <3>1, SentStays DEF LocalIsSent
  <2>2. \A r, w : Arrived(r, w)' = Arrived(r, w)
    BY <1>4 DEF Arrived
  <2>3. PartitionsAddUp'
    BY <1>1, <1>4, <2>2 DEF PartitionsAddUp
  <2> QED BY <2>1, <2>3
<1>5. CASE MapWait
  <2>1. Types' /\ PhasesInOrder'
    BY <1>1, <1>5 DEF MapWait, Types, PhasesInOrder
  <2>2. UNCHANGED <<lines, hash, tpc, local, partitions>>
    BY <1>5 DEF MapWait
  <2> QED BY <1>4, <2>1, <2>2 DEF EngineInv
<1>6. ASSUME NEW r \in Partitions, ReduceRun(r)
      PROVE  EngineInv'
  <2>1. UNCHANGED <<lines, hash, phase, tpc, local, partitions, files>>
        /\ phase = "reduce" /\ rpc[r] = "reduce"
        /\ rpc' = [rpc EXCEPT ![r] = "write"]
    BY <1>6 DEF ReduceRun
  <2>2. PICK out : out = Reducer(Sorted(partitions[r]))
    OBVIOUS
  <2>3. reduced' = [reduced EXCEPT ![r] = out]
    BY <1>6, <2>2 DEF ReduceRun
  <2>4. out \in Seq(Result)
    <3>1. partitions[r] \in Seq(Record)
      BY <1>1 DEF Types
    <3>2. Sorted(partitions[r]) \in Seq(Record) /\ Ordered(Sorted(partitions[r]))
      BY <3>1, SortedRecords
    <3> QED BY <2>2, <3>2, ReducerIsExact
  <2>5. Types'
    BY <1>1, <2>1, <2>3, <2>4 DEF Types
  <2>6. PhasesInOrder'
    <3>1. ASSUME NEW q \in Partitions
          PROVE  /\ rpc'[q] # "reduce" => reduced'[q] = Reducer(Sorted(partitions[q]))
                 /\ files[q] = IF rpc'[q] = "finished" THEN reduced'[q] ELSE <<>>
      BY <1>1, <2>1, <2>2, <2>3 DEF Types, PhasesInOrder
    <3> QED BY <1>1, <2>1, <3>1 DEF PhasesInOrder
  <2> QED BY <1>4, <2>1, <2>5, <2>6 DEF EngineInv
<1>7. ASSUME NEW r \in Partitions, ReduceWrite(r)
      PROVE  EngineInv'
  <2>1. UNCHANGED <<lines, hash, phase, tpc, local, partitions, reduced>>
        /\ rpc[r] = "write"
        /\ rpc' = [rpc EXCEPT ![r] = "finished"]
        /\ files' = [files EXCEPT ![r] = reduced[r]]
    BY <1>7 DEF ReduceWrite
  <2>2. Types'
    BY <1>1, <2>1 DEF Types
  <2>3. PhasesInOrder'
    <3>1. ASSUME NEW q \in Partitions
          PROVE  /\ rpc'[q] # "reduce" => phase # "map" /\ reduced[q] = Reducer(Sorted(partitions[q]))
                 /\ files'[q] = IF rpc'[q] = "finished" THEN reduced[q] ELSE <<>>
      BY <1>1, <2>1 DEF Types, PhasesInOrder
    <3>2. \A q \in Partitions : rpc[q] = "finished" => rpc'[q] = "finished"
      BY <1>1, <2>1 DEF Types
    <3> QED BY <1>1, <2>1, <3>1, <3>2 DEF PhasesInOrder
  <2> QED BY <1>4, <2>1, <2>2, <2>3 DEF EngineInv
<1>8. CASE ReduceWait
  <2>1. Types' /\ PhasesInOrder'
    BY <1>1, <1>8 DEF ReduceWait, Types, PhasesInOrder
  <2>2. UNCHANGED <<lines, hash, tpc, local, partitions>>
    BY <1>8 DEF ReduceWait
  <2> QED BY <1>4, <2>1, <2>2 DEF EngineInv
<1>9. CASE UNCHANGED vars
  <2>1. Types' /\ PhasesInOrder'
    BY <1>1, <1>9 DEF vars, Types, PhasesInOrder
  <2>2. UNCHANGED <<lines, hash, tpc, local, partitions>>
    BY <1>9 DEF vars
  <2> QED BY <1>4, <2>1, <2>2 DEF EngineInv
<1> QED BY <1>2, <1>3, <1>5, <1>6, <1>7, <1>8, <1>9 DEF Next, Done

\* The invariant holds in every reachable state.
LEMMA EngineInvariant == Spec => []EngineInv
  BY EngineInit, EngineNext, PTL DEF Spec

-------------------------------------------------------------------------------
(* What the files hold                                                     *)

\* When the map phase is over a partition has, for each word that hashes to it,
\* as many records as the word has occurrences, and none for the others.
LEMMA PartitionsAreExact ==
    ASSUME EngineInv, phase # "map", NEW r \in Partitions, NEW w \in Words
    PROVE  Times(partitions[r], w) = IF hash[w] % R = r THEN Occurrences(w) ELSE 0
<1>1. Types /\ LocalIsSent /\ PartitionsAddUp /\ PhasesInOrder
  BY DEF EngineInv
<1>2. Times(partitions[r], w) = Total(M, Arrived(r, w))
  BY <1>1 DEF PartitionsAddUp
<1>3. PICK C : C = ChunkTallies(DOMAIN lines, lines, w)
  OBVIOUS
<1>4. ASSUME NEW m \in Mappers
      PROVE  Arrived(r, w)[m] = IF hash[w] % R = r THEN C[m] ELSE 0
  <2>1. tpc[m] # NotStarted /\ r < tpc[m]
    BY <1>1, SizesAssumption DEF PhasesInOrder, Finished, NotStarted, Partitions
  <2>2. Arrived(r, w)[m] = Times(Sent(m, r), w)
    BY <1>1, <2>1 DEF Arrived, LocalIsSent
  <2>3. Times(Sent(m, r), w) = IF hash[w] % R = r THEN C[m] ELSE 0
    BY <1>1, <1>3, SentRecords
  <2> QED BY <2>2, <2>3
<1>5. CASE hash[w] % R = r
  <2>1. Arrived(r, w) = C
    BY <1>3, <1>4, <1>5 DEF Arrived, ChunkTallies
  <2>2. Total(M, C) = Tally(FlattenSeq(lines), w)
    BY <1>1, <1>3, TotalOfChunks DEF Types
  <2>3. Occurrences(w) = Tally(FlattenSeq(lines), w)
    BY DEF Occurrences, Tally
  <2> QED BY <1>2, <1>5, <2>1, <2>2, <2>3
<1>6. CASE hash[w] % R # r
  <2>1. \A m \in 0 .. M - 1 : Arrived(r, w)[m] = 0
    BY <1>4, <1>6 DEF Mappers
  <2>2. Total(M, Arrived(r, w)) = 0
    BY <2>1, SizesAssumption, TotalOfZeros
  <2> QED BY <1>2, <1>6, <2>2
<1> QED BY <1>5, <1>6

\* A file is empty, or it is exact for the records of its partition.
LEMMA FilesAreExact ==
    ASSUME EngineInv, NEW r \in Partitions
    PROVE  /\ files[r] \in Seq(Result)
           /\ rpc[r] # "finished" => files[r] = <<>>
           /\ rpc[r] = "finished" => phase # "map" /\ Exact(files[r], partitions[r])
<1>1. Types /\ PhasesInOrder
  BY DEF EngineInv
<1>2. CASE rpc[r] = "finished"
  <2>1. PICK s : s = Sorted(partitions[r])
    OBVIOUS
  <2>2. phase # "map" /\ files[r] = Reducer(s)
    BY <1>1, <1>2, <2>1 DEF PhasesInOrder
  <2>3. partitions[r] \in Seq(Record)
    BY <1>1 DEF Types
  <2>4. s \in Seq(Record) /\ Ordered(s) /\ \A w : Times(s, w) = Times(partitions[r], w)
    BY <2>1, <2>3, SortedRecords DEF Times
  <2>5. Exact(files[r], s)
    BY <2>2, <2>4, ReducerIsExact
  <2>6. Exact(files[r], partitions[r])
    BY <2>4, <2>5 DEF Exact, Counted
  <2> QED BY <1>1, <1>2, <2>2, <2>6 DEF Types
<1>3. CASE rpc[r] # "finished"
  BY <1>1, <1>3 DEF PhasesInOrder, Types
<1> QED BY <1>2, <1>3

\* An entry of a file: its word hashes to that file and is in it once, with the
\* number of its occurrences.
LEMMA FileEntry ==
    ASSUME EngineInv, NEW r \in Partitions, NEW i \in DOMAIN files[r]
    PROVE  /\ files[r][i] \in Result
           /\ files[r][i][1] \in Words /\ files[r][i][1] \in Nat
           /\ hash[files[r][i][1]] % R = r
           /\ files[r][i][2] = Occurrences(files[r][i][1]) /\ files[r][i][2] > 0
           /\ \A j \in DOMAIN files[r] : files[r][j][1] = files[r][i][1] => j = i
<1>1. files[r] # <<>> /\ files[r] \in Seq(Result)
  BY FilesAreExact
<1>2. phase # "map" /\ Exact(files[r], partitions[r])
  BY <1>1, FilesAreExact
<1>3. files[r][i] \in Result
  BY <1>1
<1>4. \A j \in DOMAIN files[r] : files[r][j][1] \in Words /\ files[r][j][1] \in Nat
  <2> SUFFICES ASSUME NEW j \in DOMAIN files[r]
               PROVE  files[r][j][1] \in Words /\ files[r][j][1] \in Nat
    OBVIOUS
  <2>1. files[r][j] \in Words \X Nat
    BY <1>1 DEF Result
  <2>2. files[r][j][1] \in Words
    BY <2>1
  <2> QED BY <2>2, WordsAssumption
<1>5. PICK w : w = files[r][i][1]
  OBVIOUS
<1>6. files[r][i][2] = Times(partitions[r], w) /\ files[r][i][2] > 0
  BY <1>2, <1>5 DEF Exact, Counted
<1>7. Times(partitions[r], w) = IF hash[w] % R = r THEN Occurrences(w) ELSE 0
  BY <1>2, <1>4, <1>5, PartitionsAreExact
<1>8. hash[w] % R = r /\ files[r][i][2] = Occurrences(w)
  BY <1>6, <1>7
<1>9. ASSUME NEW j \in DOMAIN files[r], files[r][j][1] = files[r][i][1]
      PROVE  j = i
  <2>1. i \in Nat /\ j \in Nat
    BY <1>1
  <2>2. ~(i < j) /\ ~(j < i)
    BY <1>2, <1>4, <1>9 DEF Exact, Rising
  <2> QED BY <2>1, <2>2
<1> QED BY <1>3, <1>4, <1>5, <1>6, <1>8, <1>9

\* No word has two records in the files, at any time: in two files, because one
\* partition takes all records of a word, or in one, because it was sorted before
\* the reducer compared each key with the one before.
THEOREM NoKeySplit == Spec => []NoKeyIsSplit
<1>1. EngineInv => NoKeyIsSplit
  <2> SUFFICES ASSUME EngineInv,
                      NEW r \in Partitions, NEW q \in Partitions,
                      NEW i \in DOMAIN files[r], NEW j \in DOMAIN files[q],
                      files[r][i][1] = files[q][j][1]
               PROVE  r = q /\ i = j
    BY DEF NoKeyIsSplit
  <2>1. hash[files[r][i][1]] % R = r /\ hash[files[q][j][1]] % R = q
    BY FileEntry
  <2>2. r = q
    BY <2>1
  <2>3. j \in DOMAIN files[r] /\ files[r][j][1] = files[r][i][1]
    BY <2>2
  <2>4. j = i
    BY <2>3, FileEntry
  <2> QED BY <2>2, <2>4
<1> QED BY <1>1, EngineInvariant, PTL

\* When the engine is done the files hold each word of the input with its number
\* of occurrences, and no other, for every input, every number of mappers and
\* reducers, every hash function and every order in which map tasks append.
THEOREM CountsExact == Spec => []CountsAreExact
<1>1. EngineInv => CountsAreExact
  <2> SUFFICES ASSUME EngineInv PROVE CountsAreExact
    OBVIOUS
  <2>1. Types /\ PhasesInOrder
    BY DEF EngineInv
  <2>2. TypeOK
    <3>1. \A r \in Partitions : \A i \in DOMAIN partitions[r] : partitions[r][i] \in Words \X {1}
      BY <2>1 DEF Types, Record
    <3>2. \A r \in Partitions : \A i \in DOMAIN files[r] : files[r][i] \in Words \X Nat
      BY <2>1 DEF Types, Result
    <3> QED BY <2>1, <3>1, <3>2 DEF Types, TypeOK
  <2>3. ASSUME phase = "done", NEW w \in Words
        PROVE  (\E r \in Partitions : \E i \in DOMAIN files[r] : files[r][i][1] = w)
                  <=> Occurrences(w) > 0
    <3>1. ASSUME NEW r \in Partitions, NEW i \in DOMAIN files[r], files[r][i][1] = w
          PROVE  Occurrences(w) > 0
      BY <3>1, FileEntry
    <3>2. ASSUME Occurrences(w) > 0
          PROVE  \E r \in Partitions : \E i \in DOMAIN files[r] : files[r][i][1] = w
      <4>1. PICK r : r = hash[w] % R
        OBVIOUS
      <4>2. r \in Partitions
        <5>1. hash[w] \in Nat /\ R \in Nat /\ R > 0
          BY <2>1, SizesAssumption DEF Types
        <5> QED BY <4>1, <5>1 DEF Partitions
      <4>3. rpc[r] = "finished"
        BY <2>1, <2>3, <4>2 DEF PhasesInOrder
      <4>4. phase # "map" /\ Exact(files[r], partitions[r])
        BY <4>2, <4>3, FilesAreExact
      <4>5. Times(partitions[r], w) = Occurrences(w)
        BY <4>1, <4>2, <4>4, PartitionsAreExact
      <4>6. Holds(files[r], w)
        BY <3>2, <4>4, <4>5 DEF Exact
      <4> QED BY <4>2, <4>6 DEF Holds
    <3> QED BY <3>1, <3>2
  <2>4. \A r \in Partitions : \A i \in DOMAIN files[r] :
           files[r][i][2] = Occurrences(files[r][i][1])
    BY FileEntry
  <2> QED BY <2>2, <2>3, <2>4 DEF CountsAreExact
<1> QED BY <1>1, EngineInvariant, PTL

=============================================================================
