------------------------- MODULE SubsequencesProofs -------------------------
(***************************************************************************)
(* What AtPositions, Concatenated and RunOver return.  A recursive         *)
(* function is a CHOOSE, so that it satisfies its equation has to be       *)
(* proved first; the proofs are by least counterexample.                   *)
(***************************************************************************)
EXTENDS Subsequences, TLAPS, WellFoundedInduction

\* Every non-empty set of naturals has a least element.
LEMMA LeastNatural ==
  ASSUME NEW T \in SUBSET Nat, T # {}
  PROVE  \E m \in T : \A n \in T : m <= n
<1> DEFINE R == {ss \in Nat \X Nat : ss[1] < ss[2]}
<1>1. IsWellFoundedOn(R, Nat)
  BY NatLessThanWellFounded DEF OpToRel
<1>2. PICK x \in T : \A y \in T : <<y, x>> \notin R
  BY <1>1, WFMin
<1>3. ASSUME NEW y \in T PROVE x <= y
  <2>1. <<y, x>> \in Nat \X Nat
    OBVIOUS
  <2>2. ~(y < x)
    BY <2>1, <1>2
  <2> QED BY <2>2
<1> QED BY <1>3

\* One step of the recursion of AtPositions, as a function of the sequence
\* picked so far.
LOCAL Pick(s, K, n, t) == IF n \in K THEN Append(t, s[n]) ELSE t

\* f is the function that AtPositions computes, up to position n.
LOCAL Computes(f, s, K, n) ==
  f = [k \in 0..n |-> IF k = 0 THEN << >> ELSE Pick(s, K, k, f[k-1])]

\* The recursion has a solution.
LEMMA PickedExists ==
  ASSUME NEW s, NEW K, NEW len \in Nat
  PROVE  \E f : Computes(f, s, K, len)
<1> DEFINE T == {n \in Nat : ~ \E f : Computes(f, s, K, n)}
<1> SUFFICES ASSUME T # {} PROVE FALSE
  OBVIOUS
<1>1. PICK m \in T : \A n \in T : m <= n
  BY LeastNatural
<1>2. m # 0
  <2> DEFINE g == [k \in 0..0 |-> IF k = 0 THEN << >> ELSE Pick(s, K, k, << >>)]
  <2>1. Computes(g, s, K, 0)
    BY DEF Computes
  <2> QED BY <2>1
<1>3. PICK f : Computes(f, s, K, m - 1)
  BY <1>1, <1>2
<1> DEFINE g == [k \in 0..m |-> IF k = m THEN Pick(s, K, m, f[m-1]) ELSE f[k]]
<1>4. \A k \in 0..(m-1) : g[k] = f[k]
  BY <1>2
<1>5. \A k \in 0..m : g[k] = IF k = 0 THEN << >> ELSE Pick(s, K, k, g[k-1])
  <2> TAKE k \in 0..m
  <2>1. CASE k = m
    BY <2>1, <1>2, <1>4
  <2>2. CASE k # m
    <3>1. f[k] = IF k = 0 THEN << >> ELSE Pick(s, K, k, f[k-1])
      BY <2>2, <1>3 DEF Computes
    <3>2. k # 0 => k - 1 \in 0..(m-1)
      BY <2>2
    <3> QED BY <2>2, <3>1, <3>2, <1>4
  <2> QED BY <2>1, <2>2
<1>6. Computes(g, s, K, m)
  BY <1>5 DEF Computes
<1> QED BY <1>6

\* AtPositions(s, K) is a sequence over the elements of s at K.
LEMMA AtPositionsType ==
  ASSUME NEW X, NEW s \in Seq(X), NEW K, NEW S,
         \A k \in DOMAIN s : k \in K => s[k] \in S
  PROVE  AtPositions(s, K) \in Seq(S)
<1> DEFINE picked[n \in 0..Len(s)] ==
             IF n = 0 THEN << >>
             ELSE IF n \in K THEN Append(picked[n-1], s[n]) ELSE picked[n-1]
<1>1. AtPositions(s, K) = picked[Len(s)]
  BY DEF AtPositions
<1>2. Len(s) \in Nat
  OBVIOUS
<1>3. PICK f : Computes(f, s, K, Len(s))
  BY <1>2, PickedExists
<1>4. f = [n \in 0..Len(s) |->
                    IF n = 0 THEN << >>
                    ELSE IF n \in K THEN Append(f[n-1], s[n]) ELSE f[n-1]]
  BY <1>3 DEF Computes, Pick
<1>5. picked = [n \in 0..Len(s) |->
                    IF n = 0 THEN << >>
                    ELSE IF n \in K THEN Append(picked[n-1], s[n]) ELSE picked[n-1]]
  BY <1>4
<1> HIDE DEF picked
<1> DEFINE T == {n \in 0..Len(s) : picked[n] \notin Seq(S)}
<1>6. ASSUME T # {} PROVE FALSE
  <2> T \in SUBSET Nat
    OBVIOUS
  <2>1. PICK m \in T : \A n \in T : m <= n
    BY <1>6, LeastNatural
  <2>2. m # 0
    BY <1>5
  <2>3. picked[m-1] \in Seq(S) /\ (m \in K => s[m] \in S)
    BY <2>1, <2>2
  <2>4. picked[m] = IF m \in K THEN Append(picked[m-1], s[m]) ELSE picked[m-1]
    BY <2>2, <1>5
  <2>5. picked[m] \in Seq(S)
    BY <2>3, <2>4
  <2> QED BY <2>5
<1> QED BY <1>1, <1>6

\* AtPositions(s, K) has every element of s at K.
LEMMA AtPositionsKeeps ==
  ASSUME NEW X, NEW s \in Seq(X), NEW K, NEW k \in DOMAIN s, k \in K
  PROVE  s[k] \in Elements(AtPositions(s, K))
<1> DEFINE picked[n \in 0..Len(s)] ==
             IF n = 0 THEN << >>
             ELSE IF n \in K THEN Append(picked[n-1], s[n]) ELSE picked[n-1]
<1>1. AtPositions(s, K) = picked[Len(s)]
  BY DEF AtPositions
<1>2. Len(s) \in Nat
  OBVIOUS
<1>3. PICK f : Computes(f, s, K, Len(s))
  BY <1>2, PickedExists
<1>4. f = [n \in 0..Len(s) |->
                    IF n = 0 THEN << >>
                    ELSE IF n \in K THEN Append(f[n-1], s[n]) ELSE f[n-1]]
  BY <1>3 DEF Computes, Pick
<1>5. picked = [n \in 0..Len(s) |->
                    IF n = 0 THEN << >>
                    ELSE IF n \in K THEN Append(picked[n-1], s[n]) ELSE picked[n-1]]
  BY <1>4
<1> HIDE DEF picked
<1> DEFINE T == {n \in 0..Len(s) :
                  ~(picked[n] \in Seq(X) /\ (n >= k => s[k] \in Elements(picked[n])))}
<1>6. ASSUME T # {} PROVE FALSE
  <2> T \in SUBSET Nat
    OBVIOUS
  <2>1. PICK m \in T : \A n \in T : m <= n
    BY <1>6, LeastNatural
  <2>2. m # 0
    BY <1>5
  <2>3. /\ m \in 1..Len(s) /\ s[m] \in X
        /\ picked[m-1] \in Seq(X) /\ (m - 1 >= k => s[k] \in Elements(picked[m-1]))
    BY <2>1, <2>2
  <2>4. picked[m] = IF m \in K THEN Append(picked[m-1], s[m]) ELSE picked[m-1]
    BY <2>2, <1>5
  <2>5. CASE m \notin K
    BY <2>1, <2>3, <2>4, <2>5
  <2>6. CASE m \in K
    <3>1. /\ picked[m] \in Seq(X) /\ Len(picked[m]) = Len(picked[m-1]) + 1
          /\ picked[m][Len(picked[m])] = s[m]
          /\ \A j \in 1..Len(picked[m-1]) : picked[m][j] = picked[m-1][j]
      BY <2>3, <2>4, <2>6
    <3>2. s[m] \in Elements(picked[m])
      BY <3>1, <2>3 DEF Elements
    <3>3. Elements(picked[m-1]) \subseteq Elements(picked[m])
      <4>1. /\ DOMAIN picked[m-1] = 1..Len(picked[m-1]) /\ Len(picked[m-1]) \in Nat
            /\ DOMAIN picked[m] = 1..Len(picked[m])
        BY <2>3, <3>1
      <4> HIDE DEF T
      <4>2. ASSUME NEW j \in 1..Len(picked[m-1]) PROVE picked[m-1][j] \in Elements(picked[m])
        <5>1. j \in 1..Len(picked[m])
          BY <3>1, <4>1
        <5>2. picked[m][j] = picked[m-1][j]
          BY <3>1
        <5> QED BY <4>1, <5>1, <5>2 DEF Elements
      <4> QED BY <4>1, <4>2 DEF Elements
    <3> QED BY <2>1, <2>3, <3>1, <3>2, <3>3
  <2> QED BY <2>5, <2>6
<1> QED BY <1>1, <1>2, <1>6

\* The recursion of RunOver has a solution.
LOCAL RunsOver(f, step, start, s, n) ==
  f = [k \in 0..n |-> IF k = 0 THEN start ELSE step[<<s[k], f[k-1]>>]]

\* The function by which RunOver is defined satisfies its equation.
LEMMA RunExists ==
  ASSUME NEW step, NEW start, NEW s, NEW len \in Nat
  PROVE  \E f : RunsOver(f, step, start, s, len)
<1> DEFINE T == {n \in Nat : ~ \E f : RunsOver(f, step, start, s, n)}
<1> SUFFICES ASSUME T # {} PROVE FALSE
  OBVIOUS
<1>1. PICK m \in T : \A n \in T : m <= n
  BY LeastNatural
<1>2. m # 0
  <2> DEFINE g == [k \in 0..0 |-> IF k = 0 THEN start ELSE step[<<s[k], start>>]]
  <2>1. RunsOver(g, step, start, s, 0)
    BY DEF RunsOver
  <2> QED BY <2>1
<1>3. PICK f : RunsOver(f, step, start, s, m - 1)
  BY <1>1, <1>2
<1> DEFINE g == [k \in 0..m |-> IF k = m THEN step[<<s[m], f[m-1]>>] ELSE f[k]]
<1>4. \A k \in 0..(m-1) : g[k] = f[k]
  BY <1>2
<1>5. \A k \in 0..m : g[k] = IF k = 0 THEN start ELSE step[<<s[k], g[k-1]>>]
  <2> TAKE k \in 0..m
  <2>1. CASE k = m
    BY <2>1, <1>2, <1>4
  <2>2. CASE k # m
    <3>1. f[k] = IF k = 0 THEN start ELSE step[<<s[k], f[k-1]>>]
      BY <2>2, <1>3 DEF RunsOver
    <3>2. k # 0 => k - 1 \in 0..(m-1)
      BY <2>2
    <3> QED BY <2>2, <3>1, <3>2, <1>4
  <2> QED BY <2>1, <2>2
<1>6. RunsOver(g, step, start, s, m)
  BY <1>5 DEF RunsOver
<1> QED BY <1>6

\* A sequence over a set is one over every larger set.
LEMMA SeqWidens ==
  ASSUME NEW S, NEW T, S \subseteq T, NEW s \in Seq(S)
  PROVE  s \in Seq(T)
<1>1. Len(s) \in Nat /\ s = [k \in 1..Len(s) |-> s[k]] /\ \A k \in 1..Len(s) : s[k] \in T
  OBVIOUS
<1> QED BY <1>1

\* A subsequence of a sequence over S is one.
LEMMA SubSeqType ==
  ASSUME NEW S, NEW s \in Seq(S), NEW m \in Nat \ {0}, NEW n \in Nat, n <= Len(s)
  PROVE  SubSeq(s, m, n) \in Seq(S)
<1>1. Len(s) \in Nat /\ \A k \in 1..Len(s) : s[k] \in S
  OBVIOUS
<1>2. SubSeq(s, m, n) = [k \in 1..(1 + n - m) |-> s[m + k - 1]]
  OBVIOUS
<1>3. \A k \in 1..(1 + n - m) : m + k - 1 \in 1..Len(s)
  BY <1>1
<1>4. 1 + n - m \in Nat \/ 1..(1 + n - m) = {}
  OBVIOUS
<1> QED BY <1>1, <1>2, <1>3, <1>4

\* A subsequence of one element.
LEMMA OneElementSubSeq ==
  ASSUME NEW S, NEW s \in Seq(S), NEW i \in Nat \ {0}, i <= Len(s)
  PROVE  Len(SubSeq(s, i, i)) = 1 /\ SubSeq(s, i, i)[1] = s[i]
<1>1. Len(s) \in Nat /\ i \in Nat /\ i - i + 1 = 1
  OBVIOUS
<1>2. SubSeq(s, i, i) = [k \in 1..(1 + i - i) |-> s[i + k - 1]]
  BY <1>1
<1>3. 1..(1 + i - i) = 1..1
  BY <1>1
<1> QED BY <1>1, <1>2, <1>3

\* The value stays where every step keeps it.
LEMMA RunOverType ==
  ASSUME NEW S, NEW X, NEW s \in Seq(S), NEW start \in X, NEW step \in [S \X X -> X]
  PROVE  RunOver(step, start, s) \in X
<1> DEFINE after[n \in 0..Len(s)] ==
             IF n = 0 THEN start ELSE step[<<s[n], after[n-1]>>]
<1>1. RunOver(step, start, s) = after[Len(s)]
  BY DEF RunOver
<1>2. Len(s) \in Nat
  OBVIOUS
<1>3. PICK f : RunsOver(f, step, start, s, Len(s))
  BY <1>2, RunExists
<1>4. f = [n \in 0..Len(s) |-> IF n = 0 THEN start ELSE step[<<s[n], f[n-1]>>]]
  BY <1>3 DEF RunsOver
<1>5. after = [n \in 0..Len(s) |-> IF n = 0 THEN start ELSE step[<<s[n], after[n-1]>>]]
  BY <1>4
<1> HIDE DEF after
<1> DEFINE T == {n \in 0..Len(s) : after[n] \notin X}
<1>6. ASSUME T # {} PROVE FALSE
  <2> T \in SUBSET Nat
    OBVIOUS
  <2>1. PICK m \in T : \A n \in T : m <= n
    BY <1>6, LeastNatural
  <2>2. m # 0
    BY <1>5
  <2>3. after[m-1] \in X /\ s[m] \in S
    BY <2>1, <2>2
  <2>4. after[m] = step[<<s[m], after[m-1]>>]
    BY <2>2, <1>5
  <2>5. after[m] \in X
    BY <2>3, <2>4
  <2> QED BY <2>5
<1> QED BY <1>1, <1>2, <1>6

\* What the step for one element brings about, and every step keeps, is so in
\* the end.
LEMMA RunOverReaches ==
  ASSUME NEW S, NEW X, NEW s \in Seq(S), NEW start \in X, NEW step \in [S \X X -> X],
         NEW Y \in SUBSET X, \A e \in S : \A x \in Y : step[<<e, x>>] \in Y,
         NEW d \in Elements(s), \A x \in X : step[<<d, x>>] \in Y
  PROVE  RunOver(step, start, s) \in Y
<1> DEFINE after[n \in 0..Len(s)] ==
             IF n = 0 THEN start ELSE step[<<s[n], after[n-1]>>]
<1>1. RunOver(step, start, s) = after[Len(s)]
  BY DEF RunOver
<1>2. Len(s) \in Nat /\ DOMAIN s = 1..Len(s)
  OBVIOUS
<1>3. PICK f : RunsOver(f, step, start, s, Len(s))
  BY <1>2, RunExists
<1>4. f = [n \in 0..Len(s) |-> IF n = 0 THEN start ELSE step[<<s[n], f[n-1]>>]]
  BY <1>3 DEF RunsOver
<1>5. after = [n \in 0..Len(s) |-> IF n = 0 THEN start ELSE step[<<s[n], after[n-1]>>]]
  BY <1>4
<1> HIDE DEF after
<1>6. PICK k \in 1..Len(s) : s[k] = d
  BY <1>2 DEF Elements
<1> DEFINE T == {n \in 0..Len(s) : ~(after[n] \in X /\ (n >= k => after[n] \in Y))}
<1>7. ASSUME T # {} PROVE FALSE
  <2> T \in SUBSET Nat
    OBVIOUS
  <2>1. PICK m \in T : \A n \in T : m <= n
    BY <1>7, LeastNatural
  <2>2. m # 0
    <3>1. after[0] = start
      BY <1>5
    <3>2. SUFFICES ASSUME m = 0 PROVE FALSE
      OBVIOUS
    <3> QED BY <2>1, <3>1, <3>2
  <2>3. m - 1 \in 0..Len(s) /\ m \in 1..Len(s) /\ s[m] \in S
    BY <2>1, <2>2
  <2>4. after[m-1] \in X /\ (m - 1 >= k => after[m-1] \in Y)
    BY <2>1, <2>3
  <2>5. after[m] = step[<<s[m], after[m-1]>>]
    BY <2>2, <2>3, <1>5
  <2>6. after[m] \in X
    BY <2>3, <2>4, <2>5
  <2>7. ASSUME m >= k PROVE after[m] \in Y
    <3>1. CASE m = k
      BY <1>6, <3>1, <2>4, <2>5
    <3>2. CASE m # k
      BY <2>7, <3>2, <2>3, <2>4, <2>5
    <3> QED BY <3>1, <3>2
  <2> QED BY <2>1, <2>6, <2>7
<1>8. Len(s) \in 0..Len(s) /\ Len(s) >= k
  BY <1>2
<1> QED BY <1>1, <1>7, <1>8

\* The recursion of Concatenated has a solution.
LOCAL Joins(f, ss, n) ==
  f = [k \in 0..n |-> IF k = 0 THEN << >> ELSE f[k-1] \o ss[k]]

\* The function by which Concatenated is defined satisfies its equation.
LEMMA JoinExists ==
  ASSUME NEW ss, NEW len \in Nat
  PROVE  \E f : Joins(f, ss, len)
<1> DEFINE T == {n \in Nat : ~ \E f : Joins(f, ss, n)}
<1> SUFFICES ASSUME T # {} PROVE FALSE
  OBVIOUS
<1>1. PICK m \in T : \A n \in T : m <= n
  BY LeastNatural
<1>2. m # 0
  <2> DEFINE g == [k \in 0..0 |-> IF k = 0 THEN << >> ELSE << >> \o ss[k]]
  <2>1. Joins(g, ss, 0)
    BY DEF Joins
  <2> QED BY <2>1
<1>3. PICK f : Joins(f, ss, m - 1)
  BY <1>1, <1>2
<1> DEFINE g == [k \in 0..m |-> IF k = m THEN f[m-1] \o ss[m] ELSE f[k]]
<1>4. \A k \in 0..(m-1) : g[k] = f[k]
  BY <1>2
<1>5. \A k \in 0..m : g[k] = IF k = 0 THEN << >> ELSE g[k-1] \o ss[k]
  <2> TAKE k \in 0..m
  <2>1. CASE k = m
    BY <2>1, <1>2, <1>4
  <2>2. CASE k # m
    <3>1. f[k] = IF k = 0 THEN << >> ELSE f[k-1] \o ss[k]
      BY <2>2, <1>3 DEF Joins
    <3>2. k # 0 => k - 1 \in 0..(m-1)
      BY <2>2
    <3> QED BY <2>2, <3>1, <3>2, <1>4
  <2> QED BY <2>1, <2>2
<1>6. Joins(g, ss, m)
  BY <1>5 DEF Joins
<1> QED BY <1>6

\* The elements of two sequences, one after the other.
LEMMA JoinedElements ==
  ASSUME NEW S, NEW s \in Seq(S), NEW t \in Seq(S)
  PROVE  Elements(s \o t) = Elements(s) \cup Elements(t)
<1>1. /\ Len(s) \in Nat /\ Len(t) \in Nat /\ Len(s \o t) = Len(s) + Len(t)
      /\ DOMAIN s = 1..Len(s) /\ DOMAIN t = 1..Len(t) /\ DOMAIN (s \o t) = 1..Len(s) + Len(t)
      /\ \A k \in 1..Len(s) + Len(t) : (s \o t)[k] = IF k <= Len(s) THEN s[k] ELSE t[k - Len(s)]
  OBVIOUS
<1>2. ASSUME NEW x \in Elements(s \o t) PROVE x \in Elements(s) \cup Elements(t)
  <2>1. PICK k \in 1..Len(s) + Len(t) : x = (s \o t)[k]
    BY <1>1, <1>2 DEF Elements
  <2>2. CASE k <= Len(s)
    BY <1>1, <2>1, <2>2 DEF Elements
  <2>3. CASE ~(k <= Len(s))
    <3>1. k - Len(s) \in 1..Len(t) /\ x = t[k - Len(s)]
      BY <1>1, <2>1, <2>3
    <3> QED BY <1>1, <3>1 DEF Elements
  <2> QED BY <2>2, <2>3
<1>3. ASSUME NEW x \in Elements(s) PROVE x \in Elements(s \o t)
  <2>1. PICK k \in 1..Len(s) : x = s[k]
    BY <1>1, <1>3 DEF Elements
  <2>2. k \in 1..Len(s) + Len(t) /\ (s \o t)[k] = x
    BY <1>1, <2>1
  <2> QED BY <1>1, <2>2 DEF Elements
<1>4. ASSUME NEW x \in Elements(t) PROVE x \in Elements(s \o t)
  <2>1. PICK k \in 1..Len(t) : x = t[k]
    BY <1>1, <1>4 DEF Elements
  <2>2. k + Len(s) \in 1..Len(s) + Len(t) /\ ~(k + Len(s) <= Len(s)) /\ k + Len(s) - Len(s) = k
    BY <1>1, <2>1
  <2>3. (s \o t)[k + Len(s)] = x
    BY <1>1, <2>1, <2>2
  <2> QED BY <1>1, <2>2, <2>3 DEF Elements
<1> QED BY <1>2, <1>3, <1>4

\* Concatenated(ss) is a sequence over what its members are over.
LEMMA ConcatenatedType ==
  ASSUME NEW S, NEW ss, NEW n \in Nat, DOMAIN ss = 1..n, Len(ss) = n,
         \A k \in 1..n : ss[k] \in Seq(S)
  PROVE  Concatenated(ss) \in Seq(S)
<1> DEFINE all[k \in 0..Len(ss)] == IF k = 0 THEN << >> ELSE all[k-1] \o ss[k]
<1>1. Concatenated(ss) = all[n]
  BY DEF Concatenated
<1>3. PICK f : Joins(f, ss, Len(ss))
  BY JoinExists
<1>4. f = [k \in 0..Len(ss) |-> IF k = 0 THEN << >> ELSE f[k-1] \o ss[k]]
  BY <1>3 DEF Joins
<1>5. all = [k \in 0..Len(ss) |-> IF k = 0 THEN << >> ELSE all[k-1] \o ss[k]]
  BY <1>4
<1> HIDE DEF all
<1> DEFINE T == {k \in 0..n : all[k] \notin Seq(S)}
<1>6. ASSUME T # {} PROVE FALSE
  <2> T \in SUBSET Nat
    OBVIOUS
  <2>1. PICK m \in T : \A k \in T : m <= k
    BY <1>6, LeastNatural
  <2>2. m # 0
    BY <1>5
  <2>3. all[m-1] \in Seq(S) /\ ss[m] \in Seq(S)
    BY <2>1, <2>2
  <2>4. all[m] = all[m-1] \o ss[m]
    BY <2>1, <2>2, <1>5
  <2>5. all[m] \in Seq(S)
    BY <2>3, <2>4
  <2> QED BY <2>1, <2>5
<1> QED BY <1>1, <1>6

\* Concatenated(ss) has every element of its members.
LEMMA ConcatenatedKeeps ==
  ASSUME NEW S, NEW ss, NEW n \in Nat, DOMAIN ss = 1..n, Len(ss) = n,
         \A k \in 1..n : ss[k] \in Seq(S), NEW j \in 1..n
  PROVE  Elements(ss[j]) \subseteq Elements(Concatenated(ss))
<1> DEFINE all[k \in 0..Len(ss)] == IF k = 0 THEN << >> ELSE all[k-1] \o ss[k]
<1>1. Concatenated(ss) = all[n]
  BY DEF Concatenated
<1>3. PICK f : Joins(f, ss, Len(ss))
  BY JoinExists
<1>4. f = [k \in 0..Len(ss) |-> IF k = 0 THEN << >> ELSE f[k-1] \o ss[k]]
  BY <1>3 DEF Joins
<1>5. all = [k \in 0..Len(ss) |-> IF k = 0 THEN << >> ELSE all[k-1] \o ss[k]]
  BY <1>4
<1> HIDE DEF all
<1> DEFINE T == {k \in 0..n :
                  ~(all[k] \in Seq(S) /\ (k >= j => Elements(ss[j]) \subseteq Elements(all[k])))}
<1>6. ASSUME T # {} PROVE FALSE
  <2> T \in SUBSET Nat
    OBVIOUS
  <2>1. PICK m \in T : \A k \in T : m <= k
    BY <1>6, LeastNatural
  <2>2. m # 0
    BY <1>5
  <2>3. /\ all[m-1] \in Seq(S) /\ ss[m] \in Seq(S)
        /\ m - 1 >= j => Elements(ss[j]) \subseteq Elements(all[m-1])
    BY <2>1, <2>2
  <2>4. all[m] = all[m-1] \o ss[m]
    BY <2>1, <2>2, <1>5
  <2>5. Elements(all[m]) = Elements(all[m-1]) \cup Elements(ss[m]) /\ all[m] \in Seq(S)
    BY <2>3, <2>4, JoinedElements
  <2>6. CASE m = j
    BY <2>1, <2>5, <2>6
  <2>7. CASE m # j
    BY <2>1, <2>3, <2>5, <2>7
  <2> QED BY <2>6, <2>7
<1> QED BY <1>1, <1>6

\* One element is one step.
LEMMA RunOverOne ==
  ASSUME NEW s, Len(s) = 1, NEW start, NEW step
  PROVE  RunOver(step, start, s) = step[<<s[1], start>>]
<1> DEFINE after[n \in 0..1] ==
             IF n = 0 THEN start ELSE step[<<s[n], after[n-1]>>]
<1>1. RunOver(step, start, s) = after[1]
  BY DEF RunOver
<1>3. PICK f : RunsOver(f, step, start, s, 1)
  BY RunExists
<1>4. f = [n \in 0..1 |-> IF n = 0 THEN start ELSE step[<<s[n], f[n-1]>>]]
  BY <1>3 DEF RunsOver
<1>5. after = [n \in 0..1 |-> IF n = 0 THEN start ELSE step[<<s[n], after[n-1]>>]]
  BY <1>4
<1> HIDE DEF after
<1>6. after[0] = start
  BY <1>5
<1>7. after[1] = step[<<s[1], after[0]>>]
  BY <1>5
<1> QED BY <1>1, <1>6, <1>7

\* A sequence of one element, element by element.
LEMMA SingletonSequence ==
  ASSUME NEW S, NEW x \in S
  PROVE  <<x>> \in Seq(S)
OBVIOUS

\* What holds of the value after n steps, I[n], holds in the end.
LEMMA RunOverInvariant ==
  ASSUME NEW step, NEW start, NEW s, NEW len \in Nat, Len(s) = len, NEW I, start \in I[0],
         \A n \in 1..len : \A x \in I[n-1] : step[<<s[n], x>>] \in I[n]
  PROVE  RunOver(step, start, s) \in I[len]
<1> DEFINE after[n \in 0..Len(s)] ==
             IF n = 0 THEN start ELSE step[<<s[n], after[n-1]>>]
<1>1. RunOver(step, start, s) = after[len]
  BY DEF RunOver
<1>2. PICK f : RunsOver(f, step, start, s, len)
  BY RunExists
<1>3. f = [n \in 0..Len(s) |-> IF n = 0 THEN start ELSE step[<<s[n], f[n-1]>>]]
  BY <1>2 DEF RunsOver
<1>4. after = [n \in 0..len |-> IF n = 0 THEN start ELSE step[<<s[n], after[n-1]>>]]
  BY <1>3
<1> HIDE DEF after
<1> DEFINE T == {n \in 0..len : after[n] \notin I[n]}
<1>5. ASSUME T # {} PROVE FALSE
  <2> T \in SUBSET Nat
    OBVIOUS
  <2>1. PICK m \in T : \A n \in T : m <= n
    BY <1>5, LeastNatural
  <2>2. m # 0
    BY <1>4, <2>1
  <2>3. m - 1 \in 0..len /\ m \in 1..len
    BY <2>1, <2>2
  <2>4. after[m-1] \in I[m-1]
    BY <2>1, <2>3
  <2>5. after[m] = step[<<s[m], after[m-1]>>]
    BY <2>2, <2>3, <1>4
  <2>6. after[m] \in I[m]
    BY <2>3, <2>4, <2>5
  <2> QED BY <2>1, <2>6
<1>6. len \in 0..len
  OBVIOUS
<1> QED BY <1>1, <1>5, <1>6

\* Where the elements of AtPositions(s, K) come from: the positions in K, in order.
Origin(o, r, s, K, n) ==
  /\ o \in [1..Len(r) -> {k \in 1..n : k \in K}]
  /\ \A i \in 1..Len(r) : r[i] = s[o[i]]
  /\ \A i, j \in 1..Len(r) : i < j => o[i] < o[j]
  /\ \A k \in 1..n : k \in K => \E i \in 1..Len(r) : o[i] = k

LEMMA AtPositionsOrigin ==
  ASSUME NEW X, NEW s \in Seq(X), NEW K
  PROVE  \E o : Origin(o, AtPositions(s, K), s, K, Len(s))
<1> DEFINE picked[n \in 0..Len(s)] ==
             IF n = 0 THEN << >>
             ELSE IF n \in K THEN Append(picked[n-1], s[n]) ELSE picked[n-1]
<1>1. AtPositions(s, K) = picked[Len(s)]
  BY DEF AtPositions
<1>2. Len(s) \in Nat
  OBVIOUS
<1>3. PICK f : Computes(f, s, K, Len(s))
  BY <1>2, PickedExists
<1>4. f = [n \in 0..Len(s) |->
                    IF n = 0 THEN << >>
                    ELSE IF n \in K THEN Append(f[n-1], s[n]) ELSE f[n-1]]
  BY <1>3 DEF Computes, Pick
<1>5. picked = [n \in 0..Len(s) |->
                    IF n = 0 THEN << >>
                    ELSE IF n \in K THEN Append(picked[n-1], s[n]) ELSE picked[n-1]]
  BY <1>4
<1> HIDE DEF picked
<1> DEFINE T == {n \in 0..Len(s) : ~(picked[n] \in Seq(X) /\ \E o : Origin(o, picked[n], s, K, n))}
<1>6. ASSUME T # {} PROVE FALSE
  <2> T \in SUBSET Nat
    OBVIOUS
  <2>1. PICK m \in T : \A n \in T : m <= n
    BY <1>6, LeastNatural
  <2>2. m # 0
    <3>1. picked[0] = << >> /\ Len(<< >>) = 0 /\ << >> \in Seq(X)
      BY <1>5
    <3>2. Origin([i \in 1..0 |-> 0], << >>, s, K, 0)
      <4>1. 1..0 = {} /\ \A k \in 1..0 : FALSE
        OBVIOUS
      <4> QED BY <3>1, <4>1 DEF Origin
    <3> QED BY <2>1, <3>1, <3>2
  <2>3. m \in 1..Len(s) /\ s[m] \in X /\ m - 1 \in 0..Len(s) /\ m - 1 \notin T
    <3>1. m \in 0..Len(s) /\ ~(m <= m - 1)
      BY <2>1
    <3>2. m \in 1..Len(s) /\ m - 1 \in 0..Len(s) /\ m - 1 \notin T
      <4> HIDE DEF T
      <4> QED BY <1>2, <2>1, <2>2, <3>1
    <3> QED BY <3>2
  <2> DEFINE r == picked[m-1]
  <2>4. r \in Seq(X) /\ \E o : Origin(o, r, s, K, m - 1)
    BY <2>3
  <2>5. picked[m] = IF m \in K THEN Append(r, s[m]) ELSE r
    BY <2>2, <2>3, <1>5
  <2> HIDE DEF r
  <2>6. PICK o : Origin(o, r, s, K, m - 1)
    BY <2>4
  <2>7. Len(r) \in Nat /\ 1..m = 1..m-1 \cup {m}
    BY <2>3, <2>4
  <2>8. CASE m \notin K
    <3>1. {k \in 1..m : k \in K} = {k \in 1..m-1 : k \in K}
      BY <2>7, <2>8
    <3>2. Origin(o, r, s, K, m)
      BY <2>6, <2>7, <2>8, <3>1 DEF Origin
    <3> QED BY <2>1, <2>4, <2>5, <2>8, <3>2
  <2>9. CASE m \in K
    <3> DEFINE q == Append(r, s[m])
               p == [i \in 1..Len(r)+1 |-> IF i = Len(r) + 1 THEN m ELSE o[i]]
    <3>1. /\ q \in Seq(X) /\ Len(q) = Len(r) + 1 /\ q[Len(r) + 1] = s[m]
          /\ \A i \in 1..Len(r) : q[i] = r[i]
      BY <2>3, <2>4
    <3> HIDE DEF q
    <3>2. 1..Len(r)+1 = 1..Len(r) \cup {Len(r)+1} /\ Len(r)+1 \notin 1..Len(r)
      BY <2>7
    <3>3. p[Len(r)+1] = m /\ \A i \in 1..Len(r) : p[i] = o[i]
      BY <3>2
    <3>4. p \in [1..Len(r)+1 -> {k \in 1..m : k \in K}]
      BY <2>6, <2>7, <2>9, <3>2 DEF Origin
    <3> HIDE DEF p
    <3>5. \A i \in 1..Len(r)+1 : q[i] = s[p[i]]
      BY <2>6, <3>1, <3>2, <3>3 DEF Origin
    <3>6. ASSUME NEW i \in 1..Len(r)+1, NEW j \in 1..Len(r)+1, i < j PROVE p[i] < p[j]
      <4>1. i \in 1..Len(r) /\ o[i] \in 1..m-1 /\ p[i] = o[i]
        BY <2>6, <2>7, <3>2, <3>3, <3>6 DEF Origin
      <4>2. CASE j = Len(r) + 1
        BY <2>3, <3>3, <4>1, <4>2
      <4>3. CASE j # Len(r) + 1
        BY <2>6, <3>2, <3>3, <3>6, <4>1, <4>3 DEF Origin
      <4> QED BY <4>2, <4>3
    <3>7. \A k \in 1..m : k \in K => \E i \in 1..Len(r)+1 : p[i] = k
      BY <2>6, <2>7, <3>2, <3>3 DEF Origin
    <3>8. Origin(p, q, s, K, m)
      BY <3>1, <3>4, <3>5, <3>6, <3>7 DEF Origin
    <3> QED BY <2>1, <2>5, <2>9, <3>1, <3>8 DEF q
  <2> QED BY <2>8, <2>9
<1>7. Len(s) \in 0..Len(s)
  BY <1>2
<1> QED BY <1>1, <1>6, <1>7

-----------------------------------------------------------------------------
\* Sequences in which nothing occurs twice.

NoRepeats(s) == \A i, j \in DOMAIN s : s[i] = s[j] => i = j

\* What is picked from such a sequence is one.
LEMMA PickedOnce ==
  ASSUME NEW X, NEW s \in Seq(X), NEW K, NoRepeats(s)
  PROVE  NoRepeats(AtPositions(s, K))
<1> DEFINE r == AtPositions(s, K)
<1>1. PICK o : Origin(o, r, s, K, Len(s))
  BY AtPositionsOrigin
<1>2. r \in Seq(X)
  <2>1. \A k \in DOMAIN s : k \in K => s[k] \in X
    OBVIOUS
  <2> QED BY <2>1, AtPositionsType
<1> HIDE DEF r
<1>3. Len(r) \in Nat /\ DOMAIN r = 1..Len(r) /\ DOMAIN s = 1..Len(s) /\ Len(s) \in Nat
  BY <1>2
<1>4. ASSUME NEW i \in 1..Len(r), NEW j \in 1..Len(r), r[i] = r[j] PROVE i = j
  <2>1. o[i] \in 1..Len(s) /\ o[j] \in 1..Len(s) /\ s[o[i]] = s[o[j]]
    BY <1>1, <1>4 DEF Origin
  <2>2. o[i] = o[j]
    BY <1>3, <2>1 DEF NoRepeats
  <2>3. ~(i < j) /\ ~(j < i)
    BY <1>1, <2>1, <2>2 DEF Origin
  <2> QED BY <1>3, <2>3
<1> QED BY <1>3, <1>4 DEF NoRepeats, r

\* So is what one position gives.
LEMMA PickedAtOne ==
  ASSUME NEW X, NEW s \in Seq(X), NEW K, \A k, l \in DOMAIN s \cap K : k = l
  PROVE  NoRepeats(AtPositions(s, K))
<1> DEFINE r == AtPositions(s, K)
<1>1. PICK o : Origin(o, r, s, K, Len(s))
  BY AtPositionsOrigin
<1>2. r \in Seq(X)
  <2>1. \A k \in DOMAIN s : k \in K => s[k] \in X
    OBVIOUS
  <2> QED BY <2>1, AtPositionsType
<1> HIDE DEF r
<1>3. Len(r) \in Nat /\ DOMAIN r = 1..Len(r) /\ DOMAIN s = 1..Len(s) /\ Len(s) \in Nat
  BY <1>2
<1>4. ASSUME NEW i \in 1..Len(r), NEW j \in 1..Len(r) PROVE i = j
  <2>1. o[i] \in DOMAIN s \cap K /\ o[j] \in DOMAIN s \cap K
    BY <1>1, <1>3 DEF Origin
  <2>2. o[i] = o[j] /\ o[i] \in Nat
    BY <1>3, <2>1
  <2>3. ~(i < j) /\ ~(j < i)
    BY <1>1, <2>2 DEF Origin
  <2> QED BY <1>3, <2>3
<1> QED BY <1>3, <1>4 DEF NoRepeats, r

\* Two of them one after the other, if they share nothing.
LEMMA JoinedOnce ==
  ASSUME NEW S, NEW s \in Seq(S), NEW t \in Seq(S), NoRepeats(s), NoRepeats(t),
         Elements(s) \cap Elements(t) = {}
  PROVE  NoRepeats(s \o t)
<1>1. /\ Len(s) \in Nat /\ Len(t) \in Nat /\ DOMAIN s = 1..Len(s) /\ DOMAIN t = 1..Len(t)
      /\ DOMAIN (s \o t) = 1..Len(s) + Len(t)
      /\ \A k \in 1..Len(s) + Len(t) : (s \o t)[k] = IF k <= Len(s) THEN s[k] ELSE t[k - Len(s)]
  OBVIOUS
<1>2. ASSUME NEW i \in 1..Len(s) + Len(t), NEW j \in 1..Len(s) + Len(t), (s \o t)[i] = (s \o t)[j]
      PROVE  i = j
  <2>1. CASE i <= Len(s) /\ j <= Len(s)
    BY <1>1, <1>2, <2>1 DEF NoRepeats
  <2>2. CASE ~(i <= Len(s)) /\ ~(j <= Len(s))
    <3>1. i - Len(s) \in DOMAIN t /\ j - Len(s) \in DOMAIN t /\ t[i - Len(s)] = t[j - Len(s)]
      BY <1>1, <1>2, <2>2
    <3>2. i - Len(s) = j - Len(s)
      BY <3>1 DEF NoRepeats
    <3> QED BY <1>1, <3>2
  <2>3. CASE i <= Len(s) /\ ~(j <= Len(s))
    <3>1. i \in DOMAIN s /\ j - Len(s) \in DOMAIN t /\ s[i] = t[j - Len(s)]
      BY <1>1, <1>2, <2>3
    <3> QED BY <3>1 DEF Elements
  <2>4. CASE ~(i <= Len(s)) /\ j <= Len(s)
    <3>1. j \in DOMAIN s /\ i - Len(s) \in DOMAIN t /\ s[j] = t[i - Len(s)]
      BY <1>1, <1>2, <2>4
    <3> QED BY <3>1 DEF Elements
  <2> QED BY <2>1, <2>2, <2>3, <2>4
<1> QED BY <1>1, <1>2 DEF NoRepeats

\* Any number of them, if no two share anything.
LEMMA ConcatenatedOnce ==
  ASSUME NEW S, NEW ss, NEW n \in Nat, DOMAIN ss = 1..n, Len(ss) = n,
         \A k \in 1..n : ss[k] \in Seq(S) /\ NoRepeats(ss[k]),
         \A k, l \in 1..n : k # l => Elements(ss[k]) \cap Elements(ss[l]) = {}
  PROVE  NoRepeats(Concatenated(ss))
<1> DEFINE all[k \in 0..Len(ss)] == IF k = 0 THEN << >> ELSE all[k-1] \o ss[k]
<1>1. Concatenated(ss) = all[n]
  BY DEF Concatenated
<1>3. PICK f : Joins(f, ss, Len(ss))
  BY JoinExists
<1>4. f = [k \in 0..Len(ss) |-> IF k = 0 THEN << >> ELSE f[k-1] \o ss[k]]
  BY <1>3 DEF Joins
<1>5. all = [k \in 0..Len(ss) |-> IF k = 0 THEN << >> ELSE all[k-1] \o ss[k]]
  BY <1>4
<1> HIDE DEF all
<1> DEFINE below(k) == {x \in S : \E l \in 1..n : l <= k /\ x \in Elements(ss[l])}
           T == {k \in 0..n : ~(all[k] \in Seq(S) /\ NoRepeats(all[k]) /\ Elements(all[k]) \subseteq below(k))}
<1>6. ASSUME T # {} PROVE FALSE
  <2> T \in SUBSET Nat
    OBVIOUS
  <2>1. PICK m \in T : \A k \in T : m <= k
    BY <1>6, LeastNatural
  <2>2. m # 0
    <3>1. all[0] = << >>
      BY <1>5
    <3>2. all[0] \in Seq(S) /\ NoRepeats(all[0]) /\ Elements(all[0]) = {}
      BY <3>1 DEF NoRepeats, Elements
    <3> QED BY <2>1, <3>2
  <2>3. /\ m \in 1..n /\ m - 1 \in 0..n /\ all[m-1] \in Seq(S) /\ NoRepeats(all[m-1])
        /\ Elements(all[m-1]) \subseteq below(m-1)
    <3>1. m \in 0..n /\ m \in 1..n /\ m - 1 \in 0..n /\ ~(m <= m - 1)
      BY <2>1, <2>2
    <3>2. m - 1 \notin T
      BY <2>1, <3>1
    <3>3. ~(~(all[m-1] \in Seq(S) /\ NoRepeats(all[m-1]) /\ Elements(all[m-1]) \subseteq below(m-1)))
      BY <3>1, <3>2
    <3> QED BY <3>1, <3>3
  <2>4. all[m] = all[m-1] \o ss[m] /\ ss[m] \in Seq(S) /\ NoRepeats(ss[m])
    BY <2>2, <2>3, <1>5
  <2>5. Elements(all[m-1]) \cap Elements(ss[m]) = {}
    <3>1. \A l \in 1..n : l <= m - 1 => l # m
      BY <2>3
    <3> QED BY <2>3, <3>1
  <2>6. all[m] \in Seq(S) /\ NoRepeats(all[m])
    BY <2>3, <2>4, <2>5, JoinedOnce
  <2>7. Elements(all[m]) = Elements(all[m-1]) \cup Elements(ss[m])
    BY <2>3, <2>4, JoinedElements
  <2>8. Elements(ss[m]) \subseteq S
    BY <2>4 DEF Elements
  <2>9. below(m-1) \subseteq below(m)
    <3>1. \A l \in 1..n : l <= m - 1 => l <= m
      BY <2>3
    <3> QED BY <3>1
  <2>10. Elements(ss[m]) \subseteq below(m)
    <3>1. m <= m
      BY <2>3
    <3> QED BY <2>3, <2>8, <3>1
  <2> QED BY <2>1, <2>3, <2>6, <2>7, <2>9, <2>10
<1>7. n \in 0..n
  OBVIOUS
<1> QED BY <1>1, <1>6, <1>7
=============================================================================
