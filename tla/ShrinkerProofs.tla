-------------------------- MODULE ShrinkerProofs --------------------------
(***************************************************************************)
(* The shrinker, for every choice of transformations, tests and limits:    *)
(* chunks always hold something, what is kept is what its own replay gives *)
(* and is interesting, and rounds that end before the step limit leave no  *)
(* transformation that could go. First Replay: the solution of its         *)
(* recursive equation exists, is unique, and is idempotent.                *)
(***************************************************************************)
EXTENDS Shrinker, SubsequencesProofs

\* What Replayer::Run does with the transformation t after those in done.
Applies(t, done) == IF Applicable(t, done) THEN Append(done, t) ELSE done

\* f[n] is what the first n transformations of s replay to.
Replays(f, s, len) ==
  f = [n \in 0..len |-> IF n = 0 THEN << >> ELSE Applies(s[n], f[n-1])]

\* The recursion of Replay has a solution.
LEMMA ReplayExists ==
  ASSUME NEW s, NEW len \in Nat
  PROVE  \E f : Replays(f, s, len)
<1> DEFINE T == {n \in Nat : ~ \E f : Replays(f, s, n)}
<1> SUFFICES ASSUME T # {} PROVE FALSE
  OBVIOUS
<1>1. PICK m \in T : \A n \in T : m <= n
  BY LeastNatural
<1>2. m # 0
  <2> DEFINE g == [k \in 0..0 |-> << >>]
  <2>1. Replays(g, s, 0)
    BY DEF Replays
  <2> QED BY <2>1
<1>3. PICK f : Replays(f, s, m - 1)
  BY <1>1, <1>2
<1> DEFINE g == [k \in 0..m |-> IF k = m THEN Applies(s[m], f[m-1]) ELSE f[k]]
<1>4. \A k \in 0..(m-1) : g[k] = f[k]
  BY <1>2
<1>5. \A k \in 0..m : g[k] = IF k = 0 THEN << >> ELSE Applies(s[k], g[k-1])
  <2> TAKE k \in 0..m
  <2>1. CASE k = m
    BY <2>1, <1>2, <1>4
  <2>2. CASE k # m
    <3>1. f[k] = IF k = 0 THEN << >> ELSE Applies(s[k], f[k-1])
      BY <2>2, <1>3 DEF Replays
    <3>2. k # 0 => k - 1 \in 0..(m-1)
      BY <2>2
    <3> QED BY <2>2, <3>1, <3>2, <1>4
  <2> QED BY <2>1, <2>2
<1>6. Replays(g, s, m)
  BY <1>5 DEF Replays
<1> QED BY <1>6

\* Two solutions agree as far as the sequences do.
LEMMA ReplayUnique ==
  ASSUME NEW s, NEW t, NEW m \in Nat, NEW len \in 0..m, NEW f, NEW g,
         Replays(f, s, m), Replays(g, t, len), \A k \in 1..len : s[k] = t[k]
  PROVE  \A k \in 0..len : f[k] = g[k]
<1> DEFINE T == {k \in 0..len : f[k] # g[k]}
<1> SUFFICES ASSUME T # {} PROVE FALSE
  OBVIOUS
<1>0. T \in SUBSET Nat
  OBVIOUS
<1>1. PICK k \in T : \A j \in T : k <= j
  BY <1>0, LeastNatural
<1>2. k \in 0..m /\ k \in 0..len /\ f[k] # g[k]
  OBVIOUS
<1>3. k # 0
  BY <1>2 DEF Replays
<1>4. k - 1 \in 0..len /\ ~(k <= k - 1)
  BY <1>3
<1>5. f[k-1] = g[k-1]
  BY <1>1, <1>4
<1>6. f[k] = Applies(s[k], f[k-1]) /\ g[k] = Applies(t[k], g[k-1])
  BY <1>2, <1>3 DEF Replays
<1>7. s[k] = t[k]
  BY <1>3
<1> QED BY <1>2, <1>5, <1>6, <1>7

\* Replay is what its recursive function returns.
LEMMA ReplayEquation ==
  ASSUME NEW s, Len(s) \in Nat
  PROVE  \E f : Replays(f, s, Len(s)) /\ Replay(s) = f[Len(s)]
<1> DEFINE applied[n \in 0..Len(s)] ==
             IF n = 0 THEN << >>
             ELSE IF Applicable(s[n], applied[n-1]) THEN Append(applied[n-1], s[n])
                  ELSE applied[n-1]
<1>1. Replay(s) = applied[Len(s)]
  BY DEF Replay
<1>2. PICK f : Replays(f, s, Len(s))
  BY ReplayExists
<1>3. f = [n \in 0..Len(s) |->
             IF n = 0 THEN << >>
             ELSE IF Applicable(s[n], f[n-1]) THEN Append(f[n-1], s[n]) ELSE f[n-1]]
  BY <1>2 DEF Replays, Applies
<1>4. applied = [n \in 0..Len(s) |->
             IF n = 0 THEN << >>
             ELSE IF Applicable(s[n], applied[n-1]) THEN Append(applied[n-1], s[n])
                  ELSE applied[n-1]]
  BY <1>3
<1>5. Replays(applied, s, Len(s))
  <2> HIDE DEF applied
  <2> QED BY <1>4 DEF Replays, Applies
<1> HIDE DEF applied
<1> QED BY <1>1, <1>5

\* The result of a replay is no longer than what is replayed.
LEMMA ReplayType ==
  ASSUME NEW X, NEW s \in Seq(X), NEW f, Replays(f, s, Len(s))
  PROVE  \A n \in 0..Len(s) : f[n] \in Seq(X) /\ Len(f[n]) <= n
<1> DEFINE T == {n \in 0..Len(s) : ~(f[n] \in Seq(X) /\ Len(f[n]) <= n)}
<1> SUFFICES ASSUME T # {} PROVE FALSE
  OBVIOUS
<1>0. T \in SUBSET Nat /\ Len(s) \in Nat
  OBVIOUS
<1>1. PICK n \in T : \A j \in T : n <= j
  BY <1>0, LeastNatural
<1>2. n # 0
  <2>1. f[0] = << >>
    BY <1>0 DEF Replays
  <2>2. << >> \in Seq(X) /\ Len(<< >>) = 0
    OBVIOUS
  <2>3. f[0] \in Seq(X) /\ Len(f[0]) = 0
    BY <2>1, <2>2
  <2> QED BY <2>3
<1>3. n - 1 \in 0..Len(s) /\ n \in 1..Len(s) /\ ~(n <= n - 1)
  BY <1>0, <1>2
<1>4. f[n-1] \in Seq(X) /\ Len(f[n-1]) <= n - 1
  BY <1>1, <1>3
<1>5. f[n] = Applies(s[n], f[n-1]) /\ s[n] \in X
  BY <1>2, <1>3 DEF Replays
<1>6. f[n] \in Seq(X) /\ Len(f[n]) <= n
  <2> DEFINE u == f[n-1]
             x == s[n]
  <2> HIDE DEF u, x
  <2>1. u \in Seq(X) /\ Len(u) <= n - 1 /\ x \in X /\ f[n] = Applies(x, u)
    BY <1>4, <1>5 DEF u, x
  <2>2. Append(u, x) \in Seq(X) /\ Len(Append(u, x)) = Len(u) + 1 /\ Len(u) \in Nat
    BY <2>1
  <2> QED BY <1>3, <2>1, <2>2 DEF Applies
<1> QED BY <1>6

\* Replaying one transformation more.
LEMMA ReplayOfAppend ==
  ASSUME NEW X, NEW u \in Seq(X), NEW x \in X
  PROVE  Replay(Append(u, x)) = Applies(x, Replay(u))
<1>1. PICK w : /\ w = Append(u, x) /\ w \in Seq(X) /\ Len(w) \in Nat
               /\ Len(w) = Len(u) + 1 /\ w[Len(u) + 1] = x
               /\ \A k \in 1..Len(u) : w[k] = u[k]
  <2> DEFINE v == Append(u, x)
  <2>1. /\ v \in Seq(X) /\ Len(v) \in Nat /\ Len(v) = Len(u) + 1 /\ v[Len(u) + 1] = x
        /\ \A k \in 1..Len(u) : v[k] = u[k]
    OBVIOUS
  <2> HIDE DEF v
  <2> QED BY <2>1 DEF v
<1>2. PICK f : Replays(f, w, Len(w)) /\ Replay(w) = f[Len(w)]
  BY <1>1, ReplayEquation
<1>3. PICK g : Replays(g, u, Len(u)) /\ Replay(u) = g[Len(u)]
  BY ReplayEquation
<1>4. f[Len(u)] = g[Len(u)]
  <2>1. Len(u) \in 0..Len(w)
    BY <1>1
  <2>2. \A k \in 1..Len(u) : w[k] = u[k]
    BY <1>1
  <2>3. Len(w) \in Nat
    BY <1>1
  <2>4. \A k \in 0..Len(u) : f[k] = g[k]
    BY <1>2, <1>3, <2>1, <2>2, <2>3, ReplayUnique
  <2> QED BY <2>4
<1>5. f[Len(w)] = Applies(x, f[Len(u)])
  <2>1. Len(w) \in 1..Len(w) /\ w[Len(w)] = x /\ Len(w) - 1 = Len(u)
    BY <1>1
  <2> QED BY <1>2, <2>1 DEF Replays
<1>6. Replay(w) = Applies(x, Replay(u))
  BY <1>2, <1>3, <1>4, <1>5
<1> QED BY <1>1, <1>6

\* What a replay gives is replayed as it is.
LEMMA ReplayIsIdempotent ==
  ASSUME NEW X, NEW s \in Seq(X)
  PROVE  /\ Replay(s) \in Seq(X) /\ Len(Replay(s)) <= Len(s)
         /\ Replay(Replay(s)) = Replay(s)
<1>0. Len(s) \in Nat
  OBVIOUS
<1>1. PICK f : Replays(f, s, Len(s)) /\ Replay(s) = f[Len(s)]
  BY <1>0, ReplayEquation
<1>2. \A n \in 0..Len(s) : f[n] \in Seq(X) /\ Len(f[n]) <= n
  BY <1>1, ReplayType
<1> DEFINE T == {n \in 0..Len(s) : Replay(f[n]) # f[n]}
<1>3. T = {}
  <2> SUFFICES ASSUME T # {} PROVE FALSE
    OBVIOUS
  <2>0. T \in SUBSET Nat
    OBVIOUS
  <2>1. PICK n \in T : \A j \in T : n <= j
    BY <2>0, LeastNatural
  <2>2. n # 0
    <3>1. Replay(<< >>) = << >>
      <4>1. Len(<< >>) = 0
        OBVIOUS
      <4>2. PICK g : Replays(g, << >>, 0) /\ Replay(<< >>) = g[0]
        BY <4>1, ReplayEquation
      <4> QED BY <4>2 DEF Replays
    <3>2. f[0] = << >>
      BY <1>0, <1>1 DEF Replays
    <3> QED BY <3>1, <3>2
  <2>3. n - 1 \in 0..Len(s) /\ n \in 1..Len(s) /\ ~(n <= n - 1)
    BY <1>0, <2>2
  <2>4. Replay(f[n-1]) = f[n-1] /\ f[n-1] \in Seq(X) /\ s[n] \in X
    BY <1>2, <2>1, <2>3
  <2>5. f[n] = Applies(s[n], f[n-1])
    BY <1>1, <2>2, <2>3 DEF Replays
  <2>6. Replay(Append(f[n-1], s[n])) = Applies(s[n], f[n-1])
    BY <2>4, ReplayOfAppend
  <2>7. Replay(f[n]) = f[n]
    BY <2>4, <2>5, <2>6 DEF Applies
  <2> QED BY <2>7
<1> QED BY <1>0, <1>1, <1>2, <1>3

\* A replay begins with the replay of any beginning.
LEMMA ReplayOfPrefix ==
  ASSUME NEW X, NEW s \in Seq(X), NEW u \in Seq(X), Len(u) <= Len(s),
         \A k \in 1..Len(u) : u[k] = s[k]
  PROVE  Len(Replay(u)) <= Len(Replay(s)) /\ \A k \in 1..Len(Replay(u)) : Replay(u)[k] = Replay(s)[k]
<1>0. Len(s) \in Nat /\ Len(u) \in Nat
  OBVIOUS
<1>1. PICK f : Replays(f, s, Len(s)) /\ Replay(s) = f[Len(s)]
  BY <1>0, ReplayEquation
<1>2. PICK g : Replays(g, u, Len(u)) /\ Replay(u) = g[Len(u)]
  BY <1>0, ReplayEquation
<1>3. f[Len(u)] = Replay(u)
  <2>1. \A k \in 0..Len(u) : f[k] = g[k]
    BY <1>0, <1>1, <1>2, ReplayUnique
  <2> QED BY <1>0, <1>2, <2>1
<1>4. \A n \in 0..Len(s) : f[n] \in Seq(X)
  BY <1>1, ReplayType
<1> DEFINE r == Replay(u)
           Begins(t) == Len(r) <= Len(t) /\ \A k \in 1..Len(r) : r[k] = t[k]
           T == {n \in Len(u)..Len(s) : ~Begins(f[n])}
<1> HIDE DEF r
<1>5. r \in Seq(X)
  BY <1>0, <1>3, <1>4 DEF r
<1>6. T = {}
  <2> SUFFICES ASSUME T # {} PROVE FALSE
    OBVIOUS
  <2>0. T \in SUBSET Nat
    BY <1>0
  <2>1. PICK n \in T : \A j \in T : n <= j
    BY <2>0, LeastNatural
  <2>2. n # Len(u)
    BY <1>3, <1>5 DEF r
  <2>3. n - 1 \in Len(u)..Len(s) /\ n \in 1..Len(s) /\ n - 1 \in 0..Len(s) /\ ~(n <= n - 1)
    BY <1>0, <2>2
  <2>4. Begins(f[n-1]) /\ f[n-1] \in Seq(X) /\ s[n] \in X
    BY <1>4, <2>1, <2>3
  <2>5. f[n] = Applies(s[n], f[n-1])
    BY <1>1, <2>3 DEF Replays
  <2>6. Begins(f[n])
    <3> DEFINE t == f[n-1]
               x == s[n]
    <3> HIDE DEF t, x
    <3>1. t \in Seq(X) /\ x \in X /\ f[n] = Applies(x, t) /\ Begins(t)
      BY <2>4, <2>5 DEF t, x
    <3>2. /\ Len(Append(t, x)) = Len(t) + 1 /\ Len(t) \in Nat /\ Len(r) \in Nat
          /\ \A k \in 1..Len(t) : Append(t, x)[k] = t[k]
      BY <1>5, <3>1
    <3>3. Begins(Append(t, x))
      BY <3>1, <3>2
    <3> HIDE DEF Begins
    <3> QED BY <3>1, <3>3 DEF Applies
  <2> QED BY <2>6
<1>7. Begins(f[Len(s)])
  BY <1>0, <1>6
<1> QED BY <1>1, <1>7 DEF r

-----------------------------------------------------------------------------
\* Rounding up: as many chunks as it takes.
LEMMA ChunksCover ==
  ASSUME NEW n \in Nat, NEW c \in Nat \ {0}, NEW q, q = (n + c - 1) \div c
  PROVE  q \in Nat /\ q * c >= n /\ (q - 1) * c < n /\ (n > 0 => q >= 1) /\ q <= n
<1>1. q \in Int /\ q * c <= n + c - 1 /\ n + c - 1 < q * c + c
  OBVIOUS
<1>2. q \in Nat
  OBVIOUS
<1>3. (q - 1) * c = q * c - c
  BY <1>1
<1>4. q * c >= n /\ (q - 1) * c < n
  BY <1>1, <1>3
<1>5. n > 0 => q >= 1
  BY <1>2, <1>4
<1>6. q <= n
  <2> SUFFICES ASSUME q >= n + 1 PROVE FALSE
    BY <1>2
  <2>1. (q - 1) * c >= n * c
    BY <1>2
  <2>2. n * c >= n
    OBVIOUS
  <2> QED BY <1>4, <2>1, <2>2
<1> QED BY <1>2, <1>4, <1>5, <1>6

\* f[n] is n, or the first of its halves that is no larger than remaining.
Fits(f, remaining, size) ==
  f = [n \in 0..size |-> IF n > remaining THEN f[n \div 2] ELSE n]

\* Some function is that: the loop that halves the chunk size ends.
LEMMA FitExists ==
  ASSUME NEW remaining \in Nat, NEW size \in Nat
  PROVE  \E f : Fits(f, remaining, size)
<1> DEFINE T == {n \in Nat : ~ \E f : Fits(f, remaining, n)}
<1> SUFFICES ASSUME T # {} PROVE FALSE
  OBVIOUS
<1>1. PICK m \in T : \A n \in T : m <= n
  BY LeastNatural
<1>2. m # 0
  <2> DEFINE g == [n \in 0..0 |-> 0]
  <2>1. Fits(g, remaining, 0)
    BY DEF Fits
  <2> QED BY <2>1
<1>3. PICK f : Fits(f, remaining, m - 1)
  BY <1>1, <1>2
<1> DEFINE g == [n \in 0..m |-> IF n = m THEN IF m > remaining THEN f[m \div 2] ELSE m ELSE f[n]]
<1>4. \A n \in 0..(m-1) : g[n] = f[n]
  BY <1>2
<1>5. \A n \in 1..m : n \div 2 \in 0..(m-1) /\ n \div 2 \in 0..(n-1)
  OBVIOUS
<1>6. \A n \in 0..m : g[n] = IF n > remaining THEN g[n \div 2] ELSE n
  <2> TAKE n \in 0..m
  <2>1. CASE n = m
    BY <2>1, <1>2, <1>4, <1>5
  <2>2. CASE n # m
    <3>1. f[n] = IF n > remaining THEN f[n \div 2] ELSE n
      BY <2>2, <1>3 DEF Fits
    <3>2. n > remaining => n \div 2 \in 0..(m-1)
      BY <1>5
    <3> QED BY <2>2, <3>1, <3>2, <1>4
  <2> QED BY <2>1, <2>2
<1>7. Fits(g, remaining, m)
  BY <1>6 DEF Fits
<1> QED BY <1>7

\* A fitting size is no larger than the one asked for or than what remains,
\* and zero only if it was asked for or nothing remains.
LEMMA FittingType ==
  ASSUME NEW remaining \in Nat, NEW size \in Nat
  PROVE  /\ Fitting(size, remaining) \in 0..size
         /\ Fitting(size, remaining) <= remaining
         /\ remaining > 0 /\ size > 0 => Fitting(size, remaining) > 0
<1> DEFINE fit[n \in 0..size] == IF n > remaining THEN fit[n \div 2] ELSE n
<1>1. Fitting(size, remaining) = fit[size]
  BY DEF Fitting
<1>2. PICK f : Fits(f, remaining, size)
  BY FitExists
<1>3. f = [n \in 0..size |-> IF n > remaining THEN f[n \div 2] ELSE n]
  BY <1>2 DEF Fits
<1>4. fit = [n \in 0..size |-> IF n > remaining THEN fit[n \div 2] ELSE n]
  BY <1>3
<1> HIDE DEF fit
<1> DEFINE Right(n) == fit[n] \in 0..n /\ fit[n] <= remaining /\ (remaining > 0 /\ n > 0 => fit[n] > 0)
           T == {n \in 0..size : ~Right(n)}
<1>5. T = {}
  <2> SUFFICES ASSUME T # {} PROVE FALSE
    OBVIOUS
  <2>0. T \in SUBSET Nat
    OBVIOUS
  <2>1. PICK n \in T : \A j \in T : n <= j
    BY <2>0, LeastNatural
  <2>2. fit[n] = IF n > remaining THEN fit[n \div 2] ELSE n
    BY <1>4
  <2>3. n > remaining
    <3> SUFFICES ASSUME n <= remaining PROVE FALSE
      OBVIOUS
    <3>1. fit[n] = n
      BY <2>2
    <3> QED BY <3>1
  <2>4. n \div 2 \in 0..size /\ n \div 2 \in 0..n /\ n \div 2 < n /\ (remaining > 0 => n \div 2 > 0)
    BY <2>3
  <2>5. Right(n \div 2)
    BY <2>1, <2>4
  <2>6. Right(n)
    BY <2>2, <2>3, <2>4, <2>5
  <2> QED BY <2>6
<1>6. Right(size)
  BY <1>5
<1> QED BY <1>1, <1>6

\* A chunk that begins inside a sequence ends inside it, and what is removed
\* with it is behind its beginning.
LEMMA ChunkRemoved ==
  ASSUME NEW X, NEW s \in Seq(X), NEW index \in Nat, NEW size \in Nat \ {0}, index * size < Len(s)
  PROVE  /\ Lower(index, size) < Upper(s, index, size)
         /\ RemoveChunk(s, index, size) \in Seq(X)
         /\ Len(RemoveChunk(s, index, size)) < Len(s)
         /\ index * size <= Len(RemoveChunk(s, index, size))
         /\ \A k \in 1..(index * size) : RemoveChunk(s, index, size)[k] = s[k]
<1> DEFINE lo == index * size
           up == Upper(s, index, size)
           left == SubSeq(s, 1, lo)
           right == SubSeq(s, up + 1, Len(s))
<1>1. lo \in Nat /\ (index + 1) * size = lo + size /\ Len(s) \in Nat
  OBVIOUS
<1>2. up \in Nat /\ lo < up /\ up <= Len(s)
  <2> HIDE DEF lo
  <2>1. up = IF lo + size < Len(s) THEN lo + size ELSE Len(s)
    BY <1>1 DEF Upper, Smaller
  <2>2. lo < Len(s)
    BY DEF lo
  <2> QED BY <1>1, <2>1, <2>2
<1>3. Lower(index, size) = lo
  BY DEF Lower
<1>4. RemoveChunk(s, index, size) = left \o right
  BY <1>3 DEF RemoveChunk
<1> HIDE DEF lo, up
<1>5. left \in Seq(X) /\ Len(left) = lo /\ \A k \in 1..lo : left[k] = s[k]
  <2>1. left = [k \in 1..(1 + lo - 1) |-> s[1 + k - 1]]
    BY <1>1
  <2>2. left \in Seq(X)
    BY <1>1, <1>2, SubSeqType
  <2> QED BY <1>1, <2>1, <2>2
<1>6. right \in Seq(X) /\ Len(right) = Len(s) - up
  <2>1. right = [k \in 1..(1 + Len(s) - (up + 1)) |-> s[(up + 1) + k - 1]]
    BY <1>1, <1>2
  <2>2. right \in Seq(X)
    BY <1>1, <1>2, SubSeqType
  <2>3. 1..(1 + Len(s) - (up + 1)) = 1..(Len(s) - up) /\ Len(s) - up \in Nat
    BY <1>1, <1>2
  <2> QED BY <2>1, <2>2, <2>3
<1> HIDE DEF left, right
<1>7. /\ left \o right \in Seq(X)
      /\ Len(left \o right) = lo + (Len(s) - up)
      /\ \A k \in 1..lo : (left \o right)[k] = s[k]
  <2>1. left \o right \in Seq(X) /\ Len(left \o right) = Len(left) + Len(right)
    BY <1>5, <1>6
  <2>2. \A k \in 1..Len(left) : (left \o right)[k] = left[k]
    BY <1>5, <1>6
  <2> QED BY <1>5, <1>6, <2>1, <2>2
<1> QED BY <1>1, <1>2, <1>3, <1>4, <1>7 DEF lo, up

\* A beginning of what is replayed as it is is replayed as it is.
LEMMA PrefixReplays ==
  ASSUME NEW X, NEW s \in Seq(X), Replay(s) = s, NEW u \in Seq(X), Len(u) <= Len(s),
         \A k \in 1..Len(u) : u[k] = s[k]
  PROVE  Replay(u) = u
<1>0. Len(s) \in Nat /\ Len(u) \in Nat
  OBVIOUS
<1>1. PICK f : Replays(f, s, Len(s)) /\ Replay(s) = f[Len(s)]
  BY <1>0, ReplayEquation
<1>2. PICK g : Replays(g, u, Len(u)) /\ Replay(u) = g[Len(u)]
  BY <1>0, ReplayEquation
<1>3. \A k \in 0..Len(u) : f[k] = g[k]
  <2>1. Len(u) \in 0..Len(s) /\ Len(u) \in Nat
    BY <1>0
  <2>2. \A k \in 1..Len(u) : s[k] = u[k]
    OBVIOUS
  <2>3. Replays(f, s, Len(s)) /\ Replays(g, u, Len(u)) /\ Len(s) \in Nat
    BY <1>0, <1>1, <1>2
  <2> QED BY <2>1, <2>2, <2>3, ReplayUnique
<1>4. \A n \in 0..Len(s) : f[n] \in Seq(X) /\ Len(f[n]) <= n
  BY <1>1, ReplayType
\* Nothing is ever left out, since what is left out is not made up for.
<1>5. \A n \in 0..Len(s) : Len(f[n]) = n
  <2> DEFINE T == {d \in 0..Len(s) : Len(f[Len(s) - d]) # Len(s) - d}
  <2> SUFFICES ASSUME T # {} PROVE FALSE
    <3> SUFFICES ASSUME NEW n \in 0..Len(s), T = {} PROVE Len(f[n]) = n
      OBVIOUS
    <3>1. Len(s) - n \in 0..Len(s) /\ Len(s) - (Len(s) - n) = n
      BY <1>0
    <3> QED BY <3>1
  <2>0. T \in SUBSET Nat
    BY <1>0
  <2>1. PICK d \in T : \A j \in T : d <= j
    BY <2>0, LeastNatural
  <2> DEFINE n == Len(s) - d
  <2>2. d # 0
    BY <1>0, <1>1
  <2>3. d - 1 \in 0..Len(s) /\ ~(d <= d - 1) /\ Len(s) - (d - 1) = n + 1
        /\ n \in 0..Len(s) /\ n + 1 \in 1..Len(s) /\ (n + 1) - 1 = n
    BY <1>0, <2>2
  <2>4. Len(f[n]) # n
    OBVIOUS
  <2>5. Len(f[n + 1]) = n + 1
    BY <2>1, <2>3
  <2> HIDE DEF n
  <2>6. f[n + 1] = Applies(s[n + 1], f[n]) /\ s[n + 1] \in X
    <3>1. n + 1 # 0 /\ n + 1 \in 0..Len(s)
      BY <2>3, <1>0
    <3>2. s[n + 1] \in X
      BY <2>3
    <3> QED BY <1>1, <2>3, <3>1, <3>2 DEF Replays
  <2>7. f[n] \in Seq(X) /\ Len(f[n]) <= n
    BY <1>4, <2>3
  <2>8. Len(f[n + 1]) <= Len(f[n]) + 1
    <3> DEFINE t == f[n]
               x == s[n + 1]
    <3> HIDE DEF t, x
    <3>1. t \in Seq(X) /\ x \in X /\ f[n + 1] = Applies(x, t)
      BY <2>6, <2>7 DEF t, x
    <3>2. Len(Append(t, x)) = Len(t) + 1 /\ Len(t) \in Nat
      BY <3>1
    <3> QED BY <3>1, <3>2 DEF Applies, t
  <2>9. Len(f[n]) \in Nat /\ n \in Nat
    BY <1>0, <2>3, <2>7
  <2> QED BY <2>4, <2>5, <2>7, <2>8, <2>9
<1>6. Len(Replay(u)) = Len(u) /\ Replay(u) \in Seq(X)
  BY <1>0, <1>2, <1>3, <1>4, <1>5
<1>7. \A k \in 1..Len(Replay(u)) : Replay(u)[k] = Replay(s)[k]
  BY ReplayOfPrefix
<1>8. \A k \in 1..Len(u) : Replay(u)[k] = u[k]
  BY <1>6, <1>7
<1> DEFINE r == Replay(u)
<1> HIDE DEF r
<1>9. r \in Seq(X) /\ Len(r) = Len(u) /\ \A k \in 1..Len(u) : r[k] = u[k]
  BY <1>6, <1>8 DEF r
<1>10. r = u
  BY <1>9
<1> QED BY <1>10 DEF r

-----------------------------------------------------------------------------
\* What BestIsReproducible says of the best transformations.
Good(s) == Replay(s) = s /\ ~ReplayFails(s) /\ Interesting(test, s)

\* A replay that is interesting is good.
LEMMA ReplayIsGood ==
  ASSUME NEW s \in Seq(Transformations), ~ReplayFails(s), Interesting(test, Replay(s))
  PROVE  Good(Replay(s))
<1>1. Replay(Replay(s)) = Replay(s)
  BY ReplayIsIdempotent
<1> QED BY <1>1 DEF Good, ReplayFails

\* Steps of the rounds and after them leave the refusals alone.
LEMMA SameRefusals ==
  ASSUME UNCHANGED <<test, validate, best>>, NEW k, Refused(k)
  PROVE  Refused(k)'
BY DEF Refused, ReplayFails

\* The lengths and bounds are numbers.
LEMMA LenBest ==
  ASSUME TypeOK
  PROVE  /\ Len(best) \in Nat /\ Len(input) \in Nat /\ input \in Seq(Transformations)
         /\ limit \in Nat /\ attempt \in Nat /\ Overshoot \in Nat
         /\ chunkSize \in Nat /\ best \in Seq(Transformations)
<1>1. input \in Seq(Transformations) /\ best \in Seq(Transformations) /\ limit \in Nat
      /\ Overshoot \in Nat
  BY TransformationsAssumption DEF TypeOK
<1>2. Len(best) \in Nat /\ Len(input) \in Nat
  BY <1>1
<1> QED BY <1>1, <1>2 DEF TypeOK, Larger

\* The invariant holds before the first replay.
LEMMA InitInv == Init => ShrinkerInv
<1> SUFFICES ASSUME Init PROVE ShrinkerInv
  OBVIOUS
<1>1. Len(input) \in Nat
  <2>1. input \in Seq(Transformations)
    BY TransformationsAssumption DEF Init
  <2> QED BY <2>1
<1>2. limit \in Nat /\ Overshoot \in Nat
  BY TransformationsAssumption DEF Init
<1>3. << >> \in Seq(Transformations) /\ Len(<< >>) = 0
  OBVIOUS
<1>4. TypeOK
  <2>1. /\ 0 <= Len(input) /\ 0 \in 0..(limit + Overshoot) /\ 0 \in -1..Len(input)
        /\ 0 \in 0..Larger(1, Len(input)) /\ 1 \in 1..(Len(input) + 1)
    BY <1>1, <1>2 DEF Larger
  <2> QED BY <1>3, <2>1 DEF Init, TypeOK
<1>5. status \notin {"complete", "stepLimitReached"}
  BY TransformationsAssumption DEF Init
<1> QED BY <1>4, <1>5
        DEF Init, ShrinkerInv, BestIsReproducible, InUse, RoundInv, BetweenRoundsInv, BestIsOneMinimal

\* Each action of the shrinker keeps it: the check of the initial sequence,
LEMMA StartKeeps ==
  ASSUME ShrinkerInv, Start
  PROVE  ShrinkerInv'
<1>0. /\ TypeOK /\ pc = "start" /\ status = NoStatus
      /\ UNCHANGED <<input, test, limit, validate, attempt, chunkIndex, progress, at>>
  BY DEF ShrinkerInv, Start
<1>1. CASE pc' = "done" /\ chunkSize' = chunkSize
  <2>1. best' \in Seq(Transformations) /\ Len(best') <= Len(input)
    <3>1. CASE best' = best
      BY <1>0, <3>1 DEF TypeOK
    <3>2. CASE best' = Replay(input)
      BY <1>0, <3>2, LenBest, ReplayIsIdempotent
    <3> QED BY <3>1, <3>2 DEF Start
  <2>2. TypeOK'
    BY <1>0, <1>1, <2>1 DEF TypeOK
  <2>3. status' \notin {"complete", "stepLimitReached"}
    BY <1>0, <1>1 DEF Start, Return
  <2> QED BY <1>1, <2>2, <2>3
          DEF ShrinkerInv, BestIsReproducible, InUse, RoundInv, BetweenRoundsInv, BestIsOneMinimal
<1>2. CASE /\ ~ReplayFails(input) /\ Interesting(test, Replay(input))
           /\ best' = Replay(input)
           /\ chunkSize' = Larger(1, Len(best') \div 2)
           /\ pc' = "rounds" /\ status' = status
  <2>1. best' \in Seq(Transformations) /\ Len(best') <= Len(input) /\ Len(best') \in Nat
    BY <1>0, <1>2, LenBest, ReplayIsIdempotent
  <2>2. chunkSize' \in 0..Larger(1, Len(input)) /\ chunkSize' >= 1
        /\ (Len(best') >= 1 => chunkSize' <= Len(best'))
    BY <1>0, <1>2, <2>1, LenBest DEF Larger
  <2>3. best' # << >> => Len(best') >= 1
    BY <2>1
  <2>4. TypeOK'
    BY <1>0, <1>2, <2>1, <2>2 DEF TypeOK
  <2>5. Good(Replay(input))
    BY <1>0, <1>2, LenBest, ReplayIsGood
  <2>6. BestIsReproducible'
    BY <1>0, <1>2, <2>5 DEF BestIsReproducible, Good, ReplayFails
  <2> QED BY <1>0, <1>2, <2>2, <2>3, <2>4, <2>6
          DEF ShrinkerInv, RoundInv, BetweenRoundsInv, BestIsOneMinimal
<1> QED BY <1>1, <1>2 DEF Start, Return

\* the start of a round,
LEMMA StartRoundKeeps ==
  ASSUME ShrinkerInv, StartRound
  PROVE  ShrinkerInv'
<1>0. /\ TypeOK /\ pc = "rounds" /\ pc' = "chunks" /\ status = NoStatus /\ progress' = FALSE
      /\ UNCHANGED <<input, test, limit, validate, best, attempt, chunkSize, at, status>>
      /\ best # << >> /\ chunkSize > 0 /\ chunkIndex' = NumChunks - 1
  BY DEF ShrinkerInv, StartRound, MoreRounds
<1>1. Len(best) \in Nat /\ chunkSize \in Nat \ {0} /\ Len(best) <= Len(input) /\ Len(input) \in Nat
  BY <1>0, LenBest DEF TypeOK
<1>2. /\ NumChunks \in Nat /\ NumChunks <= Len(best)
      /\ (NumChunks - 1) * chunkSize < Len(best)
  BY <1>1, ChunksCover DEF NumChunks
<1>3. chunkSize = 1 => NumChunks = Len(best)
  BY <1>1 DEF NumChunks
<1>4. TypeOK'
  <2>1. chunkIndex' \in -1..Len(input)
    BY <1>0, <1>1, <1>2
  <2> QED BY <1>0, <2>1 DEF TypeOK
<1>5. RoundInv'
  <2>1. chunkSize = 1 => (chunkIndex' + 1)..(Len(best) - 1) = {}
    BY <1>0, <1>1, <1>3
  <2> QED BY <1>0, <1>2, <2>1 DEF RoundInv
<1>6. BestIsReproducible'
  BY <1>0 DEF ShrinkerInv, BestIsReproducible, InUse, ReplayFails
<1> QED BY <1>0, <1>4, <1>5, <1>6 DEF ShrinkerInv, BetweenRoundsInv, BestIsOneMinimal

\* the removal of a chunk, which is kept or undone,
LEMMA TryChunkKeeps ==
  ASSUME ShrinkerInv, TryChunk
  PROVE  ShrinkerInv'
<1> DEFINE rest == RemoveChunk(best, chunkIndex, chunkSize)
<1>0. /\ TypeOK /\ pc = "chunks" /\ status = NoStatus
      /\ UNCHANGED <<input, test, limit, validate, at>>
      /\ attempt < limit /\ chunkIndex >= 0
  BY DEF ShrinkerInv, TryChunk, MoreChunks
<1>1. /\ Len(best) \in Nat /\ chunkSize \in Nat \ {0} /\ chunkIndex \in Nat
      /\ Len(best) <= Len(input) /\ Len(input) \in Nat /\ attempt \in Nat /\ limit \in Nat
      /\ best \in Seq(Transformations) /\ Overshoot \in Nat
      /\ chunkIndex * chunkSize < Len(best)
  BY <1>0, LenBest DEF TypeOK, ShrinkerInv, RoundInv
<1>2. /\ rest \in Seq(Transformations) /\ Len(rest) < Len(best)
      /\ chunkIndex * chunkSize <= Len(rest)
      /\ \A k \in 1..(chunkIndex * chunkSize) : rest[k] = best[k]
  BY <1>1, ChunkRemoved
<1>3. Good(best)
  BY <1>0 DEF ShrinkerInv, BestIsReproducible, InUse, Good
<1> HIDE DEF rest
<1>4. CASE ReplayFails(rest) /\ Return("replayFailed")
           /\ UNCHANGED <<best, attempt, chunkSize, chunkIndex, progress>>
  <2>1. TypeOK'
    BY <1>0, <1>4 DEF TypeOK, Return
  <2> QED BY <1>4, <2>1
          DEF ShrinkerInv, BestIsReproducible, InUse, RoundInv, BetweenRoundsInv, BestIsOneMinimal,
              Return
<1>5. CASE ~ReplayFails(rest) /\ Interesting(test, Replay(rest))
           /\ best' = Replay(rest) /\ progress' = TRUE /\ NextChunk
  <2>1. /\ best' \in Seq(Transformations) /\ Len(best') <= Len(input) /\ Len(best') \in Nat
        /\ Good(best')
    <3>1. Replay(rest) \in Seq(Transformations) /\ Len(Replay(rest)) <= Len(rest)
      BY <1>2, ReplayIsIdempotent
    <3>2. Good(Replay(rest))
      BY <1>2, <1>5, ReplayIsGood
    <3>3. Len(rest) \in Nat /\ Len(Replay(rest)) \in Nat
      BY <1>2, <3>1
    <3> QED BY <1>1, <1>2, <1>5, <3>1, <3>2, <3>3
  <2>2. Len(best') >= chunkIndex * chunkSize
    <3> DEFINE m == chunkIndex * chunkSize
               u == SubSeq(best, 1, m)
    <3>1. m \in Nat /\ m <= Len(best) /\ m <= Len(rest) /\ Len(rest) \in Nat
      BY <1>1, <1>2
    <3>2. \A k \in 1..m : rest[k] = best[k]
      BY <1>2
    <3> HIDE DEF m
    <3>3. u \in Seq(Transformations) /\ Len(u) = m /\ \A k \in 1..m : u[k] = best[k]
      <4>1. u = [k \in 1..(1 + m - 1) |-> best[1 + k - 1]]
        BY <3>1
      <4>2. u \in Seq(Transformations)
        BY <1>1, <3>1, SubSeqType
      <4> QED BY <3>1, <4>1, <4>2
    <3> HIDE DEF u
    <3>4. Replay(u) = u
      BY <1>1, <1>3, <3>1, <3>3, PrefixReplays DEF Good
    <3>5. Len(u) <= Len(rest) /\ \A k \in 1..Len(u) : u[k] = rest[k]
      BY <3>1, <3>2, <3>3
    <3>6. Len(Replay(u)) <= Len(Replay(rest))
      BY <1>2, <3>3, <3>5, ReplayOfPrefix
    <3> QED BY <1>5, <2>1, <3>1, <3>3, <3>4, <3>6 DEF m
  <2>3. chunkIndex' >= 0 => chunkIndex' * chunkSize' < Len(best')
    <3>1. chunkIndex' = chunkIndex - 1 /\ chunkSize' = chunkSize
      BY <1>5 DEF NextChunk
    <3>2. (chunkIndex - 1) * chunkSize = chunkIndex * chunkSize - chunkSize
      BY <1>1
    <3>3. chunkIndex * chunkSize \in Nat
      BY <1>1
    <3> HIDE DEF rest
    <3> QED BY <1>1, <2>1, <2>2, <3>1, <3>2, <3>3
  <2>4. TypeOK'
    BY <1>0, <1>1, <1>5, <2>1 DEF TypeOK, NextChunk
  <2>5. BestIsReproducible'
    BY <1>0, <1>5, <2>1 DEF BestIsReproducible, Good, ReplayFails
  <2> QED BY <1>0, <1>1, <1>5, <2>3, <2>4, <2>5
          DEF ShrinkerInv, RoundInv, BetweenRoundsInv, BestIsOneMinimal, NextChunk
<1>6. CASE (ReplayFails(rest) \/ ~Interesting(test, Replay(rest)))
           /\ NextChunk /\ UNCHANGED <<best, progress>>
  <2>1. TypeOK'
    BY <1>0, <1>1, <1>6 DEF TypeOK, NextChunk
  <2>2. BestIsReproducible'
    BY <1>0, <1>3, <1>6 DEF BestIsReproducible, Good, ReplayFails
  <2>3. chunkIndex' >= 0 => chunkIndex' * chunkSize' < Len(best')
    <3>1. chunkIndex' = chunkIndex - 1 /\ chunkSize' = chunkSize /\ best' = best
      BY <1>6 DEF NextChunk
    <3>2. (chunkIndex - 1) * chunkSize = chunkIndex * chunkSize - chunkSize
      BY <1>1
    <3>3. chunkIndex * chunkSize \in Nat
      BY <1>1
    <3> QED BY <1>1, <3>1, <3>2, <3>3
  <2>4. chunkSize' = 1 /\ ~progress' => \A k \in (chunkIndex' + 1)..(Len(best') - 1) : Refused(k)'
    <3> SUFFICES ASSUME chunkSize = 1, ~progress, NEW k \in chunkIndex..(Len(best) - 1)
                 PROVE  Refused(k)'
      BY <1>1, <1>6 DEF NextChunk
    <3>1. Refused(k)
      <4>1. CASE k = chunkIndex
        BY <1>6, <4>1 DEF Refused, rest
      <4>2. CASE k # chunkIndex
        BY <1>0, <1>1, <4>2 DEF ShrinkerInv, RoundInv
      <4> QED BY <4>1, <4>2
    <3> QED BY <1>0, <1>6, <3>1, SameRefusals
  <2> QED BY <1>0, <1>1, <1>6, <2>1, <2>2, <2>3, <2>4
          DEF ShrinkerInv, RoundInv, BetweenRoundsInv, BestIsOneMinimal, NextChunk
<1> QED BY <1>4, <1>5, <1>6 DEF TryChunk, rest

\* the end of a round,
LEMMA EndRoundKeeps ==
  ASSUME ShrinkerInv, EndRound
  PROVE  ShrinkerInv'
<1> DEFINE size == IF progress THEN chunkSize ELSE chunkSize \div 2
<1>0. /\ TypeOK /\ pc = "chunks" /\ pc' = "rounds" /\ status = NoStatus
      /\ UNCHANGED <<input, test, limit, validate, best, attempt, chunkIndex, progress, at, status>>
      /\ ~(attempt < limit /\ chunkIndex >= 0)
      /\ chunkSize' = Fitting(size, Len(best))
  BY DEF ShrinkerInv, EndRound, MoreChunks
<1>1. /\ Len(best) \in Nat /\ chunkSize \in Nat \ {0} /\ Len(input) \in Nat
      /\ best \in Seq(Transformations) /\ progress \in BOOLEAN
      /\ chunkIndex \in Int /\ chunkIndex >= -1
  BY <1>0, LenBest DEF TypeOK, ShrinkerInv, RoundInv
<1>2. size \in 0..chunkSize /\ (size = 0 => chunkSize = 1 /\ ~progress)
  BY <1>1
<1> HIDE DEF size
<1>3. /\ chunkSize' \in 0..size /\ chunkSize' <= Len(best)
      /\ Len(best) > 0 /\ size > 0 => chunkSize' > 0
  BY <1>0, <1>1, <1>2, FittingType
<1>4. TypeOK'
  BY <1>0, <1>1, <1>2, <1>3 DEF TypeOK, Larger
<1>5. BestIsReproducible'
  BY <1>0 DEF ShrinkerInv, BestIsReproducible, InUse, ReplayFails
<1>6. BetweenRoundsInv'
  <2> SUFFICES ASSUME attempt < limit, chunkSize' = 0, NEW k \in 0..(Len(best) - 1)
               PROVE  Refused(k)'
    BY <1>0, <1>3 DEF BetweenRoundsInv
  <2>1. chunkSize = 1 /\ ~progress
    BY <1>1, <1>2, <1>3
  <2>2. k \in (chunkIndex + 1)..(Len(best) - 1)
    BY <1>0, <1>1
  <2>3. Refused(k)
    BY <1>0, <2>1, <2>2 DEF ShrinkerInv, RoundInv
  <2> QED BY <1>0, <2>3, SameRefusals
<1> QED BY <1>0, <1>4, <1>5, <1>6 DEF ShrinkerInv, RoundInv, BestIsOneMinimal

\* and the end of the last.
LEMMA EndRoundsKeeps ==
  ASSUME ShrinkerInv, EndRounds
  PROVE  ShrinkerInv'
<1>0. /\ TypeOK /\ pc = "rounds" /\ pc' = "functions" /\ status = NoStatus
      /\ UNCHANGED <<input, test, limit, validate, best, attempt, chunkSize, chunkIndex,
                     progress, at, status>>
      /\ ~(attempt < limit /\ best # << >> /\ chunkSize > 0)
  BY DEF ShrinkerInv, EndRounds, MoreRounds
<1>1. chunkSize \in Nat /\ best \in Seq(Transformations)
  BY <1>0, LenBest
<1>2. TypeOK'
  BY <1>0 DEF TypeOK
<1>3. BestIsReproducible'
  BY <1>0 DEF ShrinkerInv, BestIsReproducible, InUse, ReplayFails
<1>4. BestIsOneMinimal'
  <2> SUFFICES ASSUME attempt < limit, NEW k \in 0..(Len(best) - 1)
               PROVE  Refused(k)'
    BY <1>0 DEF BestIsOneMinimal
  <2>1. best # << >>
    BY <1>1
  <2>2. Refused(k)
    BY <1>0, <1>1, <2>1 DEF ShrinkerInv, BetweenRoundsInv
  <2> QED BY <1>0, <2>2, SameRefusals
<1> QED BY <1>0, <1>2, <1>3, <1>4 DEF ShrinkerInv, RoundInv, BetweenRoundsInv

\* The steps after the rounds keep the best transformations good.
LEMMA FunctionsKeep ==
  ASSUME ShrinkerInv, Skip \/ ReduceFunction \/ FailToReduce \/ Finish
  PROVE  ShrinkerInv'
<1>0. TypeOK /\ pc = "functions" /\ status = NoStatus
      /\ UNCHANGED <<input, test, limit, validate, chunkSize, chunkIndex, progress>>
  BY DEF ShrinkerInv, Skip, ReduceFunction, FailToReduce, Finish
<1>1. /\ Len(best) \in Nat /\ Len(input) \in Nat /\ best \in Seq(Transformations)
      /\ attempt \in Nat /\ limit \in Nat /\ Overshoot \in Nat
      /\ Len(best) <= Len(input) /\ at \in Nat \ {0}
  BY <1>0, LenBest DEF TypeOK
<1>2. Good(best)
  BY <1>0 DEF ShrinkerInv, BestIsReproducible, InUse, Good
<1>3. CASE Skip
  <2>1. TypeOK' /\ at' # 1
    BY <1>0, <1>1, <1>3 DEF TypeOK, Skip, MoreFunctions
  <2> QED BY <1>0, <1>2, <1>3, <2>1
          DEF ShrinkerInv, BestIsReproducible, InUse, RoundInv, BetweenRoundsInv, BestIsOneMinimal,
              Skip, Good, ReplayFails
<1>4. CASE ReduceFunction
  <2>1. PICK n \in ReductionAttempts, t \in Reduced(best[at]) \cup {best[at]} :
          LET adapted == [best EXCEPT ![at] = t] IN
          /\ t # best[at] => n > 0 /\ AcceptsFunction(adapted)
          /\ best' = adapted
          /\ attempt' = attempt + n
    BY <1>4 DEF ReduceFunction
  <2>2. attempt < limit /\ at \in 1..Len(best) /\ at' = at + 1 /\ status' = status /\ pc' = pc
    BY <1>1, <1>4 DEF ReduceFunction, MoreFunctions
  <2>3. best[at] \in Transformations /\ t \in Transformations
    BY <1>1, <2>1, <2>2, TransformationsAssumption
  <2>4. best' \in Seq(Transformations) /\ Len(best') = Len(best)
    BY <1>1, <2>1, <2>2, <2>3
  <2>5. Good(best')
    <3>1. CASE t = best[at]
      <4>1. best' = best
        BY <1>1, <2>1, <2>2, <3>1
      <4> QED BY <1>2, <4>1
    <3>2. CASE t # best[at]
      BY <2>1, <3>2 DEF AcceptsFunction, Good
    <3> QED BY <3>1, <3>2
  <2>6. attempt' \in 0..(limit + Overshoot) /\ at' \in 1..(Len(input) + 1) /\ at' # 1
    BY <1>1, <2>1, <2>2 DEF ReductionAttempts
  <2>7. TypeOK'
    BY <1>0, <1>1, <2>2, <2>4, <2>6 DEF TypeOK
  <2>8. BestIsReproducible'
    BY <1>0, <2>5 DEF BestIsReproducible, Good, ReplayFails
  <2> QED BY <1>0, <2>2, <2>6, <2>7, <2>8
          DEF ShrinkerInv, RoundInv, BetweenRoundsInv, BestIsOneMinimal
<1>5. CASE FailToReduce \/ Finish
  <2>1. UNCHANGED <<best, attempt, at>> /\ pc' = "done"
    BY <1>5 DEF FailToReduce, Finish, Return
  <2>2. TypeOK'
    BY <1>0, <2>1 DEF TypeOK
  <2>3. BestIsReproducible'
    BY <1>0, <1>2, <2>1 DEF BestIsReproducible, Good, ReplayFails
  <2> QED BY <2>1, <2>2, <2>3
          DEF ShrinkerInv, RoundInv, BetweenRoundsInv, BestIsOneMinimal
<1> QED BY <1>3, <1>4, <1>5

\* So does every step.
LEMMA NextInv == ShrinkerInv /\ [Next]_vars => ShrinkerInv'
<1> SUFFICES ASSUME ShrinkerInv, [Next]_vars PROVE ShrinkerInv'
  OBVIOUS
<1>1. CASE Start
  BY <1>1, StartKeeps
<1>2. CASE StartRound
  BY <1>2, StartRoundKeeps
<1>3. CASE TryChunk
  BY <1>3, TryChunkKeeps
<1>4. CASE EndRound
  BY <1>4, EndRoundKeeps
<1>5. CASE EndRounds
  BY <1>5, EndRoundsKeeps
<1>6. CASE Skip \/ ReduceFunction \/ FailToReduce \/ Finish
  BY <1>6, FunctionsKeep
<1>7. CASE UNCHANGED vars
  BY <1>7 DEF vars, ShrinkerInv, TypeOK, BestIsReproducible, InUse, RoundInv, BetweenRoundsInv,
              BestIsOneMinimal, Refused, ReplayFails
<1> QED BY <1>1, <1>2, <1>3, <1>4, <1>5, <1>6, <1>7 DEF Next

\* The inductive invariant, for every list of transformations, whatever they
\* do to one another and whatever the interestingness function says.
THEOREM ShrinkerInvariant == Spec => []ShrinkerInv
<1>1. Init => ShrinkerInv
  BY InitInv
<1>2. ShrinkerInv /\ [Next]_vars => ShrinkerInv'
  BY NextInv
<1> QED BY <1>1, <1>2, PTL DEF Spec

\* The sizes and indices of the chunks stay in the range of the input.
THEOREM ShrinkerTypeCorrect == Spec => []TypeOK
<1>1. ShrinkerInv => TypeOK
  BY DEF ShrinkerInv
<1> QED BY <1>1, ShrinkerInvariant, PTL

\* The assertions of Run and of RemoveChunk never fail, although a chunk that
\* is kept out may take later transformations with it.
THEOREM EveryChunkExists == Spec => []ChunksExist
<1>1. ShrinkerInv => ChunksExist
  <2> SUFFICES ASSUME ShrinkerInv PROVE ChunksExist
    OBVIOUS
  <2>0. TypeOK
    BY DEF ShrinkerInv
  <2>1. ASSUME pc = "rounds", MoreRounds
        PROVE  chunkSize <= Len(best) /\ NumChunks >= 1 /\ NumChunks * chunkSize >= Len(best)
    <3>1. best # << >> /\ chunkSize \in Nat \ {0} /\ Len(best) \in Nat /\ Len(best) > 0
      BY <2>0, <2>1, LenBest DEF MoreRounds
    <3>2. NumChunks >= 1 /\ NumChunks * chunkSize >= Len(best)
      BY <3>1, ChunksCover DEF NumChunks
    <3> QED BY <2>1, <3>1, <3>2 DEF ShrinkerInv, BetweenRoundsInv
  <2>2. ASSUME pc = "chunks", MoreChunks
        PROVE  Lower(chunkIndex, chunkSize) < Upper(best, chunkIndex, chunkSize)
    <3>1. /\ chunkIndex \in Nat /\ chunkSize \in Nat \ {0} /\ best \in Seq(Transformations)
          /\ chunkIndex * chunkSize < Len(best)
      BY <2>0, <2>2, LenBest DEF MoreChunks, TypeOK, ShrinkerInv, RoundInv
    <3> QED BY <3>1, ChunkRemoved
  <2> QED BY <2>1, <2>2 DEF ChunksExist
<1> QED BY <1>1, ShrinkerInvariant, PTL

\* What the shrinker returns is what a replay of it gives, and interesting.
THEOREM ResultIsReproducible == Spec => []BestIsReproducible
<1>1. ShrinkerInv => BestIsReproducible
  BY DEF ShrinkerInv
<1> QED BY <1>1, ShrinkerInvariant, PTL

\* When the rounds end before the step limit, every single transformation
\* that is left is needed.
THEOREM ResultIsOneMinimal == Spec => []BestIsOneMinimal
<1>1. ShrinkerInv => BestIsOneMinimal
  BY DEF ShrinkerInv
<1> QED BY <1>1, ShrinkerInvariant, PTL
=============================================================================
