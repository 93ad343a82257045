-------------------------- MODULE DivergenceProofs --------------------------
(***************************************************************************)
(* The dominators that CFA::CalculateDominators finds are those of paths,  *)
(* for every function and each of its clients.  The invariant is that the  *)
(* traversals are depth-first searches, and that an estimate lies between  *)
(* the parent in the search and what is on every path to its block, so it  *)
(* only climbs; a pass that changes nothing leaves it exact.  The numbers  *)
(* of the tree nest as the tree does, which answers the queries.           *)
(*                                                                         *)
(* The control dependences read off that tree are those of paths too: the  *)
(* invariant is that a block's are right once it is done, children first.  *)
(*                                                                         *)
(* The levels are those that the flows give.  When the worklist is empty,  *)
(* nothing uniform has anything in its flow that is not; the invariant is  *)
(* that whatever may yet have to rise waits, or the terminator does that   *)
(* will tell it.  And nothing ever rises but downstream of what raises it; *)
(* the invariant is that levels never fall, not even when recomputed.      *)
(***************************************************************************)
EXTENDS Divergence, SubsequencesProofs, FiniteSetTheorems

\* What ProgramOK says of an instruction.
Instruction == [id : Int, op : STRING, args : Seq(Int)]

-----------------------------------------------------------------------------
\* Sequences.

\* What is in a sequence over S is in S.
LEMMA SeqFacts ==
  ASSUME NEW S, NEW s \in Seq(S)
  PROVE  /\ Len(s) \in Nat /\ DOMAIN s = 1..Len(s)
         /\ \A k \in DOMAIN s : s[k] \in S
         /\ Elements(s) \subseteq S
         /\ s = << >> => Elements(s) = {}
BY DEF Elements

\* What is left of a sequence that loses its last element.
LEMMA LastAndFront ==
  ASSUME NEW S, NEW s \in Seq(S), s # << >>
  PROVE  /\ Len(s) \in Nat \ {0} /\ DOMAIN s = 1..Len(s)
         /\ s[Len(s)] \in S /\ Last(s) = s[Len(s)]
         /\ Front(s) \in Seq(S) /\ Len(Front(s)) = Len(s) - 1
         /\ \A k \in 1..Len(s) - 1 : Front(s)[k] = s[k]
<1>1. /\ Len(s) \in Nat \ {0} /\ DOMAIN s = 1..Len(s) /\ Last(s) = s[Len(s)]
      /\ \A k \in 1..Len(s) : s[k] \in S
  BY DEF Last
<1>2. Front(s) = [k \in 1..Len(s) - 1 |-> s[k]]
  BY <1>1 DEF Front
<1>3. Len(s) - 1 \in Nat /\ \A k \in 1..Len(s) - 1 : s[k] \in S
  BY <1>1
<1>4. Front(s) \in Seq(S) /\ Len(Front(s)) = Len(s) - 1
  BY <1>2, <1>3
<1> QED BY <1>1, <1>2, <1>4

\* A sequence is one over its elements, and over any set of theirs.
LEMMA OverItsElements ==
  ASSUME NEW S, NEW s \in Seq(S), NEW T, Elements(s) \subseteq T
  PROVE  s \in Seq(T)
<1>1. Len(s) \in Nat /\ s = [k \in 1..Len(s) |-> s[k]]
  OBVIOUS
<1>2. \A k \in 1..Len(s) : s[k] \in T
  BY DEF Elements
<1> QED BY <1>1, <1>2

\* The empty sequence is one over every set.
LEMMA EmptyIn ==
  ASSUME NEW S
  PROVE  << >> \in Seq(S) /\ Elements(<< >>) = {}
BY DEF Elements

\* The rest of a sequence has all of its elements but the first.
LEMMA HeadAndTail ==
  ASSUME NEW S, NEW s \in Seq(S), s # << >>
  PROVE  /\ Head(s) \in S /\ Tail(s) \in Seq(S)
         /\ Elements(s) \subseteq {Head(s)} \cup Elements(Tail(s))
<1>1. /\ Len(s) \in Nat \ {0} /\ DOMAIN s = 1..Len(s) /\ Head(s) = s[1] /\ s[1] \in S
      /\ Tail(s) \in Seq(S) /\ Len(Tail(s)) = Len(s) - 1
      /\ \A k \in 1..Len(s) - 1 : Tail(s)[k] = s[k + 1]
  OBVIOUS
<1>2. ASSUME NEW k \in 1..Len(s), k # 1 PROVE s[k] \in Elements(Tail(s))
  <2>1. k - 1 \in 1..Len(s) - 1 /\ k - 1 + 1 = k
    BY <1>1, <1>2
  <2>2. Tail(s)[k - 1] = s[k] /\ DOMAIN Tail(s) = 1..Len(s) - 1
    BY <1>1, <2>1
  <2> QED BY <2>1, <2>2 DEF Elements
<1> QED BY <1>1, <1>2 DEF Elements

\* AtPositions picks members of the sequence only.
LEMMA PickedElements ==
  ASSUME NEW X, NEW s \in Seq(X), NEW K
  PROVE  /\ AtPositions(s, K) \in Seq({s[k] : k \in DOMAIN s \cap K})
         /\ AtPositions(s, K) \in Seq(X)
<1>1. \A k \in DOMAIN s : k \in K => s[k] \in {s[j] : j \in DOMAIN s \cap K}
  OBVIOUS
<1>2. \A k \in DOMAIN s : k \in K => s[k] \in X
  OBVIOUS
<1> QED BY <1>1, <1>2, AtPositionsType

\* A sequence with one more element.
LEMMA AppendFacts ==
  ASSUME NEW S, NEW s \in Seq(S), NEW x \in S
  PROVE  /\ Append(s, x) \in Seq(S) /\ Append(s, x) # << >>
         /\ x \in Elements(Append(s, x))
         /\ s # << >> => Append(s, x)[1] = s[1]
<1>1. /\ Append(s, x) \in Seq(S) /\ Len(Append(s, x)) = Len(s) + 1 /\ Len(s) \in Nat
      /\ Append(s, x)[Len(s) + 1] = x
      /\ \A k \in 1..Len(s) : Append(s, x)[k] = s[k]
  OBVIOUS
<1>2. Len(s) + 1 \in DOMAIN Append(s, x)
  BY <1>1
<1>3. s # << >> => 1 \in 1..Len(s)
  OBVIOUS
<1> QED BY <1>1, <1>2, <1>3 DEF Elements

\* A sequence the other way round has the same elements.
LEMMA ReversedElements ==
  ASSUME NEW S, NEW s \in Seq(S)
  PROVE  Reverse(s) \in Seq(S) /\ Elements(Reverse(s)) = Elements(s)
<1>1. /\ Len(s) \in Nat /\ DOMAIN s = 1..Len(s)
      /\ Reverse(s) = [k \in 1..Len(s) |-> s[(Len(s) - k) + 1]]
  BY DEF Reverse
<1>2. \A k \in 1..Len(s) : (Len(s) - k) + 1 \in 1..Len(s) /\ (Len(s) - ((Len(s) - k) + 1)) + 1 = k
  BY <1>1
<1>3. Reverse(s) \in Seq(S)
  BY <1>1, <1>2
<1>4. DOMAIN Reverse(s) = 1..Len(s) /\ \A k \in 1..Len(s) : Reverse(s)[k] = s[(Len(s) - k) + 1]
  BY <1>1
<1>5. ASSUME NEW k \in 1..Len(s) PROVE s[k] \in Elements(Reverse(s))
  <2>1. Reverse(s)[(Len(s) - k) + 1] = s[k]
    BY <1>2, <1>4
  <2> QED BY <1>2, <1>4, <2>1 DEF Elements
<1>6. ASSUME NEW k \in 1..Len(s) PROVE Reverse(s)[k] \in Elements(s)
  BY <1>1, <1>2, <1>4 DEF Elements
<1> QED BY <1>1, <1>3, <1>4, <1>5, <1>6 DEF Elements

\* Enqueue adds every item, and nothing else.
LEMMA EnqueueAdds ==
  ASSUME NEW S, NEW q \in Seq(S), NEW items \in Seq(S)
  PROVE  /\ Enqueue(q, items) \in Seq(S)
         /\ Elements(q) \subseteq Elements(Enqueue(q, items))
         /\ Elements(items) \subseteq Elements(Enqueue(q, items))
<1> DEFINE K == {k \in DOMAIN items : /\ items[k] \notin Elements(q)
                                      /\ \A j \in 1 .. k - 1 : items[j] # items[k]}
           new == AtPositions(items, K)
<1>1. Enqueue(q, items) = q \o new
  BY DEF Enqueue
<1>2. new \in Seq(S)
  BY PickedElements
<1>3. \A k \in K : items[k] \in Elements(new)
  BY AtPositionsKeeps
<1> HIDE DEF new
<1>4. q \o new \in Seq(S) /\ Elements(q \o new) = Elements(q) \cup Elements(new)
  BY <1>2, JoinedElements
<1>5. Len(items) \in Nat /\ DOMAIN items = 1..Len(items)
  OBVIOUS
<1>6. ASSUME NEW k \in DOMAIN items PROVE items[k] \in Elements(q) \cup Elements(new)
  <2> DEFINE T == {j \in 1..k : items[j] = items[k]}
  <2>1. T \in SUBSET Nat /\ k \in T
    BY <1>5
  <2>2. PICK j \in T : \A i \in T : j <= i
    BY <2>1, LeastNatural
  <2>3. j \in DOMAIN items /\ items[j] = items[k]
    BY <1>5, <2>2
  <2>4. ASSUME NEW i \in 1..j - 1 PROVE items[i] # items[j]
    <3>1. i \in 1..k /\ ~(j <= i)
      BY <2>2, <1>5
    <3>2. i \notin T
      BY <2>2, <3>1
    <3> QED BY <3>1, <3>2, <2>3
  <2>5. items[j] \in Elements(q) \/ j \in K
    BY <2>3, <2>4
  <2>6. j \in K => items[j] \in Elements(new)
    BY <1>3
  <2> HIDE DEF K
  <2> QED BY <2>3, <2>5, <2>6
<1>7. Elements(items) \subseteq Elements(q \o new)
  BY <1>4, <1>6 DEF Elements
<1> QED BY <1>1, <1>4, <1>7
-----------------------------------------------------------------------------
\* Closure.

\* f is the recursion of Closure, for the first len rounds.
ClosesOver(f, edges, from, len) ==
  f = [n \in 0..len |-> IF n = 0 THEN from
                        ELSE f[n-1] \cup UNION {edges[m] : m \in f[n-1] \cap DOMAIN edges}]

\* The recursion of Closure has a value for any number of rounds.
LEMMA ClosingExists ==
  ASSUME NEW edges, NEW from, NEW len \in Nat
  PROVE  \E f : ClosesOver(f, edges, from, len)
<1> DEFINE Grow(R) == R \cup UNION {edges[m] : m \in R \cap DOMAIN edges}
<1> DEFINE T == {n \in Nat : ~ \E f : ClosesOver(f, edges, from, n)}
<1> SUFFICES ASSUME T # {} PROVE FALSE
  OBVIOUS
<1>1. PICK m \in T : \A n \in T : m <= n
  BY LeastNatural
<1>2. m # 0
  <2> DEFINE g == [k \in 0..0 |-> IF k = 0 THEN from ELSE Grow(from)]
  <2>1. ClosesOver(g, edges, from, 0)
    BY DEF ClosesOver
  <2> QED BY <2>1
<1>3. m - 1 \in Nat /\ m - 1 \notin T
  BY <1>1, <1>2
<1>4. PICK f : ClosesOver(f, edges, from, m - 1)
  BY <1>3
<1> DEFINE g == [k \in 0..m |-> IF k = m THEN Grow(f[m-1]) ELSE f[k]]
<1>5. \A k \in 0..m-1 : g[k] = f[k]
  BY <1>2
<1>6. \A k \in 0..m : g[k] = IF k = 0 THEN from ELSE Grow(g[k-1])
  <2> SUFFICES ASSUME NEW k \in 0..m PROVE g[k] = IF k = 0 THEN from ELSE Grow(g[k-1])
    OBVIOUS
  <2>1. CASE k = m
    BY <1>2, <1>5, <2>1
  <2>2. CASE k # m
    <3>1. k \in 0..m-1 /\ (k # 0 => k - 1 \in 0..m-1)
      BY <2>2
    <3>2. f[k] = IF k = 0 THEN from ELSE Grow(f[k-1])
      BY <1>4, <3>1 DEF ClosesOver
    <3> QED BY <1>5, <3>1, <3>2
  <2> QED BY <2>1, <2>2
<1>7. ClosesOver(g, edges, from, m)
  BY <1>6 DEF ClosesOver
<1> QED BY <1>1, <1>7

\* The rounds of a closure.
LEMMA ClosureRounds ==
  ASSUME NEW edges, NEW from, IsFiniteSet(DOMAIN edges)
  PROVE  \E f : /\ f[0] = from
                /\ \A n \in 1..Cardinality(DOMAIN edges) :
                     f[n] = f[n-1] \cup UNION {edges[m] : m \in f[n-1] \cap DOMAIN edges}
                /\ Closure(edges, from) = f[Cardinality(DOMAIN edges)]
<1> DEFINE len == Cardinality(DOMAIN edges)
           after[n \in 0..len] ==
             IF n = 0 THEN from
             ELSE LET R == after[n-1] IN R \cup UNION {edges[m] : m \in R \cap DOMAIN edges}
<1>1. Closure(edges, from) = after[len]
  BY DEF Closure
<1>2. len \in Nat
  BY FS_CardinalityType
<1>3. PICK f : ClosesOver(f, edges, from, len)
  BY <1>2, ClosingExists
<1>4. f = [n \in 0..len |-> IF n = 0 THEN from
              ELSE LET R == f[n-1] IN R \cup UNION {edges[m] : m \in R \cap DOMAIN edges}]
  BY <1>3 DEF ClosesOver
<1>5. after = [n \in 0..len |-> IF n = 0 THEN from
              ELSE LET R == after[n-1] IN R \cup UNION {edges[m] : m \in R \cap DOMAIN edges}]
  <2> HIDE DEF len
  <2> QED BY <1>4 DEF after
<1> HIDE DEF after
<1>6. /\ after[0] = from
      /\ \A n \in 1..len : after[n] = after[n-1] \cup UNION {edges[m] : m \in after[n-1] \cap DOMAIN edges}
  <2> HIDE DEF len
  <2> QED BY <1>2, <1>5
<1> QED BY <1>1, <1>6

\* A closure is contained in every closed set that holds what it starts from.
LEMMA ClosureIsLeast ==
  ASSUME NEW edges, NEW from, IsFiniteSet(DOMAIN edges), NEW S, from \subseteq S,
         \A m \in S \cap DOMAIN edges : edges[m] \subseteq S
  PROVE  Closure(edges, from) \subseteq S
<1> DEFINE len == Cardinality(DOMAIN edges)
<1>1. PICK f : /\ f[0] = from
               /\ \A n \in 1..len :
                    f[n] = f[n-1] \cup UNION {edges[m] : m \in f[n-1] \cap DOMAIN edges}
               /\ Closure(edges, from) = f[len]
  BY ClosureRounds
<1>2. len \in Nat
  BY FS_CardinalityType
<1> HIDE DEF len
<1> DEFINE T == {n \in Nat : n <= len /\ ~(f[n] \subseteq S)}
<1>3. SUFFICES ASSUME T # {} PROVE FALSE
  BY <1>1, <1>2
<1>4. PICK n \in T : \A k \in T : n <= k
  BY <1>3, LeastNatural
<1>5. n # 0
  BY <1>1, <1>4
<1>6. n - 1 \in Nat /\ n - 1 <= len /\ n \in 1..len /\ n - 1 \notin T
  BY <1>2, <1>4, <1>5
<1>7. f[n-1] \subseteq S
  BY <1>6
<1>8. f[n] \subseteq S
  BY <1>1, <1>6, <1>7
<1> QED BY <1>4, <1>8

\* A closure holds what it starts from and is closed.
LEMMA ClosureIsClosed ==
  ASSUME NEW edges, NEW from, IsFiniteSet(DOMAIN edges)
  PROVE  /\ from \subseteq Closure(edges, from)
         /\ \A m \in Closure(edges, from) \cap DOMAIN edges : edges[m] \subseteq Closure(edges, from)
<1> DEFINE len == Cardinality(DOMAIN edges)
<1>1. PICK f : /\ f[0] = from
               /\ \A n \in 1..len :
                    f[n] = f[n-1] \cup UNION {edges[m] : m \in f[n-1] \cap DOMAIN edges}
               /\ Closure(edges, from) = f[len]
  BY ClosureRounds
<1>2. len \in Nat
  BY FS_CardinalityType
<1> DEFINE Closed(R) == \A m \in R \cap DOMAIN edges : edges[m] \subseteq R
           Known(n) == f[n] \cap DOMAIN edges
<1>3. \A n \in Nat : IsFiniteSet(Known(n)) /\ Cardinality(Known(n)) \in Nat /\ Cardinality(Known(n)) <= len
  BY FS_Subset, FS_CardinalityType
<1> HIDE DEF len
\* As long as a round finds something, there is one more node to go on from.
<1> DEFINE T == {n \in Nat : n <= len /\ ~(from \subseteq f[n] /\ (Closed(f[n]) \/ Cardinality(Known(n)) > n))}
<1>4. T = {}
  <2> SUFFICES ASSUME T # {} PROVE FALSE
    OBVIOUS
  <2>1. PICK n \in T : \A k \in T : n <= k
    BY LeastNatural
  <2>2. CASE n = 0
    <3>1. from \subseteq f[0] /\ ~Closed(f[0]) /\ ~(Cardinality(Known(0)) > 0)
      BY <1>1, <2>1, <2>2
    <3>2. PICK m \in Known(0) : TRUE
      BY <3>1
    <3>3. Cardinality(Known(0)) # 0
      BY <1>3, <3>2, FS_EmptySet
    <3>4. Cardinality(Known(0)) \in Nat
      BY <1>3
    <3> QED BY <3>1, <3>3, <3>4
  <2>3. CASE n # 0
    <3>1. n - 1 \in Nat /\ n - 1 <= len /\ n \in 1..len /\ n - 1 \notin T
      BY <1>2, <2>1, <2>3
    <3>2. from \subseteq f[n-1] /\ (Closed(f[n-1]) \/ Cardinality(Known(n-1)) > n - 1)
      BY <3>1
    <3>3. f[n] = f[n-1] \cup UNION {edges[m] : m \in f[n-1] \cap DOMAIN edges}
      BY <1>1, <3>1
    <3>4. from \subseteq f[n] /\ f[n-1] \subseteq f[n]
      BY <3>2, <3>3
    <3>5. ~Closed(f[n]) /\ ~(Cardinality(Known(n)) > n)
      BY <2>1, <3>4
    <3>6. ~Closed(f[n-1])
      <4> SUFFICES ASSUME Closed(f[n-1]) PROVE FALSE
        OBVIOUS
      <4>1. f[n] = f[n-1]
        BY <3>3
      <4> QED BY <3>5, <4>1
    <3>7. PICK m \in f[n] \cap DOMAIN edges : ~(edges[m] \subseteq f[n])
      BY <3>5
    <3>8. m \notin f[n-1]
      BY <3>3, <3>7
    <3>9. Known(n-1) \cup {m} \subseteq Known(n) /\ m \notin Known(n-1)
      BY <3>4, <3>7, <3>8
    <3>10. Cardinality(Known(n-1) \cup {m}) = Cardinality(Known(n-1)) + 1
      BY <1>3, <3>1, <3>9, FS_AddElement
    <3>11. Cardinality(Known(n-1) \cup {m}) <= Cardinality(Known(n))
      BY <1>3, <2>1, <3>9, FS_Subset
    <3>12. Cardinality(Known(n-1)) \in Nat /\ Cardinality(Known(n)) \in Nat /\ n \in Nat
      BY <1>3, <2>1, <3>1
    <3> HIDE DEF Known, Closed
    <3> QED BY <3>2, <3>5, <3>6, <3>10, <3>11, <3>12
  <2> QED BY <2>2, <2>3
<1>5. from \subseteq f[len] /\ (Closed(f[len]) \/ Cardinality(Known(len)) > len)
  <2>1. len \in Nat /\ len <= len /\ len \notin T
    BY <1>2, <1>4
  <2> HIDE DEF Closed, Known
  <2> QED BY <2>1
<1>6. Cardinality(Known(len)) \in Nat /\ Cardinality(Known(len)) <= len
  BY <1>2, <1>3
<1>7. Closed(f[len])
  BY <1>2, <1>5, <1>6
<1> QED BY <1>1, <1>5, <1>7

-----------------------------------------------------------------------------
\* Reachability.

\* What is reached holds the start and the successors of all it holds, but for the cut.
LEMMA ReachedIsClosed ==
  ASSUME NEW next, NEW from, NEW cut, IsFiniteSet(DOMAIN next)
  PROVE  /\ from \ cut \subseteq Reached(next, from, cut)
         /\ \A m \in Reached(next, from, cut) \cap DOMAIN next :
              Elements(next[m]) \ cut \subseteq Reached(next, from, cut)
<1> DEFINE edges == [m \in DOMAIN next |-> Elements(next[m]) \ cut]
<1>1. DOMAIN edges = DOMAIN next /\ \A m \in DOMAIN next : edges[m] = Elements(next[m]) \ cut
  OBVIOUS
<1>2. Reached(next, from, cut) = Closure(edges, from \ cut)
  BY DEF Reached
<1> HIDE DEF edges
<1>3. /\ from \ cut \subseteq Closure(edges, from \ cut)
      /\ \A m \in Closure(edges, from \ cut) \cap DOMAIN edges :
           edges[m] \subseteq Closure(edges, from \ cut)
  BY <1>1, ClosureIsClosed
<1> QED BY <1>1, <1>2, <1>3

\* Whatever holds the start and is closed likewise holds all that is reached.
LEMMA ReachedIsLeast ==
  ASSUME NEW next, NEW from, NEW cut, IsFiniteSet(DOMAIN next), NEW S, from \ cut \subseteq S,
         \A m \in S \cap DOMAIN next : Elements(next[m]) \ cut \subseteq S
  PROVE  Reached(next, from, cut) \subseteq S
<1> DEFINE edges == [m \in DOMAIN next |-> Elements(next[m]) \ cut]
<1>1. DOMAIN edges = DOMAIN next /\ \A m \in DOMAIN next : edges[m] = Elements(next[m]) \ cut
  OBVIOUS
<1>2. Reached(next, from, cut) = Closure(edges, from \ cut)
  BY DEF Reached
<1> HIDE DEF edges
<1> QED BY <1>1, <1>2, ClosureIsLeast
-----------------------------------------------------------------------------
\* The nodes on the way up from x, where up gives the node above.
Universe(up, x) == {x} \cup {up[s] : s \in DOMAIN up}
Up(up, x) == {a \in Universe(up, x) :
                \A S \in SUBSET Universe(up, x) :
                  x \in S /\ (\A s \in S \cap DOMAIN up : up[s] \in S) => a \in S}

\* Everything is on its own way up.
LEMMA UpSelf ==
  ASSUME NEW up, NEW x
  PROVE  x \in Up(up, x)
BY DEF Up, Universe

\* So is the node above, and so on from there.
LEMMA UpStep ==
  ASSUME NEW up, NEW x, NEW s \in Up(up, x), s \in DOMAIN up
  PROVE  up[s] \in Up(up, x)
BY DEF Up, Universe

\* A set with x and the node above each of its own holds the way up from x.
LEMMA UpLeast ==
  ASSUME NEW up, NEW x, NEW S, x \in S, \A s \in S \cap DOMAIN up : up[s] \in S
  PROVE  Up(up, x) \subseteq S
<1> DEFINE T == S \cap Universe(up, x)
<1>1. T \in SUBSET Universe(up, x) /\ x \in T /\ \A s \in T \cap DOMAIN up : up[s] \in T
  BY DEF Universe
<1> HIDE DEF T
<1>2. Up(up, x) \subseteq T
  BY <1>1 DEF Up
<1> QED BY <1>2 DEF T

\* The way up from a node on the way is part of it.
LEMMA UpTransitive ==
  ASSUME NEW up, NEW x, NEW a \in Up(up, x)
  PROVE  Up(up, a) \subseteq Up(up, x)
<1>1. \A s \in Up(up, x) \cap DOMAIN up : up[s] \in Up(up, x)
  BY UpStep
<1> QED BY <1>1, UpLeast

\* The way up is the node and the way up from the one above it.
LEMMA UpUnfold ==
  ASSUME NEW up, NEW x \in DOMAIN up
  PROVE  Up(up, x) = {x} \cup Up(up, up[x])
<1>1. x \in Up(up, x) /\ up[x] \in Up(up, x)
  BY UpSelf, UpStep
<1>2. Up(up, up[x]) \subseteq Up(up, x)
  BY <1>1, UpTransitive
<1> DEFINE S == {x} \cup Up(up, up[x])
<1>3. x \in S /\ \A s \in S \cap DOMAIN up : up[s] \in S
  BY UpSelf, UpStep
<1> HIDE DEF S
<1>4. Up(up, x) \subseteq S
  BY <1>3, UpLeast
<1> QED BY <1>1, <1>2, <1>4 DEF S

\* The way up ends at a node that is above itself.
LEMMA UpEnds ==
  ASSUME NEW up, NEW x, x \notin DOMAIN up
  PROVE  Up(up, x) = {x}
<1>1. x \in {x} /\ \A s \in {x} \cap DOMAIN up : up[s] \in {x}
  OBVIOUS
<1>2. Up(up, x) \subseteq {x}
  BY <1>1, UpLeast
<1> QED BY <1>2, UpSelf

\* Of two nodes on one way up, one is above the other.
LEMMA UpLinear ==
  ASSUME NEW up, NEW x, NEW a \in Up(up, x), NEW b \in Up(up, x)
  PROVE  a \in Up(up, b) \/ b \in Up(up, a)
<1> DEFINE S == {s \in Up(up, x) : b \in Up(up, s) \/ s \in Up(up, b)}
<1>1. x \in S
  BY UpSelf
<1>2. ASSUME NEW s \in S, s \in DOMAIN up PROVE up[s] \in S
  <2>1. up[s] \in Up(up, x)
    BY <1>2, UpStep
  <2>2. CASE b \in Up(up, s)
    <3>1. b = s \/ b \in Up(up, up[s])
      BY <1>2, <2>2, UpUnfold
    <3>2. b = s => up[s] \in Up(up, b)
      BY <1>2, UpSelf, UpStep
    <3> QED BY <2>1, <3>1, <3>2
  <2>3. CASE s \in Up(up, b)
    BY <1>2, <2>1, <2>3, UpStep
  <2> QED BY <2>2, <2>3
<1> HIDE DEF S
<1>3. Up(up, x) \subseteq S
  BY <1>1, <1>2, UpLeast
<1> QED BY <1>3 DEF S

\* The way up depends only on what is on it.
LEMMA UpSame ==
  ASSUME NEW up, NEW down, NEW x,
         \A s \in Up(up, x) : /\ s \in DOMAIN up <=> s \in DOMAIN down
                              /\ s \in DOMAIN up => up[s] = down[s]
  PROVE  Up(down, x) = Up(up, x)
<1>1. \A s \in Up(up, x) \cap DOMAIN down : down[s] \in Up(up, x)
  <2> SUFFICES ASSUME NEW s \in Up(up, x), s \in DOMAIN down PROVE down[s] \in Up(up, x)
    OBVIOUS
  <2>1. s \in DOMAIN up /\ up[s] = down[s]
    OBVIOUS
  <2> QED BY <2>1, UpStep
<1>2. x \in Up(up, x)
  BY UpSelf
<1>3. Up(down, x) \subseteq Up(up, x)
  BY <1>1, <1>2, UpLeast
<1> DEFINE S == Up(up, x) \cap Up(down, x)
<1>4. x \in S
  BY <1>2, UpSelf
<1>5. ASSUME NEW s \in S, s \in DOMAIN up PROVE up[s] \in S
  <2>1. s \in DOMAIN down /\ up[s] = down[s]
    BY <1>5
  <2>2. up[s] \in Up(up, x)
    BY <1>5, UpStep
  <2>3. down[s] \in Up(down, x)
    BY <1>5, <2>1, UpStep
  <2> QED BY <2>1, <2>2, <2>3
<1> HIDE DEF S
<1>6. Up(up, x) \subseteq S
  BY <1>4, <1>5, UpLeast
<1> QED BY <1>3, <1>6 DEF S
-----------------------------------------------------------------------------
\* Events.

\* The two events of a node, and the order of events, each of which comes once.
Pre(v) == <<"pre", v>>
Post(v) == <<"post", v>>
Before(events, e, f) ==
  \E k, l \in DOMAIN events : k < l /\ events[k] = e /\ events[l] = f
Once(events) == \A k, l \in DOMAIN events : events[k] = events[l] => k = l

\* The events of all nodes differ.
LEMMA EventsAreApart ==
  \A v, w : /\ Pre(v) # Post(w)
            /\ Pre(v) = Pre(w) => v = w
            /\ Post(v) = Post(w) => v = w
BY DEF Pre, Post

\* Events are in a linear order.
LEMMA BeforeIsAnOrder ==
  ASSUME NEW E, NEW events \in Seq(E), Once(events)
  PROVE  /\ \A e, f : Before(events, e, f) => /\ e \in Elements(events) /\ f \in Elements(events)
                                              /\ ~Before(events, f, e) /\ e # f
         /\ \A e, f \in Elements(events) : e = f \/ Before(events, e, f) \/ Before(events, f, e)
         /\ \A e, f, g : Before(events, e, f) /\ Before(events, f, g) => Before(events, e, g)
<1>1. \A k \in DOMAIN events : k \in Nat
  OBVIOUS
<1>2. ASSUME NEW e, NEW f, Before(events, e, f)
      PROVE  /\ e \in Elements(events) /\ f \in Elements(events)
             /\ ~Before(events, f, e) /\ e # f
  <2>1. PICK k, l \in DOMAIN events : k < l /\ events[k] = e /\ events[l] = f
    BY <1>2 DEF Before
  <2>2. e # f
    BY <1>1, <2>1 DEF Once
  <2>3. ASSUME Before(events, f, e) PROVE FALSE
    <3>1. PICK i, j \in DOMAIN events : i < j /\ events[i] = f /\ events[j] = e
      BY <2>3 DEF Before
    <3>2. i = l /\ j = k
      BY <2>1, <3>1 DEF Once
    <3> QED BY <1>1, <2>1, <3>1, <3>2
  <2> QED BY <2>1, <2>2, <2>3 DEF Elements
<1>3. ASSUME NEW e \in Elements(events), NEW f \in Elements(events), e # f
      PROVE  Before(events, e, f) \/ Before(events, f, e)
  <2>1. PICK k, l \in DOMAIN events : events[k] = e /\ events[l] = f
    BY DEF Elements
  <2>2. k < l \/ l < k
    BY <1>1, <1>3, <2>1
  <2> QED BY <2>1, <2>2 DEF Before
<1>4. ASSUME NEW e, NEW f, NEW g, Before(events, e, f), Before(events, f, g)
      PROVE  Before(events, e, g)
  <2>1. PICK k, l \in DOMAIN events : k < l /\ events[k] = e /\ events[l] = f
    BY <1>4 DEF Before
  <2>2. PICK i, j \in DOMAIN events : i < j /\ events[i] = f /\ events[j] = g
    BY <1>4 DEF Before
  <2>3. i = l
    BY <2>1, <2>2 DEF Once
  <2>4. k < j
    BY <1>1, <2>1, <2>2, <2>3
  <2> QED BY <2>1, <2>2, <2>4 DEF Before
<1> QED BY <1>2, <1>3, <1>4

\* One more event, which comes after all the others.
LEMMA OneMoreEvent ==
  ASSUME NEW E, NEW events \in Seq(E), NEW x \in E, Once(events), x \notin Elements(events)
  PROVE  /\ Elements(Append(events, x)) = Elements(events) \cup {x}
         /\ Once(Append(events, x))
         /\ \A e, f : Before(Append(events, x), e, f) <=>
                        Before(events, e, f) \/ (f = x /\ e \in Elements(events))
<1> DEFINE more == Append(events, x)
           len == Len(events)
<1>1. /\ len \in Nat /\ DOMAIN events = 1..len /\ DOMAIN more = 1..len+1
      /\ more[len+1] = x /\ \A k \in 1..len : more[k] = events[k]
  OBVIOUS
<1>2. 1..len+1 = 1..len \cup {len+1} /\ len+1 \notin 1..len /\ \A k \in 1..len : k < len + 1
  BY <1>1
<1> HIDE DEF more, len
<1>3. Elements(more) = Elements(events) \cup {x}
  BY <1>1, <1>2 DEF Elements
<1>4. Once(more)
  BY <1>1, <1>2 DEF Once, Elements
<1>5. ASSUME NEW e, NEW f, Before(more, e, f)
      PROVE  Before(events, e, f) \/ (f = x /\ e \in Elements(events))
  <2>1. PICK k, l \in 1..len+1 : k < l /\ more[k] = e /\ more[l] = f
    BY <1>1, <1>5 DEF Before
  <2>2. k \in 1..len /\ events[k] = e
    BY <1>1, <1>2, <2>1
  <2>3. CASE l = len + 1
    BY <1>1, <2>1, <2>2, <2>3 DEF Elements
  <2>4. CASE l \in 1..len
    BY <1>1, <2>1, <2>2, <2>4 DEF Before
  <2> QED BY <1>2, <2>3, <2>4
<1>6. ASSUME NEW e, NEW f, Before(events, e, f) PROVE Before(more, e, f)
  <2>1. PICK k, l \in 1..len : k < l /\ events[k] = e /\ events[l] = f
    BY <1>1, <1>6 DEF Before
  <2> QED BY <1>1, <1>2, <2>1 DEF Before
<1>7. ASSUME NEW e \in Elements(events) PROVE Before(more, e, x)
  <2>1. PICK k \in 1..len : events[k] = e
    BY <1>1 DEF Elements
  <2>2. k < len + 1 /\ k \in 1..len+1 /\ len + 1 \in 1..len+1
    BY <1>2
  <2> QED BY <1>1, <2>1, <2>2 DEF Before
<1> QED BY <1>3, <1>4, <1>5, <1>6, <1>7 DEF more

-----------------------------------------------------------------------------
\* The traversal.

\* The states of a traversal.
States(V) == [stack : Seq([node : V, child : Nat \ {0}]), seen : SUBSET V,
              events : Seq({"pre", "post"} \X V)]

\* The three things a turn of the traversal can do.
Leaves(next, s, t) ==
  LET len == Len(s.stack)
      top == s.stack[len]
  IN  /\ top.child > Len(next[top.node])
      /\ Len(t.stack) = len - 1 /\ \A k \in 1..len - 1 : t.stack[k] = s.stack[k]
      /\ t.seen = s.seen /\ t.events = Append(s.events, Post(top.node))
\* The turns of a traversal.
MovesOn(s, t) ==
  LET len == Len(s.stack)
      top == s.stack[len]
  IN  /\ \A k \in 1..len - 1 : t.stack[k] = s.stack[k]
      /\ t.stack[len].node = top.node /\ t.stack[len].child = top.child + 1
Skips(next, s, t) ==
  LET len == Len(s.stack)
      top == s.stack[len]
  IN  /\ top.child \in DOMAIN next[top.node] /\ next[top.node][top.child] \in s.seen
      /\ MovesOn(s, t) /\ Len(t.stack) = len
      /\ t.seen = s.seen /\ t.events = s.events
Enters(next, s, t) ==
  LET len == Len(s.stack)
      top == s.stack[len]
      child == next[top.node][top.child]
  IN  /\ top.child \in DOMAIN next[top.node] /\ child \notin s.seen
      /\ MovesOn(s, t) /\ Len(t.stack) = len + 1
      /\ t.stack[len+1].node = child /\ t.stack[len+1].child = 1
      /\ t.seen = s.seen \cup {child} /\ t.events = Append(s.events, Pre(child))

\* A turn of the traversal moves on, skips a successor or enters one.
LEMMA TurnCases ==
  ASSUME NEW V, NEW s \in States(V), s.stack # << >>,
         NEW next, \A n \in V : next[n] \in Seq(V)
  PROVE  LET t == TraversalStep(next, s)
         IN  /\ t \in States(V)
             /\ Leaves(next, s, t) \/ Skips(next, s, t) \/ Enters(next, s, t)
<1> DEFINE Frame == [node : V, child : Nat \ {0}]
           len == Len(s.stack)
           top == s.stack[len]
           child == next[top.node][top.child]
           moved == [s.stack EXCEPT ![len].child = @ + 1]
           t == TraversalStep(next, s)
<1>1. /\ s.stack \in Seq(Frame) /\ s.seen \in SUBSET V /\ s.events \in Seq({"pre", "post"} \X V)
      /\ s = [stack |-> s.stack, seen |-> s.seen, events |-> s.events]
  BY DEF States
<1> HIDE DEF Frame
<1>2. /\ len \in Nat \ {0} /\ DOMAIN s.stack = 1..len /\ top \in Frame /\ Last(s.stack) = top
      /\ Front(s.stack) \in Seq(Frame) /\ Len(Front(s.stack)) = len - 1
      /\ \A k \in 1..len - 1 : Front(s.stack)[k] = s.stack[k]
  BY <1>1, LastAndFront
<1>3. top.node \in V /\ top.child \in Nat \ {0}
  BY <1>2 DEF Frame
<1>4. next[top.node] \in Seq(V)
  BY <1>3
<1>5. t = IF top.child > Len(next[top.node])
          THEN [s EXCEPT !.stack = Front(@), !.events = Append(@, <<"post", top.node>>)]
          ELSE IF child \in s.seen THEN [s EXCEPT !.stack = moved]
          ELSE [stack |-> Append(moved, [node |-> child, child |-> 1]),
                seen |-> s.seen \cup {child},
                events |-> Append(s.events, <<"pre", child>>)]
  BY <1>2 DEF TraversalStep
<1> DEFINE later == [top EXCEPT !.child = @ + 1]
<1>6. moved = [k \in 1..len |-> IF k = len THEN later ELSE s.stack[k]]
  BY <1>2
<1>7. later \in Frame /\ later.node = top.node /\ later.child = top.child + 1
  BY <1>2 DEF Frame
<1> HIDE DEF later, moved, t
<1>8. CASE top.child > Len(next[top.node])
  <2>1. t = [stack |-> Front(s.stack), seen |-> s.seen, events |-> Append(s.events, Post(top.node))]
    BY <1>1, <1>5, <1>8 DEF Post
  <2>2. Post(top.node) \in {"pre", "post"} \X V
    BY <1>3 DEF Post
  <2>3. Append(s.events, Post(top.node)) \in Seq({"pre", "post"} \X V)
    BY <1>1, <2>2
  <2>4. t \in States(V)
    BY <1>1, <1>2, <2>1, <2>3 DEF States, Frame
  <2>5. Leaves(next, s, t)
    BY <1>2, <1>8, <2>1 DEF Leaves
  <2> QED BY <2>4, <2>5 DEF t
<1>9. CASE ~(top.child > Len(next[top.node]))
  <2>1. top.child \in DOMAIN next[top.node] /\ child \in V
    <3>1. top.child \in 1..Len(next[top.node])
      BY <1>3, <1>4, <1>9
    <3> QED BY <1>4, <3>1
  <2> HIDE DEF child
  <2>2. \A k \in 1..len : s.stack[k] \in Frame
    BY <1>1
  <2> HIDE DEF top, len
  <2>3. /\ moved \in Seq(Frame) /\ Len(moved) = len
        /\ moved[len].node = top.node /\ moved[len].child = top.child + 1
        /\ \A k \in 1..len - 1 : moved[k] = s.stack[k]
    <3>1. moved \in [1..len -> Frame]
      BY <1>6, <1>7, <2>2
    <3>2. moved \in Seq(Frame) /\ Len(moved) = len
      BY <1>2, <1>6, <3>1
    <3>3. len \in 1..len /\ \A k \in 1..len - 1 : k \in 1..len /\ k # len
      BY <1>2
    <3> QED BY <1>6, <1>7, <3>2, <3>3
  <2>4. CASE child \in s.seen
    <3>1. t = [stack |-> moved, seen |-> s.seen, events |-> s.events]
      BY <1>1, <1>5, <1>9, <2>4
    <3>2. t \in States(V)
      BY <1>1, <2>3, <3>1 DEF States, Frame
    <3>3. Skips(next, s, t)
      BY <2>1, <2>3, <2>4, <3>1 DEF Skips, MovesOn, top, len, child
    <3> QED BY <3>2, <3>3 DEF t
  <2>5. CASE child \notin s.seen
    <3> DEFINE frame == [node |-> child, child |-> 1]
    <3>1. t = [stack |-> Append(moved, frame), seen |-> s.seen \cup {child},
               events |-> Append(s.events, Pre(child))]
      BY <1>5, <1>9, <2>5 DEF Pre
    <3>2. frame \in Frame /\ frame.node = child /\ frame.child = 1
          /\ Pre(child) \in {"pre", "post"} \X V
      BY <2>1 DEF Frame, Pre
    <3> HIDE DEF frame
    <3>3. /\ Append(moved, frame) \in Seq(Frame) /\ Len(Append(moved, frame)) = len + 1
          /\ Append(moved, frame)[len+1] = frame
          /\ \A k \in 1..len : Append(moved, frame)[k] = moved[k]
      BY <1>2, <2>3, <3>2
    <3>4. Append(s.events, Pre(child)) \in Seq({"pre", "post"} \X V)
      BY <1>1, <3>2
    <3>5. s.seen \cup {child} \in SUBSET V
      BY <1>1, <2>1
    <3>6. t \in States(V)
      BY <3>1, <3>3, <3>4, <3>5 DEF States, Frame
    <3>7. len \in 1..len /\ \A k \in 1..len - 1 : k \in 1..len
      BY <1>2
    <3>8. MovesOn(s, t)
      BY <2>3, <3>1, <3>3, <3>7 DEF MovesOn, top, len
    <3>9. Enters(next, s, t)
      BY <2>1, <2>5, <3>1, <3>2, <3>3, <3>8 DEF Enters, top, len, child
    <3> QED BY <3>6, <3>9 DEF t
  <2> QED BY <2>4, <2>5
<1> QED BY <1>8, <1>9

\* What is so after every turn, for up the node from which each was entered.
OnStack(s, v) == \E i \in 1..Len(s.stack) : s.stack[i].node = v

\* The stack is a way up the tree of the traversal; nobody on it has been left.
StackOK(root, s, up) ==
  /\ \A i \in 1..Len(s.stack) : s.stack[i].node \in s.seen
  /\ \A i, j \in 1..Len(s.stack) : s.stack[i].node = s.stack[j].node => i = j
  /\ Len(s.stack) > 0 => s.stack[1].node = root
  /\ \A i \in 2..Len(s.stack) : up[s.stack[i].node] = s.stack[i-1].node

\* A node is entered after the one above it, and left before.
EnteredOK(next, root, s, up) ==
  /\ root \in s.seen /\ up \in [s.seen \ {root} -> s.seen]
  /\ \A v \in s.seen \ {root} :
       /\ v \in Elements(next[up[v]])
       /\ Before(s.events, Pre(up[v]), Pre(v))
       /\ Post(up[v]) \in Elements(s.events) => Before(s.events, Post(v), Post(up[v]))

\* Every node seen has been entered, and nobody is left twice.
EventsOK(s) ==
  /\ Once(s.events)
  /\ \A v : Pre(v) \in Elements(s.events) <=> v \in s.seen
  /\ \A v : Post(v) \in Elements(s.events) <=> v \in s.seen /\ ~OnStack(s, v)
  /\ \A v \in s.seen : Post(v) \in Elements(s.events) => Before(s.events, Pre(v), Post(v))

\* Whoever a node leads to has been seen when it is left.
EdgesOK(next, s) ==
  /\ \A u \in s.seen : Post(u) \in Elements(s.events) => Elements(next[u]) \subseteq s.seen
  /\ \A i \in 1..Len(s.stack) : \A k \in DOMAIN next[s.stack[i].node] :
       k < s.stack[i].child => next[s.stack[i].node][k] \in s.seen

\* Who was entered between a node's two events is below that node.
NestingOK(s, up) ==
  \A a, b \in s.seen :
    Before(s.events, Pre(a), Pre(b))
      /\ (Post(a) \in Elements(s.events) => Before(s.events, Pre(b), Post(a))) => a \in Up(up, b)

\* All of this together.
SearchOK(V, next, root, s, up) ==
  /\ s \in States(V) /\ StackOK(root, s, up) /\ EnteredOK(next, root, s, up)
  /\ EventsOK(s) /\ EdgesOK(next, s) /\ NestingOK(s, up)

\* The way up leads through nodes seen.
LEMMA WayUpIsSeen ==
  ASSUME NEW seen, NEW root, NEW up \in [seen \ {root} -> seen], NEW x \in seen
  PROVE  Up(up, x) \subseteq seen
<1>1. x \in seen /\ \A s \in seen \cap DOMAIN up : up[s] \in seen
  OBVIOUS
<1> QED BY <1>1, UpLeast

\* The stack is the way up from its top.
LEMMA StackIsWayUp ==
  ASSUME NEW V, NEW next, NEW root, NEW s, NEW up, SearchOK(V, next, root, s, up),
         NEW i \in 1..Len(s.stack), NEW j \in 1..Len(s.stack), i <= j
  PROVE  s.stack[i].node \in Up(up, s.stack[j].node)
<1> DEFINE node(k) == s.stack[k].node
           T == {d \in Nat : d <= j - i /\ node(j - d) \notin Up(up, node(j))}
<1>0. Len(s.stack) \in Nat
  BY DEF SearchOK, States
<1>1. ASSUME T # {} PROVE FALSE
  <2>1. PICK d \in T : \A e \in T : d <= e
    BY <1>1, LeastNatural
  <2>2. d # 0
    BY <2>1, UpSelf
  <2>3. d - 1 \in Nat /\ d - 1 <= j - i /\ ~(d <= d - 1) /\ j - (d - 1) \in 2..Len(s.stack)
        /\ (j - (d - 1)) - 1 = j - d /\ j - (d - 1) \in 1..Len(s.stack) /\ 1 \in 1..Len(s.stack)
    BY <1>0, <2>1, <2>2
  <2>4. node(j - (d - 1)) \in Up(up, node(j))
    BY <2>1, <2>3
  <2>5. node(j - (d - 1)) # root /\ node(j - (d - 1)) \in s.seen
    <3> DEFINE k == j - (d - 1)
    <3>1. k \in 1..Len(s.stack) /\ 1 \in 1..Len(s.stack) /\ k # 1 /\ Len(s.stack) > 0
      BY <1>0, <2>3
    <3> HIDE DEF k
    <3>2. s.stack[k].node \in s.seen /\ s.stack[1].node = root
          /\ (s.stack[k].node = s.stack[1].node => k = 1)
      BY <3>1 DEF SearchOK, StackOK
    <3> QED BY <3>1, <3>2 DEF k
  <2>6. up[node(j - (d - 1))] = node(j - d)
    BY <2>3 DEF SearchOK, StackOK
  <2>7. node(j - d) \in Up(up, node(j))
    BY <2>4, <2>5, <2>6, UpStep DEF SearchOK, EnteredOK
  <2> QED BY <2>1, <2>7
<1>2. j - i \in Nat /\ j - i <= j - i /\ j - (j - i) = i
  BY <1>0
<1> QED BY <1>1, <1>2

\* The top of the stack.
LEMMA TopFacts ==
  ASSUME NEW V, NEW next, NEW root, NEW s, NEW up, SearchOK(V, next, root, s, up), s.stack # << >>
  PROVE  LET len == Len(s.stack)
         IN  /\ len \in Nat \ {0} /\ len \in 1..len /\ s.stack[len].node \in V
             /\ s.stack[len].child \in Nat \ {0}
             /\ s.events \in Seq({"pre", "post"} \X V) /\ s.seen \in SUBSET V
<1> DEFINE Frame == [node : V, child : Nat \ {0}]
           stack == s.stack
<1>1. stack \in Seq(Frame) /\ stack # << >>
      /\ s.events \in Seq({"pre", "post"} \X V) /\ s.seen \in SUBSET V
  BY DEF SearchOK, States
<1> HIDE DEF Frame, stack
<1>2. Len(stack) \in Nat \ {0} /\ Len(stack) \in 1..Len(stack) /\ stack[Len(stack)] \in Frame
  BY <1>1
<1>3. stack[Len(stack)].node \in V /\ stack[Len(stack)].child \in Nat \ {0}
  BY <1>2 DEF Frame
<1> QED BY <1>1, <1>2, <1>3 DEF stack

\* The top is left when its successors have all been seen.
LEMMA LeaveKeeps ==
  ASSUME NEW V, NEW next, NEW root, NEW s, NEW up, SearchOK(V, next, root, s, up),
         s.stack # << >>, \A n \in V : next[n] \in Seq(V),
         NEW t \in States(V), Leaves(next, s, t)
  PROVE  SearchOK(V, next, root, t, up)
<1> DEFINE len == Len(s.stack)
           u == s.stack[len].node
<1>1. /\ len \in Nat \ {0} /\ len \in 1..len /\ u \in V /\ s.stack[len].child \in Nat \ {0}
      /\ s.events \in Seq({"pre", "post"} \X V) /\ s.seen \in SUBSET V
  BY TopFacts
<1>2. /\ s.stack[len].child > Len(next[u])
      /\ Len(t.stack) = len - 1 /\ \A k \in 1..len - 1 : t.stack[k] = s.stack[k]
      /\ t.seen = s.seen /\ t.events = Append(s.events, Post(u))
  BY DEF Leaves
<1>3. u \in s.seen /\ OnStack(s, u) /\ Post(u) \notin Elements(s.events)
  BY <1>1 DEF SearchOK, StackOK, EventsOK, OnStack
<1>4. Post(u) \in {"pre", "post"} \X V
  BY <1>1 DEF Post
<1>5. /\ Elements(t.events) = Elements(s.events) \cup {Post(u)}
      /\ Once(t.events)
      /\ \A e, f : Before(t.events, e, f) <=>
                     Before(s.events, e, f) \/ (f = Post(u) /\ e \in Elements(s.events))
  BY <1>1, <1>2, <1>3, <1>4, OneMoreEvent DEF SearchOK, EventsOK
<1>6. /\ \A k \in 1..len - 1 : k \in 1..len /\ k # len
      /\ 1..len = 1..len-1 \cup {len} /\ \A k \in 2..len - 1 : k \in 2..len /\ k - 1 \in 1..len-1
      /\ \A k \in 2..len - 1 : k \in 1..len-1
  BY <1>1
<1> HIDE DEF len, u
<1>7. \A v : OnStack(s, v) <=> v = u \/ OnStack(t, v)
  BY <1>2, <1>6 DEF OnStack, u, len
<1>8. ~OnStack(t, u)
  BY <1>2, <1>6, <1>1 DEF OnStack, SearchOK, StackOK, u, len
<1>9. StackOK(root, t, up)
  <2>1. \A i \in 1..Len(t.stack) : t.stack[i].node \in t.seen
    BY <1>2, <1>6 DEF SearchOK, StackOK, len
  <2>2. \A i, j \in 1..Len(t.stack) : t.stack[i].node = t.stack[j].node => i = j
    BY <1>2, <1>6 DEF SearchOK, StackOK, len
  <2>3. Len(t.stack) > 0 => t.stack[1].node = root
    <3>1. s.stack[1].node = root
      <4>1. Len(s.stack) > 0
        BY <1>1 DEF len
      <4> QED BY <4>1 DEF SearchOK, StackOK
    <3>2. Len(t.stack) > 0 => 1 \in 1..len-1
      BY <1>1, <1>2
    <3> QED BY <1>2, <3>1, <3>2
  <2>4. ASSUME NEW i \in 2..Len(t.stack) PROVE up[t.stack[i].node] = t.stack[i-1].node
    <3>1. i \in 2..len /\ i \in 1..len-1 /\ i - 1 \in 1..len-1
      BY <1>2, <1>6
    <3>2. up[s.stack[i].node] = s.stack[i-1].node
      BY <3>1 DEF SearchOK, StackOK, len
    <3> QED BY <1>2, <3>1, <3>2
  <2> QED BY <2>1, <2>2, <2>3, <2>4 DEF StackOK
<1>10. EventsOK(t)
  <2>1. \A v : Pre(v) \in Elements(t.events) <=> v \in t.seen
    BY <1>2, <1>5, EventsAreApart DEF SearchOK, EventsOK
  <2>2. \A v : Post(v) \in Elements(t.events) <=> v \in t.seen /\ ~OnStack(t, v)
    BY <1>2, <1>3, <1>5, <1>7, <1>8, EventsAreApart DEF SearchOK, EventsOK
  <2>3. \A v \in t.seen : Post(v) \in Elements(t.events) => Before(t.events, Pre(v), Post(v))
    BY <1>2, <1>3, <1>5, EventsAreApart DEF SearchOK, EventsOK
  <2> QED BY <1>5, <2>1, <2>2, <2>3 DEF EventsOK
\* Whoever was entered from u has been left.
<1>11. ASSUME NEW v \in s.seen \ {root}, up[v] = u PROVE Post(v) \in Elements(s.events)
  <2>1. ASSUME OnStack(s, v) PROVE FALSE
    <3>1. PICK i \in 1..len : s.stack[i].node = v
      BY <2>1 DEF OnStack, len
    <3>2. i # 1
      BY <1>1, <1>11, <3>1 DEF SearchOK, StackOK, len
    <3>3. i \in 2..len /\ i - 1 \in 1..len /\ i - 1 # len
      BY <1>1, <3>1, <3>2
    <3>4. s.stack[i-1].node = u
      BY <1>11, <3>1, <3>3 DEF SearchOK, StackOK, len
    <3> QED BY <1>1, <3>3, <3>4 DEF SearchOK, StackOK, len, u
  <2> QED BY <1>11, <2>1 DEF SearchOK, EventsOK
<1>12. EnteredOK(next, root, t, up)
  <2>1. root \in t.seen /\ up \in [t.seen \ {root} -> t.seen]
    BY <1>2 DEF SearchOK, EnteredOK
  <2>2. ASSUME NEW v \in t.seen \ {root}
        PROVE  /\ v \in Elements(next[up[v]])
               /\ Before(t.events, Pre(up[v]), Pre(v))
               /\ Post(up[v]) \in Elements(t.events) => Before(t.events, Post(v), Post(up[v]))
    <3>1. /\ v \in Elements(next[up[v]])
          /\ Before(s.events, Pre(up[v]), Pre(v))
          /\ Post(up[v]) \in Elements(s.events) => Before(s.events, Post(v), Post(up[v]))
      BY <1>2, <2>2 DEF SearchOK, EnteredOK
    <3>2. CASE up[v] = u
      BY <1>2, <1>5, <1>11, <2>2, <3>1, <3>2
    <3>3. CASE up[v] # u
      BY <1>5, <3>1, <3>3, EventsAreApart
    <3> QED BY <3>2, <3>3
  <2> QED BY <2>1, <2>2 DEF EnteredOK
<1>13. EdgesOK(next, t)
  <2>1. Elements(next[u]) \subseteq s.seen
    <3>0. next[u] \in Seq(V)
      BY <1>1
    <3>1. SUFFICES ASSUME NEW k \in DOMAIN next[u] PROVE next[u][k] \in s.seen
      BY DEF Elements
    <3>2. Len(next[u]) \in Nat /\ k \in 1..Len(next[u])
      BY <3>0
    <3>3. k < s.stack[len].child
      BY <1>1, <1>2, <3>2
    <3> QED BY <1>1, <3>3 DEF SearchOK, EdgesOK, u, len
  <2>2. ASSUME NEW w \in t.seen, Post(w) \in Elements(t.events)
        PROVE  Elements(next[w]) \subseteq t.seen
    <3>1. CASE w = u
      BY <1>2, <2>1, <3>1
    <3>2. CASE w # u
      <4>1. Post(w) \in Elements(s.events)
        BY <1>5, <2>2, <3>2, EventsAreApart
      <4> QED BY <1>2, <2>2, <4>1 DEF SearchOK, EdgesOK
    <3> QED BY <3>1, <3>2
  <2>3. ASSUME NEW i \in 1..Len(t.stack), NEW k \in DOMAIN next[t.stack[i].node],
               k < t.stack[i].child
        PROVE  next[t.stack[i].node][k] \in t.seen
    <3>1. i \in 1..len /\ t.stack[i] = s.stack[i]
      BY <1>2, <1>6, <2>3
    <3> QED BY <1>2, <2>3, <3>1 DEF SearchOK, EdgesOK, len
  <2> QED BY <2>2, <2>3 DEF EdgesOK
<1>14. NestingOK(t, up)
  <2> SUFFICES ASSUME NEW a \in s.seen, NEW b \in s.seen, Before(t.events, Pre(a), Pre(b)),
                      Post(a) \in Elements(t.events) => Before(t.events, Pre(b), Post(a))
               PROVE  a \in Up(up, b)
    BY <1>2 DEF NestingOK
  <2>1. Before(s.events, Pre(a), Pre(b))
    BY <1>5, EventsAreApart
  <2>2. Post(a) \in Elements(s.events) => Before(s.events, Pre(b), Post(a))
    <3> SUFFICES ASSUME Post(a) \in Elements(s.events) PROVE Before(s.events, Pre(b), Post(a))
      OBVIOUS
    <3>1. a # u
      BY <1>3
    <3> QED BY <1>5, <3>1, EventsAreApart
  <2> QED BY <2>1, <2>2 DEF SearchOK, NestingOK
<1> QED BY <1>9, <1>10, <1>12, <1>13, <1>14 DEF SearchOK

\* A successor that has been seen is skipped.
LEMMA SkipKeeps ==
  ASSUME NEW V, NEW next, NEW root, NEW s, NEW up, SearchOK(V, next, root, s, up),
         s.stack # << >>, \A n \in V : next[n] \in Seq(V),
         NEW t \in States(V), Skips(next, s, t)
  PROVE  SearchOK(V, next, root, t, up)
<1> DEFINE len == Len(s.stack)
           u == s.stack[len].node
           c == s.stack[len].child
<1>1. len \in Nat \ {0} /\ len \in 1..len /\ c \in Nat \ {0}
  BY TopFacts
<1>2. /\ c \in DOMAIN next[u] /\ next[u][c] \in s.seen
      /\ Len(t.stack) = len /\ \A k \in 1..len - 1 : t.stack[k] = s.stack[k]
      /\ t.stack[len].node = u /\ t.stack[len].child = c + 1
      /\ t.seen = s.seen /\ t.events = s.events
  BY DEF Skips, MovesOn
<1> HIDE DEF len, u, c
<1>3. \A k \in 1..len : t.stack[k].node = s.stack[k].node
  <2>1. \A k \in 1..len : k = len \/ k \in 1..len-1
    BY <1>1
  <2> QED BY <1>2, <2>1 DEF u, len
<1>4. \A v : OnStack(t, v) <=> OnStack(s, v)
  BY <1>2, <1>3 DEF OnStack, len
<1>5. StackOK(root, t, up)
  <2>1. \A i \in 2..len : i \in 1..len /\ i - 1 \in 1..len
    BY <1>1
  <2>2. len > 0 /\ 1 \in 1..len
    BY <1>1
  <2> QED BY <1>2, <1>3, <2>1, <2>2 DEF SearchOK, StackOK, len
<1>6. EventsOK(t) /\ EnteredOK(next, root, t, up) /\ NestingOK(t, up)
  BY <1>2, <1>4 DEF SearchOK, EventsOK, EnteredOK, NestingOK
<1>7. EdgesOK(next, t)
  <2>1. \A w \in t.seen : Post(w) \in Elements(t.events) => Elements(next[w]) \subseteq t.seen
    BY <1>2 DEF SearchOK, EdgesOK
  <2>2. ASSUME NEW i \in 1..len, NEW k \in DOMAIN next[s.stack[i].node], k < t.stack[i].child
        PROVE  next[s.stack[i].node][k] \in s.seen
    <3>1. CASE i = len
      <4>1. k < c + 1 /\ k \in Int
        <5>1. next[u] \in Seq(V)
          BY TopFacts DEF u, len
        <5> QED BY <1>2, <2>2, <3>1, <5>1 DEF u
      <4>2. k = c \/ k < c
        BY <1>1, <4>1
      <4>3. c = s.stack[i].child /\ u = s.stack[i].node
        BY <3>1 DEF c, u
      <4>4. CASE k < c
        BY <1>1, <2>2, <4>3, <4>4 DEF SearchOK, EdgesOK, len
      <4> QED BY <1>2, <4>2, <4>3, <4>4
    <3>2. CASE i # len
      <4>1. i \in 1..len-1
        BY <1>1, <3>2
      <4>2. t.stack[i] = s.stack[i]
        BY <1>2, <4>1
      <4> QED BY <2>2, <4>2 DEF SearchOK, EdgesOK, len
    <3> QED BY <3>1, <3>2
  <2> QED BY <1>2, <1>3, <2>1, <2>2 DEF EdgesOK
<1> QED BY <1>5, <1>6, <1>7 DEF SearchOK

\* The way up when w has been entered from u.
Entered(up, w, u) == [v \in DOMAIN up \cup {w} |-> IF v = w THEN u ELSE up[v]]

\* A successor that has not been seen is entered.
LEMMA EnterKeeps ==
  ASSUME NEW V, NEW next, NEW root, NEW s, NEW up, SearchOK(V, next, root, s, up),
         s.stack # << >>, \A n \in V : next[n] \in Seq(V),
         NEW t \in States(V), Enters(next, s, t)
  PROVE  \E down : SearchOK(V, next, root, t, down)
<1> DEFINE len == Len(s.stack)
           u == s.stack[len].node
           c == s.stack[len].child
           w == next[u][c]
           way == Entered(up, w, u)
<1>1. len \in Nat \ {0} /\ len \in 1..len /\ c \in Nat \ {0} /\ u \in V
      /\ s.events \in Seq({"pre", "post"} \X V)
  BY TopFacts
<1>2. /\ c \in DOMAIN next[u] /\ w \notin s.seen
      /\ Len(t.stack) = len + 1 /\ \A k \in 1..len - 1 : t.stack[k] = s.stack[k]
      /\ t.stack[len].node = u /\ t.stack[len].child = c + 1
      /\ t.stack[len+1].node = w /\ t.stack[len+1].child = 1
      /\ t.seen = s.seen \cup {w} /\ t.events = Append(s.events, Pre(w))
  BY DEF Enters, MovesOn
<1>3. next[u] \in Seq(V) /\ w \in V /\ w \in Elements(next[u])
  <2>1. next[u] \in Seq(V)
    BY <1>1
  <2> DEFINE kids == next[u]
  <2>2. kids \in Seq(V) /\ c \in DOMAIN kids /\ w = kids[c]
    BY <1>2, <2>1
  <2> HIDE DEF kids, c, w
  <2>3. w \in V /\ w \in Elements(kids)
    BY <2>2, SeqFacts DEF Elements
  <2> QED BY <2>1, <2>3 DEF kids
<1> HIDE DEF len, u, c, w
<1>4. \A k \in 1..len : t.stack[k].node = s.stack[k].node
  <2>1. \A k \in 1..len : k = len \/ k \in 1..len-1
    BY <1>1
  <2> QED BY <1>2, <2>1 DEF u, len
<1>5. root \in s.seen /\ up \in [s.seen \ {root} -> s.seen] /\ u \in s.seen /\ u # w /\ w # root
      /\ Post(u) \notin Elements(s.events)
  <2>1. u \in s.seen /\ OnStack(s, u)
    BY <1>1 DEF SearchOK, StackOK, OnStack, u, len
  <2> QED BY <1>2, <2>1 DEF SearchOK, EnteredOK, EventsOK
<1>6. /\ way \in [t.seen \ {root} -> t.seen] /\ way[w] = u
      /\ \A v \in s.seen \ {root} : way[v] = up[v]
  BY <1>2, <1>5 DEF Entered
<1> HIDE DEF way
<1>7. \A x \in s.seen : Up(way, x) = Up(up, x)
  <2> SUFFICES ASSUME NEW x \in s.seen PROVE Up(way, x) = Up(up, x)
    OBVIOUS
  <2>1. Up(up, x) \subseteq s.seen
    BY <1>5, WayUpIsSeen
  <2>2. \A y \in Up(up, x) : (y \in DOMAIN up <=> y \in DOMAIN way)
                             /\ (y \in DOMAIN up => up[y] = way[y])
    <3>1. \A y \in Up(up, x) : y \in s.seen
      BY <2>1
    <3>2. DOMAIN up = s.seen \ {root} /\ DOMAIN way = t.seen \ {root}
      BY <1>5, <1>6
    <3>3. \A y \in s.seen : (y \in DOMAIN up <=> y \in DOMAIN way) /\ (y \in DOMAIN up => up[y] = way[y])
      BY <1>2, <1>6, <3>2
    <3> QED BY <3>1, <3>3
  <2> HIDE DEF way
  <2> QED BY ONLY <2>2, UpSame
<1>8. Up(way, w) = {w} \cup Up(up, u)
  <2>1. w \in DOMAIN way
    BY <1>2, <1>5, <1>6
  <2> QED BY <1>5, <1>6, <1>7, <2>1, UpUnfold
<1>9. Pre(w) \in {"pre", "post"} \X V /\ Pre(w) \notin Elements(s.events)
  BY <1>2, <1>3 DEF Pre, SearchOK, EventsOK
<1>10. /\ Elements(t.events) = Elements(s.events) \cup {Pre(w)}
       /\ Once(t.events)
       /\ \A e, f : Before(t.events, e, f) <=>
                      Before(s.events, e, f) \/ (f = Pre(w) /\ e \in Elements(s.events))
  BY <1>1, <1>2, <1>9, OneMoreEvent DEF SearchOK, EventsOK
<1>11. Once(s.events) /\ \A e, f : Before(s.events, e, f) => /\ e \in Elements(s.events)
                                                             /\ f \in Elements(s.events)
  BY <1>1, BeforeIsAnOrder DEF SearchOK, EventsOK
<1>12. /\ \A k \in 1..len : k \in 1..len+1 /\ k # len + 1
       /\ 1..len+1 = 1..len \cup {len+1} /\ len+1 \in 1..len+1
       /\ \A k \in 2..len : k \in 1..len /\ k - 1 \in 1..len
       /\ (len + 1) - 1 = len /\ 2..len+1 = 2..len \cup {len+1}
  BY <1>1
<1>13. \A v : OnStack(t, v) <=> v = w \/ OnStack(s, v)
  BY <1>2, <1>4, <1>12 DEF OnStack, len
<1>14. StackOK(root, t, way)
  <2>1. \A i \in 1..Len(t.stack) : t.stack[i].node \in t.seen
    BY <1>2, <1>4, <1>12 DEF SearchOK, StackOK, len
  <2>2. ASSUME NEW i \in 1..len+1, NEW j \in 1..len+1, t.stack[i].node = t.stack[j].node
        PROVE  i = j
    <3>1. CASE i \in 1..len /\ j \in 1..len
      BY <1>4, <2>2, <3>1 DEF SearchOK, StackOK, len
    <3>2. \A k \in 1..len : t.stack[k].node # w
      BY <1>2, <1>4 DEF SearchOK, StackOK, len
    <3> QED BY <1>2, <1>12, <2>2, <3>1, <3>2
  <2>3. t.stack[1].node = root
    <3>1. len > 0 /\ 1 \in 1..len
      BY <1>1
    <3>2. s.stack[1].node = root
      BY <3>1 DEF SearchOK, StackOK, len
    <3> QED BY <1>4, <3>1, <3>2
  <2>4. ASSUME NEW i \in 2..len+1 PROVE way[t.stack[i].node] = t.stack[i-1].node
    <3>1. CASE i = len + 1
      BY <1>2, <1>6, <1>12, <3>1
    <3>2. CASE i \in 2..len
      <4>1. i \in 1..len /\ i - 1 \in 1..len /\ up[s.stack[i].node] = s.stack[i-1].node
        BY <1>12, <3>2 DEF SearchOK, StackOK, len
      <4>2. s.stack[i].node \in s.seen /\ s.stack[i].node # root
        <5>1. 1 \in 1..len /\ i # 1 /\ len > 0
          BY <1>1, <3>2
        <5>2. s.stack[1].node = root /\ s.stack[i].node \in s.seen
              /\ (s.stack[i].node = s.stack[1].node => i = 1)
          BY <4>1, <5>1 DEF SearchOK, StackOK, len
        <5> QED BY <5>1, <5>2
      <4> QED BY <1>4, <1>6, <4>1, <4>2
    <3> QED BY <1>12, <3>1, <3>2
  <2> QED BY <1>2, <2>1, <2>2, <2>3, <2>4 DEF StackOK
<1>15. EventsOK(t)
  <2>1. \A v : Pre(v) \in Elements(t.events) <=> v \in t.seen
    BY <1>2, <1>10, EventsAreApart DEF SearchOK, EventsOK
  <2>2. \A v : Post(v) \in Elements(t.events) <=> v \in t.seen /\ ~OnStack(t, v)
    BY <1>2, <1>10, <1>13, EventsAreApart DEF SearchOK, EventsOK
  <2>3. \A v \in t.seen : Post(v) \in Elements(t.events) => Before(t.events, Pre(v), Post(v))
    BY <1>2, <1>10, EventsAreApart DEF SearchOK, EventsOK
  <2> QED BY <1>10, <2>1, <2>2, <2>3 DEF EventsOK
<1>16. EnteredOK(next, root, t, way)
  <2>1. ASSUME NEW v \in s.seen \ {root}
        PROVE  /\ v \in Elements(next[way[v]])
               /\ Before(t.events, Pre(way[v]), Pre(v))
               /\ Post(way[v]) \in Elements(t.events) => Before(t.events, Post(v), Post(way[v]))
    <3>1. /\ v \in Elements(next[up[v]])
          /\ Before(s.events, Pre(up[v]), Pre(v))
          /\ Post(up[v]) \in Elements(s.events) => Before(s.events, Post(v), Post(up[v]))
      BY DEF SearchOK, EnteredOK
    <3> QED BY <1>6, <1>10, <3>1, EventsAreApart
  <2>2. /\ w \in Elements(next[way[w]])
        /\ Before(t.events, Pre(way[w]), Pre(w))
        /\ Post(way[w]) \notin Elements(t.events)
    <3>1. Pre(u) \in Elements(s.events)
      BY <1>5 DEF SearchOK, EventsOK
    <3> QED BY <1>3, <1>5, <1>6, <1>10, <3>1, EventsAreApart
  <2> QED BY <1>2, <1>5, <1>6, <2>1, <2>2 DEF EnteredOK
<1>17. EdgesOK(next, t)
  <2>1. \A v \in t.seen : Post(v) \in Elements(t.events) => Elements(next[v]) \subseteq t.seen
    <3>1. \A v : Post(v) \in Elements(t.events) => Post(v) \in Elements(s.events) /\ v \in s.seen
      BY <1>10, EventsAreApart DEF SearchOK, EventsOK
    <3> QED BY <1>2, <3>1 DEF SearchOK, EdgesOK
  <2>2. ASSUME NEW i \in 1..len+1, NEW k \in DOMAIN next[t.stack[i].node], k < t.stack[i].child
        PROVE  next[t.stack[i].node][k] \in t.seen
    <3>0. k \in Nat \ {0}
      <4>1. t.stack[i].node \in V
        <5>1. t.seen \in SUBSET V /\ t.stack[i].node \in t.seen
          BY <1>2, <1>14 DEF States, StackOK
        <5> QED BY <5>1
      <4>2. next[t.stack[i].node] \in Seq(V)
        BY <4>1
      <4> QED BY <2>2, <4>2
    <3>1. CASE i = len + 1
      BY <1>2, <2>2, <3>0, <3>1
    <3>2. CASE i = len
      <4>1. k = c \/ k < c
        BY <1>1, <1>2, <2>2, <3>0, <3>2
      <4>2. CASE k < c
        BY <1>1, <1>2, <2>2, <3>2, <4>2 DEF SearchOK, EdgesOK, len, u, c
      <4> QED BY <1>2, <3>2, <4>1, <4>2 DEF w
    <3>3. CASE i \notin {len, len + 1}
      <4>1. i \in 1..len-1 /\ i \in 1..len
        BY <1>1, <3>3
      <4>2. t.stack[i] = s.stack[i]
        BY <1>2, <4>1
      <4> QED BY <1>2, <2>2, <4>1, <4>2 DEF SearchOK, EdgesOK, len
    <3> QED BY <3>1, <3>2, <3>3
  <2> QED BY <1>2, <2>1, <2>2 DEF EdgesOK
<1>18. NestingOK(t, way)
  <2> SUFFICES ASSUME NEW a \in t.seen, NEW b \in t.seen, Before(t.events, Pre(a), Pre(b)),
                      Post(a) \in Elements(t.events) => Before(t.events, Pre(b), Post(a))
               PROVE  a \in Up(way, b)
    BY DEF NestingOK
  <2>1. a \in s.seen /\ Pre(a) \in Elements(s.events)
    BY <1>2, <1>9, <1>10, <1>11
  <2>2. CASE b = w
    <3>1. ~Before(t.events, Pre(w), Post(a))
      BY <1>9, <1>10, <1>11, EventsAreApart
    <3>2. Post(a) \notin Elements(s.events)
      BY <1>10, <2>2, <3>1
    <3>3. PICK i \in 1..len : s.stack[i].node = a
      BY <2>1, <3>2 DEF SearchOK, EventsOK, OnStack, len
    <3>4. i <= len
      BY <1>1
    <3>5. a \in Up(up, u)
      BY <1>1, <3>3, <3>4, StackIsWayUp DEF len, u
    <3> QED BY <1>8, <2>2, <3>5
  <2>3. CASE b \in s.seen
    <3>1. Before(s.events, Pre(a), Pre(b))
      <4>1. Pre(b) # Pre(w)
        BY <1>2, <2>3, EventsAreApart
      <4> QED BY <1>10, <4>1
    <3>2. Post(a) \in Elements(s.events) => Before(s.events, Pre(b), Post(a))
      BY <1>10, EventsAreApart
    <3>3. a \in Up(up, b)
      BY <2>1, <2>3, <3>1, <3>2 DEF SearchOK, NestingOK
    <3> QED BY <1>7, <2>3, <3>3
  <2> QED BY <1>2, <2>2, <2>3
<1> QED BY <1>14, <1>15, <1>16, <1>17, <1>18 DEF SearchOK

\* A traversal under way.
Search(V, next, root, s) == \E up : SearchOK(V, next, root, s, up)

\* A traversal starts at its root.
LEMMA SearchStarts ==
  ASSUME NEW V, NEW next, NEW root \in V, \A n \in V : next[n] \in Seq(V)
  PROVE  Search(V, next, root, TraversalFrom(root))
<1> DEFINE Frame == [node : V, child : Nat \ {0}]
           frame == [node |-> root, child |-> 1]
           s == TraversalFrom(root)
           up == [v \in {} |-> root]
<1>1. s = [stack |-> <<frame>>, seen |-> {root}, events |-> <<Pre(root)>>]
  BY DEF TraversalFrom, Pre
<1>2. frame \in Frame /\ frame.node = root /\ frame.child = 1
      /\ Pre(root) \in {"pre", "post"} \X V
  BY DEF Pre
<1> HIDE DEF Frame, frame, s
<1>3. /\ <<frame>> \in Seq(Frame) /\ Len(<<frame>>) = 1 /\ <<frame>>[1] = frame
      /\ <<Pre(root)>> \in Seq({"pre", "post"} \X V)
      /\ DOMAIN <<Pre(root)>> = {1} /\ <<Pre(root)>>[1] = Pre(root) /\ 1..1 = {1} /\ 2..1 = {}
  BY <1>2
<1>4. s \in States(V)
  BY <1>1, <1>3 DEF States, Frame
<1>5. /\ Len(s.stack) = 1 /\ s.stack[1] = frame /\ s.seen = {root}
      /\ Elements(s.events) = {Pre(root)} /\ Once(s.events)
      /\ \A e, f : ~Before(s.events, e, f)
  BY <1>1, <1>3 DEF Elements, Once, Before
<1>6. \A v : OnStack(s, v) <=> v = root
  BY <1>2, <1>3, <1>5 DEF OnStack
<1>7. StackOK(root, s, up)
  BY <1>2, <1>3, <1>5 DEF StackOK
<1>8. EnteredOK(next, root, s, up) /\ NestingOK(s, up)
  BY <1>5 DEF EnteredOK, NestingOK
<1>9. EventsOK(s)
  BY <1>5, <1>6, EventsAreApart DEF EventsOK
<1>10. EdgesOK(next, s)
  <2>1. \A u \in s.seen : Post(u) \notin Elements(s.events)
    BY <1>5, EventsAreApart
  <2>2. ASSUME NEW i \in 1..Len(s.stack), NEW k \in DOMAIN next[s.stack[i].node],
               k < s.stack[i].child
        PROVE  next[s.stack[i].node][k] \in s.seen
    <3>1. i = 1 /\ s.stack[i].node = root /\ k < 1
      BY <1>2, <1>3, <1>5, <2>2
    <3>2. next[root] \in Seq(V)
      OBVIOUS
    <3>3. k \in 1..Len(next[root])
      BY <2>2, <3>1, <3>2
    <3> QED BY <3>1, <3>3
  <2> QED BY <2>1, <2>2 DEF EdgesOK
<1> QED BY <1>4, <1>7, <1>8, <1>9, <1>10 DEF Search, SearchOK, s

\* A turn of a traversal keeps it one.
LEMMA SearchGoesOn ==
  ASSUME NEW V, NEW next, NEW root, NEW s, Search(V, next, root, s), s.stack # << >>,
         \A n \in V : next[n] \in Seq(V)
  PROVE  Search(V, next, root, TraversalStep(next, s))
<1> DEFINE t == TraversalStep(next, s)
<1>1. PICK up : SearchOK(V, next, root, s, up)
  BY DEF Search
<1>2. s \in States(V)
  BY <1>1 DEF SearchOK
<1>3. t \in States(V) /\ (Leaves(next, s, t) \/ Skips(next, s, t) \/ Enters(next, s, t))
  BY <1>2, TurnCases
<1> HIDE DEF t
<1>4. CASE Leaves(next, s, t)
  <2>1. SearchOK(V, next, root, t, up)
    BY <1>1, <1>3, <1>4, LeaveKeeps
  <2> QED BY <2>1 DEF Search, t
<1>5. CASE Skips(next, s, t)
  <2>1. SearchOK(V, next, root, t, up)
    BY <1>1, <1>3, <1>5, SkipKeeps
  <2> QED BY <2>1 DEF Search, t
<1>6. CASE Enters(next, s, t)
  <2>1. \E down : SearchOK(V, next, root, t, down)
    BY <1>1, <1>3, <1>6, EnterKeeps
  <2> QED BY <2>1 DEF Search, t
<1> QED BY <1>3, <1>4, <1>5, <1>6

\* The postorder has the order of the "post" events.
LEMMA PostsInOrder ==
  ASSUME NEW V, NEW events \in Seq({"pre", "post"} \X V), Once(events)
  PROVE  LET po == Posts(events)
         IN  /\ po \in Seq(V)
             /\ \A v : v \in Elements(po) <=> Post(v) \in Elements(events)
             /\ \A i, j \in 1..Len(po) : i < j <=> Before(events, Post(po[i]), Post(po[j]))
<1> DEFINE K == {k \in DOMAIN events : events[k][1] = "post"}
           picked == AtPositions(events, K)
           po == Posts(events)
           len == Len(picked)
<1>1. PICK o : Origin(o, picked, events, K, Len(events))
  BY AtPositionsOrigin
<1>2. picked \in Seq({"pre", "post"} \X V)
  BY AtPositionsType
<1>3. po = [k \in DOMAIN picked |-> picked[k][2]]
  BY DEF Posts
<1>4. Len(events) \in Nat /\ DOMAIN events = 1..Len(events)
      /\ \A k \in DOMAIN events : events[k] \in {"pre", "post"} \X V
  BY SeqFacts
<1>5. len \in Nat /\ DOMAIN picked = 1..len /\ \A k \in 1..len : picked[k] \in {"pre", "post"} \X V
  <2> HIDE DEF picked
  <2> QED BY <1>2
<1>6. /\ o \in [1..len -> K]
      /\ \A i \in 1..len : picked[i] = events[o[i]]
      /\ \A i, j \in 1..len : i < j => o[i] < o[j]
      /\ \A k \in K : \E i \in 1..len : o[i] = k
  BY <1>1, <1>4 DEF Origin
<1> HIDE DEF picked, len
<1>7. po \in Seq(V) /\ Len(po) = len /\ DOMAIN po = 1..len
  <2>1. \A k \in 1..len : picked[k][2] \in V
    BY <1>5
  <2>2. po \in [1..len -> V]
    BY <1>3, <1>5, <2>1
  <2> HIDE DEF po
  <2> QED BY <1>5, <2>2
<1>8. \A i \in 1..len : o[i] \in DOMAIN events /\ events[o[i]] = Post(po[i])
  <2> SUFFICES ASSUME NEW i \in 1..len PROVE o[i] \in DOMAIN events /\ events[o[i]] = Post(po[i])
    OBVIOUS
  <2>1. o[i] \in DOMAIN events /\ events[o[i]][1] = "post" /\ events[o[i]] \in {"pre", "post"} \X V
    BY <1>4, <1>6
  <2>2. po[i] = events[o[i]][2]
    BY <1>3, <1>5, <1>6
  <2> HIDE DEF po
  <2> QED BY <2>1, <2>2 DEF Post
<1>9. \A k \in DOMAIN events : \A v : events[k] = Post(v) => \E i \in 1..len : o[i] = k
  <2> SUFFICES ASSUME NEW k \in DOMAIN events, NEW v, events[k] = Post(v)
               PROVE  \E i \in 1..len : o[i] = k
    OBVIOUS
  <2>1. k \in K
    BY DEF Post
  <2> QED BY <1>6, <2>1
<1> HIDE DEF po, K
<1>10. ASSUME NEW v PROVE v \in Elements(po) <=> Post(v) \in Elements(events)
  <2>1. ASSUME v \in Elements(po) PROVE Post(v) \in Elements(events)
    BY <1>7, <1>8, <2>1 DEF Elements
  <2>2. ASSUME Post(v) \in Elements(events) PROVE v \in Elements(po)
    <3>1. PICK k \in DOMAIN events : events[k] = Post(v)
      BY <2>2 DEF Elements
    <3>2. PICK i \in 1..len : o[i] = k
      BY <1>9, <3>1
    <3>3. po[i] = v
      BY <1>8, <3>1, <3>2, EventsAreApart
    <3> QED BY <1>7, <3>3 DEF Elements
  <2> QED BY <2>1, <2>2
<1>11. ASSUME NEW i \in 1..len, NEW j \in 1..len
       PROVE  i < j <=> Before(events, Post(po[i]), Post(po[j]))
  <2>1. ASSUME i < j PROVE Before(events, Post(po[i]), Post(po[j]))
    BY <1>6, <1>8, <2>1 DEF Before
  <2>2. ASSUME Before(events, Post(po[i]), Post(po[j])) PROVE i < j
    <3>1. PICK k, l \in DOMAIN events : k < l /\ events[k] = Post(po[i]) /\ events[l] = Post(po[j])
      BY <2>2 DEF Before
    <3>2. k = o[i] /\ l = o[j]
      BY <1>8, <3>1 DEF Once
    <3>3. i # j /\ ~(j < i)
      <4>1. k \in Int /\ l \in Int
        BY <1>4
      <4> QED BY <1>6, <3>1, <3>2, <4>1
    <3> QED BY <1>5, <3>3
  <2> QED BY <2>1, <2>2
<1> QED BY <1>7, <1>10, <1>11 DEF po

\* What a finished traversal has found.
PostorderOK(V, next, root, po) ==
  /\ po \in Seq(V) /\ po # << >> /\ po[Len(po)] = root
  /\ \A i, j \in 1..Len(po) : po[i] = po[j] => i = j
  /\ Elements(po) = Reached(next, {root}, {})
  /\ \E par : \A k \in 1..Len(po)-1 : par[k] \in k+1..Len(po) /\ po[k] \in Elements(next[po[par[k]]])

\* A traversal whose stack is empty has found what is reached, in postorder.
LEMMA SearchEnds ==
  ASSUME NEW V, NEW next, NEW root, NEW s, Search(V, next, root, s), s.stack = << >>,
         IsFiniteSet(DOMAIN next), V \subseteq DOMAIN next
  PROVE  PostorderOK(V, next, root, Posts(s.events))
<1> DEFINE po == Posts(s.events)
           len == Len(po)
<1>1. PICK up : SearchOK(V, next, root, s, up)
  BY DEF Search
<1>2. /\ Once(s.events) /\ s.events \in Seq({"pre", "post"} \X V) /\ s.seen \in SUBSET V
      /\ \A v : Pre(v) \in Elements(s.events) <=> v \in s.seen
      /\ \A v : Post(v) \in Elements(s.events) <=> v \in s.seen
      /\ \A v \in s.seen : Elements(next[v]) \subseteq s.seen
      /\ root \in s.seen /\ up \in [s.seen \ {root} -> s.seen]
      /\ \A v \in s.seen \ {root} : /\ v \in Elements(next[up[v]])
                                    /\ Before(s.events, Pre(up[v]), Pre(v))
                                    /\ Before(s.events, Post(v), Post(up[v]))
  <2>1. \A v : ~OnStack(s, v)
    BY DEF OnStack
  <2>2. EventsOK(s) /\ EdgesOK(next, s) /\ EnteredOK(next, root, s, up) /\ s \in States(V)
    BY <1>1 DEF SearchOK
  <2>3. /\ Once(s.events)
        /\ \A v : Pre(v) \in Elements(s.events) <=> v \in s.seen
        /\ \A v : Post(v) \in Elements(s.events) <=> v \in s.seen
    BY <2>1, <2>2 DEF EventsOK
  <2>4. \A v \in s.seen : Elements(next[v]) \subseteq s.seen
    BY <2>2, <2>3 DEF EdgesOK
  <2>5. /\ root \in s.seen /\ up \in [s.seen \ {root} -> s.seen]
        /\ \A v \in s.seen \ {root} : up[v] \in s.seen
    BY <2>2 DEF EnteredOK
  <2>6. \A v \in s.seen \ {root} : /\ v \in Elements(next[up[v]])
                                   /\ Before(s.events, Pre(up[v]), Pre(v))
                                   /\ Before(s.events, Post(v), Post(up[v]))
    BY <2>2, <2>3, <2>5 DEF EnteredOK
  <2>7. s.events \in Seq({"pre", "post"} \X V) /\ s.seen \in SUBSET V
    BY <2>2 DEF States
  <2> QED BY <2>3, <2>4, <2>5, <2>6, <2>7
<1>3. /\ po \in Seq(V)
      /\ \A v : v \in Elements(po) <=> v \in s.seen
      /\ \A i, j \in 1..len : i < j <=> Before(s.events, Post(po[i]), Post(po[j]))
  BY <1>2, PostsInOrder
<1> HIDE DEF po, len
<1>4. /\ \A e, f : Before(s.events, e, f) => ~Before(s.events, f, e) /\ e # f
  BY <1>2, BeforeIsAnOrder
<1>5. len \in Nat /\ DOMAIN po = 1..len
  BY <1>3 DEF len
<1>6. \A i, j \in 1..len : po[i] = po[j] => i = j
  <2> SUFFICES ASSUME NEW i \in 1..len, NEW j \in 1..len, po[i] = po[j] PROVE i = j
    OBVIOUS
  <2>1. ~(i < j) /\ ~(j < i)
    BY <1>3, <1>4
  <2> QED BY <1>5, <2>1
\* The node above is the tree parent.
<1>7. \A k \in 1..len : po[k] # root =>
        \E p \in 1..len : k < p /\ po[k] \in Elements(next[po[p]])
  <2> SUFFICES ASSUME NEW k \in 1..len, po[k] # root
               PROVE  \E p \in 1..len : k < p /\ po[k] \in Elements(next[po[p]])
    OBVIOUS
  <2>1. po[k] \in s.seen \ {root}
    BY <1>3, <1>5 DEF Elements
  <2>2. up[po[k]] \in s.seen
    BY <1>2, <2>1
  <2>3. PICK p \in 1..len : po[p] = up[po[k]]
    BY <1>3, <1>5, <2>2 DEF Elements
  <2> QED BY <1>2, <1>3, <2>1, <2>3
<1>8. len # 0 /\ po[len] = root
  <2>1. PICK r \in 1..len : po[r] = root
    BY <1>2, <1>3, <1>5 DEF Elements
  <2>2. len \in 1..len /\ \A p \in 1..len : ~(len < p)
    BY <1>5, <2>1
  <2> QED BY <1>5, <1>7, <2>1, <2>2
<1>9. \E par : \A k \in 1..len-1 : par[k] \in k+1..len /\ po[k] \in Elements(next[po[par[k]]])
  <2> DEFINE par == [k \in 1..len-1 |-> CHOOSE p \in 1..len : k < p /\ po[k] \in Elements(next[po[p]])]
  <2>1. ASSUME NEW k \in 1..len-1
        PROVE  par[k] \in k+1..len /\ po[k] \in Elements(next[po[par[k]]])
    <3>1. k \in 1..len /\ len \in 1..len /\ k # len
      BY <1>5
    <3>2. \E p \in 1..len : k < p /\ po[k] \in Elements(next[po[p]])
      BY <1>6, <1>7, <1>8, <3>1
    <3>3. par[k] \in 1..len /\ k < par[k] /\ po[k] \in Elements(next[po[par[k]]])
      BY <3>2
    <3> HIDE DEF par
    <3> QED BY <1>5, <3>3
  <2> QED BY <2>1
<1>10. Reached(next, {root}, {}) = s.seen
  <2>1. Reached(next, {root}, {}) \subseteq s.seen
    BY <1>2, ReachedIsLeast
  <2> DEFINE T == {n \in Nat : n \in DOMAIN s.events /\
                      \E v \in s.seen \ Reached(next, {root}, {}) : s.events[n] = Pre(v)}
  <2>2. ASSUME T # {} PROVE FALSE
    <3>1. PICK n \in T : \A k \in T : n <= k
      BY <2>2, LeastNatural
    <3>2. PICK v \in s.seen \ Reached(next, {root}, {}) : s.events[n] = Pre(v)
      BY <3>1
    <3>3. /\ {root} \ {} \subseteq Reached(next, {root}, {})
          /\ \A m \in Reached(next, {root}, {}) \cap DOMAIN next :
               Elements(next[m]) \ {} \subseteq Reached(next, {root}, {})
      BY ReachedIsClosed
    <3>4. v # root /\ up[v] \in s.seen
      BY <1>2, <3>2, <3>3
    <3>5. up[v] \notin Reached(next, {root}, {})
      BY <1>2, <3>2, <3>3, <3>4
    <3>6. PICK k, l \in DOMAIN s.events : k < l /\ s.events[k] = Pre(up[v]) /\ s.events[l] = Pre(v)
      BY <1>2, <3>2, <3>4 DEF Before
    <3>7. l = n
      BY <1>2, <3>1, <3>2, <3>6 DEF Once
    <3>8. k \in Nat
      BY <1>2
    <3>9. k \in T
      BY <3>4, <3>5, <3>6, <3>8
    <3>10. n \in Nat /\ n <= k /\ k < n
      BY <3>1, <3>6, <3>7, <3>9
    <3> QED BY <3>8, <3>10
  <2>3. ASSUME NEW v \in s.seen PROVE v \in Reached(next, {root}, {})
    <3>1. PICK n \in DOMAIN s.events : s.events[n] = Pre(v)
      BY <1>2 DEF Elements
    <3>2. n \in Nat
      BY <1>2
    <3> QED BY <2>2, <3>1, <3>2
  <2> QED BY <2>1, <2>3
<1>11. Elements(po) = Reached(next, {root}, {}) /\ po # << >>
  <2>1. po # << >>
    BY <1>8 DEF len
  <2>2. \A v : v \in Elements(po) <=> v \in Reached(next, {root}, {})
    BY <1>3, <1>10
  <2>3. \A v \in Elements(po) : v \in Reached(next, {root}, {})
    BY <2>2
  <2>4. \A v \in Reached(next, {root}, {}) : v \in Elements(po)
    BY <2>2
  <2> QED BY <2>1, <2>3, <2>4
<1> QED BY <1>3, <1>6, <1>8, <1>9, <1>11 DEF PostorderOK, po, len
-----------------------------------------------------------------------------
\* The estimates of CalculateDominators, by postorder index.

\* Immediate dominators D of the indices K, of which N is the root's.
IdomsOK(D, N, K) ==
  /\ N \in Nat \ {0} /\ K \subseteq 1..N /\ N \in K
  /\ DOMAIN D = 1..N /\ D = [k \in 1..N |-> D[k]] /\ D[N] = N
  /\ \A k \in K \ {N} : D[k] \in K /\ k < D[k]

\* What is above an index is what is above its dominator, and the index.
LEMMA AboveFacts ==
  ASSUME NEW D, NEW N, NEW K, IdomsOK(D, N, K), NEW k \in K
  PROVE  /\ Up(D, k) \subseteq {a \in K : k <= a}
         /\ k \in Up(D, k)
         /\ k = N => Up(D, k) = {k}
         /\ k # N => Up(D, k) = {k} \cup Up(D, D[k])
         /\ D[k] \in K
<1>1. /\ N \in Nat \ {0} /\ K \subseteq 1..N /\ N \in K /\ DOMAIN D = 1..N /\ D[N] = N
      /\ \A i \in K \ {N} : D[i] \in K /\ i < D[i]
  BY DEF IdomsOK
<1>2. Up(D, k) \subseteq {a \in K : k <= a}
  <2> DEFINE S == {a \in K : k <= a}
  <2>1. k \in S /\ \A a \in S : D[a] \in S
    <3>0. \A a \in K : a \in Int /\ D[a] \in K
      BY <1>1
    <3>1. k \in Int /\ \A a \in K : a \in Int /\ D[a] \in Int
      BY <3>0
    <3>2. ASSUME NEW a \in S PROVE D[a] \in S
      <4>1. CASE a = N
        BY <1>1, <4>1
      <4>2. CASE a # N
        BY <1>1, <3>1, <4>2
      <4> QED BY <4>1, <4>2
    <3> QED BY <3>1, <3>2
  <2> HIDE DEF S
  <2>2. Up(D, k) \subseteq S
    BY <2>1, UpLeast
  <2> QED BY <2>2 DEF S
<1>3. k = N => Up(D, k) = {k}
  <2> SUFFICES ASSUME k = N PROVE Up(D, k) = {k}
    OBVIOUS
  <2>1. k \in {k} /\ \A a \in {k} : D[a] \in {k}
    BY <1>1
  <2>2. Up(D, k) \subseteq {k}
    BY <2>1, UpLeast
  <2> QED BY <2>2, UpSelf
<1>4. k # N => Up(D, k) = {k} \cup Up(D, D[k])
  BY <1>1, UpUnfold
<1> QED BY <1>1, <1>2, <1>3, <1>4, UpSelf

\* The fingers meet at what is above both.
LEMMA IntersectMeets ==
  ASSUME Len(postorder) \in Nat, DOMAIN postorder = 1..Len(postorder),
         NEW D, NEW K, IdomsOK(D, Len(postorder), K), NEW i \in K, NEW j \in K
  PROVE  /\ Intersect(D, i, j) \in K
         /\ Up(D, Intersect(D, i, j)) = Up(D, i) \cap Up(D, j)
<1> DEFINE N == Len(postorder)
           turns == 1..2*N
           indices == 1..N
           step == [p \in turns \X (indices \X indices) |-> Climb(D, p[2])]
           count == [n \in turns |-> n]
           Both == Up(D, i) \cap Up(D, j)
           I == [n \in 0..2*N |-> {f \in K \X K : /\ Up(D, f[1]) \cap Up(D, f[2]) = Both
                                                  /\ f[1] = f[2] \/ f[1] + f[2] >= i + j + n}]
<1>0. /\ N \in Nat \ {0} /\ K \subseteq 1..N /\ DOMAIN postorder = indices
      /\ \A k \in K \ {N} : D[k] \in K /\ k < D[k]
      /\ IdomsOK(D, N, K)
  BY DEF IdomsOK
<1>9. Intersect(D, i, j) = RunOver(step, <<i, j>>, count)[1]
  BY DEF Intersect
<1> HIDE DEF N
<1>1. N \in Nat \ {0} /\ K \subseteq 1..N /\ 2*N \in Nat /\ \A k \in K : k \in 1..N /\ k \in Int
  BY <1>0
<1>2. Len(count) = 2*N /\ \A n \in 1..2*N : count[n] = n
  BY <1>1
<1>3. <<i, j>> \in I[0]
  BY <1>1
<1>4. ASSUME NEW n \in 1..2*N, NEW f \in I[n-1] PROVE step[<<n, f>>] \in I[n]
  <2>0. n \in Int /\ n - 1 \in 0..2*N /\ n \in 0..2*N
    BY <1>1
  <2>1. PICK a, b \in K : /\ f = <<a, b>> /\ Up(D, a) \cap Up(D, b) = Both
                          /\ a = b \/ a + b >= i + j + (n - 1)
    BY <2>0
  <2>2. f \in indices \X indices
    BY <1>1, <2>1
  <2>3. step[<<n, f>>] = Climb(D, f)
    BY <1>1, <2>2
  <2>4. /\ a \in Int /\ b \in Int /\ i \in Int /\ j \in Int /\ a <= N /\ b <= N
    BY <1>1
  <2>5. ASSUME NEW c \in K, NEW d \in K, Up(D, c) \cap Up(D, d) = Both, c = d \/ c + d >= i + j + n
        PROVE  <<c, d>> \in I[n]
    BY <2>0, <2>5
  <2> HIDE DEF I, step
  <2>6. CASE a = b
    <3>1. Climb(D, f) = f
      BY <2>1, <2>4, <2>6 DEF Climb
    <3> QED BY <2>1, <2>3, <2>5, <2>6, <3>1
  <2>7. CASE a < b
    <3>1. Climb(D, f) = <<D[a], b>>
      <4>1. f[1] < f[2] /\ ~(f[2] < f[1]) /\ f[1] = a /\ f[2] = b
        BY <2>1, <2>4, <2>7
      <4> QED BY <4>1 DEF Climb
    <3>2. a # N /\ D[a] \in K /\ a < D[a]
      <4>1. a # N
        BY <1>1, <2>4, <2>7
      <4> QED BY <1>0, <4>1
    <3>3. Up(D, a) = {a} \cup Up(D, D[a]) /\ a \notin Up(D, b)
      <4>1. \A c \in Up(D, b) : b <= c
        BY <1>0, AboveFacts
      <4>2. ~(b <= a)
        BY <2>4, <2>7
      <4> QED BY <1>0, <3>2, <4>1, <4>2, AboveFacts
    <3>4. Up(D, D[a]) \cap Up(D, b) = Both
      BY <2>1, <3>3
    <3>5. D[a] + b >= i + j + n
      <4>1. D[a] \in Int
        BY <1>1, <3>2
      <4>2. a + b >= i + j + (n - 1)
        BY <2>1, <2>4, <2>7
      <4> DEFINE da == D[a]
      <4> HIDE DEF da
      <4>3. da \in Int /\ a < da
        BY <3>2, <4>1 DEF da
      <4>4. da + b >= i + j + n
        BY <2>0, <2>4, <4>2, <4>3
      <4> QED BY <4>4 DEF da
    <3> QED BY <2>3, <2>5, <3>1, <3>2, <3>4, <3>5
  <2>8. CASE b < a
    <3>1. Climb(D, f) = <<a, D[b]>>
      <4>1. f[2] < f[1] /\ ~(f[1] < f[2]) /\ f[1] = a /\ f[2] = b
        BY <2>1, <2>4, <2>8
      <4> QED BY <4>1 DEF Climb
    <3>2. b # N /\ D[b] \in K /\ b < D[b]
      <4>1. b # N
        BY <1>1, <2>4, <2>8
      <4> QED BY <1>0, <4>1
    <3>3. Up(D, b) = {b} \cup Up(D, D[b]) /\ b \notin Up(D, a)
      <4>1. \A c \in Up(D, a) : a <= c
        BY <1>0, AboveFacts
      <4>2. ~(a <= b)
        BY <2>4, <2>8
      <4> QED BY <1>0, <3>2, <4>1, <4>2, AboveFacts
    <3>4. Up(D, a) \cap Up(D, D[b]) = Both
      BY <2>1, <3>3
    <3>5. a + D[b] >= i + j + n
      <4>1. D[b] \in Int
        BY <1>1, <3>2
      <4>2. a + b >= i + j + (n - 1)
        BY <2>1, <2>4, <2>8
      <4> DEFINE db == D[b]
      <4> HIDE DEF db
      <4>3. db \in Int /\ b < db
        BY <3>2, <4>1 DEF db
      <4>4. a + db >= i + j + n
        BY <2>0, <2>4, <4>2, <4>3
      <4> QED BY <4>4 DEF db
    <3> QED BY <2>3, <2>5, <3>1, <3>2, <3>4, <3>5
  <2> QED BY <2>4, <2>6, <2>7, <2>8
<1> HIDE DEF I, step, count
<1>6. RunOver(step, <<i, j>>, count) \in I[2*N]
  <2>1. \A n \in 1..2*N : \A x \in I[n-1] : step[<<count[n], x>>] \in I[n]
    BY <1>2, <1>4
  <2> HIDE DEF N
  <2> QED BY <1>1, <1>2, <1>3, <2>1, RunOverInvariant
<1>7. PICK a, b \in K : /\ RunOver(step, <<i, j>>, count) = <<a, b>>
                        /\ Up(D, a) \cap Up(D, b) = Both
                        /\ a = b \/ a + b >= i + j + 2*N
  <2>1. 2*N \in 0..2*N
    BY <1>1
  <2>2. RunOver(step, <<i, j>>, count) \in
          {f \in K \X K : /\ Up(D, f[1]) \cap Up(D, f[2]) = Both
                          /\ f[1] = f[2] \/ f[1] + f[2] >= i + j + 2*N}
    BY <1>6, <2>1 DEF I
  <2> QED BY <2>2
<1>8. a = b
  <2>1. a \in 1..N /\ b \in 1..N /\ i \in 1..N /\ j \in 1..N
    BY <1>1
  <2> HIDE DEF N
  <2> QED BY <1>1, <1>7, <2>1
<1> QED BY <1>7, <1>8, <1>9

\* The fold over the predecessors meets at what is above all of them.
LEMMA MeetOfAll ==
  ASSUME Len(postorder) \in Nat, DOMAIN postorder = 1..Len(postorder),
         NEW D, NEW K, IdomsOK(D, Len(postorder), K), NEW known \in Seq(K), known # << >>
  PROVE  LET meet == RunOver([p \in (DOMAIN postorder) \X (DOMAIN postorder) |-> Intersect(D, p[1], p[2])],
                             Head(known), Tail(known))
         IN  meet \in K /\ \A a : a \in Up(D, meet) <=> \A x \in Elements(known) : a \in Up(D, x)
<1> DEFINE N == Len(postorder)
           step == [p \in (DOMAIN postorder) \X (DOMAIN postorder) |-> Intersect(D, p[1], p[2])]
           rest == Tail(known)
           len == Len(rest)
           I == [n \in 0..len |-> {x \in K : \A a : a \in Up(D, x) <=> \A m \in 1..n+1 : a \in Up(D, known[m])}]
<1>1. N \in Nat \ {0} /\ K \subseteq 1..N
  BY DEF IdomsOK
<1>2. /\ Len(known) = len + 1 /\ len \in Nat /\ Head(known) = known[1] /\ DOMAIN known = 1..len+1
      /\ \A m \in 1..len : rest[m] = known[m+1]
      /\ \A m \in 1..len+1 : known[m] \in K
  OBVIOUS
<1> HIDE DEF len, rest
<1>3. Head(known) \in I[0]
  <2>1. 0 \in 0..len /\ 1..0+1 = {1} /\ 1 \in 1..len+1
    BY <1>2
  <2> QED BY <1>2, <2>1
<1>4. ASSUME NEW n \in 1..len, NEW x \in I[n-1] PROVE step[<<rest[n], x>>] \in I[n]
  <2>1. /\ n - 1 \in 0..len /\ n \in 0..len /\ (n - 1) + 1 = n /\ 1..n+1 = 1..n \cup {n+1}
        /\ n + 1 \in 1..len+1 /\ rest[n] = known[n+1]
    BY <1>2
  <2>2. x \in K /\ \A a : a \in Up(D, x) <=> \A m \in 1..n : a \in Up(D, known[m])
    BY <2>1
  <2>3. known[n+1] \in K
    BY <1>2, <2>1
  <2>4. step[<<rest[n], x>>] = Intersect(D, known[n+1], x)
    BY <1>1, <2>1, <2>2, <2>3
  <2> DEFINE y == Intersect(D, known[n+1], x)
  <2>5. y \in K /\ Up(D, y) = Up(D, known[n+1]) \cap Up(D, x)
    BY <2>2, <2>3, IntersectMeets
  <2> HIDE DEF y, step
  <2>6. \A a : a \in Up(D, y) <=> \A m \in 1..n+1 : a \in Up(D, known[m])
    BY <2>1, <2>2, <2>5
  <2> QED BY <2>1, <2>4, <2>5, <2>6 DEF y
<1> HIDE DEF I, step
<1>5. RunOver(step, Head(known), rest) \in I[len]
  BY <1>2, <1>3, <1>4, RunOverInvariant DEF len
<1>6. len \in 0..len
  BY <1>2
<1>7. /\ RunOver(step, Head(known), rest) \in K
      /\ \A a : a \in Up(D, RunOver(step, Head(known), rest)) <=> \A m \in 1..len+1 : a \in Up(D, known[m])
  BY <1>5, <1>6 DEF I
<1>8. ASSUME NEW a
      PROVE (\A m \in 1..len+1 : a \in Up(D, known[m])) <=> (\A x \in Elements(known) : a \in Up(D, x))
  BY <1>2 DEF Elements
<1> QED BY <1>7, <1>8 DEF step, rest

-----------------------------------------------------------------------------
\* The passes over the indices: Pr the predecessors, par the tree of the
\* traversal, Dm what is on every path, p the position of the pass.
FlowOK(N, Pr, par, Dm) ==
  /\ N \in Nat \ {0} /\ DOMAIN par = 1..N-1
  /\ \A k \in 1..N-1 : par[k] \in k+1..N /\ par[k] \in Pr[k]
  /\ \A k \in 1..N : Pr[k] \subseteq 1..N /\ Dm[k] \subseteq 1..N
  /\ Dm[N] \subseteq {N}
  /\ \A k \in 1..N-1 : \A a \in Dm[k] \ {k} : \A j \in Pr[k] : a \in Dm[j]

\* What is above all of J; which indices are known; and a pass under way.
AllAbove(D, J) == {a \in DOMAIN D : \A j \in J : a \in Up(D, j)}

Known(K, N, p, more) ==
  \/ K = 1..N
  \/ K = p+1..N /\ (more \/ p = N - 1)
  \/ K = {N} /\ p = 0 /\ more

Refining(D, N, K, Pr, par, Dm, p, more) ==
  /\ IdomsOK(D, N, K) /\ p \in 0..N-1 /\ more \in BOOLEAN
  /\ \A k \in 1..N : k \in K <=> D[k] # N+1
  /\ Known(K, N, p, more)
  /\ \A k \in K \ {N} : /\ D[k] \in Up(par, k)
                        /\ k > p => D[k] \in Up(D, par[k])
                        /\ \A a \in AllAbove(D, Pr[k] \cap K) : D[k] <= a
                        /\ Dm[k] \ {k} \subseteq Dm[D[k]]
                        /\ ~more /\ k > p => AllAbove(D, Pr[k] \cap K) = Up(D, D[k])

\* Up the tree the indices grow.
LEMMA TreeFacts ==
  ASSUME NEW N, NEW Pr, NEW par, NEW Dm, FlowOK(N, Pr, par, Dm), NEW k \in 1..N
  PROVE  /\ Up(par, k) \subseteq {a \in 1..N : k <= a}
         /\ k # N => Up(par, k) = {k} \cup Up(par, par[k])
         /\ \A x \in Up(par, k) : \A a \in Dm[k] : x <= a => a \in Dm[x]
<1>1. /\ N \in Nat \ {0} /\ DOMAIN par = 1..N-1
      /\ \A i \in 1..N-1 : par[i] \in i+1..N /\ par[i] \in Pr[i]
      /\ \A i \in 1..N : Dm[i] \subseteq 1..N
      /\ \A i \in 1..N-1 : \A a \in Dm[i] \ {i} : \A j \in Pr[i] : a \in Dm[j]
  BY DEF FlowOK
<1>2. Up(par, k) \subseteq {a \in 1..N : k <= a}
  <2> DEFINE S == {a \in 1..N : k <= a}
  <2>1. k \in S /\ \A a \in S \cap DOMAIN par : par[a] \in S
    <3>1. \A a \in S \cap DOMAIN par : par[a] \in a+1..N /\ a \in Int /\ k <= a
      BY <1>1
    <3> QED BY <1>1, <3>1
  <2> HIDE DEF S
  <2>2. Up(par, k) \subseteq S
    BY <2>1, UpLeast
  <2> QED BY <2>2 DEF S
<1>3. k # N => Up(par, k) = {k} \cup Up(par, par[k])
  <2> SUFFICES ASSUME k # N PROVE Up(par, k) = {k} \cup Up(par, par[k])
    OBVIOUS
  <2>1. k \in DOMAIN par
    BY <1>1
  <2> QED BY <2>1, UpUnfold
<1>4. ASSUME NEW a \in Dm[k] PROVE \A x \in Up(par, k) : x <= a => a \in Dm[x]
  <2> DEFINE S == {x \in Up(par, k) : x <= a => a \in Dm[x]}
  <2>1. k \in S
    BY UpSelf
  <2>2. ASSUME NEW x \in S, x \in DOMAIN par PROVE par[x] \in S
    <3>1. par[x] \in Up(par, k)
      BY <2>2, UpStep
    <3>2. ASSUME par[x] <= a PROVE a \in Dm[par[x]]
      <4>1. x < a
        <5>1. par[x] \in x+1..N /\ x \in Int /\ a \in Int
          BY <1>1, <2>2
        <5> QED BY <3>2, <5>1
      <4>2. x \in Int /\ a \in Int /\ x <= a /\ a # x /\ x \in 1..N-1
        <5>1. x \in 1..N-1 /\ a \in 1..N
          BY <1>1, <2>2
        <5> QED BY <4>1, <5>1
      <4> QED BY <1>1, <2>2, <4>2
    <3> QED BY <3>1, <3>2
  <2> HIDE DEF S
  <2>3. Up(par, k) \subseteq S
    BY <2>1, <2>2, UpLeast
  <2> QED BY <2>3 DEF S
<1> QED BY <1>2, <1>3, <1>4

\* The estimates are above in the tree, and whatever is on every path is among them.
LEMMA EstimateFacts ==
  ASSUME NEW D, NEW N, NEW K, NEW Pr, NEW par, NEW Dm, FlowOK(N, Pr, par, Dm), IdomsOK(D, N, K),
         \A k \in K \ {N} : D[k] \in Up(par, k) /\ Dm[k] \ {k} \subseteq Dm[D[k]],
         NEW y \in K
  PROVE  Up(D, y) \subseteq Up(par, y) /\ Dm[y] \subseteq Up(D, y)
<1>1. /\ N \in K /\ K \subseteq 1..N /\ DOMAIN D = 1..N /\ D[N] = N /\ \A k \in K \ {N} : D[k] \in K
  BY DEF IdomsOK
<1>2. Up(D, y) \subseteq Up(par, y)
  <2> DEFINE S == Up(par, y) \cap K
  <2>1. y \in S
    BY UpSelf
  <2>2. ASSUME NEW k \in S PROVE D[k] \in S
    <3>1. CASE k = N
      BY <1>1, <3>1
    <3>2. CASE k # N
      <4>1. Up(par, k) \subseteq Up(par, y)
        BY UpTransitive
      <4> QED BY <1>1, <3>2, <4>1
    <3> QED BY <3>1, <3>2
  <2> HIDE DEF S
  <2>3. Up(D, y) \subseteq S
    BY <2>1, <2>2, UpLeast
  <2> QED BY <2>3 DEF S
<1>3. ASSUME NEW a \in Dm[y] PROVE a \in Up(D, y)
  <2> SUFFICES ASSUME a \notin Up(D, y) PROVE FALSE
    OBVIOUS
  <2> DEFINE S == {k \in Up(D, y) \cap K : a \in Dm[k]}
  <2>1. y \in S
    BY UpSelf
  <2>2. ASSUME NEW k \in S PROVE k # N /\ D[k] \in S
    <3>1. a # k
      OBVIOUS
    <3>2. k # N
      BY <3>1 DEF FlowOK
    <3>3. D[k] \in K /\ D[k] \in Up(D, y)
      BY <1>1, <3>2, UpStep
    <3>4. a \in Dm[D[k]]
      BY <3>1, <3>2
    <3> QED BY <3>2, <3>3, <3>4
  <2>3. Up(D, y) \subseteq S
    <3> HIDE DEF S
    <3> QED BY <2>1, <2>2, UpLeast
  \* The way up ends at the root.
  <2>4. N \in Up(D, y)
    <3> DEFINE W == {d \in Nat : \E k \in K : N - k = d /\ N \notin Up(D, k)}
    <3>1. ASSUME W # {} PROVE FALSE
      <4>1. PICK d \in W : \A e \in W : d <= e
        BY <3>1, LeastNatural
      <4>2. PICK k \in K : N - k = d /\ N \notin Up(D, k)
        BY <4>1
      <4>3. k # N
        BY <4>2, UpSelf
      <4>4. D[k] \in K /\ k < D[k] /\ N \notin Up(D, D[k])
        <5>1. Up(D, k) = {k} \cup Up(D, D[k])
          BY <1>1, <4>3, UpUnfold
        <5> QED BY <4>2, <4>3, <5>1 DEF IdomsOK
      <4>5. D[k] \in 1..N /\ k \in 1..N /\ N \in Nat
        BY <1>1, <4>4 DEF IdomsOK
      <4>6. N - D[k] \in Nat /\ N - D[k] < N - k
        BY <4>4, <4>5
      <4>7. N - D[k] \in W
        BY <4>4, <4>6
      <4> HIDE DEF W
      <4>8. d <= N - D[k] /\ d \in Int
        BY <4>1, <4>2, <4>5, <4>7
      <4> QED BY <4>2, <4>5, <4>6, <4>8
    <3>2. N - y \in Nat
      <4>1. y \in 1..N /\ N \in Nat
        BY <1>1 DEF FlowOK
      <4> QED BY <4>1
    <3> QED BY <3>1, <3>2
  <2> QED BY <2>2, <2>3, <2>4
<1> QED BY <1>2, <1>3

\* One block of a pass: its new estimate d is not below the old one, and what
\* is above any index becomes less.
LEMMA RefineKeeps ==
  ASSUME NEW D, NEW N, NEW K, NEW Pr, NEW par, NEW Dm, NEW p, NEW more,
         FlowOK(N, Pr, par, Dm), Refining(D, N, K, Pr, par, Dm, p, more), p > 0,
         NEW d \in K, Up(D, d) = AllAbove(D, Pr[p] \cap K)
  PROVE  /\ Refining([D EXCEPT ![p] = d], N, K \cup {p}, Pr, par, Dm, p - 1, more \/ D[p] # d)
         /\ p \in K => D[p] <= d
<1> DEFINE E == [D EXCEPT ![p] = d]
           L == K \cup {p}
<1>1. /\ N \in Nat \ {0} /\ DOMAIN par = 1..N-1
      /\ \A k \in 1..N-1 : par[k] \in k+1..N /\ par[k] \in Pr[k]
      /\ \A k \in 1..N : Pr[k] \subseteq 1..N /\ Dm[k] \subseteq 1..N
      /\ Dm[N] \subseteq {N}
      /\ \A k \in 1..N-1 : \A a \in Dm[k] \ {k} : \A j \in Pr[k] : a \in Dm[j]
  BY DEF FlowOK
<1>2. /\ K \subseteq 1..N /\ N \in K /\ DOMAIN D = 1..N /\ D[N] = N
      /\ \A k \in K \ {N} : D[k] \in K /\ k < D[k]
      /\ IdomsOK(D, N, K) /\ p \in 1..N-1 /\ more \in BOOLEAN
      /\ \A k \in 1..N : k \in K <=> D[k] # N+1
      /\ Known(K, N, p, more)
  <2>1. /\ IdomsOK(D, N, K) /\ p \in 0..N-1 /\ more \in BOOLEAN
        /\ \A k \in 1..N : k \in K <=> D[k] # N+1
        /\ Known(K, N, p, more)
    BY DEF Refining
  <2>2. p \in 1..N-1
    BY <1>1, <2>1
  <2>3. /\ K \subseteq 1..N /\ N \in K /\ DOMAIN D = 1..N /\ D[N] = N
        /\ \A k \in K \ {N} : D[k] \in K /\ k < D[k]
    BY <2>1 DEF IdomsOK
  <2> QED BY <2>1, <2>2, <2>3
<1>3. \A k \in K \ {N} : /\ D[k] \in Up(par, k)
                         /\ k > p => D[k] \in Up(D, par[k])
                         /\ \A a \in AllAbove(D, Pr[k] \cap K) : D[k] <= a
                         /\ Dm[k] \ {k} \subseteq Dm[D[k]]
                         /\ ~more /\ k > p => AllAbove(D, Pr[k] \cap K) = Up(D, D[k])
  BY DEF Refining
<1>4. p \in Int /\ p < N /\ p # N /\ p + 1 <= N /\ p \in 1..N /\ p - 1 \in 0..N-1
  BY <1>1, <1>2
<1>5. \A k \in p+1..N : k \in K /\ k \in 1..N
  BY <1>1, <1>2, <1>4 DEF Known
<1>6. par[p] \in Pr[p] \cap K /\ par[p] \in p+1..N
  BY <1>1, <1>2, <1>5
<1>7. \A x \in K : /\ Up(D, x) \subseteq {a \in K : x <= a}
                   /\ x # N => Up(D, x) = {x} \cup Up(D, D[x])
                   /\ Up(D, x) \subseteq Up(par, x) /\ Dm[x] \subseteq Up(D, x)
  <2>1. \A k \in K \ {N} : D[k] \in Up(par, k) /\ Dm[k] \ {k} \subseteq Dm[D[k]]
    BY <1>3
  <2>2. \A x \in K : Up(D, x) \subseteq Up(par, x) /\ Dm[x] \subseteq Up(D, x)
    BY <1>2, <2>1, EstimateFacts
  <2>3. \A x \in K : /\ Up(D, x) \subseteq {a \in K : x <= a}
                     /\ x # N => Up(D, x) = {x} \cup Up(D, D[x])
    <3> TAKE x \in K
    <3> QED BY <1>2, AboveFacts
  <2> QED BY <2>2, <2>3
<1>8. d \in Up(D, d) /\ d \in Up(D, par[p]) /\ d \in Int /\ p < d /\ d \in 1..N
  <2>1. d \in Up(D, par[p])
    BY <1>6, UpSelf DEF AllAbove
  <2>2. par[p] <= d
    BY <1>6, <1>7, <2>1
  <2>3. d \in 1..N /\ par[p] \in Int /\ p < par[p]
    BY <1>2, <1>4, <1>6
  <2> HIDE DEF E, L
  <2> QED BY <1>4, <2>1, <2>2, <2>3, UpSelf
<1>9. /\ DOMAIN E = 1..N /\ E[p] = d /\ \A k \in 1..N : k # p => E[k] = D[k]
  BY <1>2, <1>4
<1>23. E = [k \in 1..N |-> E[k]]
  BY <1>2
<1> HIDE DEF E
\* The estimate climbs.
<1>10. p \in K => D[p] <= d
  <2>1. d \in AllAbove(D, Pr[p] \cap K)
    BY <1>8
  <2> QED BY <1>3, <1>4, <2>1
\* Above what lies before p nothing changes, elsewhere there is less.
<1>11. \A x \in K : p < x => Up(E, x) = Up(D, x)
  <2> SUFFICES ASSUME NEW x \in K, p < x PROVE Up(E, x) = Up(D, x)
    OBVIOUS
  <2>1. \A s \in Up(D, x) : s \in 1..N /\ s # p
    <3>1. \A s \in Up(D, x) : s \in K /\ x <= s
      BY <1>7
    <3>2. \A s \in K : s \in 1..N /\ s \in Int
      BY <1>2
    <3> QED BY <1>4, <3>1, <3>2
  <2>2. \A s \in Up(D, x) : (s \in DOMAIN D <=> s \in DOMAIN E) /\ (s \in DOMAIN D => D[s] = E[s])
    BY <1>2, <1>9, <2>1
  <2> QED BY ONLY <2>2, UpSame
<1>12. p \in K => d \in Up(D, D[p])
  <2> SUFFICES ASSUME p \in K PROVE d \in Up(D, D[p])
    OBVIOUS
  <2>1. D[p] \in Up(par, par[p])
    <3>1. D[p] \in Up(par, p) /\ p < D[p] /\ D[p] \in 1..N
      BY <1>2, <1>3, <1>4
    <3>2. Up(par, p) = {p} \cup Up(par, par[p])
      BY <1>4, TreeFacts
    <3>3. D[p] # p
      BY <1>4, <3>1
    <3> QED BY <3>1, <3>2, <3>3
  <2> DEFINE S == {s \in Up(par, par[p]) : s <= d => d \in Up(D, s)}
  <2>2. par[p] \in S
    BY <1>8, UpSelf
  <2>3. ASSUME NEW s \in S, s \in DOMAIN par PROVE par[s] \in S
    <3>1. par[s] \in Up(par, par[p])
      BY <2>3, UpStep
    <3>2. s \in 1..N-1 /\ s \in p+1..N /\ s \in K /\ s # N /\ s > p
      <4>1. s \in 1..N /\ par[p] <= s
        <5>1. par[p] \in 1..N
          BY <1>5, <1>6
        <5> QED BY <2>3, <5>1, TreeFacts
      <4>2. s \in p+1..N
        BY <1>4, <1>6, <4>1
      <4>3. s \in 1..N-1
        BY <1>1, <2>3
      <4> QED BY <1>4, <1>5, <4>2, <4>3
    <3>3. ASSUME par[s] <= d PROVE d \in Up(D, par[s])
      <4>1. s < d
        <5>1. par[s] \in s+1..N /\ s \in Int
          BY <1>1, <3>2
        <5> QED BY <1>8, <3>3, <5>1
      <4>2. d \in Up(D, s) /\ d # s
        <5>1. s \in Int
          BY <3>2
        <5> QED BY <1>8, <2>3, <4>1, <5>1
      <4>3. d \in Up(D, D[s]) /\ D[s] \in Up(D, par[s])
        BY <1>3, <1>7, <3>2, <4>2
      <4> QED BY <4>3, UpTransitive
    <3> QED BY <3>1, <3>3
  <2>4. Up(par, par[p]) \subseteq S
    <3> HIDE DEF S
    <3> QED BY <2>2, <2>3, UpLeast
  <2> QED BY <1>10, <2>1, <2>4
<1>13. \A x \in K : Up(E, x) \subseteq Up(D, x)
  <2> SUFFICES ASSUME NEW x \in K PROVE Up(E, x) \subseteq Up(D, x)
    OBVIOUS
  <2>1. ASSUME NEW s \in Up(D, x) PROVE E[s] \in Up(D, x)
    <3>1. s \in K /\ s \in 1..N
      BY <1>2, <1>7
    <3>2. D[s] \in Up(D, x)
      BY <1>2, <3>1, UpStep
    <3>3. CASE s # p
      BY <1>9, <3>1, <3>2, <3>3
    <3>4. CASE s = p
      <4>1. d \in Up(D, D[s])
        BY <1>12, <3>1, <3>4
      <4> QED BY <1>9, <3>2, <3>4, <4>1, UpTransitive
    <3> QED BY <3>3, <3>4
  <2> QED BY <2>1, UpSelf, UpLeast
<1>14. IdomsOK(E, N, L)
  <2>1. ASSUME NEW k \in L \ {N} PROVE E[k] \in L /\ k < E[k]
    <3>1. CASE k = p
      BY <1>8, <1>9, <3>1
    <3>2. CASE k # p
      BY <1>2, <1>9, <3>2
    <3> QED BY <3>1, <3>2
  <2>2. L \subseteq 1..N /\ N \in L /\ E[N] = N
    BY <1>2, <1>4, <1>9
  <2> QED BY <1>1, <1>9, <1>23, <2>1, <2>2 DEF IdomsOK
<1>15. \A k \in 1..N : k \in L <=> E[k] # N+1
  <2>1. d # N+1
    BY <1>1, <1>8
  <2> QED BY <1>2, <1>9, <2>1
<1>16. Known(L, N, p - 1, more \/ D[p] # d)
  <2>1. CASE K = 1..N
    <3>1. L = 1..N
      BY <1>4, <2>1
    <3> QED BY <3>1 DEF Known
  <2>2. CASE K = p+1..N
    <3>1. L = p..N /\ (p - 1) + 1 = p
      BY <1>4, <1>1, <2>2
    <3>2. p \notin K
      BY <1>4, <2>2
    <3>3. D[p] # d
      <4>1. D[p] = N+1
        BY <1>2, <1>4, <3>2
      <4> QED BY <1>1, <1>8, <4>1
    <3> QED BY <3>1, <3>3 DEF Known
  <2> QED BY <1>2, <1>4, <2>1, <2>2 DEF Known
<1> DEFINE J(k) == Pr[k] \cap K
<1>17. AllAbove(D, J(p)) = Up(D, d)
  OBVIOUS
<1>18. ASSUME NEW k \in L \ {N}, k # p
       PROVE  /\ E[k] \in Up(par, k)
              /\ k > p - 1 => E[k] \in Up(E, par[k])
              /\ \A a \in AllAbove(E, Pr[k] \cap L) : E[k] <= a
              /\ Dm[k] \ {k} \subseteq Dm[E[k]]
  <2>1. k \in K \ {N} /\ k \in 1..N /\ E[k] = D[k]
    BY <1>2, <1>9, <1>18
  <2>2. k > p - 1 => E[k] \in Up(E, par[k])
    <3> SUFFICES ASSUME k > p - 1 PROVE E[k] \in Up(E, par[k])
      OBVIOUS
    <3>1. k > p /\ k \in 1..N-1
      BY <1>1, <1>4, <1>18, <2>1
    <3>2. par[k] \in k+1..N
      BY <1>1, <3>1
    <3>3. par[k] \in p+1..N /\ p < par[k]
      BY <1>4, <3>1, <3>2
    <3>4. Up(E, par[k]) = Up(D, par[k])
      BY <1>5, <1>11, <3>3
    <3> QED BY <1>3, <2>1, <3>1, <3>4
  <2>3. AllAbove(E, Pr[k] \cap L) \subseteq AllAbove(D, Pr[k] \cap K)
    BY <1>2, <1>9, <1>13 DEF AllAbove
  <2> QED BY <1>3, <2>1, <2>2, <2>3
<1>19. /\ E[p] \in Up(par, p)
       /\ E[p] \in Up(E, par[p])
       /\ \A a \in AllAbove(E, Pr[p] \cap L) : E[p] <= a
       /\ Dm[p] \ {p} \subseteq Dm[E[p]]
  <2>1. d \in Up(par, par[p])
    BY <1>6, <1>7, <1>8
  <2>2. d \in Up(par, p)
    BY <1>4, <2>1, TreeFacts
  <2>3. Up(E, par[p]) = Up(D, par[p])
    <3>1. p < par[p] /\ par[p] \in K
      BY <1>4, <1>6
    <3> QED BY <1>11, <3>1
  <2>4. AllAbove(E, Pr[p] \cap L) \subseteq AllAbove(D, Pr[p] \cap K)
    BY <1>2, <1>9, <1>13 DEF AllAbove
  <2>5. \A a \in Up(D, d) : d <= a
    BY <1>7
  <2>6. ASSUME NEW a \in Dm[p] \ {p} PROVE a \in Dm[d]
    <3>1. \A j \in Pr[p] : a \in Dm[j]
      BY <1>1, <1>2, <2>6
    <3>2. a \in Up(D, d)
      <4>1. \A j \in Pr[p] \cap K : a \in Up(D, j)
        BY <1>7, <3>1
      <4>2. a \in DOMAIN D
        BY <1>1, <1>2, <1>4
      <4> QED BY <4>1, <4>2 DEF AllAbove
    <3>3. d <= a /\ a \in Dm[par[p]] /\ par[p] \in 1..N
      BY <1>5, <1>6, <2>5, <3>1, <3>2
    <3> QED BY <2>1, <3>3, TreeFacts
  <2> QED BY <1>8, <1>9, <2>2, <2>3, <2>4, <2>5, <2>6
<1>20. ASSUME ~(more \/ D[p] # d), NEW k \in L \ {N}, k > p - 1
       PROVE  AllAbove(E, Pr[k] \cap L) = Up(E, E[k])
  <2>1. D[p] = d /\ ~more
    BY <1>20
  <2>2. E = D
    <3>1. E = [n \in 1..N |-> IF n = p THEN d ELSE D[n]] /\ D = [n \in 1..N |-> D[n]]
      BY <1>2 DEF E, IdomsOK
    <3> QED BY <2>1, <3>1
  <2>3. p \in K /\ L = K
    BY <1>1, <1>2, <1>4, <1>8, <2>1
  <2>4. CASE k = p
    BY <1>9, <2>2, <2>3, <2>4
  <2>5. CASE k # p
    <3>1. k > p
      <4>1. k \in 1..N
        BY <1>2, <1>4, <1>20
      <4> QED BY <1>4, <1>20, <2>5, <4>1
    <3> QED BY <1>3, <1>20, <2>1, <2>2, <2>3, <3>1
  <2> QED BY <2>4, <2>5
<1>21. (more \/ D[p] # d) \in BOOLEAN
  OBVIOUS
<1> HIDE DEF L
<1>22. Refining(E, N, L, Pr, par, Dm, p - 1, more \/ D[p] # d)
  BY <1>4, <1>14, <1>15, <1>16, <1>18, <1>19, <1>20, <1>21 DEF Refining
<1> QED BY <1>10, <1>22 DEF E, L
-----------------------------------------------------------------------------
\* The graphs of the analyses.

\* What is in a sequence picked from another.
LEMMA PickedMembers ==
  ASSUME NEW X, NEW s \in Seq(X), NEW K
  PROVE  /\ AtPositions(s, K) \in Seq(X)
         /\ Elements(AtPositions(s, K)) = {s[k] : k \in DOMAIN s \cap K}
<1> DEFINE S == {s[k] : k \in DOMAIN s \cap K}
<1>1. \A k \in DOMAIN s : k \in K => s[k] \in S
  OBVIOUS
<1>2. \A k \in DOMAIN s : k \in K => s[k] \in X
  OBVIOUS
<1>3. AtPositions(s, K) \in Seq(X)
  BY <1>2, AtPositionsType
<1>4. Elements(AtPositions(s, K)) \subseteq S
  <2>1. AtPositions(s, K) \in Seq(S)
    BY <1>1, AtPositionsType
  <2> QED BY <2>1, SeqFacts
<1>5. S \subseteq Elements(AtPositions(s, K))
  BY AtPositionsKeeps
<1> QED BY <1>3, <1>4, <1>5

\* The blocks of the function.
LEMMA FunctionFacts ==
  ASSUME succs \in Functions
  PROVE  /\ Len(succs) \in Nat \ {0} /\ Blocks = 1..Len(succs) /\ 1 \in Blocks
         /\ \A b \in Blocks : succs[b] \in Seq(Blocks)
         /\ Order \in Seq(Blocks) /\ Elements(Order) = Blocks
         /\ Reverse(Order) \in Seq(Blocks) /\ Elements(Reverse(Order)) = Blocks
         /\ Exits \in Seq(Blocks) /\ Elements(Exits) = {b \in Blocks : succs[b] = << >>}
<1>1. succs # << >> /\ succs \in Seq(Seq(Blocks))
  BY DominatorsAssumption DEF Blocks
<1>2. /\ Len(succs) \in Nat \ {0} /\ Blocks = 1..Len(succs) /\ 1 \in Blocks
      /\ \A b \in Blocks : succs[b] \in Seq(Blocks)
  BY <1>1 DEF Blocks
<1>3. Order \in Seq(Blocks) /\ DOMAIN Order = Blocks /\ \A b \in Blocks : Order[b] = b
  BY <1>2 DEF Order
<1>4. Elements(Order) = Blocks
  BY <1>3 DEF Elements
<1>5. Reverse(Order) \in Seq(Blocks) /\ Elements(Reverse(Order)) = Blocks
  <2>1. Reverse(Order) = [k \in 1..Len(succs) |-> Order[(Len(succs) - k) + 1]]
    BY <1>2 DEF Reverse, Order
  <2>2. \A k \in 1..Len(succs) : (Len(succs) - k) + 1 \in 1..Len(succs)
                                 /\ (Len(succs) - ((Len(succs) - k) + 1)) + 1 = k
    BY <1>2
  <2>3. \A k \in Blocks : Reverse(Order)[k] = (Len(succs) - k) + 1 /\ DOMAIN Reverse(Order) = Blocks
    BY <1>2, <1>3, <2>1, <2>2
  <2>4. Reverse(Order) \in Seq(Blocks)
    <3>1. \A k \in 1..Len(succs) : Order[(Len(succs) - k) + 1] \in Blocks
      BY <1>2, <1>3, <2>2
    <3> QED BY <1>2, <2>1, <3>1
  <2>5. ASSUME NEW b \in Blocks PROVE b \in Elements(Reverse(Order))
    <3>1. (Len(succs) - b) + 1 \in Blocks
      BY <1>2, <2>2
    <3>2. Reverse(Order)[(Len(succs) - b) + 1] = b
      BY <1>2, <2>2, <2>3, <3>1
    <3> QED BY <2>3, <3>1, <3>2 DEF Elements
  <2> QED BY <2>4, <2>5, SeqFacts
<1>6. Exits \in Seq(Blocks) /\ Elements(Exits) = {b \in Blocks : succs[b] = << >>}
  <2>1. Elements(Exits) = {Order[k] : k \in DOMAIN Order \cap {b \in Blocks : succs[b] = << >>}}
        /\ Exits \in Seq(Blocks)
    BY <1>3, PickedMembers DEF Exits
  <2> QED BY <1>3, <2>1
<1> QED BY <1>2, <1>3, <1>4, <1>5, <1>6

\* The predecessors of a block are those whose successor it is.
LEMMA PredecessorsMirror ==
  ASSUME succs \in Functions
  PROVE  LET ps == Predecessors(succs, Order)
         IN  /\ DOMAIN ps = Blocks /\ \A b \in Blocks : ps[b] \in Seq(Blocks)
             /\ \A a, b \in Blocks : a \in Elements(ps[b]) <=> b \in Elements(succs[a])
<1> DEFINE from(b, n) == LET a == Order[n]
                         IN  AtPositions([k \in DOMAIN succs[a] |-> a],
                                         {k \in DOMAIN succs[a] : succs[a][k] = b})
           all(b) == [n \in DOMAIN Order |-> from(b, n)]
           ps == Predecessors(succs, Order)
           S(b) == {a \in Blocks : b \in Elements(succs[a])}
<1>1. ps = [b \in Blocks |-> Concatenated(all(b))]
  BY DEF Predecessors, Blocks
<1>2. ASSUME NEW b \in Blocks
      PROVE  /\ Concatenated(all(b)) \in Seq(S(b))
             /\ S(b) \subseteq Elements(Concatenated(all(b)))
  <2>1. Order = [n \in 1..Len(succs) |-> n] /\ Len(succs) \in Nat
    BY FunctionFacts DEF Order
  <2>2. ASSUME NEW n \in 1..Len(succs)
        PROVE from(b, n) \in Seq(S(b)) /\ (n \in S(b) => n \in Elements(from(b, n)))
    <3>1. Order[n] = n /\ n \in Blocks /\ succs[n] \in Seq(Blocks)
      BY <2>1, <2>2, FunctionFacts
    <3> DEFINE own == [k \in DOMAIN succs[n] |-> n]
               K == {k \in DOMAIN succs[n] : succs[n][k] = b}
    <3>2. own \in Seq(Blocks) /\ DOMAIN own = DOMAIN succs[n] /\ \A k \in DOMAIN own : own[k] = n
      <4>1. Len(succs[n]) \in Nat /\ DOMAIN succs[n] = 1..Len(succs[n])
        BY <3>1
      <4> QED BY <3>1, <4>1
    <3>3. \A k \in DOMAIN own : k \in K => n \in S(b)
      BY <3>1, <3>2 DEF Elements
    <3>4. n \in S(b) => \E k \in DOMAIN own : k \in K
      BY <3>1, <3>2 DEF Elements
    <3> HIDE DEF own, K, S
    <3>5. AtPositions(own, K) \in Seq(S(b)) /\ (n \in S(b) => n \in Elements(AtPositions(own, K)))
      <4>1. \A k \in DOMAIN own : k \in K => own[k] \in S(b)
        BY <3>2, <3>3
      <4>2. AtPositions(own, K) \in Seq(S(b))
        BY <3>2, <4>1, AtPositionsType
      <4>3. n \in S(b) => n \in Elements(AtPositions(own, K))
        BY <3>2, <3>4, AtPositionsKeeps
      <4> QED BY <4>2, <4>3
    <3> QED BY <3>1, <3>5 DEF own, K
  <2>3. DOMAIN all(b) = 1..Len(succs) /\ Len(all(b)) = Len(succs)
        /\ \A n \in 1..Len(succs) : all(b)[n] = from(b, n)
    BY <2>1
  <2> HIDE DEF all, from, S
  <2>4. Concatenated(all(b)) \in Seq(S(b))
    BY <2>1, <2>2, <2>3, ConcatenatedType
  <2>5. \A n \in 1..Len(succs) : Elements(all(b)[n]) \subseteq Elements(Concatenated(all(b)))
    <3>1. \A n \in 1..Len(succs) : all(b)[n] \in Seq(S(b))
      BY <2>2, <2>3
    <3> DEFINE ss == all(b)
    <3> HIDE DEF ss
    <3>2. DOMAIN ss = 1..Len(succs) /\ Len(ss) = Len(succs) /\ \A n \in 1..Len(succs) : ss[n] \in Seq(S(b))
      BY <2>3, <3>1 DEF ss
    <3>3. \A n \in 1..Len(succs) : Elements(ss[n]) \subseteq Elements(Concatenated(ss))
      BY <2>1, <3>2, ConcatenatedKeeps
    <3> QED BY <3>3 DEF ss
  <2>6. S(b) \subseteq 1..Len(succs)
    BY FunctionFacts DEF S
  <2> QED BY <2>2, <2>3, <2>4, <2>5, <2>6
<1> HIDE DEF all
<1>3. ASSUME NEW b \in Blocks PROVE ps[b] \in Seq(Blocks) /\ Elements(ps[b]) = S(b)
  <2>1. ps[b] = Concatenated(all(b)) /\ S(b) \subseteq Blocks
    BY <1>1
  <2> HIDE DEF ps, S
  <2>2. ps[b] \in Seq(S(b)) /\ S(b) \subseteq Elements(ps[b])
    BY <1>2, <2>1
  <2>3. Elements(ps[b]) \subseteq S(b)
    BY <2>2, SeqFacts
  <2>4. ps[b] \in Seq(Blocks)
    BY <2>1, <2>2, SeqWidens
  <2> QED BY <2>2, <2>3, <2>4
<1>4. DOMAIN ps = Blocks
  BY <1>1
<1> QED BY <1>3, <1>4

\* More to start from, more reached.
LEMMA ReachedGrows ==
  ASSUME NEW next, NEW R, NEW S, NEW cut, R \subseteq S, IsFiniteSet(DOMAIN next)
  PROVE  Reached(next, R, cut) \subseteq Reached(next, S, cut)
BY ReachedIsClosed, ReachedIsLeast

\* Every block is reached from the roots of a traversal.
LEMMA RootsFacts ==
  ASSUME NEW S, NEW blocks \in Seq(S), Elements(blocks) = S, NEW next, NEW back,
         IsFiniteSet(DOMAIN next)
  PROVE  LET roots == TraversalRoots(blocks, next, back)
         IN  /\ roots \in Seq(S)
             /\ S \subseteq Reached(next, Elements(roots), {})
<1> DEFINE AddStranded(b, roots) ==
             IF b \in Reached(next, Elements(roots), {}) THEN roots ELSE Append(roots, b)
           sources == AtPositions(blocks, {k \in DOMAIN blocks : back[blocks[k]] = << >>})
           step == [p \in Elements(blocks) \X Seq(Elements(blocks)) |-> AddStranded(p[1], p[2])]
           len == Len(blocks)
           I == [n \in 0..len |-> {r \in Seq(S) : \A m \in 1..n : blocks[m] \in Reached(next, Elements(r), {})}]
<1>1. len \in Nat /\ DOMAIN blocks = 1..len /\ \A m \in 1..len : blocks[m] \in S
  OBVIOUS
<1>2. sources \in I[0]
  <2>1. sources \in Seq(S)
    BY PickedMembers
  <2> HIDE DEF sources
  <2> QED BY <1>1, <2>1
<1>3. ASSUME NEW n \in 1..len, NEW r \in I[n-1] PROVE step[<<blocks[n], r>>] \in I[n]
  <2>1. n - 1 \in 0..len /\ n \in 0..len /\ 1..n = 1..n-1 \cup {n}
    BY <1>1
  <2>2. r \in Seq(S) /\ \A m \in 1..n-1 : blocks[m] \in Reached(next, Elements(r), {})
    BY <2>1
  <2>3. step[<<blocks[n], r>>] = AddStranded(blocks[n], r)
    BY <1>1, <2>2
  <2>4. CASE blocks[n] \in Reached(next, Elements(r), {})
    BY <2>1, <2>2, <2>3, <2>4
  <2>5. CASE blocks[n] \notin Reached(next, Elements(r), {})
    <3> DEFINE more == Append(r, blocks[n])
    <3>1. more \in Seq(S) /\ Len(more) = Len(r) + 1 /\ Len(r) \in Nat /\ DOMAIN r = 1..Len(r)
          /\ DOMAIN more = 1..Len(r)+1 /\ more[Len(r)+1] = blocks[n]
          /\ \A k \in 1..Len(r) : more[k] = r[k]
      BY <1>1, <2>2
    <3>2. Elements(r) \subseteq Elements(more) /\ blocks[n] \in Elements(more)
      <4>1. Len(r) + 1 \in DOMAIN more /\ \A k \in 1..Len(r) : k \in DOMAIN more
        BY <3>1
      <4> HIDE DEF more
      <4> QED BY <3>1, <4>1 DEF Elements
    <3> HIDE DEF more
    <3>3. Reached(next, Elements(r), {}) \subseteq Reached(next, Elements(more), {})
      BY <3>2, ReachedGrows
    <3>4. blocks[n] \in Reached(next, Elements(more), {})
      BY <3>2, ReachedIsClosed
    <3>5. more \in I[n]
      BY <2>1, <2>2, <3>1, <3>3, <3>4
    <3> QED BY <2>3, <2>5, <3>5 DEF more
  <2> QED BY <2>4, <2>5
<1> HIDE DEF I, step, sources
<1>4. RunOver(step, sources, blocks) \in I[len]
  BY <1>1, <1>2, <1>3, RunOverInvariant
<1>5. len \in 0..len
  BY <1>1
<1>6. /\ RunOver(step, sources, blocks) \in Seq(S)
      /\ \A m \in 1..len : blocks[m] \in Reached(next, Elements(RunOver(step, sources, blocks)), {})
  BY <1>4, <1>5 DEF I
<1>7. TraversalRoots(blocks, next, back) = RunOver(step, sources, blocks)
  BY DEF TraversalRoots, step, sources
<1> QED BY <1>1, <1>6, <1>7 DEF Elements

\* A graph whose edges ahead are those back the other way round.
GraphOK(g, V) ==
  /\ IsFiniteSet(V) /\ g.root \in V /\ DOMAIN g.ahead = V /\ DOMAIN g.back = V
  /\ \A n \in V : g.ahead[n] \in Seq(V) /\ g.back[n] \in Seq(V)
  /\ \A m, n \in V : n \in Elements(g.ahead[m]) <=> m \in Elements(g.back[n])

\* Elements of a sequence with one in front.
LEMMA InFront ==
  ASSUME NEW S, NEW x \in S, NEW s \in Seq(S)
  PROVE  /\ <<x>> \in Seq(S) /\ Elements(<<x>>) = {x}
         /\ <<x>> \o s \in Seq(S) /\ Elements(<<x>> \o s) = {x} \cup Elements(s)
<1>1. <<x>> \in Seq(S)
  BY SingletonSequence
<1>2. Elements(<<x>>) = {x}
  BY DEF Elements
<1>3. <<x>> \o s \in Seq(S)
  BY <1>1
<1>4. Elements(<<x>> \o s) = Elements(<<x>>) \cup Elements(s)
  BY <1>1, JoinedElements
<1> QED BY <1>1, <1>2, <1>3, <1>4

\* The empty sequence has no elements.
LEMMA EmptySequence ==
  ASSUME NEW S
  PROVE  << >> \in Seq(S) /\ Elements(<< >>) = {}
BY DEF Elements

\* The graphs of all analyses are such.
LEMMA GraphsAreOK ==
  ASSUME succs \in Functions, preds = Predecessors(succs, Order), NEW a \in Analyses
  PROVE  GraphOK(GraphOf(a), DOMAIN GraphOf(a).ahead)
<1> DEFINE All == Blocks \cup {PseudoEntry, PseudoExit}
<1>1. /\ Len(succs) \in Nat \ {0} /\ Blocks = 1..Len(succs) /\ 1 \in Blocks
      /\ \A b \in Blocks : succs[b] \in Seq(Blocks)
      /\ Exits \in Seq(Blocks) /\ Elements(Exits) = {b \in Blocks : succs[b] = << >>}
  BY FunctionFacts
<1>2. /\ DOMAIN preds = Blocks /\ \A b \in Blocks : preds[b] \in Seq(Blocks)
      /\ \A x, y \in Blocks : x \in Elements(preds[y]) <=> y \in Elements(succs[x])
  BY PredecessorsMirror
<1>3. PseudoEntry \notin Blocks /\ PseudoExit \notin Blocks /\ PseudoEntry # PseudoExit
  BY <1>1 DEF PseudoEntry, PseudoExit
<1>4. IsFiniteSet(Blocks) /\ DOMAIN succs = Blocks
  BY <1>1, FS_Interval DEF Blocks
<1>5. IsFiniteSet(All) /\ IsFiniteSet(Blocks \cup {PseudoEntry}) /\ IsFiniteSet(Blocks \cup {PseudoExit})
  <2>1. IsFiniteSet({PseudoEntry}) /\ IsFiniteSet({PseudoExit})
    BY FS_Singleton
  <2>2. IsFiniteSet(Blocks \cup {PseudoEntry}) /\ IsFiniteSet(Blocks \cup {PseudoExit})
    BY <1>4, <2>1, FS_Union
  <2>3. IsFiniteSet((Blocks \cup {PseudoEntry}) \cup {PseudoExit})
    BY <2>1, <2>2, FS_Union
  <2>4. All = (Blocks \cup {PseudoEntry}) \cup {PseudoExit}
    OBVIOUS
  <2> HIDE DEF All
  <2> QED BY <2>2, <2>3, <2>4
<1>6. \A b \in Blocks : /\ Elements(succs[b]) \subseteq Blocks /\ Elements(preds[b]) \subseteq Blocks
                        /\ succs[b] = << >> => Elements(succs[b]) = {}
  BY <1>1, <1>2, SeqFacts
<1>7. Sources \in Seq(Blocks) /\ Sinks \in Seq(Blocks)
      /\ Elements(Sources) \subseteq Blocks /\ Elements(Sinks) \subseteq Blocks
  <2>1. Sources \in Seq(Blocks)
    BY <1>4, FunctionFacts, RootsFacts DEF Sources
  <2>2. Sinks \in Seq(Blocks)
    BY <1>2, <1>4, FunctionFacts, RootsFacts DEF Sinks
  <2> QED BY <2>1, <2>2, SeqFacts
<1>8. CASE a = "dominators"
  <2> DEFINE V == Blocks \cup {PseudoEntry}
             f == ForwardSuccessors
             g == ForwardPredecessors
  <2>1. DOMAIN f = V /\ DOMAIN g = V /\ f[PseudoEntry] = <<1>> /\ g[PseudoEntry] = << >>
        /\ \A b \in Blocks : f[b] = succs[b] /\ g[b] = IF b = 1 THEN <<PseudoEntry>> \o preds[b] ELSE preds[b]
    BY <1>3 DEF ForwardSuccessors, ForwardPredecessors
  <2>2. GraphOf(a) = [root |-> PseudoEntry, ahead |-> f, back |-> g]
    BY <1>8 DEF GraphOf
  <2> HIDE DEF f, g
  <2>3. \A b \in Blocks : succs[b] \in Seq(V) /\ preds[b] \in Seq(V) /\ PseudoEntry \in V /\ 1 \in V
    BY <1>1, <1>2, SeqWidens
  <2>4. \A b \in Blocks : f[b] \in Seq(V) /\ Elements(f[b]) = Elements(succs[b])
    BY <2>1, <2>3
  <2>5. \A b \in Blocks : /\ g[b] \in Seq(V)
                          /\ Elements(g[b]) = Elements(preds[b]) \cup (IF b = 1 THEN {PseudoEntry} ELSE {})
    <3> TAKE b \in Blocks
    <3>1. CASE b = 1
      <4>1. g[b] = <<PseudoEntry>> \o preds[b]
        BY <2>1, <3>1
      <4>2. preds[b] \in Seq(V) /\ PseudoEntry \in V
        BY <2>3
      <4> HIDE DEF V
      <4>3. /\ <<PseudoEntry>> \o preds[b] \in Seq(V)
            /\ Elements(<<PseudoEntry>> \o preds[b]) = {PseudoEntry} \cup Elements(preds[b])
        BY <4>2, InFront
      <4> QED BY <3>1, <4>1, <4>3
    <3>2. CASE b # 1
      BY <2>1, <2>3, <3>2
    <3> QED BY <3>1, <3>2
  <2>6. f[PseudoEntry] \in Seq(V) /\ g[PseudoEntry] \in Seq(V)
        /\ Elements(f[PseudoEntry]) = {1} /\ Elements(g[PseudoEntry]) = {}
    BY <1>1, <2>1, <2>3, InFront, EmptySequence
  <2>7. \A n \in V : f[n] \in Seq(V) /\ g[n] \in Seq(V)
    BY <2>4, <2>5, <2>6
  <2>8. ASSUME NEW m \in V, NEW n \in V PROVE n \in Elements(f[m]) <=> m \in Elements(g[n])
    <3>1. CASE m = PseudoEntry
      BY <1>1, <1>3, <1>6, <2>5, <2>6, <3>1
    <3>2. CASE m # PseudoEntry /\ n = PseudoEntry
      BY <1>3, <1>6, <2>4, <2>6, <3>2
    <3>3. CASE m # PseudoEntry /\ n # PseudoEntry
      BY <1>2, <2>4, <2>5, <3>3
    <3> QED BY <3>1, <3>2, <3>3
  <2> HIDE DEF V
  <2>9. IsFiniteSet(V) /\ PseudoEntry \in V
    BY <1>5 DEF V
  <2> QED BY <2>1, <2>2, <2>7, <2>8, <2>9 DEF GraphOK
<1>9. CASE a = "post_dominators"
  <2> DEFINE V == Blocks \cup {PseudoExit}
             f == InvertedSuccessors
             g == InvertedPredecessors
  <2>1. DOMAIN f = V /\ DOMAIN g = V /\ f[PseudoExit] = Exits /\ g[PseudoExit] = << >>
        /\ \A b \in Blocks : f[b] = preds[b] /\ g[b] = IF succs[b] = << >> THEN <<PseudoExit>> ELSE succs[b]
    BY <1>3 DEF InvertedSuccessors, InvertedPredecessors
  <2>2. GraphOf(a) = [root |-> PseudoExit, ahead |-> f, back |-> g]
    BY <1>9 DEF GraphOf
  <2> HIDE DEF f, g
  <2>3. \A b \in Blocks : succs[b] \in Seq(V) /\ preds[b] \in Seq(V) /\ PseudoExit \in V /\ Exits \in Seq(V)
    BY <1>1, <1>2, SeqWidens
  <2>4. \A b \in Blocks : f[b] \in Seq(V) /\ Elements(f[b]) = Elements(preds[b])
    BY <2>1, <2>3
  <2>5. \A b \in Blocks : /\ g[b] \in Seq(V)
                          /\ Elements(g[b]) = IF succs[b] = << >> THEN {PseudoExit} ELSE Elements(succs[b])
    <3>1. PseudoExit \in V
      OBVIOUS
    <3> HIDE DEF V
    <3>2. <<PseudoExit>> \in Seq(V) /\ Elements(<<PseudoExit>>) = {PseudoExit}
      BY <3>1, EmptySequence, InFront
    <3> QED BY <2>1, <2>3, <3>2
  <2>6. f[PseudoExit] \in Seq(V) /\ g[PseudoExit] \in Seq(V)
        /\ Elements(f[PseudoExit]) = Elements(Exits) /\ Elements(g[PseudoExit]) = {}
    BY <1>1, <2>1, <2>3, EmptySequence
  <2>7. \A n \in V : f[n] \in Seq(V) /\ g[n] \in Seq(V)
    BY <2>4, <2>5, <2>6
  <2>8. ASSUME NEW m \in V, NEW n \in V PROVE n \in Elements(f[m]) <=> m \in Elements(g[n])
    <3>1. CASE m = PseudoExit
      <4>1. CASE n = PseudoExit
        BY <1>1, <1>3, <2>6, <3>1, <4>1
      <4>2. CASE n # PseudoExit
        BY <1>1, <1>3, <1>6, <2>5, <2>6, <3>1, <4>2
      <4> QED BY <4>1, <4>2
    <3>2. CASE m # PseudoExit /\ n = PseudoExit
      BY <1>3, <1>6, <2>4, <2>6, <3>2
    <3>3. CASE m # PseudoExit /\ n # PseudoExit
      <4>1. m \in Blocks /\ n \in Blocks
        BY <3>3
      <4>2. n \in Elements(f[m]) <=> m \in Elements(succs[n])
        BY <1>2, <2>4, <4>1
      <4>3. CASE succs[n] = << >>
        <5>1. Elements(g[n]) = {PseudoExit} /\ Elements(succs[n]) = {}
          BY <1>6, <2>5, <4>1, <4>3
        <5> QED BY <3>3, <4>2, <5>1
      <4>4. CASE succs[n] # << >>
        BY <2>5, <4>1, <4>2, <4>4
      <4> QED BY <4>3, <4>4
    <3> QED BY <3>1, <3>2, <3>3
  <2> HIDE DEF V
  <2>9. IsFiniteSet(V) /\ PseudoExit \in V
    BY <1>5 DEF V
  <2> QED BY <2>1, <2>2, <2>7, <2>8, <2>9 DEF GraphOK
<1>10. a \in {"validator", "validator_post"} =>
         LET f == AugmentedSuccessors
             g == AugmentedPredecessors
         IN  /\ DOMAIN f = All /\ DOMAIN g = All
             /\ \A n \in All : f[n] \in Seq(All) /\ g[n] \in Seq(All)
             /\ \A m, n \in All : n \in Elements(f[m]) <=> m \in Elements(g[n])
  <2> DEFINE V == All
             f == AugmentedSuccessors
             g == AugmentedPredecessors
  <2>1. DOMAIN f = V /\ DOMAIN g = V /\ f[PseudoExit] = << >> /\ g[PseudoExit] = Sinks
        /\ f[PseudoEntry] = Sources /\ g[PseudoEntry] = << >>
        /\ \A b \in Blocks : /\ f[b] = IF b \in Elements(Sinks) THEN <<PseudoExit>> \o succs[b] ELSE succs[b]
                             /\ g[b] = IF b \in Elements(Sources) THEN <<PseudoEntry>> \o preds[b] ELSE preds[b]
    BY <1>3 DEF AugmentedSuccessors, AugmentedPredecessors
  <2> HIDE DEF f, g
  <2>3. /\ PseudoExit \in V /\ PseudoEntry \in V /\ Sources \in Seq(V) /\ Sinks \in Seq(V)
        /\ \A b \in Blocks : succs[b] \in Seq(V) /\ preds[b] \in Seq(V)
    <3>1. Blocks \subseteq V
      OBVIOUS
    <3> QED BY <1>1, <1>2, <1>7, <3>1, SeqWidens
  <2>4. \A b \in Blocks : /\ f[b] \in Seq(V)
                          /\ Elements(f[b]) = Elements(succs[b]) \cup (IF b \in Elements(Sinks) THEN {PseudoExit} ELSE {})
    <3> TAKE b \in Blocks
    <3>1. CASE b \in Elements(Sinks)
      <4>1. f[b] = <<PseudoExit>> \o succs[b]
        BY <2>1, <3>1
      <4>2. succs[b] \in Seq(V) /\ PseudoExit \in V
        BY <2>3
      <4> HIDE DEF V
      <4>3. /\ <<PseudoExit>> \o succs[b] \in Seq(V)
            /\ Elements(<<PseudoExit>> \o succs[b]) = {PseudoExit} \cup Elements(succs[b])
        BY <4>2, InFront
      <4> QED BY <3>1, <4>1, <4>3
    <3>2. CASE b \notin Elements(Sinks)
      BY <2>1, <2>3, <3>2
    <3> QED BY <3>1, <3>2
  <2>5. \A b \in Blocks : /\ g[b] \in Seq(V)
                          /\ Elements(g[b]) = Elements(preds[b]) \cup (IF b \in Elements(Sources) THEN {PseudoEntry} ELSE {})
    <3> TAKE b \in Blocks
    <3>1. CASE b \in Elements(Sources)
      <4>1. g[b] = <<PseudoEntry>> \o preds[b]
        BY <2>1, <3>1
      <4>2. preds[b] \in Seq(V) /\ PseudoEntry \in V
        BY <2>3
      <4> HIDE DEF V
      <4>3. /\ <<PseudoEntry>> \o preds[b] \in Seq(V)
            /\ Elements(<<PseudoEntry>> \o preds[b]) = {PseudoEntry} \cup Elements(preds[b])
        BY <4>2, InFront
      <4> QED BY <3>1, <4>1, <4>3
    <3>2. CASE b \notin Elements(Sources)
      BY <2>1, <2>3, <3>2
    <3> QED BY <3>1, <3>2
  <2>6. /\ f[PseudoExit] \in Seq(V) /\ g[PseudoExit] \in Seq(V)
        /\ f[PseudoEntry] \in Seq(V) /\ g[PseudoEntry] \in Seq(V)
        /\ Elements(f[PseudoExit]) = {} /\ Elements(g[PseudoExit]) = Elements(Sinks)
        /\ Elements(f[PseudoEntry]) = Elements(Sources) /\ Elements(g[PseudoEntry]) = {}
    BY <2>1, <2>3, EmptySequence
  <2>7. \A n \in V : f[n] \in Seq(V) /\ g[n] \in Seq(V)
    BY <2>4, <2>5, <2>6
  <2>8. ASSUME NEW m \in V, NEW n \in V PROVE n \in Elements(f[m]) <=> m \in Elements(g[n])
    <3>1. CASE m = PseudoEntry
      BY <1>3, <1>6, <1>7, <2>5, <2>6, <3>1
    <3>2. CASE m = PseudoExit
      <4>1. Elements(f[m]) = {} /\ \A b \in Blocks : PseudoExit \notin Elements(g[b])
        BY <1>3, <1>6, <2>5, <2>6, <3>2
      <4>2. PseudoExit \notin Elements(g[PseudoExit]) /\ PseudoExit \notin Elements(g[PseudoEntry])
        BY <1>3, <1>7, <2>6
      <4> QED BY <3>2, <4>1, <4>2
    <3>3. CASE m \in Blocks
      <4>1. CASE n = PseudoEntry
        BY <1>3, <1>6, <2>4, <2>6, <3>3, <4>1
      <4>2. CASE n = PseudoExit
        BY <1>3, <1>6, <2>4, <2>6, <3>3, <4>2
      <4>3. CASE n \in Blocks
        <5>1. n \in Elements(f[m]) <=> n \in Elements(succs[m])
          BY <1>3, <2>4, <3>3, <4>3
        <5>2. m \in Elements(g[n]) <=> m \in Elements(preds[n])
          BY <1>3, <2>5, <3>3, <4>3
        <5> QED BY <1>2, <3>3, <4>3, <5>1, <5>2
      <4> QED BY <4>1, <4>2, <4>3
    <3> QED BY <3>1, <3>2, <3>3
  <2> HIDE DEF V
  <2> QED BY <2>1, <2>7, <2>8 DEF f, g, V
<1> HIDE DEF All
<1>11. CASE a = "validator"
  <2>1. GraphOf(a) = [root |-> 1, ahead |-> AugmentedSuccessors, back |-> AugmentedPredecessors]
    BY <1>11 DEF GraphOf
  <2>2. 1 \in All
    BY <1>1 DEF All
  <2> QED BY <1>5, <1>10, <1>11, <2>1, <2>2 DEF GraphOK
<1>12. CASE a = "validator_post"
  <2>1. GraphOf(a) = [root |-> PseudoExit, ahead |-> AugmentedPredecessors, back |-> AugmentedSuccessors]
    BY <1>12 DEF GraphOf
  <2>2. PseudoExit \in All
    BY DEF All
  <2> QED BY <1>5, <1>10, <1>12, <2>1, <2>2 DEF GraphOK
<1> QED BY <1>8, <1>9, <1>11, <1>12, DominatorsAssumption
-----------------------------------------------------------------------------
\* The passes.

\* The edges back and what is on every path, by postorder index.
PredsAt(g, po) ==
  [k \in DOMAIN po |-> {j \in DOMAIN po : po[j] \in Elements(g.back[po[k]])}]
MissedAt(g, po) ==
  [k \in DOMAIN po |-> {a \in DOMAIN po : po[k] \notin Reached(g.ahead, {g.root}, {po[a]})}]

\* A postorder lists every node reached once, the root last.
LEMMA PostorderFacts ==
  ASSUME NEW g, NEW V, GraphOK(g, V), NEW po, PostorderOK(V, g.ahead, g.root, po)
  PROVE  /\ Len(po) \in Nat \ {0} /\ DOMAIN po = 1..Len(po) /\ po[Len(po)] = g.root
         /\ \A k \in 1..Len(po) : po[k] \in V
         /\ \A i, j \in 1..Len(po) : po[i] = po[j] => i = j
         /\ \A j \in 1..Len(po) : \A x \in Elements(g.ahead[po[j]]) : \E k \in 1..Len(po) : po[k] = x
         /\ \A i, j \in 1..Len(po) : j \in PredsAt(g, po)[i] <=> po[i] \in Elements(g.ahead[po[j]])
         /\ \A i, a \in 1..Len(po) :
              a \in MissedAt(g, po)[i] <=> po[i] \notin Reached(g.ahead, {g.root}, {po[a]})
<1>1. po \in Seq(V) /\ po # << >> /\ po[Len(po)] = g.root
      /\ \A i, j \in 1..Len(po) : po[i] = po[j] => i = j
      /\ Elements(po) = Reached(g.ahead, {g.root}, {})
  BY DEF PostorderOK
<1>2. Len(po) \in Nat \ {0} /\ DOMAIN po = 1..Len(po) /\ \A k \in 1..Len(po) : po[k] \in V
  BY <1>1
<1>3. DOMAIN g.ahead = V /\ IsFiniteSet(V)
  BY DEF GraphOK
<1>4. ASSUME NEW j \in 1..Len(po), NEW x \in Elements(g.ahead[po[j]])
      PROVE  \E k \in 1..Len(po) : po[k] = x
  <2>1. po[j] \in Elements(po)
    BY <1>2 DEF Elements
  <2>2. po[j] \in Reached(g.ahead, {g.root}, {}) \cap DOMAIN g.ahead
    BY <1>1, <1>2, <1>3, <2>1
  <2>3. Elements(g.ahead[po[j]]) \ {} \subseteq Reached(g.ahead, {g.root}, {})
    BY <1>3, <2>2, ReachedIsClosed
  <2>4. x \in Elements(po)
    <3>1. x \in Elements(g.ahead[po[j]]) \ {}
      OBVIOUS
    <3>2. x \in Reached(g.ahead, {g.root}, {})
      BY <2>3, <3>1, Zenon
    <3>3. Elements(po) = Reached(g.ahead, {g.root}, {})
      BY <1>1
    <3> QED BY <3>2, <3>3, Zenon
  <2> QED BY <1>2, <2>4 DEF Elements
<1>5. \A i, j \in 1..Len(po) : j \in PredsAt(g, po)[i] <=> po[i] \in Elements(g.ahead[po[j]])
  BY <1>2 DEF PredsAt, GraphOK
<1>6. \A i, a \in 1..Len(po) :
        a \in MissedAt(g, po)[i] <=> po[i] \notin Reached(g.ahead, {g.root}, {po[a]})
  BY <1>2 DEF MissedAt
<1> QED BY <1>1, <1>2, <1>4, <1>5, <1>6

\* A postorder and the tree of its traversal are what the passes need.
LEMMA FlowFromPostorder ==
  ASSUME NEW g, NEW V, GraphOK(g, V), NEW po, PostorderOK(V, g.ahead, g.root, po)
  PROVE  \E par : FlowOK(Len(po), PredsAt(g, po), par, MissedAt(g, po))
<1> DEFINE N == Len(po)
           Pr == PredsAt(g, po)
           Dm == MissedAt(g, po)
<1>1. /\ N \in Nat \ {0} /\ DOMAIN po = 1..N /\ po[N] = g.root
      /\ \A k \in 1..N : po[k] \in V
      /\ \A i, j \in 1..N : po[i] = po[j] => i = j
      /\ \A i, j \in 1..N : j \in Pr[i] <=> po[i] \in Elements(g.ahead[po[j]])
      /\ \A i, a \in 1..N : a \in Dm[i] <=> po[i] \notin Reached(g.ahead, {g.root}, {po[a]})
  BY PostorderFacts
<1>2. DOMAIN g.ahead = V /\ IsFiniteSet(V)
  BY DEF GraphOK
<1>3. PICK tree : \A k \in 1..N-1 : tree[k] \in k+1..N /\ po[k] \in Elements(g.ahead[po[tree[k]]])
  BY DEF PostorderOK
<1> DEFINE par == [k \in 1..N-1 |-> tree[k]]
<1>4. \A k \in 1..N : Pr[k] \subseteq 1..N /\ Dm[k] \subseteq 1..N
  BY <1>1 DEF PredsAt, MissedAt
<1> HIDE DEF Pr, Dm, N
<1>5. ASSUME NEW k \in 1..N-1 PROVE par[k] \in k+1..N /\ par[k] \in Pr[k]
  <2>1. tree[k] \in k+1..N /\ po[k] \in Elements(g.ahead[po[tree[k]]])
    BY <1>3
  <2>2. tree[k] \in 1..N /\ k \in 1..N
    BY <1>1, <2>1
  <2> QED BY <1>1, <2>1, <2>2
<1>6. ASSUME NEW a \in Dm[N] PROVE a = N
  <2>1. N \in 1..N /\ a \in 1..N
    BY <1>1, <1>4
  <2>2. g.root \notin Reached(g.ahead, {g.root}, {po[a]})
    BY <1>1, <2>1
  <2>3. po[a] = g.root
    BY <1>2, <2>2, ReachedIsClosed
  <2> QED BY <1>1, <2>1, <2>3
<1>7. ASSUME NEW k \in 1..N-1, NEW a \in Dm[k] \ {k}, NEW j \in Pr[k] PROVE a \in Dm[j]
  <2>1. k \in 1..N /\ a \in 1..N /\ j \in 1..N
    BY <1>1, <1>4
  <2>2. po[k] \notin Reached(g.ahead, {g.root}, {po[a]}) /\ po[k] \in Elements(g.ahead[po[j]]) /\ po[k] # po[a]
    BY <1>1, <2>1
  <2>3. po[j] \notin Reached(g.ahead, {g.root}, {po[a]})
    BY <1>1, <1>2, <2>1, <2>2, ReachedIsClosed
  <2> QED BY <1>1, <2>1, <2>3
<1>8. DOMAIN par = 1..N-1
  OBVIOUS
<1> HIDE DEF par
<1>9. FlowOK(N, Pr, par, Dm)
  BY <1>1, <1>4, <1>5, <1>6, <1>7, <1>8 DEF FlowOK
<1> QED BY <1>9 DEF N, Pr, Dm

\* Whatever holds of the root and passes along the edges, but for those into a,
\* holds of all that some path leads to that misses a.
LEMMA MissedIsLeast ==
  ASSUME NEW g, NEW V, GraphOK(g, V), NEW po, PostorderOK(V, g.ahead, g.root, po),
         NEW a \in 1..Len(po), NEW S, a # Len(po) => Len(po) \in S,
         \A k \in 1..Len(po) - 1 : k # a /\ (\E j \in PredsAt(g, po)[k] : j \in S) => k \in S,
         NEW b \in 1..Len(po), a \notin MissedAt(g, po)[b]
  PROVE  b \in S
<1> DEFINE N == Len(po)
           T == {po[k] : k \in S \cap 1..N}
<1>1. /\ N \in Nat \ {0} /\ DOMAIN po = 1..N /\ po[N] = g.root
      /\ \A k \in 1..N : po[k] \in V
      /\ \A i, j \in 1..N : po[i] = po[j] => i = j
      /\ \A j \in 1..N : \A x \in Elements(g.ahead[po[j]]) : \E k \in 1..N : po[k] = x
      /\ \A i, j \in 1..N : j \in PredsAt(g, po)[i] <=> po[i] \in Elements(g.ahead[po[j]])
      /\ \A i, c \in 1..N : c \in MissedAt(g, po)[i] <=> po[i] \notin Reached(g.ahead, {g.root}, {po[c]})
  BY PostorderFacts
<1>2. DOMAIN g.ahead = V /\ IsFiniteSet(V)
  BY DEF GraphOK
<1>3. {g.root} \ {po[a]} \subseteq T
  <2> SUFFICES ASSUME po[a] # g.root PROVE g.root \in T
    OBVIOUS
  <2>1. N \in 1..N /\ a # N /\ po[N] = g.root
    <3>1. N \in Nat \ {0} /\ po[N] = g.root
      BY <1>1
    <3> QED BY <3>1
  <2>2. N \in S
    BY <2>1
  <2> HIDE DEF N
  <2> QED BY <2>1, <2>2
<1>4. ASSUME NEW m \in T \cap DOMAIN g.ahead, NEW x \in Elements(g.ahead[m]) \ {po[a]} PROVE x \in T
  <2>1. PICK j \in S \cap 1..N : m = po[j]
    OBVIOUS
  <2>2. PICK k \in 1..N : po[k] = x
    BY <1>1, <2>1
  <2>3. k # a /\ j \in PredsAt(g, po)[k]
    BY <1>1, <2>1, <2>2
  <2>4. k \in S
    <3>1. CASE k = N
      BY <2>3, <3>1
    <3>2. CASE k # N
      <4>1. k \in 1..N-1
        <5>1. N \in Nat \ {0}
          BY <1>1
        <5> QED BY <3>2, <5>1
      <4> QED BY <2>1, <2>3, <4>1
    <3> QED BY <3>1, <3>2
  <2> QED BY <2>2, <2>4
<1> HIDE DEF T
<1>5. Reached(g.ahead, {g.root}, {po[a]}) \subseteq T
  BY <1>2, <1>3, <1>4, ReachedIsLeast
<1>6. po[b] \in T
  BY <1>1, <1>5
<1> QED BY <1>1, <1>6 DEF T

\* Nothing is known but the root.
LEMMA PassesStart ==
  ASSUME NEW N, NEW Pr, NEW par, NEW Dm, FlowOK(N, Pr, par, Dm)
  PROVE  Refining([i \in 1..N |-> IF i = N THEN i ELSE N + 1], N, {N}, Pr, par, Dm, 0, TRUE)
<1> DEFINE D == [i \in 1..N |-> IF i = N THEN i ELSE N + 1]
<1>1. N \in Nat \ {0} /\ N \in 1..N /\ 0 \in 0..N-1
  BY DEF FlowOK
<1>2. IdomsOK(D, N, {N})
  BY <1>1 DEF IdomsOK
<1>3. \A k \in 1..N : k \in {N} <=> D[k] # N+1
  BY <1>1
<1> HIDE DEF D
<1>4. Refining(D, N, {N}, Pr, par, Dm, 0, TRUE)
  BY <1>1, <1>2, <1>3 DEF Refining, Known
<1> QED BY <1>4 DEF D

\* The next pass.
LEMMA PassBegins ==
  ASSUME NEW D, NEW N, NEW K, NEW Pr, NEW par, NEW Dm, FlowOK(N, Pr, par, Dm),
         Refining(D, N, K, Pr, par, Dm, 0, TRUE)
  PROVE  Refining(D, N, K, Pr, par, Dm, N - 1, FALSE)
<1>1. N \in Nat \ {0} /\ N - 1 \in 0..N-1 /\ FALSE \in BOOLEAN
  BY DEF FlowOK
<1>2. /\ IdomsOK(D, N, K) /\ Known(K, N, 0, TRUE) /\ K \subseteq 1..N
      /\ \A k \in 1..N : k \in K <=> D[k] # N+1
      /\ \A k \in K \ {N} : /\ D[k] \in Up(par, k)
                            /\ \A a \in AllAbove(D, Pr[k] \cap K) : D[k] <= a
                            /\ Dm[k] \ {k} \subseteq Dm[D[k]]
  BY DEF Refining, IdomsOK
<1>3. \A k \in K \ {N} : ~(k > N - 1)
  <2> TAKE k \in K \ {N}
  <2>1. k \in 1..N /\ k # N
    BY <1>2
  <2> QED BY <1>1, <2>1
<1>4. Known(K, N, N - 1, FALSE)
  <2>1. K = 1..N \/ K = {N}
    BY <1>1, <1>2 DEF Known
  <2>2. (N - 1) + 1..N = {N}
    BY <1>1
  <2> QED BY <2>1, <2>2 DEF Known
<1> QED BY <1>1, <1>2, <1>3, <1>4 DEF Refining

\* What is above a block is what is on every path to it.
UpIsMissed(D, g, po) == \A k \in 1..Len(po) : Up(D, k) = MissedAt(g, po)[k]

\* A pass that changed nothing leaves the dominators that paths give.
LEMMA PassesEnd ==
  ASSUME NEW D, NEW K, NEW par, NEW g, NEW V, GraphOK(g, V), NEW po, PostorderOK(V, g.ahead, g.root, po),
         FlowOK(Len(po), PredsAt(g, po), par, MissedAt(g, po)),
         Refining(D, Len(po), K, PredsAt(g, po), par, MissedAt(g, po), 0, FALSE)
  PROVE  /\ K = 1..Len(po) /\ IdomsOK(D, Len(po), 1..Len(po))
         /\ UpIsMissed(D, g, po)
<1> DEFINE N == Len(po)
           Pr == PredsAt(g, po)
           Dm == MissedAt(g, po)
<1>0. \A a \in 1..N : \A S : (a # N => N \in S)
          /\ (\A k \in 1..N - 1 : k # a /\ (\E j \in Pr[k] : j \in S) => k \in S)
          => \A b \in 1..N : a \notin Dm[b] => b \in S
  BY MissedIsLeast
<1> HIDE DEF N, Pr, Dm
<1>1. N \in Nat \ {0} /\ N \in 1..N /\ \A k \in 1..N : Dm[k] \subseteq 1..N /\ Pr[k] \subseteq 1..N
  BY DEF FlowOK, N, Pr, Dm
<1>2. /\ IdomsOK(D, N, K) /\ Known(K, N, 0, FALSE)
      /\ \A k \in K \ {N} : /\ D[k] \in Up(par, k) /\ Dm[k] \ {k} \subseteq Dm[D[k]]
                            /\ k > 0 => AllAbove(D, Pr[k] \cap K) = Up(D, D[k])
  BY DEF Refining, N, Pr, Dm
<1>3. K = 1..N
  BY <1>1, <1>2 DEF Known
<1>4. ASSUME NEW k \in 1..N PROVE Dm[k] \subseteq Up(D, k)
  <2>1. FlowOK(N, Pr, par, Dm)
    BY DEF N, Pr, Dm
  <2> QED BY <1>2, <1>3, <2>1, EstimateFacts
<1>5. ASSUME NEW k \in 1..N, NEW a \in Up(D, k), a \notin Dm[k] PROVE FALSE
  <2> DEFINE S == {x \in 1..N : a \notin Up(D, x)}
  <2>1. a \in 1..N
    BY <1>2, <1>3, <1>5, AboveFacts
  <2>2. a # N => N \in S
    BY <1>1, <1>2, <1>3, AboveFacts
  <2>3. ASSUME NEW x \in 1..N - 1, x # a, NEW j \in Pr[x], j \in S PROVE x \in S
    <3>1. x \in 1..N /\ x # N /\ x > 0 /\ j \in 1..N
      BY <1>1, <2>3
    <3>2. AllAbove(D, Pr[x] \cap K) = Up(D, D[x]) /\ j \in Pr[x] \cap K
      BY <1>2, <1>3, <2>3, <3>1
    <3>3. a \notin Up(D, D[x])
      BY <2>3, <3>2 DEF AllAbove
    <3>4. Up(D, x) = {x} \cup Up(D, D[x])
      BY <1>2, <1>3, <3>1, AboveFacts
    <3> QED BY <2>3, <3>1, <3>3, <3>4
  <2> HIDE DEF S
  <2>4. k \in S
    BY <1>0, <1>5, <2>1, <2>2, <2>3
  <2> QED BY <1>5, <2>4 DEF S
<1>6. \A k \in 1..N : Up(D, k) = Dm[k]
  BY <1>4, <1>5
<1> QED BY <1>2, <1>3, <1>6 DEF N, Dm, UpIsMissed
-----------------------------------------------------------------------------
\* The inductive invariant of the dominators.

\* The estimates are those of some pass under way.
Passing ==
  \E K, par :
    /\ FlowOK(Len(postorder), PredsAt(graph, postorder), par, MissedAt(graph, postorder))
    /\ Refining(dominator, Len(postorder), K, PredsAt(graph, postorder), par,
                MissedAt(graph, postorder), at, changed)

\* The dominator tree is there, or being numbered.
BuildsTree == phase \in {"number", "done"} /\ analysis \in {"dominators", "post_dominators"}

\* The inductive invariant of the dominators: the traversals are searches of their
\* graphs, and the estimates those of a pass that keeps what is on every path.
DomInv ==
  /\ succs \in Functions /\ preds = Predecessors(succs, Order)
  /\ analysis \in Analyses /\ graph = GraphOf(analysis)
  /\ phase \in {"traverse", "refine", "number", "done"}
  /\ phase = "traverse" => /\ Search(DOMAIN graph.ahead, graph.ahead, graph.root, walk)
                           /\ dominator = << >> /\ at = 0 /\ changed
  /\ phase # "traverse" => /\ PostorderOK(DOMAIN graph.ahead, graph.ahead, graph.root, postorder)
                           /\ Passing
  /\ phase \in {"refine", "done"} => walk.stack = << >>
  /\ phase \in {"number", "done"} => at = 0 /\ ~changed
  /\ BuildsTree => /\ children = [b \in Elements(postorder) |-> ChildrenOf(b)]
                   /\ Search(Elements(postorder), children, graph.root, walk)

\* The graph of a function stays.
LEMMA SameGraph ==
  ASSUME UNCHANGED <<succs, preds, analysis>>
  PROVE  /\ UNCHANGED GraphOf(analysis) /\ UNCHANGED <<Blocks, Order, Exits>>
         /\ Predecessors(succs, Order)' = Predecessors(succs, Order)
<1>1. UNCHANGED <<Blocks, Order, PseudoExit, PseudoEntry>>
  BY DEF Blocks, Order, PseudoExit, PseudoEntry
<1>2. UNCHANGED <<Exits, Sources, Sinks>>
  BY <1>1 DEF Exits, Sources, Sinks
<1>3. UNCHANGED <<AugmentedSuccessors, AugmentedPredecessors>>
  BY <1>1, <1>2 DEF AugmentedSuccessors, AugmentedPredecessors
<1>4. UNCHANGED <<ForwardSuccessors, ForwardPredecessors, InvertedSuccessors, InvertedPredecessors>>
  BY <1>1, <1>2 DEF ForwardSuccessors, ForwardPredecessors, InvertedSuccessors, InvertedPredecessors
<1>5. UNCHANGED GraphOf(analysis)
  BY <1>1, <1>3, <1>4 DEF GraphOf
<1> QED BY <1>1, <1>2, <1>5

\* The index of a block in the postorder.
LEMMA IndexFacts ==
  ASSUME NEW V, GraphOK(graph, V), PostorderOK(V, graph.ahead, graph.root, postorder)
  PROVE  /\ \A x \in 1..Len(postorder) : IndexOf(postorder[x]) = x
         /\ \A b \in Elements(postorder) : IndexOf(b) \in 1..Len(postorder) /\ postorder[IndexOf(b)] = b
<1>1. /\ DOMAIN postorder = 1..Len(postorder)
      /\ \A i, j \in 1..Len(postorder) : postorder[i] = postorder[j] => i = j
  BY PostorderFacts
<1>2. ASSUME NEW x \in 1..Len(postorder) PROVE IndexOf(postorder[x]) = x
  <2>1. \E i \in DOMAIN postorder : postorder[i] = postorder[x]
    BY <1>1
  <2>2. IndexOf(postorder[x]) \in DOMAIN postorder /\ postorder[IndexOf(postorder[x])] = postorder[x]
    BY <2>1 DEF IndexOf
  <2> QED BY <1>1, <2>2
<1>3. ASSUME NEW b \in Elements(postorder) PROVE IndexOf(b) \in 1..Len(postorder) /\ postorder[IndexOf(b)] = b
  <2>1. \E i \in DOMAIN postorder : postorder[i] = b
    BY DEF Elements
  <2> QED BY <1>1, <2>1 DEF IndexOf
<1> QED BY <1>2, <1>3

\* The predecessors that are processed, by index.
LEMMA ProcessedFacts ==
  ASSUME NEW V, GraphOK(graph, V), PostorderOK(V, graph.ahead, graph.root, postorder),
         NEW k \in 1..Len(postorder), NEW K \in SUBSET (1..Len(postorder)),
         \A i \in 1..Len(postorder) : i \in K <=> dominator[i] # Len(postorder) + 1
  PROVE  /\ Processed(postorder[k]) \in Seq(K)
         /\ Elements(Processed(postorder[k])) = PredsAt(graph, postorder)[k] \cap K
<1> DEFINE N == Len(postorder)
           back == graph.back[postorder[k]]
           indices == [n \in DOMAIN back |->
                         IF back[n] \in Elements(postorder) THEN IndexOf(back[n]) ELSE 0]
           P == {n \in DOMAIN indices : indices[n] # 0 /\ dominator[indices[n]] # Undefined}
<1>1. /\ N \in Nat \ {0} /\ DOMAIN postorder = 1..N /\ \A i \in 1..N : postorder[i] \in V
      /\ \A x \in 1..N : IndexOf(postorder[x]) = x
      /\ \A b \in Elements(postorder) : IndexOf(b) \in 1..N /\ postorder[IndexOf(b)] = b
  BY PostorderFacts, IndexFacts
<1>2. back \in Seq(V)
  BY <1>1 DEF GraphOK
<1>3. Len(back) \in Nat /\ DOMAIN back = 1..Len(back)
  BY <1>2
<1>4. PredsAt(graph, postorder)[k] = {j \in 1..N : postorder[j] \in Elements(back)}
  BY <1>1 DEF PredsAt
<1>5. Processed(postorder[k]) = AtPositions(indices, P)
  BY DEF Processed
<1>6. Undefined = N + 1
  BY DEF Undefined
<1> HIDE DEF back, N
<1>7. \A n \in DOMAIN back : indices[n] \in 0..N
  BY <1>1
<1>8. indices \in Seq(0..N) /\ DOMAIN indices = DOMAIN back
  BY <1>3, <1>7
<1>9. \A n \in DOMAIN indices : n \in P <=> indices[n] \in K
  <2> TAKE n \in DOMAIN indices
  <2>1. indices[n] \in 0..N
    BY <1>7, <1>8
  <2>2. CASE indices[n] = 0
    <3>1. 0 \notin K
      BY <1>1 DEF N
    <3> QED BY <2>2, <3>1
  <2>3. CASE indices[n] # 0
    <3>1. indices[n] \in 1..N
      BY <1>1, <2>1, <2>3
    <3> HIDE DEF indices
    <3> QED BY <1>6, <2>3, <3>1 DEF N
  <2> QED BY <2>2, <2>3
<1>10. \A x \in 1..N : postorder[x] \in Elements(back) <=> \E n \in DOMAIN back : indices[n] = x
  <2> TAKE x \in 1..N
  <2>1. ASSUME NEW n \in DOMAIN back, back[n] = postorder[x] PROVE indices[n] = x
    <3>1. back[n] \in Elements(postorder)
      BY <1>1, <2>1 DEF Elements
    <3> QED BY <1>1, <2>1, <3>1
  <2>2. ASSUME NEW n \in DOMAIN back, indices[n] = x PROVE back[n] = postorder[x]
    <3>1. x # 0
      BY <1>1
    <3>2. back[n] \in Elements(postorder) /\ IndexOf(back[n]) = x
      BY <2>2, <3>1
    <3> QED BY <1>1, <3>2
  <2> QED BY <2>1, <2>2 DEF Elements
<1> HIDE DEF indices, P
<1>11. AtPositions(indices, P) \in Seq(K)
  BY <1>8, <1>9, AtPositionsType
<1>12. Elements(AtPositions(indices, P)) = {indices[n] : n \in DOMAIN indices \cap P}
  BY <1>8, PickedMembers
<1>13. ASSUME NEW x PROVE x \in Elements(AtPositions(indices, P)) <=> x \in PredsAt(graph, postorder)[k] \cap K
  <2>1. K \subseteq 1..N
    BY DEF N
  <2> QED BY <1>4, <1>8, <1>9, <1>10, <1>12, <2>1
<1> QED BY <1>5, <1>11, <1>13

\* One block of a pass.
LEMMA RefineStep ==
  ASSUME DomInv, Refine
  PROVE  /\ Passing'
         /\ \A i \in DOMAIN dominator :
              dominator[i] # Undefined => dominator'[i] \in dominator[i] .. Len(postorder)
<1> DEFINE N == Len(postorder)
           V == DOMAIN graph.ahead
           Pr == PredsAt(graph, postorder)
           Dm == MissedAt(graph, postorder)
<1>1. /\ phase = "refine" /\ at > 0 /\ at' = at - 1 /\ UNCHANGED <<postorder, graph>>
  BY DEF Refine
<1>2. GraphOK(graph, V) /\ PostorderOK(V, graph.ahead, graph.root, postorder)
  BY <1>1, GraphsAreOK DEF DomInv
<1>3. PICK K, par : FlowOK(N, Pr, par, Dm) /\ Refining(dominator, N, K, Pr, par, Dm, at, changed)
  BY <1>1 DEF DomInv, Passing
<1>4. N \in Nat \ {0} /\ DOMAIN postorder = 1..N
  BY <1>2, PostorderFacts
<1>5. /\ IdomsOK(dominator, N, K) /\ at \in 1..N-1 /\ changed \in BOOLEAN
      /\ \A k \in 1..N : k \in K <=> dominator[k] # N+1
      /\ Known(K, N, at, changed)
      /\ K \subseteq 1..N /\ N \in K /\ DOMAIN dominator = 1..N
      /\ \A k \in K : dominator[k] \in K
  <2>1. /\ IdomsOK(dominator, N, K) /\ at \in 0..N-1 /\ changed \in BOOLEAN
        /\ \A k \in 1..N : k \in K <=> dominator[k] # N+1
        /\ Known(K, N, at, changed)
    BY <1>3 DEF Refining
  <2>2. at \in 1..N-1
    BY <1>1, <1>4, <2>1
  <2>3. K \subseteq 1..N /\ N \in K /\ DOMAIN dominator = 1..N /\ \A k \in K : dominator[k] \in K
    BY <2>1 DEF IdomsOK
  <2> QED BY <2>1, <2>2, <2>3
<1>6. at \in 1..N /\ par[at] \in Pr[at] \cap K
  <2>1. par[at] \in at+1..N /\ par[at] \in Pr[at]
    BY <1>3, <1>5 DEF FlowOK
  <2>2. K = 1..N \/ K = at+1..N
    BY <1>1, <1>5 DEF Known
  <2> HIDE DEF N, Pr
  <2>3. at \in 1..N-1 /\ N \in Nat
    BY <1>4, <1>5 DEF N
  <2>4. at \in 1..N /\ par[at] \in 1..N
    BY <2>1, <2>3
  <2> QED BY <2>1, <2>2, <2>4
<1> DEFINE known == Processed(postorder[at])
           idom == RunOver([p \in (DOMAIN postorder) \X (DOMAIN postorder) |-> Intersect(dominator, p[1], p[2])],
                           Head(known), Tail(known))
<1>7. known \in Seq(K) /\ Elements(known) = Pr[at] \cap K
  BY <1>2, <1>5, <1>6, ProcessedFacts
<1>8. known # << >>
  BY <1>6, <1>7, EmptySequence
<1>9. /\ dominator' = [dominator EXCEPT ![at] = idom]
      /\ changed' = (changed \/ dominator[at] # idom)
  BY <1>8 DEF Refine
<1> HIDE DEF known
<1>10. idom \in K /\ \A a : a \in Up(dominator, idom) <=> \A x \in Elements(known) : a \in Up(dominator, x)
  BY <1>4, <1>5, <1>7, <1>8, MeetOfAll
<1> HIDE DEF idom, Pr, Dm, N
<1>11. Up(dominator, idom) = AllAbove(dominator, Pr[at] \cap K)
  <2>1. Up(dominator, idom) \subseteq DOMAIN dominator
    BY <1>5, <1>10, AboveFacts
  <2>2. ASSUME NEW a PROVE a \in Up(dominator, idom) <=> a \in AllAbove(dominator, Pr[at] \cap K)
    BY <1>7, <1>10, <2>1 DEF AllAbove
  <2> QED BY <2>2
<1>12. /\ Refining([dominator EXCEPT ![at] = idom], N, K \cup {at}, Pr, par, Dm, at - 1, changed \/ dominator[at] # idom)
       /\ at \in K => dominator[at] <= idom
  BY <1>1, <1>3, <1>10, <1>11, RefineKeeps
<1>13. Refining(dominator', N, K \cup {at}, Pr, par, Dm, at', changed')
  BY <1>1, <1>9, <1>12
<1>14. N' = N /\ Pr' = Pr /\ Dm' = Dm
  BY <1>1 DEF N, Pr, Dm
<1>15. Passing'
  BY <1>3, <1>13, <1>14 DEF Passing, N, Pr, Dm
<1>16. ASSUME NEW i \in DOMAIN dominator, dominator[i] # Undefined
       PROVE  dominator'[i] \in dominator[i] .. N
  <2>1. i \in K /\ dominator[i] \in K
    BY <1>5, <1>16 DEF Undefined, N
  <2>2. dominator[i] \in 1..N /\ idom \in 1..N
    BY <1>5, <1>10, <2>1
  <2>3. CASE i = at
    <3>1. dominator'[i] = idom /\ dominator[i] <= idom
      BY <1>5, <1>6, <1>9, <1>12, <2>1, <2>3
    <3> QED BY <1>4, <2>2, <3>1 DEF N
  <2>4. CASE i # at
    <3>1. dominator'[i] = dominator[i]
      BY <1>9, <2>4
    <3> QED BY <1>4, <2>2, <3>1 DEF N
  <2> QED BY <2>3, <2>4
<1> QED BY <1>15, <1>16 DEF N

\* Every step keeps it.
LEMMA DomInvStarts == DomInit => DomInv
<1> SUFFICES ASSUME DomInit PROVE DomInv
  OBVIOUS
<1>1. /\ succs \in Functions /\ preds = Predecessors(succs, Order)
      /\ analysis \in Analyses /\ graph = GraphOf(analysis)
      /\ phase = "traverse" /\ walk = TraversalFrom(graph.root)
      /\ dominator = << >> /\ at = 0 /\ changed = TRUE
  BY DEF DomInit
<1>2. GraphOK(graph, DOMAIN graph.ahead)
  BY <1>1, GraphsAreOK
<1>3. Search(DOMAIN graph.ahead, graph.ahead, graph.root, walk)
  BY <1>1, <1>2, SearchStarts DEF GraphOK
<1> QED BY <1>1, <1>3 DEF DomInv, BuildsTree

\* Every step keeps it.
LEMMA DomInvKept == DomInv /\ [DomNext]_domVars => DomInv'
<1> SUFFICES ASSUME DomInv, [DomNext]_domVars PROVE DomInv'
  OBVIOUS
<1> DEFINE V == DOMAIN graph.ahead
<1>1. UNCHANGED <<succs, preds, analysis, graph>>
  BY DEF DomNext, domVars, Walk, Traversed, StartPass, Refine, Refined, Numbered
<1>2. /\ (succs \in Functions /\ preds = Predecessors(succs, Order))'
      /\ (analysis \in Analyses /\ graph = GraphOf(analysis))'
  BY <1>1, SameGraph DEF DomInv
<1>3. /\ GraphOK(graph, V) /\ DOMAIN graph.ahead = V
      /\ IsFiniteSet(DOMAIN graph.ahead) /\ \A n \in V : graph.ahead[n] \in Seq(V)
  <2>1. GraphOK(graph, V)
    BY GraphsAreOK DEF DomInv
  <2> QED BY <2>1 DEF GraphOK
<1>4. UNCHANGED <<postorder, dominator, at, changed>> => Passing' = Passing
  BY <1>1 DEF Passing
<1>5. UNCHANGED <<postorder, dominator>> => \A b : ChildrenOf(b)' = ChildrenOf(b)
  BY DEF ChildrenOf, IndexOf
<1>6. CASE UNCHANGED domVars
  <2>1. UNCHANGED <<phase, walk, postorder, dominator, at, changed, children>>
    BY <1>6 DEF domVars
  <2>2. BuildsTree' = BuildsTree
    BY <1>1, <2>1 DEF BuildsTree
  <2> QED BY <1>1, <1>2, <1>4, <1>5, <2>1, <2>2 DEF DomInv
<1>7. CASE Walk
  <2>1. /\ walk.stack # << >> /\ UNCHANGED <<phase, postorder, dominator, at, changed, children>>
        /\ phase = "traverse" => walk' = TraversalStep(graph.ahead, walk)
        /\ phase # "traverse" => walk' = TraversalStep(children, walk)
    BY <1>7 DEF Walk
  <2>2. BuildsTree' = BuildsTree
    BY <1>1, <2>1 DEF BuildsTree
  <2>3. phase \in {"traverse", "number"}
    BY <2>1 DEF DomInv
  <2>4. CASE phase = "traverse"
    <3>1. Search(V, graph.ahead, graph.root, walk')
      BY <1>3, <2>1, <2>4, SearchGoesOn DEF DomInv
    <3> QED BY <1>1, <1>2, <2>1, <2>4, <3>1 DEF DomInv, BuildsTree
  <2>5. CASE phase = "number"
    <3>1. ASSUME BuildsTree PROVE Search(Elements(postorder), children, graph.root, walk')
      <4>1. children = [b \in Elements(postorder) |-> ChildrenOf(b)]
            /\ Search(Elements(postorder), children, graph.root, walk)
        BY <3>1 DEF DomInv
      <4>2. postorder \in Seq(Elements(postorder))
        <5>1. postorder \in Seq(V)
          BY <2>5 DEF DomInv, PostorderOK
        <5> QED BY <5>1 DEF Elements
      <4>3. \A b \in Elements(postorder) : children[b] \in Seq(Elements(postorder))
        BY <4>1, <4>2, PickedMembers DEF ChildrenOf
      <4> QED BY <2>1, <2>5, <4>1, <4>3, SearchGoesOn
    <3> QED BY <1>1, <1>2, <1>4, <1>5, <2>1, <2>2, <2>5, <3>1 DEF DomInv
  <2> QED BY <2>3, <2>4, <2>5
<1>8. CASE Traversed
  <2>1. /\ phase = "traverse" /\ walk.stack = << >> /\ phase' = "refine"
        /\ postorder' = Posts(walk.events)
        /\ dominator' = [i \in DOMAIN postorder' |->
                           IF i = Len(postorder') THEN i ELSE Len(postorder') + 1]
        /\ UNCHANGED <<walk, at, changed, children>>
    BY <1>8 DEF Traversed
  <2>2. PostorderOK(V, graph.ahead, graph.root, postorder')
    BY <1>3, <2>1, SearchEnds DEF DomInv
  <2> DEFINE po == postorder'
  <2>3. PICK par : FlowOK(Len(po), PredsAt(graph, po), par, MissedAt(graph, po))
    BY <1>3, <2>2, FlowFromPostorder
  <2>4. DOMAIN po = 1..Len(po)
    BY <1>3, <2>2, PostorderFacts
  <2>5. Refining([i \in 1..Len(po) |-> IF i = Len(po) THEN i ELSE Len(po) + 1], Len(po), {Len(po)},
                 PredsAt(graph, po), par, MissedAt(graph, po), 0, TRUE)
    BY <2>3, PassesStart
  <2>6. at' = 0 /\ changed' = TRUE
    BY <2>1 DEF DomInv
  <2>7. Refining(dominator', Len(po), {Len(po)}, PredsAt(graph, po), par, MissedAt(graph, po), at', changed')
    BY <2>1, <2>4, <2>5, <2>6
  <2>8. Passing'
    BY <1>1, <2>3, <2>7 DEF Passing
  <2> QED BY <1>1, <1>2, <2>1, <2>2, <2>8 DEF DomInv, BuildsTree
<1>9. CASE StartPass
  <2>1. /\ phase = "refine" /\ at = 0 /\ changed /\ changed' = FALSE /\ at' = Len(postorder) - 1
        /\ UNCHANGED <<phase, walk, postorder, dominator, children>>
    BY <1>9 DEF StartPass
  <2>2. PICK K, par :
          /\ FlowOK(Len(postorder), PredsAt(graph, postorder), par, MissedAt(graph, postorder))
          /\ Refining(dominator, Len(postorder), K, PredsAt(graph, postorder), par,
                      MissedAt(graph, postorder), at, changed)
    BY <2>1 DEF DomInv, Passing
  <2>3. changed = TRUE
    BY <2>1, <2>2 DEF Refining
  <2>4. Refining(dominator, Len(postorder), K, PredsAt(graph, postorder), par,
                 MissedAt(graph, postorder), Len(postorder) - 1, FALSE)
    BY <2>1, <2>2, <2>3, PassBegins
  <2>5. Passing'
    BY <1>1, <2>1, <2>2, <2>4 DEF Passing
  <2> QED BY <1>1, <1>2, <2>1, <2>5 DEF DomInv, BuildsTree
<1>10. CASE Refine
  <2>1. phase = "refine" /\ UNCHANGED <<phase, walk, postorder, children>>
    BY <1>10 DEF Refine
  <2>2. Passing'
    BY <1>10, RefineStep
  <2> QED BY <1>1, <1>2, <2>1, <2>2 DEF DomInv, BuildsTree
<1>11. CASE Refined
  <2>1. /\ phase = "refine" /\ at = 0 /\ ~changed
        /\ UNCHANGED <<postorder, dominator, at, changed>>
        /\ analysis \in {"dominators", "post_dominators"} =>
             /\ phase' = "number" /\ walk' = TraversalFrom(graph.root)
             /\ children' = [b \in ToSet(postorder) |-> ChildrenOf(b)]
        /\ analysis \notin {"dominators", "post_dominators"} => phase' = "done" /\ walk' = walk
    BY <1>11 DEF Refined
  <2>2. PostorderOK(V, graph.ahead, graph.root, postorder) /\ walk.stack = << >> /\ Passing
    BY <2>1 DEF DomInv
  <2>3. CASE analysis \in {"dominators", "post_dominators"}
    <3>1. ToSet(postorder) = Elements(postorder)
      BY DEF ToSet, Elements
    <3>2. graph.root \in Elements(postorder) /\ postorder \in Seq(Elements(postorder))
      <4>1. postorder \in Seq(V) /\ postorder # << >> /\ postorder[Len(postorder)] = graph.root
        BY <2>2 DEF PostorderOK
      <4>2. Len(postorder) \in DOMAIN postorder /\ postorder \in Seq(Elements(postorder))
        BY <4>1 DEF Elements
      <4> QED BY <4>1, <4>2 DEF Elements
    <3>3. children' = [b \in Elements(postorder) |-> ChildrenOf(b)]
      BY <2>1, <2>3, <3>1
    <3>4. \A b \in Elements(postorder) : children'[b] \in Seq(Elements(postorder))
      BY <3>2, <3>3, PickedMembers DEF ChildrenOf
    <3>5. Search(Elements(postorder), children', graph.root, walk')
      BY <2>1, <2>3, <3>2, <3>4, SearchStarts
    <3>6. phase' = "number"
      BY <2>1, <2>3
    <3> QED BY <1>1, <1>2, <1>4, <1>5, <2>1, <2>2, <3>3, <3>5, <3>6 DEF DomInv, BuildsTree
  <2>4. CASE analysis \notin {"dominators", "post_dominators"}
    BY <1>1, <1>2, <1>4, <2>1, <2>2, <2>4 DEF DomInv, BuildsTree
  <2> QED BY <2>3, <2>4
<1>12. CASE Numbered
  <2>1. /\ phase = "number" /\ phase' = "done" /\ walk.stack = << >>
        /\ UNCHANGED <<walk, postorder, dominator, at, changed, children>>
    BY <1>12 DEF Numbered
  <2>2. BuildsTree' = BuildsTree
    BY <1>1, <2>1 DEF BuildsTree
  <2> QED BY <1>1, <1>2, <1>4, <1>5, <2>1, <2>2 DEF DomInv
<1> QED BY <1>6, <1>7, <1>8, <1>9, <1>10, <1>11, <1>12 DEF DomNext

\* The estimates climb, step by step.
LEMMA StepsClimb ==
  ASSUME DomInv, DomNext
  PROVE  [\A i \in DOMAIN dominator :
            dominator[i] # Undefined => dominator'[i] \in dominator[i] .. Len(postorder)]_dominator
<1>1. CASE Walk \/ StartPass \/ Refined \/ Numbered
  BY <1>1 DEF Walk, StartPass, Refined, Numbered
<1>2. CASE Traversed
  BY <1>2 DEF Traversed, DomInv
<1>3. CASE Refine
  BY <1>3, RefineStep
<1> QED BY <1>1, <1>2, <1>3 DEF DomNext

\* Every state of CFA::CalculateDominators and of the trees built from it has the invariant.
THEOREM DominatorsInvariant == DomSpec => []DomInv
BY DomInvStarts, DomInvKept, PTL DEF DomSpec

\* An estimate never sinks back towards its block, in whatever order the passes
\* visit the predecessors: CalculateDominators ends (cfa.h, while (changed)).
THEOREM EstimatesClimb == DomSpec => EstimatesOnlyClimb
<1>1. DomInv /\ [DomNext]_domVars =>
        [\A i \in DOMAIN dominator :
           dominator[i] # Undefined => dominator'[i] \in dominator[i] .. Len(postorder)]_dominator
  BY StepsClimb DEF domVars
<1> QED BY <1>1, DominatorsInvariant, PTL DEF DomSpec, EstimatesOnlyClimb
-----------------------------------------------------------------------------
\* The dominator tree and its numbers.

\* The last of the others on every path to a block.
LEMMA ImmediateFacts ==
  ASSUME NEW g, NEW V, GraphOK(g, V), NEW po, PostorderOK(V, g.ahead, g.root, po),
         NEW D, IdomsOK(D, Len(po), 1..Len(po)),
         UpIsMissed(D, g, po),
         NEW i \in 1..Len(po)-1
  PROVE  po[D[i]] = ImmediateDominator(g.ahead, g.root)[po[i]]
<1> DEFINE N == Len(po)
           all == Reached(g.ahead, {g.root}, {})
           missed == [a \in all |-> all \ Reached(g.ahead, {g.root}, {a})]
           above == [b \in all |-> {a \in all \ {b} : b \in missed[a]}]
           good(b, a) == above[b] \subseteq above[a] \cup {a}
<1>1. /\ N \in Nat \ {0} /\ DOMAIN po = 1..N /\ po[N] = g.root
      /\ \A k, j \in 1..N : po[k] = po[j] => k = j
      /\ \A k, a \in 1..N : a \in Up(D, k) <=> po[k] \notin Reached(g.ahead, {g.root}, {po[a]})
  <2> HIDE DEF all, missed, above, good
  <2>1. /\ N \in Nat \ {0} /\ DOMAIN po = 1..N /\ po[N] = g.root
        /\ \A k, j \in 1..N : po[k] = po[j] => k = j
    <3>1. N \in Nat \ {0} /\ DOMAIN po = 1..N
      BY PostorderFacts
    <3>2. po[N] = g.root /\ \A k, j \in 1..N : po[k] = po[j] => k = j
      BY DEF PostorderOK
    <3> QED BY <3>1, <3>2
  <2>2. \A k, a \in 1..N : a \in MissedAt(g, po)[k] <=> po[k] \notin Reached(g.ahead, {g.root}, {po[a]})
    BY PostorderFacts
  <2>3. \A k \in 1..N : Up(D, k) = MissedAt(g, po)[k]
    BY DEF UpIsMissed
  <2> HIDE DEF N
  <2>4. ASSUME NEW k \in 1..N, NEW a \in 1..N
        PROVE  a \in Up(D, k) <=> po[k] \notin Reached(g.ahead, {g.root}, {po[a]})
    BY <2>2, <2>3
  <2> QED BY <2>1, <2>4
<1>2. all = Elements(po)
  BY DEF PostorderOK
<1>3. i \in 1..N /\ i # N /\ N \in 1..N
  <2>1. N \in Nat \ {0}
    BY <1>1
  <2> HIDE DEF N
  <2>2. i \in 1..N-1
    BY DEF N
  <2> QED BY <2>1, <2>2
<1>4. D[i] \in 1..N /\ i < D[i] /\ \A k \in 1..N : Up(D, k) \subseteq {a \in 1..N : k <= a} /\ k \in Up(D, k)
  BY <1>3, AboveFacts DEF IdomsOK
<1>5. Up(D, i) = {i} \cup Up(D, D[i])
  BY <1>3, AboveFacts
<1>6. \A k \in 1..N : po[k] \in all /\ \A x \in all : \E y \in 1..N : po[y] = x
  BY <1>1, <1>2 DEF Elements
<1> HIDE DEF N, all
<1>7. ASSUME NEW k \in 1..N PROVE above[po[k]] = {po[a] : a \in Up(D, k) \ {k}}
  <2>1. \A a \in 1..N : po[k] \in missed[po[a]] <=> a \in Up(D, k)
    BY <1>1, <1>6
  <2>2. \A x \in all \ {po[k]} : po[k] \in missed[x] => \E a \in Up(D, k) \ {k} : po[a] = x
    BY <1>6, <2>1
  <2>3. \A a \in Up(D, k) \ {k} : po[a] \in all \ {po[k]} /\ po[k] \in missed[po[a]]
    <3> TAKE a \in Up(D, k) \ {k}
    <3>1. a \in 1..N
      BY <1>4
    <3>2. po[a] # po[k]
      BY <1>1, <3>1 DEF N
    <3> QED BY <1>6, <2>1, <3>1, <3>2
  <2>4. above[po[k]] = {a \in all \ {po[k]} : po[k] \in missed[a]}
    BY <1>6
  <2> HIDE DEF above, missed
  <2> QED BY <2>2, <2>3, <2>4
<1> HIDE DEF above
<1>8. above[po[i]] = {po[a] : a \in Up(D, D[i])}
  <2>1. Up(D, i) \ {i} = Up(D, D[i])
    <3>1. i \notin Up(D, D[i])
      <4>1. \A a \in Up(D, D[i]) : a \in 1..N /\ D[i] <= a
        BY <1>4
      <4>2. \A a \in Up(D, D[i]) : a # i
        BY <1>3, <1>4, <4>1
      <4> QED BY <4>2
    <3> QED BY <1>5, <3>1
  <2> QED BY <1>3, <1>7, <2>1
<1>9. po[D[i]] \in above[po[i]] /\ good(po[i], po[D[i]])
  <2>1. above[po[D[i]]] = {po[a] : a \in Up(D, D[i]) \ {D[i]}}
    BY <1>4, <1>7
  <2> QED BY <1>4, <1>8, <2>1
<1>10. ASSUME NEW c \in above[po[i]], good(po[i], c) PROVE c = po[D[i]]
  <2>1. PICK x \in Up(D, D[i]) : c = po[x]
    BY <1>8
  <2>2. x \in 1..N /\ D[i] <= x
    BY <1>4, <2>1
  <2>3. po[D[i]] \in above[c] \cup {c}
    BY <1>9, <1>10
  <2>4. CASE po[D[i]] \in above[c]
    <3>1. PICK y \in Up(D, x) \ {x} : po[y] = po[D[i]]
      BY <1>7, <2>1, <2>2, <2>4
    <3>2. y \in 1..N /\ x <= y /\ y = D[i]
      BY <1>1, <1>4, <2>2, <3>1 DEF N
    <3> QED BY <2>2, <3>1, <3>2
  <2> QED BY <2>3, <2>4
<1>11. po[i] \in all \ {g.root}
  BY <1>1, <1>3, <1>6 DEF N
<1>12. ImmediateDominator(g.ahead, g.root) = [b \in all \ {g.root} |-> CHOOSE a \in above[b] : good(b, a)]
  BY DEF ImmediateDominator, all, above
<1>13. ImmediateDominator(g.ahead, g.root)[po[i]] = CHOOSE a \in above[po[i]] : good(po[i], a)
  BY <1>11, <1>12
<1> HIDE DEF good
<1> QED BY <1>9, <1>10, <1>13

\* The numbers of a finished traversal nest as its tree does.
LEMMA NumbersNest ==
  ASSUME NEW V, NEW next, NEW root, NEW s, NEW up, SearchOK(V, next, root, s, up), s.stack = << >>,
         NEW a \in s.seen, NEW b \in s.seen, a # b
  PROVE  Before(s.events, Pre(a), Pre(b)) /\ Before(s.events, Post(b), Post(a)) <=> a \in Up(up, b)
<1>1. /\ s.events \in Seq({"pre", "post"} \X V) /\ Once(s.events)
      /\ \A v : Post(v) \in Elements(s.events) <=> v \in s.seen
      /\ \A v \in s.seen : Before(s.events, Pre(v), Post(v))
  <2>1. \A v : ~OnStack(s, v)
    BY DEF OnStack
  <2> QED BY <2>1 DEF SearchOK, EventsOK, States
<1>2. \A e, f, g : Before(s.events, e, f) /\ Before(s.events, f, g) => Before(s.events, e, g)
  BY <1>1, BeforeIsAnOrder
<1>3. ASSUME Before(s.events, Pre(a), Pre(b)), Before(s.events, Post(b), Post(a)) PROVE a \in Up(up, b)
  BY <1>1, <1>2, <1>3 DEF SearchOK, NestingOK
<1>4. ASSUME a \in Up(up, b) PROVE Before(s.events, Pre(a), Pre(b)) /\ Before(s.events, Post(b), Post(a))
  <2> DEFINE S == {x \in s.seen : x = b \/ (Before(s.events, Pre(x), Pre(b)) /\ Before(s.events, Post(b), Post(x)))}
  <2>1. up \in [s.seen \ {root} -> s.seen]
        /\ \A v \in s.seen \ {root} : Before(s.events, Pre(up[v]), Pre(v)) /\ Before(s.events, Post(v), Post(up[v]))
    <3>1. EnteredOK(next, root, s, up)
      BY DEF SearchOK
    <3>2. up \in [s.seen \ {root} -> s.seen]
      BY <3>1 DEF EnteredOK
    <3>3. \A v \in s.seen \ {root} : up[v] \in s.seen
      BY <3>2
    <3> QED BY <1>1, <3>1, <3>2, <3>3 DEF EnteredOK
  <2>2. \A x \in S \cap DOMAIN up : up[x] \in S
    <3> TAKE x \in S \cap DOMAIN up
    <3>1. x \in s.seen \ {root} /\ up[x] \in s.seen
      BY <2>1
    <3> QED BY <1>2, <2>1, <3>1
  <2>3. b \in S
    OBVIOUS
  <2> HIDE DEF S
  <2>4. a \in S
    BY <1>4, <2>2, <2>3, UpLeast
  <2> QED BY <2>4 DEF S
<1> QED BY <1>3, <1>4

\* The traversal of the dominator tree goes from each block to those it
\* dominates immediately, and to all of them.
LEMMA TreeSearch ==
  ASSUME NEW V, GraphOK(graph, V), PostorderOK(V, graph.ahead, graph.root, postorder),
         IdomsOK(dominator, Len(postorder), 1..Len(postorder)),
         children = [b \in Elements(postorder) |-> ChildrenOf(b)],
         NEW up, SearchOK(Elements(postorder), children, graph.root, walk, up), walk.stack = << >>
  PROVE  /\ walk.seen = Elements(postorder)
         /\ \A x, k \in 1..Len(postorder) :
              postorder[x] \in Up(up, postorder[k]) <=> x \in Up(dominator, k)
<1> DEFINE N == Len(postorder)
<1>1. /\ N \in Nat \ {0} /\ DOMAIN postorder = 1..N /\ postorder[N] = graph.root
      /\ \A i \in 1..N : postorder[i] \in V
      /\ \A i, j \in 1..N : postorder[i] = postorder[j] => i = j
      /\ \A x \in 1..N : IndexOf(postorder[x]) = x
      /\ \A b \in Elements(postorder) : IndexOf(b) \in 1..N /\ postorder[IndexOf(b)] = b
  BY PostorderFacts, IndexFacts
<1>2. postorder \in Seq(V)
  BY DEF PostorderOK
<1> HIDE DEF N
<1>3. N \in 1..N
  BY <1>1
<1>4. /\ DOMAIN dominator = 1..N /\ dominator[N] = N
      /\ \A k \in 1..N : dominator[k] \in 1..N
      /\ \A k \in 1..N \ {N} : k < dominator[k]
  BY DEF IdomsOK, N
<1>5. ASSUME NEW k \in 1..N, NEW x \in 1..N
      PROVE  postorder[k] \in Elements(children[postorder[x]]) <=> dominator[k] = x /\ k # x
  <2>1. postorder[x] \in Elements(postorder)
    BY <1>1 DEF Elements
  <2>2. children[postorder[x]] =
          AtPositions(postorder, {i \in DOMAIN postorder : dominator[i] = x /\ postorder[i] # postorder[x]})
    BY <1>1, <2>1 DEF ChildrenOf
  <2> DEFINE K == {i \in DOMAIN postorder : dominator[i] = x /\ postorder[i] # postorder[x]}
  <2>3. Elements(children[postorder[x]]) = {postorder[i] : i \in DOMAIN postorder \cap K}
    BY <1>2, <2>2, PickedMembers
  <2>4. postorder[k] \in Elements(children[postorder[x]]) <=> k \in K
    BY <1>1, <2>3
  <2> QED BY <1>1, <2>4
<1>6. /\ graph.root \in walk.seen /\ up \in [walk.seen \ {graph.root} -> walk.seen]
      /\ walk.seen \in SUBSET Elements(postorder)
      /\ \A v \in walk.seen \ {graph.root} : v \in Elements(children[up[v]])
      /\ \A v \in walk.seen : Elements(children[v]) \subseteq walk.seen
  <2>1. \A v : ~OnStack(walk, v)
    BY DEF OnStack
  <2>2. EventsOK(walk) /\ EdgesOK(children, walk) /\ EnteredOK(children, graph.root, walk, up)
        /\ walk \in States(Elements(postorder))
    BY DEF SearchOK
  <2> QED BY <2>1, <2>2 DEF EventsOK, EdgesOK, EnteredOK, States
<1>7. Elements(postorder) \subseteq walk.seen
  <2> DEFINE W == {d \in Nat : \E k \in 1..N : N - k = d /\ postorder[k] \notin walk.seen}
  <2>1. ASSUME W # {} PROVE FALSE
    <3>1. PICK d \in W : \A e \in W : d <= e
      BY <2>1, LeastNatural
    <3>2. PICK k \in 1..N : N - k = d /\ postorder[k] \notin walk.seen
      BY <3>1
    <3>3. k # N
      BY <1>1, <1>6, <3>2
    <3>4. dominator[k] \in 1..N /\ k < dominator[k]
      BY <1>4, <3>3
    <3>5. postorder[dominator[k]] \notin walk.seen
      <4>1. k # dominator[k]
        BY <1>1, <3>4
      <4>2. postorder[k] \in Elements(children[postorder[dominator[k]]])
        BY <1>5, <3>4, <4>1
      <4> QED BY <1>6, <3>2, <4>2
    <3>6. N - dominator[k] \in Nat /\ N - dominator[k] < N - k
      BY <1>1, <3>4
    <3>7. N - dominator[k] \in W
      BY <3>4, <3>5, <3>6
    <3> HIDE DEF W
    <3>8. d <= N - dominator[k] /\ d \in Int
      BY <1>1, <3>1, <3>2, <3>7
    <3> QED BY <1>1, <3>2, <3>4, <3>6, <3>8
  <2>2. ASSUME NEW k \in 1..N PROVE postorder[k] \in walk.seen
    <3>1. N - k \in Nat
      BY <1>1
    <3> QED BY <2>1, <3>1
  <2> QED BY <1>1, <2>2 DEF Elements
<1>8. ASSUME NEW k \in 1..N \ {N} PROVE postorder[k] \in DOMAIN up /\ up[postorder[k]] = postorder[dominator[k]]
  <2>1. postorder[k] \in Elements(postorder)
    BY <1>1 DEF Elements
  <2>2. postorder[k] \in walk.seen \ {graph.root}
    BY <1>1, <1>3, <1>7, <2>1
  <2>3. up[postorder[k]] \in Elements(postorder) /\ postorder[k] \in Elements(children[up[postorder[k]]])
    BY <1>6, <2>2
  <2>4. PICK x \in 1..N : up[postorder[k]] = postorder[x]
    BY <1>1, <2>3
  <2> QED BY <1>5, <1>6, <2>2, <2>3, <2>4
<1>9. ASSUME NEW x \in 1..N, NEW k \in 1..N, x \in Up(dominator, k) PROVE postorder[x] \in Up(up, postorder[k])
  <2> DEFINE S == {y \in 1..N : postorder[y] \in Up(up, postorder[k])}
  <2>1. k \in S
    BY UpSelf
  <2>2. \A y \in S \cap DOMAIN dominator : dominator[y] \in S
    <3> TAKE y \in S \cap DOMAIN dominator
    <3>1. CASE y = N
      BY <1>4, <3>1
    <3>2. CASE y # N
      <4>1. up[postorder[y]] \in Up(up, postorder[k])
        BY <1>8, <3>2, UpStep
      <4> QED BY <1>4, <1>8, <3>2, <4>1
    <3> QED BY <3>1, <3>2
  <2> HIDE DEF S
  <2>3. x \in S
    BY <1>9, <2>1, <2>2, UpLeast
  <2> QED BY <2>3 DEF S
<1>10. ASSUME NEW x \in 1..N, NEW k \in 1..N, postorder[x] \in Up(up, postorder[k]) PROVE x \in Up(dominator, k)
  <2> DEFINE S == {postorder[y] : y \in Up(dominator, k) \cap 1..N}
  <2>1. postorder[k] \in S
    BY UpSelf
  <2>2. \A v \in S \cap DOMAIN up : up[v] \in S
    <3> TAKE v \in S \cap DOMAIN up
    <3>1. PICK y \in Up(dominator, k) \cap 1..N : v = postorder[y]
      OBVIOUS
    <3>2. y # N
      BY <1>1, <1>6, <3>1
    <3>3. up[v] = postorder[dominator[y]] /\ dominator[y] \in 1..N
      BY <1>4, <1>8, <3>1, <3>2
    <3>4. dominator[y] \in Up(dominator, k)
      BY <1>4, <3>1, UpStep
    <3> QED BY <3>3, <3>4
  <2> HIDE DEF S
  <2>3. postorder[x] \in S
    BY <1>10, <2>1, <2>2, UpLeast
  <2> QED BY <1>1, <2>3 DEF S
<1> QED BY <1>6, <1>7, <1>9, <1>10 DEF N

\* The numbers answer what paths do.
LEMMA DominatesFacts ==
  ASSUME NEW V, GraphOK(graph, V), PostorderOK(V, graph.ahead, graph.root, postorder),
         IdomsOK(dominator, Len(postorder), 1..Len(postorder)),
         UpIsMissed(dominator, graph, postorder),
         children = [b \in Elements(postorder) |-> ChildrenOf(b)],
         Search(Elements(postorder), children, graph.root, walk), walk.stack = << >>,
         NEW a, NEW b
  PROVE  Dominates(a, b) <=> /\ a \in Reached(graph.ahead, {graph.root}, {})
                             /\ b \in Reached(graph.ahead, {graph.root}, {})
                             /\ b \notin Reached(graph.ahead, {graph.root}, {a})
<1> DEFINE Num(kind, c) == CHOOSE k \in DOMAIN walk.events : walk.events[k] = <<kind, c>>
           N == Len(postorder)
<1>0. PICK up : SearchOK(Elements(postorder), children, graph.root, walk, up)
  BY DEF Search
<1>1. Elements(postorder) = Reached(graph.ahead, {graph.root}, {})
  BY DEF PostorderOK
<1>2. ToSet(postorder) = Elements(postorder)
  BY DEF ToSet, Elements
<1>3. Dominates(a, b) <=>
        /\ a \in Elements(postorder) /\ b \in Elements(postorder)
        /\ \/ a = b
           \/ Num("pre", a) < Num("pre", b) /\ Num("post", a) > Num("post", b)
  BY <1>2 DEF Dominates
<1>4. ASSUME a \in Elements(postorder), b \in Elements(postorder)
      PROVE  Dominates(a, b) <=> b \notin Reached(graph.ahead, {graph.root}, {a})
  <2>1. PICK x \in 1..N, y \in 1..N : a = postorder[x] /\ b = postorder[y]
    BY <1>4, IndexFacts
  <2>2. /\ walk.seen = Elements(postorder)
        /\ a \in Up(up, b) <=> x \in Up(dominator, y)
    BY <1>0, <2>1, TreeSearch
  <2>3. x \in Up(dominator, y) <=> b \notin Reached(graph.ahead, {graph.root}, {a})
    <3>1. Up(dominator, y) = MissedAt(graph, postorder)[y]
      BY <2>1 DEF UpIsMissed
    <3>2. x \in MissedAt(graph, postorder)[y] <=> b \notin Reached(graph.ahead, {graph.root}, {a})
      <4>1. \A i, c \in 1..N : c \in MissedAt(graph, postorder)[i] <=>
                                 postorder[i] \notin Reached(graph.ahead, {graph.root}, {postorder[c]})
        BY PostorderFacts
      <4> QED BY <2>1, <4>1
    <3> QED BY <3>1, <3>2
  <2>4. CASE a = b
    BY <1>3, <1>4, <2>2, <2>3, <2>4, UpSelf
  <2>5. CASE a # b
    <3>1. /\ walk.events \in Seq({"pre", "post"} \X Elements(postorder)) /\ Once(walk.events)
          /\ \A v \in walk.seen : Pre(v) \in Elements(walk.events) /\ Post(v) \in Elements(walk.events)
      <4>1. \A v : ~OnStack(walk, v)
        BY DEF OnStack
      <4>2. EventsOK(walk) /\ walk \in States(Elements(postorder))
        BY <1>0 DEF SearchOK
      <4> QED BY <4>1, <4>2 DEF EventsOK, States
    <3>2. /\ Num("pre", a) \in DOMAIN walk.events /\ walk.events[Num("pre", a)] = Pre(a)
          /\ Num("pre", b) \in DOMAIN walk.events /\ walk.events[Num("pre", b)] = Pre(b)
          /\ Num("post", a) \in DOMAIN walk.events /\ walk.events[Num("post", a)] = Post(a)
          /\ Num("post", b) \in DOMAIN walk.events /\ walk.events[Num("post", b)] = Post(b)
      <4>1. \A v \in walk.seen : \E k \in DOMAIN walk.events : walk.events[k] = Pre(v)
        BY <3>1 DEF Elements
      <4>2. \A v \in walk.seen : \E k \in DOMAIN walk.events : walk.events[k] = Post(v)
        BY <3>1 DEF Elements
      <4>3. a \in walk.seen /\ b \in walk.seen
        BY <1>4, <2>2
      <4> QED BY <4>1, <4>2, <4>3 DEF Pre, Post
    <3> HIDE DEF Num
    <3>3. DOMAIN walk.events \subseteq Int
      BY <3>1
    <3>4. Num("pre", a) < Num("pre", b) <=> Before(walk.events, Pre(a), Pre(b))
      BY <3>1, <3>2, <3>3 DEF Before, Once
    <3>5. Num("post", a) > Num("post", b) <=> Before(walk.events, Post(b), Post(a))
      BY <3>1, <3>2, <3>3 DEF Before, Once
    <3>6. Before(walk.events, Pre(a), Pre(b)) /\ Before(walk.events, Post(b), Post(a)) <=> a \in Up(up, b)
      BY <1>0, <1>4, <2>2, <2>5, NumbersNest
    <3> QED BY <1>3, <1>4, <2>2, <2>3, <2>5, <3>4, <3>5, <3>6
  <2> QED BY <2>4, <2>5
<1> QED BY <1>1, <1>3, <1>4
-----------------------------------------------------------------------------
\* The dominators are those of paths.

\* The root r put before the graph next with the nodes B.
HangsOff(B, next, r, ahead) ==
  /\ IsFiniteSet(B) /\ r \notin B /\ DOMAIN ahead = B \cup {r} /\ DOMAIN next = B
  /\ \A b \in B : ahead[b] = next[b] /\ Elements(next[b]) \subseteq B
  /\ Elements(ahead[r]) \subseteq B

\* It changes nothing below it.
LEMMA RootAbove ==
  ASSUME NEW B, NEW next, NEW r, NEW ahead, HangsOff(B, next, r, ahead), NEW cut, cut \subseteq B
  PROVE  Reached(ahead, {r}, cut) \cap B = Reached(next, Elements(ahead[r]), cut)
<1> DEFINE above == Reached(ahead, {r}, cut)
           below == Reached(next, Elements(ahead[r]), cut)
<1>0. /\ IsFiniteSet(B) /\ r \notin B /\ DOMAIN ahead = B \cup {r} /\ DOMAIN next = B
      /\ \A b \in B : ahead[b] = next[b] /\ Elements(next[b]) \subseteq B
      /\ Elements(ahead[r]) \subseteq B
  BY DEF HangsOff
<1>1. IsFiniteSet(DOMAIN ahead) /\ IsFiniteSet(DOMAIN next)
  <2>1. IsFiniteSet({r})
    BY FS_Singleton
  <2>2. IsFiniteSet(B \cup {r})
    BY <1>0, <2>1, FS_Union
  <2> QED BY <1>0, <2>2
<1>2. {r} \ cut \subseteq above /\ \A m \in above \cap DOMAIN ahead : Elements(ahead[m]) \ cut \subseteq above
  BY <1>1, ReachedIsClosed
<1>3. /\ Elements(ahead[r]) \ cut \subseteq below
      /\ \A m \in below \cap DOMAIN next : Elements(next[m]) \ cut \subseteq below
  BY <1>1, ReachedIsClosed
<1>4. below \subseteq above \cap B
  <2>1. r \in above /\ r \in DOMAIN ahead
    BY <1>0, <1>2
  <2>2. Elements(ahead[r]) \ cut \subseteq above \cap B
    BY <1>0, <1>2, <2>1
  <2>3. \A m \in (above \cap B) \cap DOMAIN next : Elements(next[m]) \ cut \subseteq above \cap B
    BY <1>0, <1>2
  <2> DEFINE T == above \cap B
  <2>4. Elements(ahead[r]) \ cut \subseteq T /\ \A m \in T \cap DOMAIN next : Elements(next[m]) \ cut \subseteq T
    BY <2>2, <2>3
  <2> HIDE DEF above, T
  <2>5. below \subseteq T
    BY <1>1, <2>4, ReachedIsLeast
  <2> QED BY <2>5 DEF T
<1>5. above \subseteq {r} \cup below
  <2>1. \A m \in ({r} \cup below) \cap DOMAIN ahead : Elements(ahead[m]) \ cut \subseteq {r} \cup below
    <3> TAKE m \in ({r} \cup below) \cap DOMAIN ahead
    <3>1. CASE m = r
      BY <1>0, <1>3, <3>1
    <3>2. CASE m # r
      <4>1. m \in below /\ m \in DOMAIN next
        BY <1>0, <3>2
      <4> QED BY <1>0, <1>3, <4>1
    <3> QED BY <3>1, <3>2
  <2>2. {r} \ cut \subseteq {r} \cup below
    OBVIOUS
  <2> DEFINE T == {r} \cup below
  <2> HIDE DEF below
  <2>3. {r} \ cut \subseteq T /\ \A m \in T \cap DOMAIN ahead : Elements(ahead[m]) \ cut \subseteq T
    BY <2>1, <2>2
  <2> HIDE DEF T
  <2>4. above \subseteq T
    BY <1>1, <2>3, ReachedIsLeast
  <2> QED BY <2>4 DEF T
<1> HIDE DEF above, below
<1>6. above \cap B = below
  BY <1>0, <1>4, <1>5
<1> QED BY <1>6 DEF above, below

\* What is reached without meeting a node that is not reached.
LEMMA CutOffSide ==
  ASSUME NEW next, IsFiniteSet(DOMAIN next), NEW from, NEW a, a \notin Reached(next, from, {})
  PROVE  Reached(next, from, {}) \subseteq Reached(next, from, {a})
<1> DEFINE all == Reached(next, from, {})
           S == Reached(next, from, {a}) \cap all
<1>1. from \ {} \subseteq all /\ \A m \in all \cap DOMAIN next : Elements(next[m]) \ {} \subseteq all
  BY ReachedIsClosed
<1>2. /\ from \ {a} \subseteq Reached(next, from, {a})
      /\ \A m \in Reached(next, from, {a}) \cap DOMAIN next :
           Elements(next[m]) \ {a} \subseteq Reached(next, from, {a})
  BY ReachedIsClosed
<1>3. from \ {} \subseteq S
  BY <1>1, <1>2
<1>4. \A m \in S \cap DOMAIN next : Elements(next[m]) \ {} \subseteq S
  BY <1>1, <1>2
<1> HIDE DEF S
<1>5. all \subseteq S
  BY <1>3, <1>4, ReachedIsLeast
<1> QED BY <1>5 DEF S

\* The passes over, the estimates are the dominators.
LEMMA DoneFacts ==
  ASSUME DomInv, phase \in {"number", "done"}
  PROVE  /\ GraphOK(graph, DOMAIN graph.ahead)
         /\ PostorderOK(DOMAIN graph.ahead, graph.ahead, graph.root, postorder)
         /\ IdomsOK(dominator, Len(postorder), 1..Len(postorder))
         /\ UpIsMissed(dominator, graph, postorder)
<1>1. GraphOK(graph, DOMAIN graph.ahead)
  BY GraphsAreOK DEF DomInv
<1>2. PostorderOK(DOMAIN graph.ahead, graph.ahead, graph.root, postorder) /\ Passing /\ at = 0 /\ ~changed
  BY DEF DomInv
<1>3. PICK K, par :
        /\ FlowOK(Len(postorder), PredsAt(graph, postorder), par, MissedAt(graph, postorder))
        /\ Refining(dominator, Len(postorder), K, PredsAt(graph, postorder), par,
                    MissedAt(graph, postorder), at, changed)
  BY <1>2 DEF Passing
<1>4. changed = FALSE
  BY <1>2, <1>3 DEF Refining
<1>5. Refining(dominator, Len(postorder), K, PredsAt(graph, postorder), par,
               MissedAt(graph, postorder), 0, FALSE)
  BY <1>2, <1>3, <1>4
<1> DEFINE V == DOMAIN graph.ahead
<1>6. GraphOK(graph, V) /\ PostorderOK(V, graph.ahead, graph.root, postorder)
  BY <1>1, <1>2
<1> HIDE DEF V
<1>7. /\ IdomsOK(dominator, Len(postorder), 1..Len(postorder))
      /\ UpIsMissed(dominator, graph, postorder)
  BY <1>3, <1>5, <1>6, PassesEnd
<1> QED BY <1>1, <1>2, <1>7

\* Against the edges of the augmented graph every block is reached.
LEMMA AllAreReached ==
  ASSUME DomInv, phase = "done", analysis = "validator_post"
  PROVE  Blocks \subseteq Elements(postorder)
<1>1. /\ graph.root = PseudoExit /\ graph.ahead = AugmentedPredecessors
      /\ succs \in Functions /\ preds = Predecessors(succs, Order)
      /\ Elements(postorder) = Reached(graph.ahead, {graph.root}, {})
  BY DEF DomInv, GraphOf, PostorderOK
<1>2. /\ Len(succs) \in Nat \ {0} /\ Blocks = 1..Len(succs)
      /\ Reverse(Order) \in Seq(Blocks) /\ Elements(Reverse(Order)) = Blocks
  BY <1>1, FunctionFacts
<1>3. DOMAIN preds = Blocks /\ \A b \in Blocks : preds[b] \in Seq(Blocks)
  BY <1>1, PredecessorsMirror
<1>4. IsFiniteSet(DOMAIN preds)
  BY <1>2, <1>3, FS_Interval
<1>5. Sinks \in Seq(Blocks) /\ Blocks \subseteq Reached(preds, Elements(Sinks), {})
  BY <1>2, <1>4, RootsFacts DEF Sinks
<1>6. IsFiniteSet(DOMAIN graph.ahead)
  BY DoneFacts DEF GraphOK
<1> DEFINE all == Reached(graph.ahead, {graph.root}, {})
<1>7. {graph.root} \ {} \subseteq all /\ \A m \in all \cap DOMAIN graph.ahead : Elements(graph.ahead[m]) \ {} \subseteq all
  BY <1>6, ReachedIsClosed
<1>8. PseudoExit \notin Blocks /\ PseudoEntry \notin Blocks /\ PseudoEntry # PseudoExit
  BY <1>2 DEF PseudoExit, PseudoEntry
<1>9. /\ graph.ahead[PseudoExit] = Sinks
      /\ DOMAIN graph.ahead = Blocks \cup {PseudoEntry, PseudoExit}
      /\ \A b \in Blocks : graph.ahead[b] = IF b \in Elements(Sources) THEN <<PseudoEntry>> \o preds[b] ELSE preds[b]
  BY <1>1, <1>8 DEF AugmentedPredecessors
<1>10. Elements(Sinks) \ {} \subseteq all
  BY <1>1, <1>7, <1>9
<1>11. \A b \in Blocks : Elements(preds[b]) \subseteq Elements(graph.ahead[b])
  <2> TAKE b \in Blocks
  <2>1. PseudoEntry \in Blocks \cup {PseudoEntry} /\ preds[b] \in Seq(Blocks \cup {PseudoEntry})
    BY <1>3, SeqWidens
  <2>2. Elements(<<PseudoEntry>> \o preds[b]) = {PseudoEntry} \cup Elements(preds[b])
    BY <2>1, InFront
  <2> QED BY <1>9, <2>2
<1>12. \A m \in all \cap DOMAIN preds : Elements(preds[m]) \ {} \subseteq all
  BY <1>3, <1>7, <1>9, <1>11
<1> HIDE DEF all
<1>13. Reached(preds, Elements(Sinks), {}) \subseteq all
  BY <1>4, <1>10, <1>12, ReachedIsLeast
<1> QED BY <1>1, <1>5, <1>13 DEF all

\* When the passes are over, the estimates are the dominators that paths give.
LEMMA ImmediateAreRight == DomInv => ImmediateDominatorsAreRight
<1> SUFFICES ASSUME DomInv, phase = "done" PROVE ImmediateDominatorsAreRight
  BY DEF ImmediateDominatorsAreRight
<1>1. ToSet(postorder) = Elements(postorder)
  BY DEF ToSet, Elements
<1>2. ToSet(postorder) = Reached(graph.ahead, {graph.root}, {})
  BY <1>1, DoneFacts DEF PostorderOK
<1>3. analysis = "validator_post" => Blocks \subseteq ToSet(postorder)
  BY <1>1, AllAreReached
<1>4. \A i \in 1 .. Len(postorder) - 1 :
        postorder[dominator[i]] = ImmediateDominator(graph.ahead, graph.root)[postorder[i]]
  BY DoneFacts, ImmediateFacts
<1> QED BY <1>2, <1>3, <1>4 DEF ImmediateDominatorsAreRight

\* The two trees hang the function off a placeholder.
LEMMA PlaceholderRoot ==
  ASSUME DomInv, NEW cut, cut \subseteq Blocks
  PROVE  /\ analysis = "dominators" =>
              Reached(graph.ahead, {graph.root}, cut) \cap Blocks = Reached(succs, {1}, cut)
         /\ analysis = "post_dominators" =>
              Reached(graph.ahead, {graph.root}, cut) \cap Blocks = Reached(preds, ToSet(Exits), cut)
<1>1. succs \in Functions /\ preds = Predecessors(succs, Order) /\ graph = GraphOf(analysis)
  BY DEF DomInv
<1>2. /\ Len(succs) \in Nat \ {0} /\ Blocks = 1..Len(succs) /\ 1 \in Blocks /\ DOMAIN succs = Blocks
      /\ \A b \in Blocks : succs[b] \in Seq(Blocks)
      /\ Exits \in Seq(Blocks)
  BY <1>1, FunctionFacts DEF Blocks
<1>3. DOMAIN preds = Blocks /\ \A b \in Blocks : preds[b] \in Seq(Blocks)
  BY <1>1, PredecessorsMirror
<1>4. IsFiniteSet(Blocks)
  BY <1>2, FS_Interval
<1>5. PseudoEntry \notin Blocks /\ PseudoExit \notin Blocks
  BY <1>2 DEF PseudoEntry, PseudoExit
<1>6. CASE analysis = "dominators"
  <2>1. graph.root = PseudoEntry /\ graph.ahead = ForwardSuccessors
    BY <1>1, <1>6 DEF GraphOf
  <2>2. /\ DOMAIN graph.ahead = Blocks \cup {PseudoEntry} /\ graph.ahead[PseudoEntry] = <<1>>
        /\ \A b \in Blocks : graph.ahead[b] = succs[b]
    BY <1>5, <2>1 DEF ForwardSuccessors
  <2>3. Elements(<<1>>) = {1}
    BY DEF Elements
  <2>4. \A b \in Blocks : Elements(succs[b]) \subseteq Blocks
    BY <1>2, SeqFacts
  <2>5. Reached(graph.ahead, {PseudoEntry}, cut) \cap Blocks = Reached(succs, Elements(graph.ahead[PseudoEntry]), cut)
    <3>1. HangsOff(Blocks, succs, PseudoEntry, graph.ahead)
      BY <1>2, <1>3, <1>4, <1>5, <2>2, <2>3, <2>4 DEF HangsOff
    <3> QED BY <3>1, RootAbove
  <2> QED BY <1>6, <2>1, <2>2, <2>3, <2>5
<1>7. CASE analysis = "post_dominators"
  <2>1. graph.root = PseudoExit /\ graph.ahead = InvertedSuccessors
    BY <1>1, <1>7 DEF GraphOf
  <2>2. /\ DOMAIN graph.ahead = Blocks \cup {PseudoExit} /\ graph.ahead[PseudoExit] = Exits
        /\ \A b \in Blocks : graph.ahead[b] = preds[b]
    BY <1>5, <2>1 DEF InvertedSuccessors
  <2>3. ToSet(Exits) = Elements(Exits) /\ Elements(Exits) \subseteq Blocks
    BY <1>2, SeqFacts DEF ToSet, Elements
  <2>4. \A b \in Blocks : Elements(preds[b]) \subseteq Blocks
    BY <1>3, SeqFacts
  <2>5. Reached(graph.ahead, {PseudoExit}, cut) \cap Blocks = Reached(preds, Elements(graph.ahead[PseudoExit]), cut)
    <3>1. HangsOff(Blocks, preds, PseudoExit, graph.ahead)
      BY <1>2, <1>3, <1>4, <1>5, <2>2, <2>3, <2>4 DEF HangsOff
    <3> QED BY <3>1, RootAbove
  <2> QED BY <1>7, <2>1, <2>2, <2>3, <2>5
<1> QED BY <1>6, <1>7

\* What the tree's numbers answer about blocks.
LEMMA QueryFacts ==
  ASSUME DomInv, phase = "done", NEW a \in Blocks, NEW b \in Blocks
  PROVE  /\ analysis = "dominators" => (Dominates(a, b) <=> OnEveryPath(succs, 1, a, b))
         /\ analysis = "post_dominators" =>
              (Dominates(a, b) <=> /\ b \in Reached(preds, ToSet(Exits), {})
                                  /\ b \notin Reached(preds, ToSet(Exits), {a}))
<1> DEFINE all == Reached(graph.ahead, {graph.root}, {})
           cut == Reached(graph.ahead, {graph.root}, {a})
<1>1. IsFiniteSet(DOMAIN graph.ahead)
  BY DoneFacts DEF GraphOK
<1>2. a \notin all => all \subseteq cut
  BY <1>1, CutOffSide
<1>3. analysis \in {"dominators", "post_dominators"} => (Dominates(a, b) <=> a \in all /\ b \in all /\ b \notin cut)
  <2> SUFFICES ASSUME analysis \in {"dominators", "post_dominators"}
               PROVE  Dominates(a, b) <=> a \in all /\ b \in all /\ b \notin cut
    OBVIOUS
  <2>1. /\ children = [c \in Elements(postorder) |-> ChildrenOf(c)]
        /\ Search(Elements(postorder), children, graph.root, walk) /\ walk.stack = << >>
    BY DEF DomInv, BuildsTree
  <2> QED BY <2>1, DoneFacts, DominatesFacts
<1>4. analysis \in {"dominators", "post_dominators"} => (Dominates(a, b) <=> b \in all /\ b \notin cut)
  BY <1>2, <1>3
<1>5. analysis = "dominators" => all \cap Blocks = Reached(succs, {1}, {}) /\ cut \cap Blocks = Reached(succs, {1}, {a})
  BY PlaceholderRoot
<1>6. analysis = "post_dominators" => /\ all \cap Blocks = Reached(preds, ToSet(Exits), {})
                                      /\ cut \cap Blocks = Reached(preds, ToSet(Exits), {a})
  BY PlaceholderRoot
<1> HIDE DEF all, cut
<1> QED BY <1>4, <1>5, <1>6 DEF OnEveryPath

\* The numbers answer dominance in the function itself.
LEMMA QueriesFollow == DomInv => QueriesAreRight
BY QueryFacts DEF QueriesAreRight

\* The dominators found are those of paths, the validator's augmented graph covers
\* every block, and DominatorTree::Dominates answers by the numbers what paths do.
THEOREM DominatorsFound == DomSpec => [](ImmediateDominatorsAreRight /\ QueriesAreRight)
<1>1. DomInv => ImmediateDominatorsAreRight /\ QueriesAreRight
  BY ImmediateAreRight, QueriesFollow
<1> QED BY <1>1, DominatorsInvariant, PTL
-----------------------------------------------------------------------------
\* The traversals.

\* The blocks of the "post" events, in their order.
LEMMA PostsOfEvents ==
  ASSUME NEW N, NEW events \in Seq({"pre", "post"} \X N)
  PROVE  /\ Posts(events) \in Seq(N)
         /\ \A n : <<"post", n>> \in Elements(events) => n \in Elements(Posts(events))
<1> DEFINE K == {k \in DOMAIN events : events[k][1] = "post"}
           posts == AtPositions(events, K)
<1>1. posts \in Seq({"pre", "post"} \X N)
  BY PickedElements
<1>2. Posts(events) = [k \in DOMAIN posts |-> posts[k][2]]
  BY DEF Posts
<1>3. \A k \in K : events[k] \in Elements(posts)
  BY AtPositionsKeeps
<1> HIDE DEF posts
<1>4. Len(posts) \in Nat /\ DOMAIN posts = 1..Len(posts)
  BY <1>1
<1>5. \A k \in 1..Len(posts) : posts[k][2] \in N
  BY <1>1, <1>4
<1>6. Posts(events) \in Seq(N)
  BY <1>2, <1>4, <1>5
<1>7. ASSUME NEW n, <<"post", n>> \in Elements(events) PROVE n \in Elements(Posts(events))
  <2>1. PICK k \in DOMAIN events : events[k] = <<"post", n>>
    BY <1>7 DEF Elements
  <2>2. k \in K
    BY <2>1
  <2>3. PICK j \in DOMAIN posts : posts[j] = <<"post", n>>
    BY <1>3, <2>1, <2>2 DEF Elements
  <2>4. j \in DOMAIN Posts(events) /\ Posts(events)[j] = n
    BY <1>2, <2>3
  <2> QED BY <2>4 DEF Elements
<1> QED BY <1>6, <1>7

\* The traversal of a root starts right.
LEMMA TraversalStarts ==
  ASSUME NEW N, NEW r \in N
  PROVE  TraversalOK(TraversalFrom(r), N, r)
<1>1. /\ <<[node |-> r, child |-> 1]>> \in Seq([node : N, child : Nat \ {0}])
      /\ << <<"pre", r>> >> \in Seq({"pre", "post"} \X N)
  OBVIOUS
<1>2. <<[node |-> r, child |-> 1]>> # << >> /\ <<[node |-> r, child |-> 1]>>[1].node = r
  OBVIOUS
<1> QED BY <1>1, <1>2 DEF TraversalOK, TraversalFrom

\* One turn of the traversal: the bottom of the stack stays the root, and the
\* traversal ends with the root's "post".
LEMMA TraversalGoesOn ==
  ASSUME NEW N, NEW r, NEW s, TraversalOK(s, N, r), s.stack # << >>,
         NEW next, \A n \in N : next[n] \in Seq(N)
  PROVE  TraversalOK(TraversalStep(next, s), N, r)
<1> DEFINE Frame == [node : N, child : Nat \ {0}]
           len == Len(s.stack)
           top == s.stack[len]
           child == next[top.node][top.child]
           moved == [s.stack EXCEPT ![len].child = @ + 1]
<1>1. /\ s.stack \in Seq(Frame) /\ s.seen \in SUBSET N /\ s.events \in Seq({"pre", "post"} \X N)
      /\ s = [stack |-> s.stack, seen |-> s.seen, events |-> s.events]
      /\ s.stack[1].node = r
  BY DEF TraversalOK
<1> HIDE DEF Frame
<1>2. /\ len \in Nat \ {0} /\ DOMAIN s.stack = 1..len /\ top \in Frame /\ Last(s.stack) = top
      /\ top = s.stack[len]
      /\ Front(s.stack) \in Seq(Frame) /\ Len(Front(s.stack)) = len - 1
      /\ \A k \in 1..len - 1 : Front(s.stack)[k] = s.stack[k]
  BY <1>1, LastAndFront
<1>0. top.node \in N /\ top.child \in Nat \ {0}
  BY <1>2 DEF Frame
<1>3. next[top.node] \in Seq(N)
  BY <1>0
<1>4. moved \in Seq(Frame) /\ Len(moved) = len /\ moved[1].node = r
  <2> DEFINE later == [top EXCEPT !.child = @ + 1]
  <2>1. moved = [k \in 1..len |-> IF k = len THEN later ELSE s.stack[k]]
    BY <1>2
  <2>2. later \in Frame /\ later.node = top.node
    BY <1>2 DEF Frame
  <2>3. \A k \in 1..len : s.stack[k] \in Frame
    BY <1>1
  <2> HIDE DEF top, len, moved, later
  <2>4. moved \in Seq(Frame) /\ Len(moved) = len
    BY <1>2, <2>1, <2>2, <2>3
  <2>5. moved[1] = IF 1 = len THEN later ELSE s.stack[1]
    BY <1>2, <2>1
  <2>6. len = 1 => later.node = r
    BY <1>1, <1>2, <2>2
  <2> QED BY <1>1, <2>4, <2>5, <2>6
<1>5. TraversalStep(next, s) =
        IF top.child > Len(next[top.node])
        THEN [s EXCEPT !.stack = Front(@), !.events = Append(@, <<"post", top.node>>)]
        ELSE IF child \in s.seen THEN [s EXCEPT !.stack = moved]
        ELSE [stack |-> Append(moved, [node |-> child, child |-> 1]),
              seen |-> s.seen \cup {child},
              events |-> Append(s.events, <<"pre", child>>)]
  BY <1>2 DEF TraversalStep
<1> HIDE DEF moved
<1>6. CASE top.child > Len(next[top.node])
  <2> DEFINE post == <<"post", top.node>>
             t == [stack |-> Front(s.stack), seen |-> s.seen, events |-> Append(s.events, post)]
  <2>1. TraversalStep(next, s) = t
    BY <1>1, <1>5, <1>6
  <2>2. Front(s.stack) \in Seq(Frame) /\ Len(Front(s.stack)) = len - 1
    BY <1>2
  <2>3. post \in {"pre", "post"} \X N
    BY <1>0
  <2>4. Append(s.events, post) \in Seq({"pre", "post"} \X N)
        /\ post \in Elements(Append(s.events, post))
    BY <1>1, <2>3, AppendFacts
  <2>5. t \in [stack : Seq(Frame), seen : SUBSET N, events : Seq({"pre", "post"} \X N)]
    BY <1>1, <2>2, <2>4
  <2>6. CASE len = 1
    <3>1. Front(s.stack) = << >>
      BY <2>2, <2>6
    <3>2. top.node = r
      BY <1>1, <2>6
    <3>3. <<"post", r>> \in Elements(t.events)
      BY <2>4, <3>2
    <3> QED BY <2>1, <2>5, <3>1, <3>3 DEF TraversalOK, Frame
  <2>7. CASE len # 1
    <3> HIDE DEF len
    <3>1. 1 \in 1..len - 1 /\ len - 1 # 0
      BY <1>2, <2>7
    <3>2. Front(s.stack)[1] = s.stack[1] /\ Front(s.stack) # << >>
      BY <1>2, <3>1
    <3>3. Front(s.stack) # << >> /\ Front(s.stack)[1].node = r
      BY <1>1, <3>2
    <3> QED BY <2>1, <2>5, <3>3 DEF TraversalOK, Frame
  <2> QED BY <2>6, <2>7
<1>7. CASE ~(top.child > Len(next[top.node]))
  <2>1. child \in N
    <3>1. top.child \in 1..Len(next[top.node])
      BY <1>0, <1>3, <1>7
    <3> QED BY <1>3, <3>1
  <2> HIDE DEF child
  <2>2. moved # << >>
    BY <1>2, <1>4
  <2>3. CASE child \in s.seen
    <3>1. TraversalStep(next, s) = [stack |-> moved, seen |-> s.seen, events |-> s.events]
      BY <1>1, <1>5, <1>7, <2>3
    <3> QED BY <1>1, <1>4, <2>2, <3>1 DEF TraversalOK, Frame
  <2>4. CASE child \notin s.seen
    <3> DEFINE frame == [node |-> child, child |-> 1]
               pre == <<"pre", child>>
    <3>1. TraversalStep(next, s) =
            [stack |-> Append(moved, frame), seen |-> s.seen \cup {child},
             events |-> Append(s.events, pre)]
      BY <1>5, <1>7, <2>4
    <3>2. frame \in Frame /\ pre \in {"pre", "post"} \X N
      BY <2>1 DEF Frame
    <3> HIDE DEF frame, pre
    <3>3. Append(moved, frame) \in Seq(Frame) /\ Append(moved, frame)[1] = moved[1]
          /\ Append(moved, frame) # << >>
      BY <1>4, <2>2, <3>2, AppendFacts
    <3>4. Append(s.events, pre) \in Seq({"pre", "post"} \X N)
      BY <1>1, <3>2, AppendFacts
    <3> QED BY <1>1, <1>4, <2>1, <3>1, <3>3, <3>4, SMTT(20) DEF TraversalOK, Frame
  <2> QED BY <2>3, <2>4
<1> QED BY <1>6, <1>7
-----------------------------------------------------------------------------
\* The function.

\* What is assumed of a shader.
LEMMA ProgramFacts ==
  ASSUME prog \in Programs, succs = prog.succs
  PROVE  /\ Len(succs) \in Nat \ {0} /\ Blocks = 1..Len(succs)
         /\ \A b \in Blocks : succs[b] \in Seq(Blocks)
         /\ \A b \in Blocks : Body(b) \in Seq(Instruction)
         /\ \A b \in Blocks : \A I \in Elements(Body(b)) :
              I.id > Len(succs) /\ (I.op \in Loading => I.args = << >>)
         /\ DOMAIN prog.cond \subseteq Blocks
         /\ \A b \in DOMAIN prog.cond : prog.cond[b] \in Int /\ prog.cond[b] > Len(succs)
<1>1. ProgramOK(prog) /\ prog.succs \in Functions
  BY DivergenceAssumption
<1>2. succs # << >> /\ succs \in Seq(Seq(Blocks))
  BY <1>1, DominatorsAssumption DEF Blocks
<1>3. Len(succs) \in Nat \ {0} /\ Blocks = 1..Len(succs)
  BY <1>2 DEF Blocks
<1>4. \A b \in Blocks : succs[b] \in Seq(Blocks)
  BY <1>2 DEF Blocks
<1> QED BY <1>1, <1>3, <1>4 DEF ProgramOK, Body, Blocks, Instruction

\* An instruction is in a block, and is found by its id.
LEMMA InstructionFacts ==
  ASSUME prog \in Programs, succs = prog.succs
  PROVE  /\ \A I \in Instructions : /\ I \in Instruction /\ I.id > Len(succs)
                                    /\ I.op \in Loading => I.args = << >>
         /\ \A v \in Values : v \in Int /\ v > Len(succs)
         /\ \A v \in Values : InstructionOf(v) \in Instructions /\ InstructionOf(v).id = v
         /\ \A b \in Blocks : Elements(Body(b)) \subseteq Instructions
         /\ \A I \in Instructions : \E b \in Blocks : I \in Elements(Body(b))
<1>1. \A b \in Blocks : ToSet(Body(b)) = Elements(Body(b))
  BY DEF ToSet, Elements
<1>2. \A I \in Instructions : \E b \in Blocks : I \in Elements(Body(b))
  BY <1>1 DEF Instructions
<1>3. \A b \in Blocks : Elements(Body(b)) \subseteq Instructions
  BY <1>1 DEF Instructions
<1>4. \A b \in Blocks : Elements(Body(b)) \subseteq Instruction
  BY ProgramFacts, SeqFacts
<1>5. ASSUME NEW I \in Instructions
      PROVE  I \in Instruction /\ I.id > Len(succs) /\ (I.op \in Loading => I.args = << >>)
  BY <1>2, <1>4, ProgramFacts
<1>6. \A v \in Values : v \in Int /\ v > Len(succs)
  BY <1>5 DEF Values, Instruction
<1>7. \A v \in Values : InstructionOf(v) \in Instructions /\ InstructionOf(v).id = v
  BY DEF Values, InstructionOf
<1> QED BY <1>2, <1>3, <1>5, <1>6, <1>7

\* Predecessors of blocks are blocks.
LEMMA PredecessorsFacts ==
  ASSUME prog \in Programs, succs = prog.succs
  PROVE  LET ps == Predecessors(succs, Order)
         IN  DOMAIN ps = Blocks /\ \A b \in Blocks : ps[b] \in Seq(Blocks)
<1> DEFINE from(b, n) == LET a == Order[n]
                         IN  AtPositions([k \in DOMAIN succs[a] |-> a],
                                         {k \in DOMAIN succs[a] : succs[a][k] = b})
           all(b) == [n \in DOMAIN Order |-> from(b, n)]
           ps == Predecessors(succs, Order)
<1>1. ps = [b \in Blocks |-> Concatenated(all(b))]
  BY DEF Predecessors, Blocks
<1>2. ASSUME NEW b \in Blocks PROVE Concatenated(all(b)) \in Seq(Blocks)
  <2>1. Order = [n \in 1..Len(succs) |-> n] /\ Len(succs) \in Nat
    BY ProgramFacts DEF Order
  <2>2. ASSUME NEW n \in 1..Len(succs) PROVE from(b, n) \in Seq(Blocks)
    <3>1. Order[n] = n /\ n \in Blocks /\ succs[n] \in Seq(Blocks)
      BY <2>1, <2>2, ProgramFacts
    <3>2. [k \in DOMAIN succs[n] |-> n] \in Seq(Blocks)
      <4>1. Len(succs[n]) \in Nat /\ DOMAIN succs[n] = 1..Len(succs[n])
        BY <3>1
      <4> QED BY <3>1, <4>1
    <3> QED BY <3>1, <3>2, PickedElements
  <2>3. DOMAIN all(b) = 1..Len(succs) /\ Len(all(b)) = Len(succs)
        /\ \A n \in 1..Len(succs) : all(b)[n] = from(b, n)
    BY <2>1
  <2> HIDE DEF all, from
  <2> QED BY <2>1, <2>2, <2>3, ConcatenatedType
<1> QED BY <1>1, <1>2

\* Exits are blocks.
LEMMA ExitsFacts ==
  ASSUME prog \in Programs, succs = prog.succs
  PROVE  Exits \in Seq(Blocks)
<1>1. Order \in Seq(Blocks)
  BY ProgramFacts DEF Order
<1> QED BY <1>1, PickedElements DEF Exits

\* The edges of the inverted graph stay among its nodes.
LEMMA InvertedEdges ==
  ASSUME prog \in Programs, succs = prog.succs, preds = Predecessors(succs, Order)
  PROVE  \A n \in Nodes : InvertedSuccessors[n] \in Seq(Nodes)
<1> TAKE n \in Nodes
<1>1. InvertedSuccessors[n] = IF n = PseudoExit THEN Exits ELSE preds[n]
  BY DEF InvertedSuccessors, Nodes
<1>2. InvertedSuccessors[n] \in Seq(Blocks)
  BY <1>1, ExitsFacts, PredecessorsFacts DEF Nodes
<1> QED BY <1>2, SeqFacts, OverItsElements DEF Nodes
-----------------------------------------------------------------------------
\* The tree.

\* Every step of the dominators keeps the tree.
LEMMA TreeIsKept ==
  ASSUME prog \in Programs, succs = prog.succs, preds = Predecessors(succs, Order),
         analysis = "post_dominators", TreeOK, DomNext
  PROVE  TreeOK'
<1>1. PseudoExit' = PseudoExit /\ Nodes' = Nodes /\ graph' = graph
      /\ InvertedSuccessors' = InvertedSuccessors
  BY DEF DomNext, Walk, Traversed, StartPass, Refine, Refined, Numbered, PseudoExit, Nodes, Blocks,
         InvertedSuccessors, Exits, Order
<1>2. CASE Walk
  <2> DEFINE next == IF phase = "traverse" THEN graph.ahead ELSE children
             nodes == IF phase = "traverse" THEN Nodes ELSE Elements(postorder)
  <2>1. walk.stack # << >> /\ walk' = TraversalStep(next, walk) /\ phase' = phase
        /\ postorder' = postorder /\ children' = children
    BY <1>2 DEF Walk
  <2>2. CASE phase \in {"traverse", "number", "done"}
    <3>1. TraversalOK(walk, nodes, PseudoExit)
      BY <2>2 DEF TreeOK
    <3>2. \A n \in nodes : next[n] \in Seq(nodes)
      BY <2>2, InvertedEdges DEF TreeOK
    <3> HIDE DEF next, nodes
    <3>3. TraversalOK(walk', nodes, PseudoExit)
      BY <2>1, <3>1, <3>2, TraversalGoesOn
    <3> QED BY <1>1, <2>1, <2>2, <3>3 DEF TreeOK, nodes
  <2>3. CASE phase = "refine"
    BY <1>1, <2>1, <2>3 DEF TreeOK
  <2> QED BY <2>2, <2>3 DEF TreeOK
<1>3. CASE Traversed
  <2>1. walk.stack = << >> /\ TraversalOK(walk, Nodes, PseudoExit)
    BY <1>3 DEF Traversed, TreeOK
  <2>2. walk.events \in Seq({"pre", "post"} \X Nodes)
        /\ <<"post", PseudoExit>> \in Elements(walk.events)
    BY <2>1 DEF TraversalOK
  <2>3. Posts(walk.events) \in Seq(Nodes) /\ PseudoExit \in Elements(Posts(walk.events))
    BY <2>2, PostsOfEvents
  <2>4. postorder' = Posts(walk.events) /\ phase' = "refine"
    BY <1>3 DEF Traversed
  <2> QED BY <1>1, <2>3, <2>4 DEF TreeOK
<1>4. CASE StartPass
  BY <1>1, <1>4 DEF StartPass, TreeOK
<1>5. CASE Refine
  BY <1>1, <1>5 DEF Refine, TreeOK
<1>6. CASE Refined
  <2>1. /\ phase = "refine" /\ phase' = "number" /\ postorder' = postorder
        /\ walk' = TraversalFrom(PseudoExit)
        /\ children' = [b \in ToSet(postorder) |-> ChildrenOf(b)]
        /\ postorder \in Seq(Nodes) /\ PseudoExit \in Elements(postorder)
    BY <1>6 DEF Refined, TreeOK
  <2>2. postorder \in Seq(Elements(postorder))
    BY <2>1, OverItsElements
  <2>3. \A b \in Elements(postorder) : ChildrenOf(b) \in Seq(Elements(postorder))
    BY <2>2, PickedElements DEF ChildrenOf
  <2>4. ToSet(postorder) = Elements(postorder)
    BY DEF ToSet, Elements
  <2>5. children' \in [Elements(postorder) -> Seq(Elements(postorder))]
    BY <2>1, <2>3, <2>4
  <2>6. TraversalOK(walk', Elements(postorder), PseudoExit)
    BY <2>1, TraversalStarts
  <2> QED BY <1>1, <2>1, <2>5, <2>6 DEF TreeOK
<1>7. CASE Numbered
  BY <1>1, <1>7 DEF Numbered, TreeOK
<1> QED BY <1>2, <1>3, <1>4, <1>5, <1>6, <1>7 DEF DomNext
-----------------------------------------------------------------------------
\* The control dependences.

\* A dependence of fewer blocks is one of more.
LEMMA DependencesWiden ==
  ASSUME NEW S, NEW T, S \subseteq T, NEW s \in Seq(Dependences(S))
  PROVE  s \in Seq(Dependences(T))
<1>1. Dependences(S) \subseteq Dependences(T)
  BY DEF Dependences
<1> QED BY <1>1, SeqFacts, OverItsElements

\* What a node of the tree depends on, from its edges and its children.
LEMMA FrontierType ==
  ASSUME DivTypeOK, TreeOK, phase = "done", NEW b \in Blocks, b \in Elements(postorder)
  PROVE  FrontierOf(b) \in Seq(Dependences({b}))
<1> DEFINE local == [k \in DOMAIN preds[b] |-> [source |-> preds[b][k], target |-> b, via |-> b]]
           entry == IF b = 1 THEN <<[source |-> PseudoEntryBlock, target |-> b, via |-> b]>>
                    ELSE << >>
           each == [k \in DOMAIN children[b] |-> DependencesOf(children[b][k])]
           up == Concatenated(each)
           K(deps) == {k \in DOMAIN deps : \/ deps[k].source = PseudoEntryBlock
                                           \/ ~StrictlyPostDominates(b, deps[k].source)}
           inherited == AtPositions(up, K(up))
           mine == [k \in DOMAIN inherited |-> [inherited[k] EXCEPT !.target = b]]
           D == Dependences({b})
<1>1. FrontierOf(b) = AtPositions(local, K(local)) \o entry \o mine
  BY DEF FrontierOf
<1>2. Blocks = 1..Len(succs) /\ preds[b] \in Seq(Blocks)
  BY ProgramFacts, PredecessorsFacts DEF DivTypeOK
<1>3. local \in Seq(D)
  <2>1. Len(preds[b]) \in Nat /\ DOMAIN preds[b] = 1..Len(preds[b])
    BY <1>2
  <2>2. ASSUME NEW k \in 1..Len(preds[b])
        PROVE  [source |-> preds[b][k], target |-> b, via |-> b] \in D
    <3>1. preds[b][k] \in Blocks /\ b \in Int
      BY <1>2
    <3> QED BY <3>1 DEF Dependences
  <2> HIDE DEF D
  <2> QED BY <2>1, <2>2
<1>4. entry \in Seq(D)
  <2>1. [source |-> PseudoEntryBlock, target |-> b, via |-> b] \in D
    BY <1>2 DEF Dependences
  <2> HIDE DEF D
  <2> QED BY <2>1
<1>5. up \in Seq(Dependences(Nodes))
  <2>1. children[b] \in Seq(Nodes)
    <3>1. Elements(postorder) \subseteq Nodes /\ children[b] \in Seq(Elements(postorder))
      BY SeqFacts DEF TreeOK
    <3> QED BY <3>1, SeqFacts, OverItsElements
  <2>2. Len(children[b]) \in Nat /\ DOMAIN children[b] = 1..Len(children[b])
    BY <2>1
  <2>3. ASSUME NEW k \in 1..Len(children[b]) PROVE each[k] \in Seq(Dependences(Nodes))
    <3>1. children[b][k] \in Nodes /\ each[k] = DependencesOf(children[b][k])
      BY <2>1, <2>2
    <3>2. CASE children[b][k] \in DOMAIN cd
      <4>1. each[k] \in Seq(Dependences({children[b][k]}))
        BY <3>1, <3>2 DEF DependencesOf, DivTypeOK
      <4> QED BY <3>1, <4>1, DependencesWiden
    <3>3. CASE children[b][k] \notin DOMAIN cd
      BY <3>1, <3>3, EmptyIn DEF DependencesOf
    <3> QED BY <3>2, <3>3
  <2>4. DOMAIN each = 1..Len(children[b]) /\ Len(each) = Len(children[b])
    BY <2>2
  <2> HIDE DEF each
  <2> QED BY <2>2, <2>3, <2>4, ConcatenatedType
<1>6. inherited \in Seq(Dependences(Nodes))
  BY <1>5, PickedElements
<1>7. mine \in Seq(D)
  <2> HIDE DEF inherited
  <2>1. Len(inherited) \in Nat /\ DOMAIN inherited = 1..Len(inherited)
    BY <1>6
  <2>2. ASSUME NEW k \in 1..Len(inherited) PROVE [inherited[k] EXCEPT !.target = b] \in D
    <3>1. inherited[k] \in Dependences(Nodes)
      BY <1>6, <2>1
    <3> QED BY <3>1 DEF Dependences
  <2> HIDE DEF D
  <2> QED BY <2>1, <2>2
<1>8. AtPositions(local, K(local)) \in Seq(D)
  BY <1>3, PickedElements
<1> DEFINE kept == AtPositions(local, K(local))
<1> HIDE DEF local, entry, mine, K, D, kept
<1>9. kept \o entry \o mine \in Seq(D)
  BY <1>4, <1>7, <1>8 DEF kept
<1> QED BY <1>1, <1>9 DEF D, kept

\* The forward graph has the dependences of every block in the order.
LEMMA ForwardFacts ==
  ASSUME NEW reverse, NEW order \in Seq(Blocks), Elements(order) \subseteq DOMAIN reverse,
         \A b \in Elements(order) : reverse[b] \in Seq(Dependences({b}))
  PROVE  LET f == ForwardFrom(reverse, order)
         IN  /\ \A b \in DOMAIN f : f[b] \in Seq(Dependences(Blocks))
             /\ DOMAIN reverse \subseteq DOMAIN f
             /\ \A x \in Elements(order) : \A d \in Elements(reverse[x]) :
                  d.source \in DOMAIN f /\ d \in Elements(f[d.source])
<1> DEFINE each == [k \in DOMAIN order |-> reverse[order[k]]]
           all == Concatenated(each)
           K(b) == {k \in DOMAIN all : all[k].source = b}
           f == ForwardFrom(reverse, order)
           D == Dependences(Blocks)
<1>1. f = [b \in DOMAIN reverse \cup {d.source : d \in Elements(all)} |-> AtPositions(all, K(b))]
  BY DEF ForwardFrom
<1>2. Len(order) \in Nat /\ DOMAIN order = 1..Len(order)
      /\ \A k \in 1..Len(order) : order[k] \in Elements(order) /\ order[k] \in Blocks
  BY DEF Elements
<1>3. ASSUME NEW k \in 1..Len(order) PROVE each[k] = reverse[order[k]] /\ each[k] \in Seq(D)
  <2>1. each[k] = reverse[order[k]]
    BY <1>2
  <2>2. reverse[order[k]] \in Seq(Dependences({order[k]})) /\ {order[k]} \subseteq Blocks
    BY <1>2
  <2>3. reverse[order[k]] \in Seq(D)
    BY <2>2, DependencesWiden
  <2> QED BY <2>1, <2>3
<1>4. DOMAIN each = 1..Len(order) /\ Len(each) = Len(order)
  BY <1>2
<1> HIDE DEF each, D
<1>5. all \in Seq(D)
  BY <1>2, <1>3, <1>4, ConcatenatedType
<1>6. \A k \in 1..Len(order) : Elements(each[k]) \subseteq Elements(all)
  BY <1>2, <1>3, <1>4, ConcatenatedKeeps
<1> HIDE DEF all
<1>7. ASSUME NEW d \in Elements(all) PROVE d \in Elements(AtPositions(all, K(d.source)))
  <2>1. PICK k \in DOMAIN all : all[k] = d
    BY <1>7 DEF Elements
  <2>2. k \in K(d.source)
    BY <2>1
  <2> HIDE DEF K
  <2> QED BY <1>5, <2>1, <2>2, AtPositionsKeeps
<1>8. \A b : AtPositions(all, K(b)) \in Seq(D)
  BY <1>5, PickedElements
<1> HIDE DEF K, f
<1>9. ASSUME NEW x \in Elements(order), NEW d \in Elements(reverse[x])
      PROVE  d.source \in DOMAIN f /\ d \in Elements(f[d.source])
  <2>1. PICK k \in 1..Len(order) : order[k] = x
    BY <1>2, <1>9 DEF Elements
  <2>2. d \in Elements(all)
    BY <1>3, <1>6, <1>9, <2>1
  <2>3. d.source \in DOMAIN f /\ f[d.source] = AtPositions(all, K(d.source))
    BY <1>1, <2>2
  <2> QED BY <1>7, <2>2, <2>3
<1>10. \A b \in DOMAIN f : f[b] \in Seq(D)
  BY <1>1, <1>8
<1>11. DOMAIN reverse \subseteq DOMAIN f
  BY <1>1
<1> QED BY <1>9, <1>10, <1>11 DEF f, D
-----------------------------------------------------------------------------
\* Who is told of a change.

\* The users of an id: instructions with it as an operand, branches with it as
\* their condition.
LEMMA UsersFacts ==
  ASSUME prog \in Programs, succs = prog.succs, NEW id
  PROVE  /\ UsersOf(id) \in Seq(Items)
         /\ \A I \in Instructions : id \in Elements(I.args) => I.id \in Elements(UsersOf(id))
         /\ \A b \in DOMAIN prog.cond : prog.cond[b] = id => -b \in Elements(UsersOf(id))
<1> DEFINE each == [b \in Blocks |-> UsersIn(b, id)]
<1>1. Len(succs) \in Nat /\ Blocks = 1..Len(succs)
  BY ProgramFacts
<1>2. ASSUME NEW b \in Blocks
      PROVE  /\ UsersIn(b, id) \in Seq(Items)
             /\ \A I \in Elements(Body(b)) : id \in Elements(I.args) =>
                  I.id \in Elements(UsersIn(b, id))
             /\ b \in DOMAIN prog.cond /\ prog.cond[b] = id => -b \in Elements(UsersIn(b, id))
  <2> DEFINE K == {k \in DOMAIN Body(b) : id \in Elements(Body(b)[k].args)}
             users == AtPositions(Body(b), K)
             ids == [k \in DOMAIN users |-> users[k].id]
             term == IF b \in DOMAIN prog.cond /\ prog.cond[b] = id THEN <<-b>> ELSE << >>
  <2>1. UsersIn(b, id) = ids \o term
    BY DEF UsersIn
  <2>2. Body(b) \in Seq(Elements(Body(b)))
    BY ProgramFacts, OverItsElements
  <2>3. users \in Seq(Elements(Body(b)))
    BY <2>2, PickedElements
  <2>4. \A k \in K : Body(b)[k] \in Elements(users)
    BY <2>2, AtPositionsKeeps
  <2> HIDE DEF users
  <2>5. Len(users) \in Nat /\ DOMAIN users = 1..Len(users)
    BY <2>3
  <2>6. \A I \in Elements(Body(b)) : I.id \in Values
    BY InstructionFacts DEF Values
  <2>7. ids \in Seq(Items)
    <3>1. \A k \in 1..Len(users) : users[k].id \in Items
      BY <2>3, <2>5, <2>6 DEF Items
    <3> QED BY <2>5, <3>1
  <2>8. term \in Seq(Items) /\ (b \in DOMAIN prog.cond /\ prog.cond[b] = id => -b \in Elements(term))
    <3>1. -b \in Items
      BY DEF Items
    <3>2. <<-b>> \in Seq(Items) /\ -b \in Elements(<<-b>>)
      BY <3>1 DEF Elements
    <3> QED BY <3>2, EmptyIn
  <2>9. ASSUME NEW I \in Elements(Body(b)), id \in Elements(I.args) PROVE I.id \in Elements(ids)
    <3>1. PICK k \in DOMAIN Body(b) : Body(b)[k] = I
      BY <2>9 DEF Elements
    <3>2. I \in Elements(users)
      BY <2>4, <2>9, <3>1
    <3>3. PICK j \in DOMAIN users : users[j] = I
      BY <3>2 DEF Elements
    <3> QED BY <3>3 DEF Elements
  <2> HIDE DEF ids, term
  <2>10. ids \o term \in Seq(Items) /\ Elements(ids \o term) = Elements(ids) \cup Elements(term)
    BY <2>7, <2>8, JoinedElements
  <2> QED BY <2>1, <2>8, <2>9, <2>10
<1>3. DOMAIN each = 1..Len(succs) /\ Len(each) = Len(succs)
      /\ \A b \in 1..Len(succs) : each[b] = UsersIn(b, id) /\ each[b] \in Seq(Items)
  BY <1>1, <1>2
<1>4. UsersOf(id) = Concatenated(each)
  BY DEF UsersOf
<1> HIDE DEF each
<1>5. UsersOf(id) \in Seq(Items)
  BY <1>1, <1>3, <1>4, ConcatenatedType
<1>6. \A b \in Blocks : Elements(UsersIn(b, id)) \subseteq Elements(UsersOf(id))
  BY <1>1, <1>3, <1>4, ConcatenatedKeeps
<1>7. ASSUME NEW I \in Instructions, id \in Elements(I.args)
      PROVE  I.id \in Elements(UsersOf(id))
  <2>1. PICK b \in Blocks : I \in Elements(Body(b))
    BY InstructionFacts
  <2> QED BY <1>2, <1>6, <1>7, <2>1
<1>8. ASSUME NEW b \in DOMAIN prog.cond, prog.cond[b] = id PROVE -b \in Elements(UsersOf(id))
  BY <1>2, <1>6, <1>8, ProgramFacts
<1> QED BY <1>5, <1>7, <1>8

\* The phis of a block are items.
LEMMA PhisType ==
  ASSUME prog \in Programs, succs = prog.succs, NEW b \in Blocks
  PROVE  PhisOf(b) \in Seq(Items)
<1> DEFINE K == {k \in DOMAIN Body(b) : Body(b)[k].op = "phi"}
           phis == AtPositions(Body(b), K)
<1>1. Body(b) \in Seq(Elements(Body(b)))
  BY ProgramFacts, OverItsElements
<1>2. phis \in Seq(Elements(Body(b)))
  BY <1>1, PickedElements
<1>3. PhisOf(b) = [k \in DOMAIN phis |-> phis[k].id]
  BY DEF PhisOf
<1> HIDE DEF phis
<1>4. Len(phis) \in Nat /\ DOMAIN phis = 1..Len(phis)
  BY <1>2
<1>5. \A I \in Elements(Body(b)) : I.id \in Items
  BY InstructionFacts DEF Values, Items
<1>6. \A k \in 1..Len(phis) : phis[k].id \in Items
  BY <1>2, <1>4, <1>5
<1> QED BY <1>3, <1>4, <1>6

\* The blocks that depend on b are told, by the forward graph.
LEMMA DependentsFacts ==
  ASSUME ForwardMirrorsReverse, stage = "run", NEW b
  PROVE  /\ DependentsOf(b) \in Seq(Items)
         /\ \A x \in Blocks \cap DOMAIN cd : \A d \in Elements(cd[x]) :
              d.source = b /\ d.target = x => x \in Elements(DependentsOf(b))
<1>1. CASE ~HasBlock(b)
  <2>1. DependentsOf(b) = << >>
    BY <1>1 DEF DependentsOf
  <2> QED BY <1>1, <2>1, EmptyIn DEF ForwardMirrorsReverse
<1>2. CASE HasBlock(b)
  <2> DEFINE deps == forward[b]
  <2>1. DependentsOf(b) = [k \in DOMAIN deps |-> deps[k].target]
    BY <1>2 DEF DependentsOf
  <2>2. deps \in Seq(Dependences(Blocks))
    BY <1>2 DEF ForwardMirrorsReverse, HasBlock
  <2>3. ASSUME NEW x \in Blocks \cap DOMAIN cd, NEW d \in Elements(cd[x]), d.source = b, d.target = x
        PROVE  d \in Elements(deps)
    BY <2>3 DEF ForwardMirrorsReverse
  <2> HIDE DEF deps
  <2>4. Len(deps) \in Nat /\ DOMAIN deps = 1..Len(deps)
    BY <2>2
  <2>5. \A k \in 1..Len(deps) : deps[k].target \in Items
    <3>1. \A k \in 1..Len(deps) : deps[k] \in Dependences(Blocks)
      BY <2>2, <2>4
    <3> QED BY <3>1 DEF Dependences, Items
  <2>6. DependentsOf(b) \in Seq(Items)
    BY <2>1, <2>4, <2>5
  <2>7. ASSUME NEW x \in Blocks \cap DOMAIN cd, NEW d \in Elements(cd[x]), d.source = b, d.target = x
        PROVE  x \in Elements(DependentsOf(b))
    <3>1. PICK k \in DOMAIN deps : deps[k] = d
      BY <2>3, <2>7 DEF Elements
    <3>2. k \in DOMAIN DependentsOf(b) /\ DependentsOf(b)[k] = x
      BY <2>1, <2>7, <3>1
    <3> QED BY <3>2 DEF Elements
  <2> QED BY <2>6, <2>7
<1> QED BY <1>1, <1>2
-----------------------------------------------------------------------------
\* The visits.

\* Levels, and who may have one.
LEMMA LevelFacts ==
  ASSUME DivTypeOK
  PROVE  /\ \A id : LevelOf(id) \in {Uniform, PartiallyUniform, Divergent}
         /\ \A id : LevelOf(id) # Uniform => id \in Blocks \cup Values /\ id \in Int
         /\ \A id \in Blocks \cup Values : FoundOf(id) \in Findings /\ FoundOf(id).level = level[id]
         /\ \A id \in Blocks \cup Values : LevelOf(id) = level[id]
         /\ \A id \in Values : id \notin Blocks /\ ~(id < 0)
         /\ \A id \in Blocks : id \in Nat \ {0}
<1>1. Len(succs) \in Nat /\ Blocks = 1..Len(succs) /\ \A v \in Values : v \in Int /\ v > Len(succs)
  BY ProgramFacts, InstructionFacts DEF DivTypeOK
<1>2. /\ level \in [Blocks \cup Values -> {Uniform, PartiallyUniform, Divergent}]
      /\ source \in [Blocks \cup Values -> Int] /\ branch \in [Blocks -> Int]
  BY DEF DivTypeOK
<1>3. \A id : LevelOf(id) \in {Uniform, PartiallyUniform, Divergent}
  BY <1>2 DEF LevelOf
<1>4. \A id \in Blocks \cup Values : LevelOf(id) = level[id]
  BY <1>2 DEF LevelOf
<1>5. ASSUME NEW id \in Blocks \cup Values
      PROVE  FoundOf(id) \in Findings /\ FoundOf(id).level = level[id]
  <2>1. source[id] \in Int /\ (id \in Blocks => branch[id] \in Int) /\ 0 \in Int
    BY <1>2
  <2> QED BY <1>3, <1>4, <2>1 DEF FoundOf, Findings
<1>6. \A id : LevelOf(id) # Uniform => id \in Blocks \cup Values /\ id \in Int
  BY <1>1, <1>2 DEF LevelOf
<1> QED BY <1>1, <1>3, <1>4, <1>5, <1>6

\* What is not uniform.
Raised == {f \in Findings : f.level # Uniform}

\* Taking a dependence keeps a level that is not uniform, and gives one when
\* the source or its condition has one.
LEMMA TakeFacts ==
  ASSUME DivTypeOK, NEW b \in Blocks, NEW d \in Dependences({b}), NEW found \in Findings
  PROVE  /\ Take(b, found, d) \in Findings
         /\ found \in Raised => Take(b, found, d) \in Raised
         /\ d.source # b /\ LevelOf(d.source) # Uniform => Take(b, found, d) \in Raised
         /\ d.source \in DOMAIN prog.cond /\ LevelOf(prog.cond[d.source]) # Uniform =>
              Take(b, found, d) \in Raised
<1> DEFINE own == IF d.source = b THEN found.level ELSE LevelOf(d.source)
           cond == prog.cond[d.source]
           condition == LevelOf(cond)
           seen == IF FollowFrom(d.via) # FollowFrom(b) /\ condition = PartiallyUniform
                   THEN Divergent ELSE condition
           Levels == {Uniform, PartiallyUniform, Divergent}
<1>1. Take(b, found, d) =
        IF own > found.level THEN [found EXCEPT !.level = own, !.source = d.source]
        ELSE IF d.source # PseudoEntryBlock /\ seen > found.level
        THEN [level |-> seen, source |-> cond, branch |-> d.source]
        ELSE found
  BY DEF Take
<1>2. found.level \in Levels /\ found.source \in Int /\ found.branch \in Int
  BY DEF Findings
<1>3. own \in Levels /\ condition \in Levels /\ seen \in Levels
  BY <1>2, LevelFacts DEF Divergent
<1>4. condition # Uniform => cond \in Int
  BY LevelFacts
<1>5. d.source \in Int /\ (d.source \in DOMAIN prog.cond => d.source # PseudoEntryBlock)
  BY ProgramFacts DEF DivTypeOK, Dependences, PseudoEntryBlock
<1>6. seen # Uniform <=> condition # Uniform
  BY DEF Uniform, Divergent, PartiallyUniform
<1> HIDE DEF own, cond, condition, seen
<1>7. CASE own > found.level
  <2>1. Take(b, found, d) = [found EXCEPT !.level = own, !.source = d.source]
    BY <1>1, <1>7
  <2>2. own # Uniform
    BY <1>2, <1>3, <1>7 DEF Uniform, PartiallyUniform, Divergent
  <2>3. Take(b, found, d) \in Findings /\ Take(b, found, d).level = own
    BY <1>2, <1>3, <1>5, <2>1 DEF Findings
  <2> QED BY <2>2, <2>3 DEF Raised
<1>8. CASE ~(own > found.level) /\ d.source # PseudoEntryBlock /\ seen > found.level
  <2>1. Take(b, found, d) = [level |-> seen, source |-> cond, branch |-> d.source]
    BY <1>1, <1>8
  <2>2. seen # Uniform
    BY <1>2, <1>3, <1>8 DEF Uniform, PartiallyUniform, Divergent
  <2>3. Take(b, found, d) \in Findings /\ Take(b, found, d).level = seen
    BY <1>3, <1>4, <1>5, <1>6, <2>1, <2>2 DEF Findings
  <2> QED BY <2>2, <2>3 DEF Raised
<1>9. CASE ~(own > found.level) /\ ~(d.source # PseudoEntryBlock /\ seen > found.level)
  <2>1. Take(b, found, d) = found
    BY <1>1, <1>9
  <2>2. own # Uniform => found.level # Uniform
    BY <1>2, <1>3, <1>9 DEF Uniform, PartiallyUniform, Divergent
  <2>3. d.source # PseudoEntryBlock /\ seen # Uniform => found.level # Uniform
    BY <1>2, <1>3, <1>9 DEF Uniform, PartiallyUniform, Divergent
  <2>4. d.source # b => own = LevelOf(d.source)
    BY DEF own
  <2>5. condition = LevelOf(prog.cond[d.source])
    BY DEF condition, cond
  <2> QED BY <1>5, <1>6, <2>1, <2>2, <2>3, <2>4, <2>5 DEF Raised
<1> QED BY <1>7, <1>8, <1>9

\* A block that a visit leaves uniform depends on uniform blocks and conditions.
LEMMA VisitBlockFacts ==
  ASSUME DivTypeOK, ForwardMirrorsReverse, stage = "run", NEW b \in Blocks
  PROVE  /\ VisitBlock(b) \in Findings
         /\ b \in DOMAIN cd /\ VisitBlock(b).level = Uniform =>
              \A d \in Elements(cd[b]) :
                /\ d.source # b => LevelOf(d.source) = Uniform
                /\ d.source \in DOMAIN prog.cond => LevelOf(prog.cond[d.source]) = Uniform
<1> DEFINE deps == DependencesOf(b)
           step == [p \in Elements(deps) \X Findings |-> Take(b, p[2], p[1])]
<1>1. FoundOf(b) \in Findings /\ FoundOf(b).level = level[b] /\ LevelOf(b) = level[b]
  BY LevelFacts
<1>2. CASE ~HasBlock(b) \/ LevelOf(b) = Divergent
  <2>1. VisitBlock(b) = FoundOf(b)
    BY <1>2 DEF VisitBlock
  <2>2. b \in DOMAIN cd => HasBlock(b)
    BY DEF ForwardMirrorsReverse
  <2> QED BY <1>1, <1>2, <2>1, <2>2 DEF Uniform, Divergent
<1>3. CASE ~(~HasBlock(b) \/ LevelOf(b) = Divergent)
  <2>1. VisitBlock(b) = RunOver(step, FoundOf(b), deps)
    BY <1>3 DEF VisitBlock
  <2>2. deps \in Seq(Dependences({b}))
    <3>1. b \in DOMAIN cd => cd[b] \in Seq(Dependences({b}))
      BY DEF DivTypeOK
    <3> QED BY <3>1, EmptyIn DEF DependencesOf
  <2>3. deps \in Seq(Elements(deps)) /\ Elements(deps) \subseteq Dependences({b})
    BY <2>2, OverItsElements, SeqFacts
  <2>4. b \in DOMAIN cd => deps = cd[b]
    BY DEF DependencesOf
  <2> HIDE DEF deps
  <2>5. step \in [Elements(deps) \X Findings -> Findings]
        /\ \A e \in Elements(deps) : \A f \in Findings : step[<<e, f>>] = Take(b, f, e)
    <3>1. \A e \in Elements(deps) : \A f \in Findings : Take(b, f, e) \in Findings
      BY <2>3, TakeFacts
    <3> QED BY <3>1
  <2> HIDE DEF step
  <2>6. VisitBlock(b) \in Findings
    <3>1. FoundOf(b) \in Findings /\ deps \in Seq(Elements(deps))
          /\ step \in [Elements(deps) \X Findings -> Findings]
      BY <1>1, <2>3, <2>5
    <3>2. RunOver(step, FoundOf(b), deps) \in Findings
      BY <3>1, RunOverType
    <3> QED BY <2>1, <3>2
  <2>7. Raised \in SUBSET Findings
        /\ \A e \in Elements(deps) : \A f \in Raised : step[<<e, f>>] \in Raised
    BY <2>3, <2>5, TakeFacts DEF Raised
  <2>8. ASSUME NEW d \in Elements(deps),
               \/ d.source # b /\ LevelOf(d.source) # Uniform
               \/ d.source \in DOMAIN prog.cond /\ LevelOf(prog.cond[d.source]) # Uniform
        PROVE  VisitBlock(b) \in Raised
    <3>1. \A f \in Findings : step[<<d, f>>] \in Raised
      BY <2>3, <2>5, <2>8, TakeFacts
    <3>2. FoundOf(b) \in Findings /\ deps \in Seq(Elements(deps))
          /\ step \in [Elements(deps) \X Findings -> Findings]
      BY <1>1, <2>3, <2>5
    <3>3. RunOver(step, FoundOf(b), deps) \in Raised
      BY <2>7, <3>1, <3>2, RunOverReaches
    <3> QED BY <2>1, <3>3
  <2> QED BY <2>4, <2>6, <2>8 DEF Raised
<1> QED BY <1>2, <1>3

\* A value that a visit leaves uniform has uniform operands.
LEMMA VisitInstructionFacts ==
  ASSUME DivTypeOK, NEW v \in Values
  PROVE  LET I == InstructionOf(v)
         IN  /\ VisitInstruction(I) \in Findings
             /\ VisitInstruction(I).level = Uniform =>
                  \A a \in Elements(I.args) : LevelOf(a) = Uniform
<1> DEFINE I == InstructionOf(v)
           Highest(found, a) ==
             IF LevelOf(a) > found.level THEN [found EXCEPT !.level = LevelOf(a), !.source = a]
             ELSE found
           start == [FoundOf(v) EXCEPT !.level = Uniform]
           step == [p \in Elements(I.args) \X Findings |-> Highest(p[2], p[1])]
           Root(l) == [level |-> l, source |-> 0, branch |-> 0]
<1>1. I \in Instruction /\ I.id = v /\ (I.op \in Loading => I.args = << >>)
  BY InstructionFacts DEF DivTypeOK
<1>2. FoundOf(v) \in Findings /\ FoundOf(v).level = level[v] /\ LevelOf(v) = level[v]
  BY LevelFacts
<1>3. VisitInstruction(I) =
        IF LevelOf(v) = Divergent THEN FoundOf(v)
        ELSE CASE I.op = "uniform" -> start
               [] I.op = "flat" -> Root(PartiallyUniform)
               [] I.op = "divergent" -> Root(Divergent)
               [] OTHER -> RunOver(step, start, I.args)
  BY <1>1 DEF VisitInstruction
<1>4. start \in Findings /\ start.level = Uniform
  BY <1>2 DEF Findings
<1>5. I.args \in Seq(Elements(I.args)) /\ Elements(I.args) \subseteq Int
  BY <1>1, OverItsElements, SeqFacts DEF Instruction
<1> HIDE DEF I, start
<1>6. ASSUME NEW a \in Elements(I.args), NEW f \in Findings
      PROVE  /\ Highest(f, a) \in Findings
             /\ f \in Raised \/ LevelOf(a) # Uniform => Highest(f, a) \in Raised
  <2>1. /\ LevelOf(a) \in {Uniform, PartiallyUniform, Divergent} /\ a \in Int
        /\ f.level \in {Uniform, PartiallyUniform, Divergent}
    BY <1>5, LevelFacts DEF Findings
  <2>2. CASE LevelOf(a) > f.level
    <3>1. Highest(f, a) = [f EXCEPT !.level = LevelOf(a), !.source = a]
      BY <2>2
    <3> HIDE DEF Highest
    <3>2. Highest(f, a) \in Findings /\ Highest(f, a).level = LevelOf(a)
      BY <2>1, <3>1 DEF Findings
    <3>3. LevelOf(a) # Uniform
      BY <2>1, <2>2 DEF Uniform, PartiallyUniform, Divergent
    <3> QED BY <3>2, <3>3 DEF Raised
  <2>3. CASE ~(LevelOf(a) > f.level)
    <3>1. Highest(f, a) = f
      BY <2>3
    <3> HIDE DEF Highest
    <3>2. LevelOf(a) # Uniform => f.level # Uniform
      BY <2>1, <2>3 DEF Uniform, PartiallyUniform, Divergent
    <3> QED BY <3>1, <3>2 DEF Raised
  <2> QED BY <2>2, <2>3
<1> HIDE DEF Highest
<1>7. step \in [Elements(I.args) \X Findings -> Findings]
      /\ \A e \in Elements(I.args) : \A f \in Findings : step[<<e, f>>] = Highest(f, e)
  BY <1>6
<1> HIDE DEF step
<1>8. CASE LevelOf(v) = Divergent
  BY <1>2, <1>3, <1>8 DEF I, Uniform, Divergent
<1>9. CASE LevelOf(v) # Divergent /\ I.op = "uniform"
  <2>1. VisitInstruction(I) = start
    BY <1>3, <1>9
  <2>2. Elements(I.args) = {}
    BY <1>1, <1>9, EmptyIn DEF Loading
  <2> QED BY <1>4, <2>1, <2>2 DEF I
<1>10. CASE LevelOf(v) # Divergent /\ I.op \in {"flat", "divergent"}
  <2>1. VisitInstruction(I) \in {Root(PartiallyUniform), Root(Divergent)}
    BY <1>3, <1>10
  <2> QED BY <2>1 DEF I, Findings, Uniform, PartiallyUniform, Divergent
<1>11. CASE LevelOf(v) # Divergent /\ I.op \notin {"uniform", "flat", "divergent"}
  <2>1. VisitInstruction(I) = RunOver(step, start, I.args)
    BY <1>3, <1>11
  <2>2. VisitInstruction(I) \in Findings
    <3>1. step \in [Elements(I.args) \X Findings -> Findings]
      BY <1>7
    <3>2. RunOver(step, start, I.args) \in Findings
      BY <1>4, <1>5, <3>1, RunOverType
    <3> QED BY <2>1, <3>2
  <2>3. ASSUME NEW a \in Elements(I.args), LevelOf(a) # Uniform
        PROVE  VisitInstruction(I) \in Raised
    <3>1. \A f \in Findings : step[<<a, f>>] \in Raised
      BY <1>6, <1>7, <2>3
    <3>2. Raised \in SUBSET Findings
          /\ \A e \in Elements(I.args) : \A f \in Raised : step[<<e, f>>] \in Raised
      BY <1>6, <1>7 DEF Raised
    <3>3. step \in [Elements(I.args) \X Findings -> Findings]
      BY <1>7
    <3>4. start \in Findings /\ I.args \in Seq(Elements(I.args)) /\ a \in Elements(I.args)
      BY <1>4, <1>5, <2>3
    <3> DEFINE args == I.args
    <3>5. /\ Raised \in SUBSET Findings
          /\ start \in Findings /\ args \in Seq(Elements(args)) /\ a \in Elements(args)
          /\ step \in [Elements(args) \X Findings -> Findings]
          /\ \A e \in Elements(args) : \A f \in Raised : step[<<e, f>>] \in Raised
      BY <3>2, <3>3, <3>4
    <3> HIDE DEF args
    <3>6. RunOver(step, start, args) \in Raised
      BY <3>1, <3>5, RunOverReaches
    <3> QED BY <2>1, <3>6 DEF args
  <2> QED BY <2>2, <2>3 DEF I, Raised
<1> QED BY <1>8, <1>9, <1>10, <1>11
-----------------------------------------------------------------------------
\* The invariant.

\* What the program alone decides.
LEMMA SameShader ==
  ASSUME UNCHANGED <<prog, succs>>
  PROVE  /\ UNCHANGED <<Blocks, Values, Instructions, PseudoExit, Nodes, Items>>
         /\ \A id : InstructionOf(id)' = InstructionOf(id)
<1>1. UNCHANGED <<Blocks, PseudoExit>>
  BY DEF Blocks, PseudoExit
<1>2. \A b : Body(b)' = Body(b)
  BY DEF Body
<1>3. UNCHANGED Instructions
  BY <1>1, <1>2 DEF Instructions
<1>4. UNCHANGED <<Values, Nodes, Items>>
  BY <1>1, <1>3 DEF Values, Nodes, Items
<1>5. \A id : InstructionOf(id)' = InstructionOf(id)
  BY <1>3 DEF InstructionOf
<1> QED BY <1>1, <1>3, <1>4, <1>5

\* What the program and the dependences decide.
LEMMA SameFlows ==
  ASSUME UNCHANGED <<prog, succs, cd>>
  PROVE  UNCHANGED Analyzed /\ \A id : FlowsInto(id)' = FlowsInto(id)
BY SameShader DEF Analyzed, FlowsInto

\* The tree stays when the dominators do.
LEMMA SameTree ==
  ASSUME UNCHANGED domVars, TreeOK
  PROVE  TreeOK'
<1>1. UNCHANGED <<PseudoExit, Nodes, InvertedSuccessors>>
  BY DEF domVars, PseudoExit, Nodes, Blocks, InvertedSuccessors, Exits, Order
<1> QED BY <1>1 DEF TreeOK, domVars

\* The tables that a step leaves alone keep their types.
LEMMA SameTables ==
  ASSUME DivTypeOK, UNCHANGED <<prog, domVars>>
  PROVE  /\ prog' \in Programs /\ succs' = prog'.succs /\ preds' = Predecessors(succs, Order)'
         /\ (analysis = "post_dominators" => TreeOK)'
         /\ cd' = cd => (\A b \in DOMAIN cd : cd[b] \in Seq(Dependences({b})))'
         /\ tour' = tour => TraversalOK(tour, Blocks, 1)'
         /\ UNCHANGED <<level, source, branch>> =>
              /\ (level \in [Blocks \cup Values -> {Uniform, PartiallyUniform, Divergent}])'
              /\ (source \in [Blocks \cup Values -> Int])'
              /\ (branch \in [Blocks -> Int])'
         /\ worklist' = worklist => (worklist \in Seq(Items))'
<1>1. UNCHANGED <<Blocks, Values, Items, prog, succs, preds, analysis>>
  BY SameShader DEF domVars
<1>2. (analysis = "post_dominators" => TreeOK)'
  BY <1>1, SameTree DEF DivTypeOK
<1>3. prog' \in Programs /\ succs' = prog'.succs /\ preds' = Predecessors(succs, Order)'
  BY <1>1 DEF DivTypeOK, Order
<1>4. cd' = cd => (\A b \in DOMAIN cd : cd[b] \in Seq(Dependences({b})))'
  BY <1>1 DEF DivTypeOK, Dependences
<1>5. tour' = tour => TraversalOK(tour, Blocks, 1)'
  BY <1>1 DEF DivTypeOK, TraversalOK
<1> QED BY <1>1, <1>2, <1>3, <1>4, <1>5 DEF DivTypeOK

\* The initial states.
LEMMA InitialState == DivInit => DivInv
<1> SUFFICES ASSUME DivInit PROVE DivInv
  OBVIOUS
<1>1. prog \in Programs /\ succs = prog.succs /\ preds = Predecessors(succs, Order)
  BY DEF DivInit, DomInit
<1>2. 1 \in Blocks
  BY <1>1, ProgramFacts
<1>3. analysis = "post_dominators" => TreeOK
  <2> SUFFICES ASSUME analysis = "post_dominators" PROVE TreeOK
    OBVIOUS
  <2>1. graph.root = PseudoExit /\ graph.ahead = InvertedSuccessors
        /\ walk = TraversalFrom(PseudoExit) /\ phase = "traverse"
    BY DEF DivInit, DomInit, GraphOf
  <2>2. TraversalOK(walk, Nodes, PseudoExit)
    BY <2>1, TraversalStarts DEF Nodes
  <2> QED BY <2>1, <2>2 DEF TreeOK
<1>4. \A b \in DOMAIN cd : cd[b] \in Seq(Dependences({b}))
  BY EmptyIn DEF DivInit
<1>5. TraversalOK(tour, Blocks, 1)
  BY <1>2, TraversalStarts DEF DivInit
<1>6. /\ level \in [Blocks \cup Values -> {Uniform, PartiallyUniform, Divergent}]
      /\ source \in [Blocks \cup Values -> Int] /\ branch \in [Blocks -> Int]
  BY DEF DivInit
<1>7. worklist \in Seq(Items) /\ stage = "dominance"
  BY EmptyIn DEF DivInit
<1>8. DivTypeOK
  BY <1>1, <1>3, <1>4, <1>5, <1>6, <1>7 DEF DivTypeOK
<1>9. ForwardMirrorsReverse
  BY <1>7 DEF ForwardMirrorsReverse
<1>10. NonUniformityIsFollowed
  <2>1. \A x \in Blocks \cup Values : level[x] = Uniform
    BY DEF DivInit
  <2> QED BY <1>7, <2>1 DEF NonUniformityIsFollowed
<1> QED BY <1>8, <1>9, <1>10 DEF DivInv

\* The invariants of the run do not depend on the tree.
LEMMA SameRun ==
  ASSUME UNCHANGED <<prog, succs, stage, cd, forward, worklist, level>>
  PROVE  /\ ForwardMirrorsReverse => ForwardMirrorsReverse'
         /\ NonUniformityIsFollowed => NonUniformityIsFollowed'
<1>1. /\ UNCHANGED <<Blocks, Values, Analyzed>>
      /\ \A id : FlowsInto(id)' = FlowsInto(id)
  BY SameShader, SameFlows
<1>2. \A id : LevelOf(id)' = LevelOf(id)
  BY DEF LevelOf
<1>3. \A x, id : Waits(x, id)' = Waits(x, id)
  BY <1>1 DEF Waits
<1>4. \A b : HasBlock(b)' = HasBlock(b)
  BY DEF HasBlock
<1>5. NonUniformityIsFollowed => NonUniformityIsFollowed'
  BY <1>1, <1>2, <1>3 DEF NonUniformityIsFollowed
<1>6. ForwardMirrorsReverse => ForwardMirrorsReverse'
  BY <1>1, <1>4 DEF ForwardMirrorsReverse, Dependences
<1> QED BY <1>5, <1>6

\* Steps of the dominators touch the tree alone.
LEMMA DominanceKeeps == DivInv /\ Dominance => DivInv'
<1> SUFFICES ASSUME DivInv, Dominance PROVE DivInv'
  OBVIOUS
<1>1. /\ DomNext /\ UNCHANGED <<prog, succs, preds, analysis>>
      /\ UNCHANGED <<stage, cd, forward, tour, follow, worklist, level, source, branch>>
  BY DEF Dominance, divOnly, DomNext, Walk, Traversed, StartPass, Refine, Refined, Numbered
<1>2. DivTypeOK /\ prog \in Programs /\ succs = prog.succs /\ preds = Predecessors(succs, Order)
  BY DEF DivInv, DivTypeOK
<1>3. (analysis = "post_dominators" => TreeOK)'
  BY <1>1, <1>2, TreeIsKept DEF DivTypeOK
<1>4. phase = "done" => phase' = "done"
  BY <1>1 DEF DomNext, Walk, Traversed, StartPass, Refine, Refined, Numbered
<1>5. UNCHANGED <<Blocks, Values, Items>>
  BY <1>1, SameShader
<1>6. preds' = Predecessors(succs, Order)'
  BY <1>1, <1>2, <1>5 DEF Order
<1>7. TraversalOK(tour, Blocks, 1)' /\ (\A b \in DOMAIN cd : cd[b] \in Seq(Dependences({b})))'
  BY <1>1, <1>2, <1>5 DEF DivTypeOK, TraversalOK, Dependences
<1>8. DivTypeOK'
  BY <1>1, <1>2, <1>3, <1>4, <1>5, <1>6, <1>7 DEF DivTypeOK
<1> QED BY <1>1, <1>8, SameRun DEF DivInv

\* The setup begins with the finished tree.
LEMMA SetupKeeps == DivInv /\ Setup => DivInv'
<1> SUFFICES ASSUME DivInv, Setup PROVE DivInv'
  OBVIOUS
<1>1. /\ stage = "dominance" /\ phase = "done" /\ analysis = "post_dominators"
      /\ stage' = "frontiers" /\ UNCHANGED <<prog, domVars>>
      /\ UNCHANGED <<cd, forward, tour, follow, worklist, level, source, branch>>
      /\ UNCHANGED <<succs, phase, analysis>>
  BY DEF Setup, domVars
<1>2. DivTypeOK'
  BY <1>1, SameTables DEF DivInv, DivTypeOK
<1>3. UNCHANGED <<Blocks, Values>>
  BY <1>1, SameShader
<1> QED BY <1>1, <1>2, <1>3 DEF DivInv, ForwardMirrorsReverse, NonUniformityIsFollowed

\* A node of the tree gets its dependences; after the last the graph is turned
\* round.
LEMMA FrontierKeeps == DivInv /\ Frontier => DivInv'
<1> SUFFICES ASSUME DivInv, Frontier PROVE DivInv'
  OBVIOUS
<1>1. /\ stage = "frontiers" /\ UNCHANGED <<prog, domVars>>
      /\ UNCHANGED <<tour, follow, worklist, level, source, branch, succs, phase, analysis>>
  BY DEF Frontier, domVars
<1>2. DivTypeOK /\ TreeOK /\ phase = "done" /\ analysis = "post_dominators"
      /\ prog \in Programs /\ succs = prog.succs
  BY <1>1 DEF DivInv, DivTypeOK
<1>3. PICK node \in Elements(Posts(walk.events)) :
        \/ /\ node # PseudoExit /\ UNCHANGED <<stage, forward>>
           /\ cd' = [b \in DOMAIN cd \cup {node} |-> IF b = node THEN FrontierOf(b) ELSE cd[b]]
        \/ /\ \E order \in {Order, Reverse(Order)} :
                forward' = ForwardFrom(cd, AtPositions(order, {k \in Blocks : order[k] \in DOMAIN cd}))
           /\ stage' = "traverse" /\ UNCHANGED cd
  BY DEF Frontier
<1>4. UNCHANGED <<Blocks, Values>>
  BY <1>1, SameShader
<1>5. \A x \in Blocks \cup Values : level[x] = Uniform
  BY <1>1 DEF DivInv, NonUniformityIsFollowed
<1>6. CASE /\ node # PseudoExit /\ UNCHANGED <<stage, forward>>
           /\ cd' = [b \in DOMAIN cd \cup {node} |-> IF b = node THEN FrontierOf(b) ELSE cd[b]]
  <2>1. walk.events \in Seq({"pre", "post"} \X Elements(postorder))
        /\ Elements(postorder) \subseteq Nodes
    BY <1>2, SeqFacts DEF TreeOK, TraversalOK
  <2>2. node \in Elements(postorder)
    BY <2>1, PostsOfEvents, SeqFacts
  <2>3. node \in Blocks
    BY <1>6, <2>1, <2>2 DEF Nodes
  <2>4. FrontierOf(node) \in Seq(Dependences({node}))
    BY <1>2, <2>2, <2>3, FrontierType
  <2>5. \A b \in DOMAIN cd : cd[b] \in Seq(Dependences({b}))
    BY <1>2 DEF DivTypeOK
  <2>6. \A b \in DOMAIN cd' : cd'[b] \in Seq(Dependences({b}))
    BY <1>6, <2>4, <2>5
  <2>7. (\A b \in DOMAIN cd : cd[b] \in Seq(Dependences({b})))'
    BY <1>4, <2>6 DEF Dependences
  <2>8. DivTypeOK'
    BY <1>1, <1>2, <1>6, <2>7, SameTables DEF DivTypeOK
  <2> QED BY <1>1, <1>4, <1>5, <1>6, <2>8 DEF DivInv, ForwardMirrorsReverse, NonUniformityIsFollowed
<1>7. CASE /\ \E order \in {Order, Reverse(Order)} :
                forward' = ForwardFrom(cd, AtPositions(order, {k \in Blocks : order[k] \in DOMAIN cd}))
           /\ stage' = "traverse" /\ UNCHANGED cd
  <2>1. PICK order \in {Order, Reverse(Order)} :
          forward' = ForwardFrom(cd, AtPositions(order, {k \in Blocks : order[k] \in DOMAIN cd}))
    BY <1>7
  <2> DEFINE K == {k \in Blocks : order[k] \in DOMAIN cd}
             some == AtPositions(order, K)
  <2>2. Order \in Seq(Blocks) /\ DOMAIN Order = Blocks /\ \A b \in Blocks : Order[b] = b
    BY <1>2, ProgramFacts DEF Order
  <2>3. Elements(Order) = Blocks
    BY <2>2 DEF Elements
  <2>4. order \in Seq(Blocks) /\ Elements(order) = Blocks
    BY <2>2, <2>3, ReversedElements
  <2>5. DOMAIN order = Blocks
    <3>1. DOMAIN Reverse(Order) = Blocks
      BY <1>2, <2>2, ProgramFacts DEF Reverse, Order
    <3> QED BY <2>2, <3>1
  <2>6. some \in Seq({order[k] : k \in DOMAIN order \cap K}) /\ some \in Seq(Blocks)
    BY <2>4, PickedElements
  <2>7. Elements(some) \subseteq DOMAIN cd
    <3>1. Elements(some) \subseteq {order[k] : k \in DOMAIN order \cap K}
      BY <2>6, SeqFacts
    <3> QED BY <3>1
  <2>8. \A x \in Blocks \cap DOMAIN cd : x \in Elements(some)
    <3> TAKE x \in Blocks \cap DOMAIN cd
    <3>1. PICK k \in DOMAIN order : order[k] = x
      BY <2>4 DEF Elements
    <3>2. k \in K
      BY <2>5, <3>1
    <3> HIDE DEF K
    <3> QED BY <2>4, <3>1, <3>2, AtPositionsKeeps
  <2>9. \A b \in Elements(some) : cd[b] \in Seq(Dependences({b}))
    BY <1>2, <2>7 DEF DivTypeOK
  <2> HIDE DEF some
  <2>10. /\ \A b \in DOMAIN forward' : forward'[b] \in Seq(Dependences(Blocks))
         /\ DOMAIN cd \subseteq DOMAIN forward'
         /\ \A x \in Elements(some) : \A d \in Elements(cd[x]) :
              d.source \in DOMAIN forward' /\ d \in Elements(forward'[d.source])
    BY <2>1, <2>6, <2>7, <2>9, ForwardFacts DEF some
  <2>11. ForwardMirrorsReverse'
    BY <1>4, <1>7, <2>8, <2>10 DEF ForwardMirrorsReverse, HasBlock, Dependences
  <2>12. DivTypeOK'
    BY <1>1, <1>2, <1>7, SameTables DEF DivTypeOK
  <2> QED BY <1>1, <1>4, <1>5, <1>7, <2>11, <2>12 DEF DivInv, NonUniformityIsFollowed
<1> QED BY <1>3, <1>6, <1>7

\* The tour visits blocks.
LEMMA TourKeeps == DivInv /\ Tour => DivInv'
<1> SUFFICES ASSUME DivInv, Tour PROVE DivInv'
  OBVIOUS
<1>1. /\ stage = "traverse" /\ UNCHANGED <<prog, domVars>>
      /\ UNCHANGED <<cd, forward, follow, worklist, level, source, branch, succs, phase, analysis>>
      /\ \/ tour.stack # << >> /\ tour' = TraversalStep(succs, tour) /\ stage' = stage
         \/ stage' = "follow" /\ tour' = tour
  BY DEF Tour, domVars
<1>2. DivTypeOK /\ phase = "done" /\ analysis = "post_dominators"
      /\ prog \in Programs /\ succs = prog.succs
  BY <1>1 DEF DivInv, DivTypeOK
<1>3. UNCHANGED <<Blocks, Values>>
  BY <1>1, SameShader
<1>4. TraversalOK(tour', Blocks, 1)
  <2>1. TraversalOK(tour, Blocks, 1) /\ \A b \in Blocks : succs[b] \in Seq(Blocks)
    BY <1>2, ProgramFacts DEF DivTypeOK
  <2> QED BY <1>1, <2>1, TraversalGoesOn
<1>5. TraversalOK(tour, Blocks, 1)'
  BY <1>3, <1>4 DEF TraversalOK
<1>6. DivTypeOK'
  BY <1>1, <1>2, <1>5, SameTables DEF DivTypeOK
<1>7. ForwardMirrorsReverse'
  BY <1>1, <1>3 DEF DivInv, ForwardMirrorsReverse, HasBlock, Dependences
<1> QED BY <1>1, <1>3, <1>6, <1>7 DEF DivInv, NonUniformityIsFollowed

\* Everything waits when the run begins.
LEMMA InitialWorklistType ==
  ASSUME DivTypeOK
  PROVE  InitialWorklist \in Seq(Items)
<1> DEFINE order == Reverse(CFGOrder)
           each == [k \in DOMAIN CFGOrder |-> ItemsOf(order[k])]
<1>1. prog \in Programs /\ succs = prog.succs
  BY DEF DivTypeOK
<1>2. CFGOrder \in Seq(Blocks)
  BY PostsOfEvents DEF DivTypeOK, TraversalOK, CFGOrder
<1>3. Len(CFGOrder) \in Nat /\ DOMAIN CFGOrder = 1..Len(CFGOrder)
      /\ order \in Seq(Blocks) /\ DOMAIN order = 1..Len(CFGOrder)
  <2>1. order = [k \in 1..Len(CFGOrder) |-> CFGOrder[(Len(CFGOrder) - k) + 1]]
    BY DEF Reverse
  <2> QED BY <1>2, <2>1, ReversedElements
<1>4. ASSUME NEW b \in Blocks PROVE ItemsOf(b) \in Seq(Items)
  <2> DEFINE ids == [k \in DOMAIN Body(b) |-> Body(b)[k].id]
  <2>1. Body(b) \in Seq(Instruction) /\ Elements(Body(b)) \subseteq Instructions
    BY <1>1, ProgramFacts, InstructionFacts
  <2>2. Len(Body(b)) \in Nat /\ DOMAIN Body(b) = 1..Len(Body(b))
    BY <2>1
  <2>3. \A k \in 1..Len(Body(b)) : Body(b)[k].id \in Items
    BY <2>1, <2>2 DEF Elements, Values, Items
  <2>4. ids \in Seq(Items)
    BY <2>2, <2>3
  <2>5. -b \in Items /\ b \in Items
    BY DEF Items
  <2>6. <<-b, b>> \in Seq(Items)
    BY <2>5
  <2> HIDE DEF ids
  <2>7. ids \o <<-b, b>> \in Seq(Items)
    BY <2>4, <2>6
  <2> QED BY <2>7 DEF ItemsOf, ids
<1>5. \A k \in 1..Len(CFGOrder) : each[k] \in Seq(Items)
  BY <1>3, <1>4
<1>6. DOMAIN each = 1..Len(CFGOrder) /\ Len(each) = Len(CFGOrder)
  BY <1>3
<1>7. InitialWorklist = Concatenated(each)
  BY DEF InitialWorklist
<1> HIDE DEF each
<1> QED BY <1>3, <1>5, <1>6, <1>7, ConcatenatedType

\* The run begins with nothing raised.
LEMMA FollowKeeps == DivInv /\ Follow => DivInv'
<1> SUFFICES ASSUME DivInv, Follow PROVE DivInv'
  OBVIOUS
<1>1. /\ stage = "follow" /\ UNCHANGED <<prog, domVars>>
      /\ UNCHANGED <<cd, forward, tour, level, source, branch, succs, phase, analysis>>
      /\ \/ UNCHANGED <<stage, worklist>>
         \/ stage' = "run" /\ worklist' = InitialWorklist
  BY DEF Follow, domVars
<1>2. DivTypeOK /\ phase = "done" /\ analysis = "post_dominators"
  BY <1>1 DEF DivInv, DivTypeOK
<1>3. UNCHANGED <<Blocks, Values, Items, Analyzed>> /\ \A id : FlowsInto(id)' = FlowsInto(id)
  BY <1>1, SameShader, SameFlows
<1>4. worklist' \in Seq(Items)
  BY <1>1, <1>2, InitialWorklistType DEF DivTypeOK
<1>5. DivTypeOK'
  BY <1>1, <1>2, <1>3, <1>4, SameTables DEF DivTypeOK
<1>6. ForwardMirrorsReverse'
  BY <1>1, <1>3 DEF DivInv, ForwardMirrorsReverse, HasBlock, Dependences
<1>7. NonUniformityIsFollowed'
  <2>1. \A x \in Blocks \cup Values : level[x] = Uniform
    BY <1>1 DEF DivInv, NonUniformityIsFollowed
  <2>2. \A id : LevelOf(id)' = Uniform
    BY <1>1, <1>2, <2>1 DEF LevelOf, DivTypeOK
  <2> QED BY <1>1, <1>3, <2>1, <2>2 DEF NonUniformityIsFollowed
<1> QED BY <1>5, <1>6, <1>7 DEF DivInv

\* The run ends with nothing waiting.
LEMMA ConvergedKeeps == DivInv /\ Converged => DivInv'
<1> SUFFICES ASSUME DivInv, Converged PROVE DivInv'
  OBVIOUS
<1>1. /\ stage = "run" /\ worklist = << >> /\ stage' = "done" /\ UNCHANGED <<prog, domVars>>
      /\ UNCHANGED <<cd, forward, tour, follow, worklist, level, source, branch>>
      /\ UNCHANGED <<succs, phase, analysis>>
  BY DEF Converged, domVars
<1>2. DivTypeOK'
  BY <1>1, SameTables DEF DivInv, DivTypeOK
<1>3. UNCHANGED <<Blocks, Values, Analyzed>> /\ \A id : FlowsInto(id)' = FlowsInto(id)
  BY <1>1, SameShader, SameFlows
<1>4. ForwardMirrorsReverse'
  BY <1>1, <1>3 DEF DivInv, ForwardMirrorsReverse, HasBlock, Dependences
<1>5. (\A id : LevelOf(id)' = LevelOf(id)) /\ \A x, id : Waits(x, id)' = Waits(x, id)
  BY <1>1, <1>3 DEF LevelOf, Waits
<1>6. NonUniformityIsFollowed'
  BY <1>1, <1>3, <1>5 DEF DivInv, NonUniformityIsFollowed
<1> QED BY <1>2, <1>4, <1>6 DEF DivInv

\* A visit: the item is no longer waiting, its level follows what flows into
\* it, and whoever it flows into waits when its level has risen.
LEMMA VisitKeeps == DivInv /\ Visit => DivInv'
<1> SUFFICES ASSUME DivInv, Visit PROVE DivInv'
  OBVIOUS
<1> DEFINE item == Head(worklist)
           rest == Tail(worklist)
           found == IF item \in Blocks THEN VisitBlock(item)
                    ELSE VisitInstruction(InstructionOf(item))
           next == SuccessorsOf(item)
           Levels == {Uniform, PartiallyUniform, Divergent}
<1>1. /\ stage = "run" /\ worklist # << >> /\ UNCHANGED <<prog, domVars, stage, cd, forward, tour, follow>>
      /\ UNCHANGED <<succs, phase, analysis>>
      /\ \/ /\ item < 0 /\ worklist' = Enqueue(rest, next)
            /\ UNCHANGED <<level, source, branch>>
         \/ /\ ~(item < 0)
            /\ level' = [level EXCEPT ![item] = found.level]
            /\ source' = [source EXCEPT ![item] = found.source]
            /\ branch' = IF item \in Blocks THEN [branch EXCEPT ![item] = found.branch]
                         ELSE branch
            /\ worklist' = IF found.level > level[item] THEN Enqueue(rest, next) ELSE rest
  BY DEF Visit, domVars
<1>2. /\ DivTypeOK /\ ForwardMirrorsReverse /\ phase = "done" /\ analysis = "post_dominators"
      /\ prog \in Programs /\ succs = prog.succs /\ worklist \in Seq(Items)
      /\ level \in [Blocks \cup Values -> Levels]
      /\ source \in [Blocks \cup Values -> Int] /\ branch \in [Blocks -> Int]
  BY <1>1 DEF DivInv, DivTypeOK
<1>3. /\ UNCHANGED <<Blocks, Values, Items, Analyzed>> /\ \A id : FlowsInto(id)' = FlowsInto(id)
  BY <1>1, SameShader, SameFlows
<1>4. item \in Items /\ rest \in Seq(Items) /\ Elements(worklist) \subseteq {item} \cup Elements(rest)
  BY <1>1, <1>2, HeadAndTail
<1> HIDE DEF rest, item
<1>5. ~(item < 0) => item \in Blocks \cup Values
  BY <1>2, <1>4, LevelFacts DEF Items
<1>6. next \in Seq(Items)
  <2>1. DependentsOf(-item) \in Seq(Items) /\ DependentsOf(item) \in Seq(Items)
        /\ UsersOf(item) \in Seq(Items)
    BY <1>1, <1>2, DependentsFacts, UsersFacts
  <2>2. item \in Blocks => PhisOf(item) \in Seq(Items)
    BY <1>2, PhisType
  <2>3. item \in Blocks => PhisOf(item) \o DependentsOf(item) \in Seq(Items)
    BY <2>1, <2>2
  <2> QED BY <2>1, <2>3 DEF SuccessorsOf
<1> HIDE DEF next
<1>7. /\ Enqueue(rest, next) \in Seq(Items)
      /\ Elements(rest) \subseteq Elements(Enqueue(rest, next))
      /\ Elements(next) \subseteq Elements(Enqueue(rest, next))
  BY <1>4, <1>6, EnqueueAdds
<1>8. worklist' \in Seq(Items) /\ Elements(rest) \subseteq Elements(worklist')
  BY <1>1, <1>4, <1>7
<1>9. ~(item < 0) => found \in Findings
  BY <1>1, <1>2, <1>5, VisitBlockFacts, VisitInstructionFacts
<1>10. /\ level' \in [Blocks \cup Values -> Levels]
       /\ source' \in [Blocks \cup Values -> Int] /\ branch' \in [Blocks -> Int]
  <2>1. ~(item < 0) => found.level \in Levels /\ found.source \in Int /\ found.branch \in Int
    BY <1>9 DEF Findings
  <2> HIDE DEF found, Levels
  <2> QED BY <1>1, <1>2, <2>1
<1>11. DivTypeOK'
  BY <1>1, <1>2, <1>3, <1>8, <1>10, SameTables DEF DivTypeOK
<1>12. ForwardMirrorsReverse'
  BY <1>1, <1>2, <1>3 DEF ForwardMirrorsReverse, HasBlock, Dependences
<1>13. \A id : LevelOf(id)' = IF id \in Blocks \cup Values THEN level'[id] ELSE Uniform
  BY <1>10 DEF LevelOf
<1>14. \A id : LevelOf(id) = IF id \in Blocks \cup Values THEN level[id] ELSE Uniform
  BY <1>2 DEF LevelOf
<1>15. \A x \in Blocks \cup Values : x # item => level'[x] = level[x]
  BY <1>1, <1>2
<1>16. ~(item < 0) => level'[item] = found.level
  BY <1>1, <1>2, <1>5
<1> HIDE DEF found, Levels
<1>17. ASSUME NEW x \in Analyzed, NEW id \in FlowsInto(x),
              LevelOf(id)' # Uniform, x \in Values => id \notin Blocks, level'[x] = Uniform
       PROVE  Waits(x, id)'
  <2>1. x \in Blocks \cup Values /\ (x \in Blocks => x \in DOMAIN cd /\ x \notin Values)
    BY <1>2, LevelFacts DEF Analyzed
  <2>2. id \in Blocks \cup Values /\ level'[id] # Uniform
    BY <1>13, <1>17
  <2>3. id # x
    BY <1>17, <2>2
  \* The item itself has risen if anything flows into it.
  <2>4. x # item
    <3> SUFFICES ASSUME x = item PROVE FALSE
      OBVIOUS
    <3>1. ~(item < 0)
      BY <1>2, <2>1, LevelFacts
    <3>2. found.level = Uniform /\ LevelOf(id) # Uniform
      BY <1>14, <1>15, <1>16, <1>17, <2>2, <2>3, <3>1
    <3>3. CASE x \in Blocks
      <4>1. VisitBlock(x).level = Uniform /\ x \in DOMAIN cd
        BY <2>1, <3>2, <3>3 DEF found
      <4>2. \A d \in Elements(cd[x]) :
              /\ d.source # x => LevelOf(d.source) = Uniform
              /\ d.source \in DOMAIN prog.cond => LevelOf(prog.cond[d.source]) = Uniform
        BY <1>1, <1>2, <3>3, <4>1, VisitBlockFacts
      <4>3. \E d \in Elements(cd[x]) :
              \/ id = d.source /\ d.source # PseudoEntryBlock
              \/ d.source \in DOMAIN prog.cond /\ id = prog.cond[d.source]
        BY <1>17, <3>3 DEF FlowsInto
      <4> QED BY <2>3, <3>2, <4>2, <4>3
    <3>4. CASE x \notin Blocks
      <4>1. x \in Values /\ VisitInstruction(InstructionOf(x)).level = Uniform
            /\ id \in Elements(InstructionOf(x).args)
        BY <1>17, <2>1, <3>2, <3>4 DEF found, FlowsInto
      <4> QED BY <1>2, <3>2, <4>1, VisitInstructionFacts
    <3> QED BY <3>3, <3>4
  <2>5. level[x] = Uniform
    BY <1>15, <1>17, <2>1, <2>4
  \* Who waited waits still, or its terminator has just told it.
  <2>6. CASE LevelOf(id) # Uniform
    <3>1. Waits(x, id)
      BY <1>1, <1>17, <2>5, <2>6 DEF DivInv, NonUniformityIsFollowed
    <3>2. CASE x \in Elements(worklist)
      BY <1>4, <1>8, <2>4, <3>2 DEF Waits
    <3>3. CASE x \in Blocks /\ \E d \in Elements(cd[x]) : /\ d.source \in DOMAIN prog.cond
                                                         /\ prog.cond[d.source] = id
                                                         /\ -d.source \in Elements(worklist)
      <4>1. PICK d \in Elements(cd[x]) : /\ d.source \in DOMAIN prog.cond
                                         /\ prog.cond[d.source] = id
                                         /\ -d.source \in Elements(worklist)
        BY <3>3
      <4>2. CASE -d.source \in Elements(rest)
        BY <1>1, <1>3, <1>8, <3>3, <4>1, <4>2 DEF Waits
      <4>3. CASE -d.source \notin Elements(rest)
        <5>1. item = -d.source /\ d.source \in Nat \ {0}
          BY <1>2, <1>4, <4>1, <4>3, ProgramFacts, LevelFacts
        <5>2. item < 0 /\ next = DependentsOf(d.source)
          <6>1. item < 0 /\ -item = d.source /\ item \notin Blocks
            BY <1>2, <5>1, LevelFacts
          <6>2. next = DependentsOf(-item)
            BY <6>1 DEF next, SuccessorsOf
          <6> QED BY <6>1, <6>2
        <5>3. d.target = x
          <6>1. d \in Dependences({x})
            BY <1>2, <2>1, <3>3, SeqFacts DEF DivTypeOK
          <6> QED BY <6>1 DEF Dependences
        <5>4. x \in Elements(next)
          BY <1>1, <1>2, <2>1, <3>3, <5>2, <5>3, DependentsFacts
        <5> QED BY <1>1, <1>7, <5>2, <5>4 DEF Waits
      <4> QED BY <4>2, <4>3
    <3> QED BY <3>1, <3>2, <3>3 DEF Waits
  \* Who has risen tells whoever it flows into.
  <2>7. CASE LevelOf(id) = Uniform
    <3>1. id = item
      BY <1>14, <1>15, <2>2, <2>7
    <3>2. ~(item < 0) /\ found.level # Uniform /\ level[item] = Uniform
      BY <1>2, <1>14, <1>16, <2>2, <2>7, <3>1, LevelFacts
    <3>3. found.level > level[item]
      BY <1>9, <3>2 DEF Findings, Uniform, PartiallyUniform, Divergent
    <3>4. Elements(next) \subseteq Elements(worklist')
      BY <1>1, <1>7, <3>2, <3>3
    <3>5. CASE x \in Blocks
      <4>1. PICK d \in Elements(cd[x]) :
              \/ id = d.source /\ d.source # PseudoEntryBlock
              \/ d.source \in DOMAIN prog.cond /\ id = prog.cond[d.source]
        BY <1>17, <3>5 DEF FlowsInto
      <4>2. d \in Dependences({x})
        BY <1>2, <2>1, <3>5, SeqFacts DEF DivTypeOK
      <4>3. CASE id = d.source /\ d.source # PseudoEntryBlock
        <5>1. item \in Blocks /\ d.target = x
          BY <3>1, <4>2, <4>3 DEF Dependences
        <5>2. next = PhisOf(item) \o DependentsOf(item)
          BY <3>2, <5>1 DEF next, SuccessorsOf
        <5>3. PhisOf(item) \in Seq(Items) /\ DependentsOf(item) \in Seq(Items)
              /\ x \in Elements(DependentsOf(item))
          BY <1>1, <1>2, <2>1, <3>1, <3>5, <4>3, <5>1, PhisType, DependentsFacts
        <5>4. x \in Elements(next)
          BY <5>2, <5>3, JoinedElements
        <5> QED BY <3>4, <5>4 DEF Waits
      <4>4. CASE d.source \in DOMAIN prog.cond /\ id = prog.cond[d.source]
        <5>1. item \notin Blocks
          BY <1>2, <3>1, <4>4, ProgramFacts
        <5>2. next = UsersOf(item)
          BY <3>2, <5>1 DEF next, SuccessorsOf
        <5>3. -d.source \in Elements(next)
          BY <1>2, <3>1, <4>4, <5>2, UsersFacts
        <5> QED BY <1>1, <1>3, <3>4, <3>5, <4>4, <5>3 DEF Waits
      <4> QED BY <4>1, <4>3, <4>4
    <3>6. CASE x \notin Blocks
      <4>1. x \in Values /\ id \notin Blocks /\ id \in Elements(InstructionOf(x).args)
        BY <1>17, <2>1, <3>6 DEF FlowsInto
      <4>2. InstructionOf(x) \in Instructions /\ InstructionOf(x).id = x
        BY <1>2, <4>1, InstructionFacts
      <4>3. next = UsersOf(item)
        BY <3>1, <3>2, <4>1 DEF next, SuccessorsOf
      <4>4. x \in Elements(next)
        BY <1>2, <3>1, <4>1, <4>2, <4>3, UsersFacts
      <4> QED BY <3>4, <4>4 DEF Waits
    <3> QED BY <3>5, <3>6
  <2> QED BY <2>6, <2>7
<1>18. NonUniformityIsFollowed'
  BY <1>1, <1>3, <1>17 DEF NonUniformityIsFollowed
<1> QED BY <1>11, <1>12, <1>18 DEF DivInv

\* Every state of the analysis has the invariant.
THEOREM DivergenceInvariant == DivSpec => []DivInv
<1>1. DivInv /\ [DivNext]_divVars => DivInv'
  <2> SUFFICES ASSUME DivInv, [DivNext]_divVars PROVE DivInv'
    OBVIOUS
  <2>1. CASE UNCHANGED divVars
    <3>1. UNCHANGED <<prog, domVars, succs, phase, analysis>>
          /\ UNCHANGED <<stage, cd, forward, tour, follow, worklist, level, source, branch>>
      BY <2>1 DEF divVars, divOnly, domVars
    <3>2. DivTypeOK'
      BY <3>1, SameTables DEF DivInv, DivTypeOK
    <3> QED BY <3>1, <3>2, SameRun DEF DivInv
  <2>2. CASE DivNext
    BY <2>2, DominanceKeeps, SetupKeeps, FrontierKeeps, TourKeeps, FollowKeeps, VisitKeeps,
       ConvergedKeeps DEF DivNext
  <2> QED BY <2>1, <2>2
<1> QED BY <1>1, InitialState, PTL DEF DivSpec

\* The tables of the analysis have their types in every state: the traversals
\* visit nodes of their graph, every dependence is of its block, and the
\* worklist holds labels, values and terminators of the shader.
THEOREM DivergenceTypeCorrect == DivSpec => []DivTypeOK
<1>1. DivInv => DivTypeOK
  BY DEF DivInv
<1> QED BY <1>1, DivergenceInvariant, PTL

\* When the worklist has run empty, nothing that is not uniform has been left
\* out of what it flows into, the blocks that phis name apart
\* (DataFlowAnalysis::RunOnce).
THEOREM NothingIsMissed == DivSpec => []NonUniformityFlows
<1>1. DivInv => NonUniformityFlows
  <2> SUFFICES ASSUME DivInv, stage = "done", NEW x \in Analyzed, NEW id \in FlowsInto(x),
                      LevelOf(id) # Uniform, x \in Values => id \notin Blocks
               PROVE  level[x] # Uniform
    BY DEF NonUniformityFlows
  <2>1. worklist = << >> /\ (level[x] = Uniform => Waits(x, id))
    BY DEF DivInv, NonUniformityIsFollowed
  <2>2. ~Waits(x, id)
    BY <2>1, EmptyIn DEF Waits
  <2> QED BY <2>1, <2>2
<1> QED BY <1>1, DivergenceInvariant, PTL
-----------------------------------------------------------------------------
\* The dominators under the divergence analysis.

\* The divergence analysis leaves the dominators to their own steps.
LEMMA DominatorsKept == DomInv /\ [DivNext]_divVars => DomInv'
<1> SUFFICES ASSUME DomInv, [DivNext]_divVars PROVE DomInv'
  OBVIOUS
<1>1. [DomNext]_domVars
  <2>1. CASE Dominance
    BY <2>1 DEF Dominance
  <2>2. CASE Setup \/ Frontier \/ Tour \/ Follow \/ Visit \/ Converged
    BY <2>2 DEF Setup, Frontier, Tour, Follow, Visit, Converged
  <2>3. CASE UNCHANGED divVars
    BY <2>3 DEF divVars
  <2> QED BY <2>1, <2>2, <2>3 DEF DivNext
<1> QED BY <1>1, DomInvKept

\* The dominators of the divergence analysis have the invariant in every state.
THEOREM DivergenceDominators == DivSpec => []DomInv
<1>1. DivInit => DomInv
  BY DomInvStarts DEF DivInit
<1> QED BY <1>1, DominatorsKept, PTL DEF DivSpec

\* The dominators that the divergence analysis goes on from are those of paths,
\* and so are the answers of its tree.
THEOREM DivergenceDominatorsFound == DivSpec => []DominatorsAreRight
<1>1. DomInv => DominatorsAreRight
  BY ImmediateAreRight, QueriesFollow DEF DominatorsAreRight
<1> QED BY <1>1, DivergenceDominators, PTL

\* Under the divergence analysis too the estimates only climb.
THEOREM DivergenceEstimatesClimb == DivSpec => EstimatesOnlyClimb
<1>1. DomInv /\ [DivNext]_divVars =>
        [\A i \in DOMAIN dominator :
           dominator[i] # Undefined => dominator'[i] \in dominator[i] .. Len(postorder)]_dominator
  <2> SUFFICES ASSUME DomInv, [DivNext]_divVars
               PROVE  [\A i \in DOMAIN dominator :
                         dominator[i] # Undefined => dominator'[i] \in dominator[i] .. Len(postorder)]_dominator
    OBVIOUS
  <2>1. CASE Dominance
    BY <2>1, StepsClimb DEF Dominance
  <2>2. CASE Setup \/ Frontier \/ Tour \/ Follow \/ Visit \/ Converged
    BY <2>2 DEF Setup, Frontier, Tour, Follow, Visit, Converged, domVars
  <2>3. CASE UNCHANGED divVars
    BY <2>3 DEF divVars, domVars
  <2> QED BY <2>1, <2>2, <2>3 DEF DivNext
<1> QED BY <1>1, DivergenceDominators, PTL DEF DivSpec, EstimatesOnlyClimb
-----------------------------------------------------------------------------
\* Control dependence: the ways to the exits.

\* The blocks from which an exit is reached without entering cut, and
\* post-dominance by paths.
Ways(cut) == Reached(preds, Elements(Exits), cut)
OnWays(a, b) == b \in Ways({}) /\ b \notin Ways({a})

\* The post-dominator tree is there.
TreeDone == DomInv /\ phase = "done" /\ analysis = "post_dominators"

\* The graph of the function, for the dependences.
LEMMA WaysFacts ==
  ASSUME DomInv
  PROVE  /\ IsFiniteSet(DOMAIN preds) /\ DOMAIN preds = Blocks /\ DOMAIN succs = Blocks
         /\ \A b \in Blocks : preds[b] \in Seq(Blocks) /\ succs[b] \in Seq(Blocks)
         /\ \A a, b \in Blocks : a \in Elements(preds[b]) <=> b \in Elements(succs[a])
         /\ Elements(Exits) = {b \in Blocks : succs[b] = << >>}
         /\ ToSet(Exits) = Elements(Exits)
         /\ Ways({}) \subseteq Blocks
         /\ 0 \notin Blocks /\ PseudoExit \notin Blocks /\ Blocks \subseteq Nat
<1>1. succs \in Functions /\ preds = Predecessors(succs, Order)
  BY DEF DomInv
<1>2. /\ Len(succs) \in Nat \ {0} /\ Blocks = 1..Len(succs) /\ DOMAIN succs = Blocks
      /\ \A b \in Blocks : succs[b] \in Seq(Blocks)
      /\ Elements(Exits) = {b \in Blocks : succs[b] = << >>}
  BY <1>1, FunctionFacts DEF Blocks
<1>3. /\ DOMAIN preds = Blocks /\ \A b \in Blocks : preds[b] \in Seq(Blocks)
      /\ \A a, b \in Blocks : a \in Elements(preds[b]) <=> b \in Elements(succs[a])
  BY <1>1, PredecessorsMirror
<1>4. IsFiniteSet(Blocks)
  BY <1>2, FS_Interval
<1>5. Ways({}) \subseteq Blocks
  <2>1. Elements(Exits) \ {} \subseteq Blocks
    BY <1>2
  <2>2. \A m \in Blocks \cap DOMAIN preds : Elements(preds[m]) \ {} \subseteq Blocks
    BY <1>3, SeqFacts
  <2> QED BY <1>3, <1>4, <2>1, <2>2, ReachedIsLeast DEF Ways
<1>6. ToSet(Exits) = Elements(Exits)
  BY DEF ToSet, Elements
<1>7. 0 \notin Blocks /\ PseudoExit \notin Blocks /\ Blocks \subseteq Nat
  BY <1>2 DEF PseudoExit
<1> QED BY <1>2, <1>3, <1>4, <1>5, <1>6, <1>7

\* The tree answers what paths do, and says so by the positions in the postorder.
LEMMA TreePaths ==
  ASSUME TreeDone
  PROVE  /\ \A a, b \in Blocks : Dominates(a, b) <=> OnWays(a, b)
         /\ Len(postorder) \in Nat \ {0} /\ DOMAIN postorder = 1..Len(postorder)
         /\ postorder[Len(postorder)] = PseudoExit
         /\ Elements(postorder) = Ways({}) \cup {PseudoExit}
         /\ \A i, j \in 1..Len(postorder) : postorder[i] = postorder[j] => i = j
         /\ \A x, y \in 1..Len(postorder) :
              postorder[x] \in Blocks /\ postorder[y] \in Blocks =>
                (x \in Up(dominator, y) <=> OnWays(postorder[x], postorder[y]))
<1> DEFINE N == Len(postorder)
<1>1. /\ DomInv /\ phase = "done" /\ analysis = "post_dominators"
      /\ graph = GraphOf("post_dominators")
  BY DEF TreeDone, DomInv
<1>2. graph.root = PseudoExit /\ ToSet(Exits) = Elements(Exits)
  BY <1>1, WaysFacts DEF GraphOf
<1>3. \A a, b \in Blocks : Dominates(a, b) <=> OnWays(a, b)
  BY <1>1, <1>2, QueryFacts DEF OnWays, Ways
<1>4. /\ GraphOK(graph, DOMAIN graph.ahead)
      /\ PostorderOK(DOMAIN graph.ahead, graph.ahead, graph.root, postorder)
      /\ UpIsMissed(dominator, graph, postorder)
  BY <1>1, DoneFacts
<1> DEFINE V == DOMAIN graph.ahead
<1>5. GraphOK(graph, V) /\ PostorderOK(V, graph.ahead, graph.root, postorder)
  BY <1>4
<1> HIDE DEF V
<1>6. /\ N \in Nat \ {0} /\ DOMAIN postorder = 1..N /\ postorder[N] = graph.root
      /\ \A i, j \in 1..N : postorder[i] = postorder[j] => i = j
      /\ \A k, a \in 1..N : a \in MissedAt(graph, postorder)[k] <=>
                              postorder[k] \notin Reached(graph.ahead, {graph.root}, {postorder[a]})
      /\ Elements(postorder) = Reached(graph.ahead, {graph.root}, {})
  BY <1>5, PostorderFacts DEF PostorderOK
<1>7. \A cut \in SUBSET Blocks : Reached(graph.ahead, {graph.root}, cut) \cap Blocks = Ways(cut)
  BY <1>1, <1>2, PlaceholderRoot DEF Ways
<1>8. Elements(postorder) = Ways({}) \cup {PseudoExit}
  <2>1. Elements(postorder) \cap Blocks = Ways({})
    BY <1>6, <1>7
  <2>2. V = Blocks \cup {PseudoExit}
    BY <1>1 DEF GraphOf, InvertedSuccessors, V
  <2>3. postorder \in Seq(V)
    BY <1>5 DEF PostorderOK
  <2>4. Elements(postorder) \subseteq V
    BY <2>3, SeqFacts
  <2>5. PseudoExit \in Elements(postorder)
    <3>1. N \in 1..N
      BY <1>6
    <3> QED BY <1>2, <1>6, <3>1 DEF Elements
  <2> QED BY <2>1, <2>2, <2>4, <2>5
<1>9. ASSUME NEW x \in 1..N, NEW y \in 1..N, postorder[x] \in Blocks, postorder[y] \in Blocks
      PROVE  x \in Up(dominator, y) <=> OnWays(postorder[x], postorder[y])
  <2>1. x \in Up(dominator, y) <=> postorder[y] \notin Reached(graph.ahead, {graph.root}, {postorder[x]})
    BY <1>4, <1>6 DEF UpIsMissed
  <2>2. postorder[y] \in Reached(graph.ahead, {graph.root}, {postorder[x]}) <=> postorder[y] \in Ways({postorder[x]})
    BY <1>7, <1>9
  <2>3. postorder[y] \in Elements(postorder)
    BY <1>6 DEF Elements
  <2>4. postorder[y] \in Ways({})
    <3>1. Reached(graph.ahead, {graph.root}, {}) \cap Blocks = Ways({})
      BY <1>7
    <3> QED BY <1>6, <1>9, <2>3, <3>1
  <2> QED BY <2>1, <2>2, <2>4 DEF OnWays
<1> QED BY <1>2, <1>3, <1>6, <1>8, <1>9

\* The children of a block in the tree, and what they are on every way from.
LEMMA ChildFacts ==
  ASSUME TreeDone, NEW b \in Ways({})
  PROVE  /\ OnWays(b, b)
         /\ \A c \in Elements(children[b]) :
              /\ c \in Ways({}) /\ c # b /\ ~OnWays(c, b)
              /\ \A v : OnWays(c, v) => OnWays(b, v)
         /\ \A v : OnWays(b, v) /\ v # b => \E c \in Elements(children[b]) : OnWays(c, v)
         /\ \A c, d \in Elements(children[b]) : \A v : OnWays(c, v) /\ OnWays(d, v) => c = d
         /\ children[b] = ChildrenOf(b)
<1> DEFINE N == Len(postorder)
<1>1. /\ DomInv /\ phase = "done" /\ analysis = "post_dominators"
      /\ children = [c \in Elements(postorder) |-> ChildrenOf(c)]
  BY DEF TreeDone, DomInv, BuildsTree
<1>2. /\ N \in Nat \ {0} /\ DOMAIN postorder = 1..N
      /\ postorder[N] = PseudoExit
      /\ Elements(postorder) = Ways({}) \cup {PseudoExit}
      /\ \A i, j \in 1..N : postorder[i] = postorder[j] => i = j
      /\ \A x, y \in 1..N :
           postorder[x] \in Blocks /\ postorder[y] \in Blocks =>
             (x \in Up(dominator, y) <=> OnWays(postorder[x], postorder[y]))
  BY TreePaths
<1>3. IdomsOK(dominator, N, 1..N)
  BY <1>1, DoneFacts
<1> HIDE DEF N
<1>4. \A x \in 1..N : x # N <=> postorder[x] \in Blocks
  <2>1. \A x \in 1..N : postorder[x] \in Ways({}) \cup {PseudoExit}
    BY <1>2 DEF Elements
  <2>2. Ways({}) \subseteq Blocks /\ PseudoExit \notin Blocks /\ N \in 1..N
    BY <1>1, <1>2, WaysFacts
  <2> QED BY <1>2, <2>1, <2>2
<1>5. PICK x \in 1..N : postorder[x] = b
  BY <1>2 DEF Elements
<1>6. b \in Blocks /\ x # N
  BY <1>1, <1>4, <1>5, WaysFacts
<1>7. \A v \in Ways({}) : \E y \in 1..N : y # N /\ postorder[y] = v
  <2> TAKE v \in Ways({})
  <2>1. PICK y \in 1..N : postorder[y] = v
    BY <1>2 DEF Elements
  <2> QED BY <1>1, <1>4, <2>1, WaysFacts
<1>8. \A c : c \in Elements(children[b]) <=> \E k \in 1..N : postorder[k] = c /\ dominator[k] = x /\ k # x
  <2>1. b \in Elements(postorder) /\ children[b] = ChildrenOf(b)
    BY <1>1, <1>2
  <2>2. IndexOf(b) = x
    <3>1. \A y \in DOMAIN postorder : postorder[y] = b => y = x
      BY <1>2, <1>5
    <3>2. x \in DOMAIN postorder /\ postorder[x] = b
      BY <1>2, <1>5
    <3> QED BY <3>1, <3>2 DEF IndexOf
  <2> DEFINE K == {i \in DOMAIN postorder : dominator[i] = x /\ postorder[i] # b}
  <2>3. children[b] = AtPositions(postorder, K)
    BY <2>1, <2>2 DEF ChildrenOf
  <2>4. postorder \in Seq(DOMAIN graph.ahead)
    BY <1>1, DoneFacts DEF PostorderOK
  <2>5. Elements(children[b]) = {postorder[i] : i \in DOMAIN postorder \cap K}
    BY <2>3, <2>4, PickedMembers
  <2>6. \A i \in 1..N : i \in K <=> dominator[i] = x /\ i # x
    BY <1>2, <1>5
  <2> HIDE DEF K
  <2> QED BY <1>2, <2>5, <2>6
<1>9. \A k \in 1..N : dominator[k] = x /\ k # x => k # N /\ k < x /\ x \in Up(dominator, k)
                                                   /\ Up(dominator, k) = {k} \cup Up(dominator, x)
  <2> TAKE k \in 1..N
  <2> HAVE dominator[k] = x /\ k # x
  <2>1. k # N
    BY <1>3 DEF IdomsOK
  <2>2. k < x
    BY <1>3, <2>1 DEF IdomsOK
  <2>3. Up(dominator, k) = {k} \cup Up(dominator, x) /\ x \in Up(dominator, x)
    BY <1>3, <2>1, AboveFacts
  <2> QED BY <2>1, <2>2, <2>3
<1>10. \A k \in 1..N : Up(dominator, k) \subseteq 1..N /\ \A a \in Up(dominator, k) : k <= a
  BY <1>3, AboveFacts
<1>11. OnWays(b, b)
  BY <1>2, <1>5, <1>6, UpSelf
<1>12. ASSUME NEW c \in Elements(children[b])
       PROVE  c \in Ways({}) /\ c # b /\ ~OnWays(c, b) /\ \A v : OnWays(c, v) => OnWays(b, v)
  <2>1. PICK k \in 1..N : postorder[k] = c /\ dominator[k] = x /\ k # x
    BY <1>8, <1>12
  <2>2. k # N /\ k < x /\ x \in Up(dominator, k)
    BY <1>9, <2>1
  <2>3. c \in Blocks
    BY <1>4, <2>1, <2>2
  <2>4. c \in Ways({})
    <3>1. c \in Elements(postorder)
      BY <1>2, <2>1 DEF Elements
    <3> QED BY <1>1, <1>2, <2>3, <3>1, WaysFacts
  <2>5. c # b
    BY <1>2, <1>5, <2>1
  <2>6. ~OnWays(c, b)
    <3>1. ~(x <= k)
      BY <2>2
    <3>2. k \notin Up(dominator, x)
      BY <1>10, <3>1
    <3> QED BY <1>2, <1>5, <1>6, <2>1, <2>3, <3>2
  <2>7. ASSUME NEW v, OnWays(c, v) PROVE OnWays(b, v)
    <3>1. v \in Ways({})
      BY <2>7 DEF OnWays
    <3>2. PICK y \in 1..N : y # N /\ postorder[y] = v
      BY <1>7, <3>1
    <3>3. v \in Blocks
      BY <1>4, <3>2
    <3>4. k \in Up(dominator, y)
      BY <1>2, <2>1, <2>3, <2>7, <3>2, <3>3
    <3>5. x \in Up(dominator, y)
      BY <2>2, <3>4, UpTransitive
    <3> QED BY <1>2, <1>5, <1>6, <3>2, <3>3, <3>5
  <2> QED BY <2>4, <2>5, <2>6, <2>7
<1>13. ASSUME NEW v, OnWays(b, v), v # b PROVE \E c \in Elements(children[b]) : OnWays(c, v)
  <2>1. v \in Ways({})
    BY <1>13 DEF OnWays
  <2>2. PICK y \in 1..N : y # N /\ postorder[y] = v
    BY <1>7, <2>1
  <2>3. x \in Up(dominator, y) /\ y # x /\ v \in Blocks
    BY <1>2, <1>4, <1>5, <1>6, <1>13, <2>2
  <2>4. \E k \in Up(dominator, y) : dominator[k] = x /\ k # x
    <3> SUFFICES ASSUME \A k \in Up(dominator, y) : k # x => dominator[k] # x PROVE FALSE
      OBVIOUS
    <3> DEFINE S == Up(dominator, y) \ {x}
    <3>1. y \in S
      BY <2>3, UpSelf
    <3>2. \A s \in S \cap DOMAIN dominator : dominator[s] \in S
      BY UpStep
    <3> HIDE DEF S
    <3>3. Up(dominator, y) \subseteq S
      BY <3>1, <3>2, UpLeast
    <3> QED BY <2>3, <3>3 DEF S
  <2>5. PICK k \in Up(dominator, y) : dominator[k] = x /\ k # x
    BY <2>4
  <2>6. k \in 1..N
    BY <1>10, <2>5
  <2>7. k # N
    BY <1>9, <2>5, <2>6
  <2>8. postorder[k] \in Elements(children[b]) /\ postorder[k] \in Blocks
    BY <1>4, <1>8, <2>5, <2>6, <2>7
  <2> QED BY <1>2, <2>2, <2>3, <2>5, <2>6, <2>8
<1>14. ASSUME NEW c \in Elements(children[b]), NEW d \in Elements(children[b]), NEW v, OnWays(c, v), OnWays(d, v)
       PROVE  c = d
  <2>1. PICK k \in 1..N : postorder[k] = c /\ dominator[k] = x /\ k # x
    BY <1>8
  <2>2. PICK l \in 1..N : postorder[l] = d /\ dominator[l] = x /\ l # x
    BY <1>8
  <2>3. v \in Ways({}) /\ c \in Blocks /\ d \in Blocks
    BY <1>4, <1>9, <1>14, <2>1, <2>2 DEF OnWays
  <2>4. PICK y \in 1..N : y # N /\ postorder[y] = v
    BY <1>7, <2>3
  <2>5. k \in Up(dominator, y) /\ l \in Up(dominator, y)
    BY <1>2, <1>4, <1>14, <2>1, <2>2, <2>3, <2>4
  <2>6. k \in Up(dominator, l) \/ l \in Up(dominator, k)
    BY <2>5, UpLinear
  <2>7. k < x /\ l < x /\ Up(dominator, k) = {k} \cup Up(dominator, x) /\ Up(dominator, l) = {l} \cup Up(dominator, x)
    BY <1>9, <2>1, <2>2
  <2>8. \A a \in Up(dominator, x) : x <= a
    BY <1>10
  <2>9. k = l
    BY <2>6, <2>7, <2>8
  <2> QED BY <2>1, <2>2, <2>9
<1>15. children[b] = ChildrenOf(b)
  BY <1>1, <1>2
<1> QED BY <1>11, <1>12, <1>13, <1>14, <1>15
-----------------------------------------------------------------------------
\* The dependences of a block whose children are done.

\* What Concatenated(ss) has is what its members have.
LEMMA ConcatenatedMembers ==
  ASSUME NEW S, NEW ss, NEW n \in Nat, DOMAIN ss = 1..n, Len(ss) = n,
         \A k \in 1..n : ss[k] \in Seq(S)
  PROVE  \A x : x \in Elements(Concatenated(ss)) <=> \E k \in 1..n : x \in Elements(ss[k])
<1> DEFINE T == {x \in S : \E k \in 1..n : x \in Elements(ss[k])}
<1>1. ASSUME NEW k \in 1..n PROVE ss[k] \in Seq(T)
  <2>1. ss[k] \in Seq(S) /\ Elements(ss[k]) \subseteq S
    BY SeqFacts
  <2>2. Elements(ss[k]) \subseteq T
    BY <2>1
  <2> HIDE DEF T
  <2> QED BY <2>1, <2>2, OverItsElements
<1> HIDE DEF T
<1>2. Concatenated(ss) \in Seq(T)
  BY <1>1, ConcatenatedType
<1>3. Elements(Concatenated(ss)) \subseteq T
  BY <1>2, SeqFacts
<1>4. \A k \in 1..n : Elements(ss[k]) \subseteq Elements(Concatenated(ss))
  BY ConcatenatedKeeps
<1> QED BY <1>3, <1>4 DEF T

\* The branches, with the entry's.
Arrivals == {<<PseudoEntryBlock, 1>>} \cup UNION {{a} \X Elements(succs[a]) : a \in Blocks}

\* The dependences of control_dependence.h.
DependencesByWays(b) ==
  {[source |-> e[1], target |-> b, via |-> e[2]] :
     e \in {f \in Arrivals : /\ OnWays(b, f[2])
                             /\ f[1] \in {PseudoEntryBlock, b} \/ ~OnWays(b, f[1])}}

\* A dependence, by its fields.
LEMMA DependenceFacts ==
  ASSUME NEW b
  PROVE  /\ \A d \in DependencesByWays(b) :
              /\ d = [source |-> d.source, target |-> b, via |-> d.via] /\ d.target = b
              /\ <<d.source, d.via>> \in Arrivals /\ OnWays(b, d.via)
              /\ d.source \in {PseudoEntryBlock, b} \/ ~OnWays(b, d.source)
         /\ \A s, v : /\ <<s, v>> \in Arrivals /\ OnWays(b, v)
                      /\ s \in {PseudoEntryBlock, b} \/ ~OnWays(b, s)
                      => [source |-> s, target |-> b, via |-> v] \in DependencesByWays(b)
<1>1. ASSUME NEW d \in DependencesByWays(b)
      PROVE  /\ d = [source |-> d.source, target |-> b, via |-> d.via] /\ d.target = b
             /\ <<d.source, d.via>> \in Arrivals /\ OnWays(b, d.via)
             /\ d.source \in {PseudoEntryBlock, b} \/ ~OnWays(b, d.source)
  <2>1. PICK e \in Arrivals : /\ d = [source |-> e[1], target |-> b, via |-> e[2]] /\ OnWays(b, e[2])
                              /\ e[1] \in {PseudoEntryBlock, b} \/ ~OnWays(b, e[1])
    BY <1>1 DEF DependencesByWays
  <2>2. e = <<e[1], e[2]>>
    BY DEF Arrivals
  <2>3. d.source = e[1] /\ d.via = e[2] /\ d.target = b
    BY <2>1
  <2> QED BY <2>1, <2>2, <2>3
<1>2. ASSUME NEW s, NEW v, <<s, v>> \in Arrivals, OnWays(b, v), s \in {PseudoEntryBlock, b} \/ ~OnWays(b, s)
      PROVE  [source |-> s, target |-> b, via |-> v] \in DependencesByWays(b)
  BY <1>2 DEF DependencesByWays
<1> QED BY <1>1, <1>2

\* The branches into a block come from its predecessors, or are the entry's.
LEMMA ArrivalFacts ==
  ASSUME DomInv, NEW s, NEW v
  PROVE  <<s, v>> \in Arrivals <=>
           \/ s = PseudoEntryBlock /\ v = 1
           \/ s \in Blocks /\ v \in Blocks /\ s \in Elements(preds[v])
<1>1. <<s, v>> \in Arrivals <=> (s = PseudoEntryBlock /\ v = 1) \/ (s \in Blocks /\ v \in Elements(succs[s]))
  BY DEF Arrivals
<1>2. s \in Blocks => Elements(succs[s]) \subseteq Blocks
  BY WaysFacts, SeqFacts
<1> QED BY <1>1, <1>2, WaysFacts

\* The dependences kept of a list.
Kept(b, deps) == {k \in DOMAIN deps : \/ deps[k].source = PseudoEntryBlock
                                      \/ ~StrictlyPostDominates(b, deps[k].source)}

\* The parts of a block's dependences.
LocalOf(b) == [k \in DOMAIN preds[b] |-> [source |-> preds[b][k], target |-> b, via |-> b]]
EntryOf(b) == IF b = 1 THEN <<[source |-> PseudoEntryBlock, target |-> b, via |-> b]>> ELSE << >>
UpOf(b) == Concatenated([k \in DOMAIN children[b] |-> DependencesOf(children[b][k])])
InheritedOf(b) == AtPositions(UpOf(b), Kept(b, UpOf(b)))
MineOf(b) == [k \in DOMAIN InheritedOf(b) |-> [InheritedOf(b)[k] EXCEPT !.target = b]]

\* FrontierOf(b) is its parts, and each has its type.
LEMMA FrontierParts ==
  ASSUME TreeDone, DivTypeOK, NEW b \in Ways({}),
         \A c \in Elements(children[b]) : c \in DOMAIN cd
  PROVE  /\ FrontierOf(b) = AtPositions(LocalOf(b), Kept(b, LocalOf(b))) \o EntryOf(b) \o MineOf(b)
         /\ AtPositions(LocalOf(b), Kept(b, LocalOf(b))) \in Seq(Dependences({b}))
         /\ LocalOf(b) \in Seq(Dependences({b}))
         /\ EntryOf(b) \in Seq(Dependences({b})) /\ MineOf(b) \in Seq(Dependences({b}))
         /\ InheritedOf(b) \in Seq(Dependences(Blocks)) /\ UpOf(b) \in Seq(Dependences(Blocks))
         /\ \A k \in DOMAIN children[b] :
              DependencesOf(children[b][k]) \in Seq(Dependences({children[b][k]}))
         /\ \A x : x \in Elements(UpOf(b)) <=> \E c \in Elements(children[b]) : x \in Elements(cd[c])
<1> DEFINE D == Dependences({b})
           each == [k \in DOMAIN children[b] |-> DependencesOf(children[b][k])]
           n == Len(children[b])
<1>1. FrontierOf(b) = AtPositions(LocalOf(b), Kept(b, LocalOf(b))) \o EntryOf(b) \o MineOf(b)
  BY DEF FrontierOf, LocalOf, EntryOf, MineOf, InheritedOf, UpOf, Kept
<1>2. DomInv /\ b \in Blocks /\ preds[b] \in Seq(Blocks) /\ Blocks \subseteq Nat
  BY WaysFacts DEF TreeDone
<1>3. LocalOf(b) \in Seq(D)
  <2>1. Len(preds[b]) \in Nat /\ DOMAIN preds[b] = 1..Len(preds[b])
    BY <1>2
  <2>2. ASSUME NEW k \in 1..Len(preds[b])
        PROVE  [source |-> preds[b][k], target |-> b, via |-> b] \in D
    <3>1. preds[b][k] \in Blocks /\ b \in Int
      BY <1>2
    <3> QED BY <3>1 DEF Dependences
  <2> HIDE DEF D
  <2> QED BY <2>1, <2>2 DEF LocalOf
<1>4. EntryOf(b) \in Seq(D)
  <2>1. [source |-> PseudoEntryBlock, target |-> b, via |-> b] \in D
    BY <1>2 DEF Dependences
  <2> HIDE DEF D
  <2> QED BY <2>1 DEF EntryOf
<1>5. children[b] \in Seq(Blocks) /\ n \in Nat /\ DOMAIN children[b] = 1..n
  <2>1. \A c \in Elements(children[b]) : c \in Blocks
    BY <1>2, ChildFacts, WaysFacts
  <2>2. children[b] = ChildrenOf(b) /\ postorder \in Seq(DOMAIN graph.ahead)
    BY ChildFacts, DoneFacts DEF PostorderOK, TreeDone
  <2>3. children[b] \in Seq(DOMAIN graph.ahead)
    BY <2>2, PickedMembers DEF ChildrenOf
  <2>4. children[b] \in Seq(Blocks)
    BY <2>1, <2>3, OverItsElements
  <2> QED BY <2>4
<1> HIDE DEF n
<1>6. ASSUME NEW k \in 1..n
      PROVE  /\ each[k] = cd[children[b][k]] /\ each[k] = DependencesOf(children[b][k])
             /\ each[k] \in Seq(Dependences({children[b][k]})) /\ each[k] \in Seq(Dependences(Blocks))
  <2>1. children[b][k] \in Elements(children[b]) /\ children[b][k] \in Blocks
    BY <1>5 DEF Elements
  <2>2. each[k] = cd[children[b][k]] /\ each[k] = DependencesOf(children[b][k])
    BY <1>5, <2>1 DEF DependencesOf
  <2>3. cd[children[b][k]] \in Seq(Dependences({children[b][k]}))
    BY <2>1 DEF DivTypeOK
  <2> QED BY <2>1, <2>2, <2>3, DependencesWiden
<1>7. DOMAIN each = 1..n /\ Len(each) = n
  BY <1>5
<1>8. UpOf(b) = Concatenated(each)
  BY DEF UpOf
<1> HIDE DEF each
<1>15. /\ \A k \in 1..n : each[k] = cd[children[b][k]]
       /\ \A k \in 1..n : each[k] \in Seq(Dependences(Blocks))
       /\ \A k \in 1..n : DependencesOf(children[b][k]) \in Seq(Dependences({children[b][k]}))
  <2>1. ASSUME NEW k \in 1..n
        PROVE  DependencesOf(children[b][k]) \in Seq(Dependences({children[b][k]}))
    <3>1. each[k] = DependencesOf(children[b][k]) /\ each[k] \in Seq(Dependences({children[b][k]}))
      BY <1>6, <2>1
    <3> QED BY ONLY <3>1
  <2> QED BY <1>6, <2>1
<1>9. UpOf(b) \in Seq(Dependences(Blocks))
  <2> DEFINE S == Dependences(Blocks)
  <2>1. n \in Nat /\ DOMAIN each = 1..n /\ Len(each) = n /\ \A k \in 1..n : each[k] \in Seq(S)
    BY <1>5, <1>7, <1>15
  <2> HIDE DEF S
  <2>2. Concatenated(each) \in Seq(S)
    BY <2>1, ConcatenatedType
  <2> QED BY <1>8, <2>2 DEF S
<1>10. \A x : x \in Elements(UpOf(b)) <=> \E k \in 1..n : x \in Elements(each[k])
  <2> DEFINE S == Dependences(Blocks)
  <2>1. n \in Nat /\ DOMAIN each = 1..n /\ Len(each) = n /\ \A k \in 1..n : each[k] \in Seq(S)
    BY <1>5, <1>7, <1>15
  <2> HIDE DEF S
  <2>2. \A x : x \in Elements(Concatenated(each)) <=> \E k \in 1..n : x \in Elements(each[k])
    BY <2>1, ConcatenatedMembers
  <2> QED BY <1>8, <2>2
<1>11. \A x : x \in Elements(UpOf(b)) <=> \E c \in Elements(children[b]) : x \in Elements(cd[c])
  <2>1. \A k \in 1..n : children[b][k] \in Elements(children[b])
    BY <1>5 DEF Elements
  <2>2. \A c \in Elements(children[b]) : \E k \in 1..n : children[b][k] = c
    BY <1>5 DEF Elements
  <2>3. ASSUME NEW x, x \in Elements(UpOf(b)) PROVE \E c \in Elements(children[b]) : x \in Elements(cd[c])
    <3>1. PICK k \in 1..n : x \in Elements(each[k])
      BY <1>10, <2>3
    <3> QED BY <1>15, <2>1, <3>1
  <2>4. ASSUME NEW x, NEW c \in Elements(children[b]), x \in Elements(cd[c]) PROVE x \in Elements(UpOf(b))
    <3>1. PICK k \in 1..n : children[b][k] = c
      BY <2>2
    <3>2. x \in Elements(each[k])
      BY <1>15, <2>4, <3>1
    <3> QED BY <1>10, <3>2
  <2> QED BY <2>3, <2>4
<1>12. InheritedOf(b) \in Seq(Dependences(Blocks))
  BY <1>9, PickedMembers DEF InheritedOf
<1>13. MineOf(b) \in Seq(D)
  <2>1. Len(InheritedOf(b)) \in Nat /\ DOMAIN InheritedOf(b) = 1..Len(InheritedOf(b))
    BY <1>12
  <2>2. ASSUME NEW k \in 1..Len(InheritedOf(b)) PROVE [InheritedOf(b)[k] EXCEPT !.target = b] \in D
    <3>1. InheritedOf(b)[k] \in Dependences(Blocks)
      BY <1>12, <2>1
    <3> QED BY <3>1 DEF Dependences
  <2> HIDE DEF D
  <2> QED BY <2>1, <2>2 DEF MineOf
<1>14. AtPositions(LocalOf(b), Kept(b, LocalOf(b))) \in Seq(D)
  BY <1>3, PickedMembers
<1>16. \A k \in DOMAIN children[b] :
         DependencesOf(children[b][k]) \in Seq(Dependences({children[b][k]}))
  BY <1>5, <1>15
<1> QED BY <1>1, <1>3, <1>4, <1>9, <1>11, <1>12, <1>13, <1>14, <1>16

\* The dependences of a block are those of paths if its children's are.
LEMMA FrontierRight ==
  ASSUME TreeDone, DivTypeOK, NEW b \in Ways({}),
         \A c \in Elements(children[b]) : c \in DOMAIN cd /\ Elements(cd[c]) = DependencesByWays(c)
  PROVE  Elements(FrontierOf(b)) = DependencesByWays(b)
<1> DEFINE local == AtPositions(LocalOf(b), Kept(b, LocalOf(b)))
<1>1. DomInv /\ b \in Blocks /\ preds[b] \in Seq(Blocks) /\ Blocks \subseteq Nat /\ 0 \notin Blocks
  BY WaysFacts DEF TreeDone
<1>2. /\ FrontierOf(b) = local \o EntryOf(b) \o MineOf(b)
      /\ local \in Seq(Dependences({b})) /\ LocalOf(b) \in Seq(Dependences({b}))
      /\ EntryOf(b) \in Seq(Dependences({b})) /\ MineOf(b) \in Seq(Dependences({b}))
      /\ InheritedOf(b) \in Seq(Dependences(Blocks)) /\ UpOf(b) \in Seq(Dependences(Blocks))
      /\ \A x : x \in Elements(UpOf(b)) <=> \E c \in Elements(children[b]) : x \in Elements(cd[c])
  BY FrontierParts
<1> HIDE DEF local
<1>3. \A x : x \in Elements(FrontierOf(b)) <=>
               x \in Elements(local) \/ x \in Elements(EntryOf(b)) \/ x \in Elements(MineOf(b))
  <2>1. local \o EntryOf(b) \in Seq(Dependences({b}))
    BY <1>2
  <2>2. Elements(local \o EntryOf(b)) = Elements(local) \cup Elements(EntryOf(b))
    BY <1>2, JoinedElements
  <2> DEFINE front == local \o EntryOf(b)
  <2>3. front \in Seq(Dependences({b})) /\ MineOf(b) \in Seq(Dependences({b}))
    BY <1>2, <2>1
  <2>4. Elements(front) = Elements(local) \cup Elements(EntryOf(b)) /\ FrontierOf(b) = front \o MineOf(b)
    BY <1>2, <2>2
  <2> HIDE DEF front
  <2>5. Elements(front \o MineOf(b)) = Elements(front) \cup Elements(MineOf(b))
    BY <2>3, JoinedElements
  <2> QED BY <2>4, <2>5
<1>4. \A s \in Blocks : StrictlyPostDominates(b, s) <=> s # b /\ OnWays(b, s)
  BY <1>1, TreePaths DEF StrictlyPostDominates
<1>5. \A x : x \in Elements(local) <=>
        \E s \in Elements(preds[b]) : x = [source |-> s, target |-> b, via |-> b] /\ (s = b \/ ~OnWays(b, s))
  <2>1. Elements(local) = {LocalOf(b)[k] : k \in DOMAIN LocalOf(b) \cap Kept(b, LocalOf(b))}
    BY <1>2, PickedMembers DEF local
  <2>2. DOMAIN LocalOf(b) = DOMAIN preds[b]
        /\ \A k \in DOMAIN preds[b] : /\ LocalOf(b)[k] = [source |-> preds[b][k], target |-> b, via |-> b]
                                      /\ preds[b][k] \in Blocks
    BY <1>1 DEF LocalOf
  <2>3. \A k \in DOMAIN preds[b] : k \in Kept(b, LocalOf(b)) <=> (preds[b][k] = b \/ ~OnWays(b, preds[b][k]))
    <3> TAKE k \in DOMAIN preds[b]
    <3>0. LocalOf(b)[k] = [source |-> preds[b][k], target |-> b, via |-> b] /\ preds[b][k] \in Blocks
      BY ONLY <2>2
    <3>1. LocalOf(b)[k].source = preds[b][k] /\ preds[b][k] \in Blocks
      BY ONLY <3>0
    <3>2. preds[b][k] # PseudoEntryBlock
      BY <1>1, <3>1 DEF PseudoEntryBlock
    <3>3. StrictlyPostDominates(b, preds[b][k]) <=> preds[b][k] # b /\ OnWays(b, preds[b][k])
      BY <1>4, <3>1
    <3>4. k \in Kept(b, LocalOf(b)) <=> ~StrictlyPostDominates(b, preds[b][k])
      BY <2>2, <3>1, <3>2 DEF Kept
    <3> QED BY <3>3, <3>4
  <2>4. ASSUME NEW x
        PROVE  x \in Elements(local) <=>
                 \E k \in DOMAIN preds[b] : /\ x = [source |-> preds[b][k], target |-> b, via |-> b]
                                            /\ preds[b][k] = b \/ ~OnWays(b, preds[b][k])
    BY <2>1, <2>2, <2>3
  <2> QED BY <2>4 DEF Elements
<1>6. \A x : x \in Elements(EntryOf(b)) <=> b = 1 /\ x = [source |-> PseudoEntryBlock, target |-> b, via |-> b]
  BY DEF EntryOf, Elements
<1>7. \A x : x \in Elements(MineOf(b)) <=>
        \E c \in Elements(children[b]) : \E d \in Elements(cd[c]) :
          /\ x = [source |-> d.source, target |-> b, via |-> d.via]
          /\ d.source = PseudoEntryBlock \/ d.source = b \/ ~OnWays(b, d.source)
  <2>1. Elements(InheritedOf(b)) = {UpOf(b)[k] : k \in DOMAIN UpOf(b) \cap Kept(b, UpOf(b))}
    BY <1>2, PickedMembers DEF InheritedOf
  <2>2. \A d \in Elements(UpOf(b)) : /\ d \in Dependences(Blocks)
                                     /\ [d EXCEPT !.target = b] = [source |-> d.source, target |-> b, via |-> d.via]
                                     /\ d.source \in Blocks \cup {PseudoEntryBlock}
    <3> TAKE d \in Elements(UpOf(b))
    <3>1. d \in Dependences(Blocks)
      BY <1>2, SeqFacts
    <3> QED BY <3>1 DEF Dependences
  <2>3. \A d \in Elements(UpOf(b)) : (d.source = PseudoEntryBlock \/ ~StrictlyPostDominates(b, d.source))
                                       <=> (d.source = PseudoEntryBlock \/ d.source = b \/ ~OnWays(b, d.source))
    BY <1>4, <2>2
  <2>4. ASSUME NEW d
        PROVE  d \in Elements(InheritedOf(b)) <=>
                 d \in Elements(UpOf(b)) /\ (d.source = PseudoEntryBlock \/ d.source = b \/ ~OnWays(b, d.source))
    <3>1. d \in Elements(InheritedOf(b)) <=>
            \E k \in DOMAIN UpOf(b) : d = UpOf(b)[k] /\ (d.source = PseudoEntryBlock \/ ~StrictlyPostDominates(b, d.source))
      BY <2>1 DEF Kept
    <3> QED BY <2>3, <3>1 DEF Elements
  <2>5. ASSUME NEW x
        PROVE  x \in Elements(MineOf(b)) <=> \E d \in Elements(InheritedOf(b)) : x = [d EXCEPT !.target = b]
    BY DEF MineOf, Elements
  <2> HIDE DEF OnWays
  <2>6. ASSUME NEW x, x \in Elements(MineOf(b))
        PROVE  \E c \in Elements(children[b]) : \E d \in Elements(cd[c]) :
                 /\ x = [source |-> d.source, target |-> b, via |-> d.via]
                 /\ d.source = PseudoEntryBlock \/ d.source = b \/ ~OnWays(b, d.source)
    <3>1. PICK d \in Elements(InheritedOf(b)) : x = [d EXCEPT !.target = b]
      BY <2>5, <2>6
    <3>2. d \in Elements(UpOf(b)) /\ (d.source = PseudoEntryBlock \/ d.source = b \/ ~OnWays(b, d.source))
      BY <2>4, <3>1
    <3>3. PICK c \in Elements(children[b]) : d \in Elements(cd[c])
      BY <1>2, <3>2
    <3> QED BY <2>2, <3>1, <3>2, <3>3
  <2>7. ASSUME NEW x, NEW c \in Elements(children[b]), NEW d \in Elements(cd[c]),
               x = [source |-> d.source, target |-> b, via |-> d.via],
               d.source = PseudoEntryBlock \/ d.source = b \/ ~OnWays(b, d.source)
        PROVE  x \in Elements(MineOf(b))
    <3>1. d \in Elements(UpOf(b))
      BY <1>2, <2>7
    <3>2. d \in Elements(InheritedOf(b)) /\ x = [d EXCEPT !.target = b]
      BY <2>2, <2>4, <2>7, <3>1
    <3> QED BY <2>5, <3>2
  <2> QED BY <2>6, <2>7
<1>8. /\ OnWays(b, b)
      /\ \A c \in Elements(children[b]) :
           /\ c \in Ways({}) /\ c # b /\ ~OnWays(c, b) /\ \A v : OnWays(c, v) => OnWays(b, v)
      /\ \A v : OnWays(b, v) /\ v # b => \E c \in Elements(children[b]) : OnWays(c, v)
  BY ChildFacts
<1> HIDE DEF OnWays
<1>9. ASSUME NEW x \in Elements(FrontierOf(b)) PROVE x \in DependencesByWays(b)
  <2>1. CASE x \in Elements(local)
    <3>1. PICK s \in Elements(preds[b]) : x = [source |-> s, target |-> b, via |-> b] /\ (s = b \/ ~OnWays(b, s))
      BY <1>5, <2>1
    <3>2. s \in Blocks
      BY <1>1, SeqFacts
    <3>3. <<s, b>> \in Arrivals
      BY <1>1, <3>2, ArrivalFacts
    <3> QED BY <1>8, <3>1, <3>3, DependenceFacts
  <2>2. CASE x \in Elements(EntryOf(b))
    <3>1. b = 1 /\ x = [source |-> PseudoEntryBlock, target |-> b, via |-> b]
      BY <1>6, <2>2
    <3>2. <<PseudoEntryBlock, b>> \in Arrivals
      BY <1>1, <3>1, ArrivalFacts
    <3> QED BY <1>8, <3>1, <3>2, DependenceFacts
  <2>3. CASE x \in Elements(MineOf(b))
    <3>0. PICK c \in Elements(children[b]) : \E d \in Elements(cd[c]) :
            /\ x = [source |-> d.source, target |-> b, via |-> d.via]
            /\ d.source = PseudoEntryBlock \/ d.source = b \/ ~OnWays(b, d.source)
      BY <1>7, <2>3
    <3>1. PICK d \in Elements(cd[c]) :
            /\ x = [source |-> d.source, target |-> b, via |-> d.via]
            /\ d.source = PseudoEntryBlock \/ d.source = b \/ ~OnWays(b, d.source)
      BY <3>0
    <3>2. d \in DependencesByWays(c)
      BY <3>1
    <3>3. <<d.source, d.via>> \in Arrivals /\ OnWays(c, d.via)
      BY <3>2, DependenceFacts
    <3>4. OnWays(b, d.via)
      BY <1>8, <3>3
    <3> QED BY <3>1, <3>3, <3>4, DependenceFacts
  <2> QED BY <1>3, <1>9, <2>1, <2>2, <2>3
<1>10. ASSUME NEW x \in DependencesByWays(b) PROVE x \in Elements(FrontierOf(b))
  <2>1. /\ x = [source |-> x.source, target |-> b, via |-> x.via]
        /\ <<x.source, x.via>> \in Arrivals /\ OnWays(b, x.via)
        /\ x.source \in {PseudoEntryBlock, b} \/ ~OnWays(b, x.source)
    BY DependenceFacts
  <2>2. \/ x.source = PseudoEntryBlock /\ x.via = 1
        \/ x.source \in Blocks /\ x.via \in Blocks /\ x.source \in Elements(preds[x.via])
    BY <1>1, <2>1, ArrivalFacts
  <2>3. CASE x.via = b
    <3>1. CASE x.source = PseudoEntryBlock
      <4>1. PseudoEntryBlock \notin Blocks
        BY <1>1 DEF PseudoEntryBlock
      <4>2. b = 1 /\ x = [source |-> PseudoEntryBlock, target |-> b, via |-> b]
        BY <2>1, <2>2, <2>3, <3>1, <4>1
      <4> QED BY <1>3, <1>6, <4>2
    <3>2. CASE x.source # PseudoEntryBlock
      <4>1. x.source \in Elements(preds[b]) /\ (x.source = b \/ ~OnWays(b, x.source))
        BY <2>1, <2>2, <2>3, <3>2
      <4>2. x = [source |-> x.source, target |-> b, via |-> b]
        BY <2>1, <2>3
      <4>3. x \in Elements(local)
        BY <1>5, <4>1, <4>2
      <4> QED BY <1>3, <4>3
    <3> QED BY <3>1, <3>2
  <2>4. CASE x.via # b
    <3>1. PICK c \in Elements(children[b]) : OnWays(c, x.via)
      BY <1>8, <2>1, <2>4
    <3>2. x.source = PseudoEntryBlock \/ ~OnWays(c, x.source)
      BY <1>8, <2>1, <3>1
    <3> DEFINE d == [source |-> x.source, target |-> c, via |-> x.via]
    <3>3. d \in DependencesByWays(c)
      BY <2>1, <3>1, <3>2, DependenceFacts
    <3>4. d \in Elements(cd[c]) /\ d.source = x.source /\ d.via = x.via
      BY <3>1, <3>3
    <3> HIDE DEF d
    <3>5. x \in Elements(MineOf(b))
      BY <1>7, <2>1, <3>1, <3>4
    <3> QED BY <1>3, <3>5
  <2> QED BY <2>3, <2>4
<1> QED BY <1>9, <1>10
-----------------------------------------------------------------------------
\* The order of the nodes, and each dependence once.

\* Only the ends of conditional branches and switches are depended on.
LEMMA SourceBranches ==
  ASSUME DomInv, NEW b, NEW d \in DependencesByWays(b), d.source # PseudoEntryBlock
  PROVE  d.source \in Blocks /\ Len(succs[d.source]) > 1
<1> DEFINE s == d.source
           v == d.via
           S == Ways({b}) \ {s}
<1>1. <<s, v>> \in Arrivals /\ OnWays(b, v) /\ (s = b \/ ~OnWays(b, s))
  BY DependenceFacts
<1>2. s \in Blocks /\ v \in Blocks /\ s \in Elements(preds[v])
  BY <1>1, ArrivalFacts
<1>3. /\ DOMAIN preds = Blocks /\ IsFiniteSet(DOMAIN preds)
      /\ \A x \in Blocks : succs[x] \in Seq(Blocks)
      /\ \A x, y \in Blocks : x \in Elements(preds[y]) <=> y \in Elements(succs[x])
      /\ Elements(Exits) = {x \in Blocks : succs[x] = << >>}
      /\ \A x \in Blocks : preds[x] \in Seq(Blocks)
  BY WaysFacts
<1>4. v \in Elements(succs[s])
  BY <1>2, <1>3
<1>5. Len(succs[s]) \in Nat \ {0} /\ s \notin Elements(Exits)
  BY <1>2, <1>3, <1>4 DEF Elements
<1>6. ASSUME Len(succs[s]) = 1 PROVE FALSE
  <2>1. \A m \in Blocks : s \in Elements(preds[m]) => m = v
    <3>1. succs[s] \in Seq(Blocks)
      BY <1>2, <1>3
    <3>2. DOMAIN succs[s] = {1}
      BY <1>6, <3>1
    <3>3. \A y \in Elements(succs[s]) : y = succs[s][1]
      BY <3>2 DEF Elements
    <3>4. \A m \in Blocks : s \in Elements(preds[m]) => m \in Elements(succs[s])
      BY <1>2, <1>3
    <3> QED BY <1>4, <3>3, <3>4
  <2>2. v \in Ways({}) /\ v \notin Ways({b})
    BY <1>1 DEF OnWays
  <2>3. /\ Elements(Exits) \ {b} \subseteq Ways({b})
        /\ \A m \in Ways({b}) \cap DOMAIN preds : Elements(preds[m]) \ {b} \subseteq Ways({b})
    BY <1>3, ReachedIsClosed DEF Ways
  <2>4. Elements(Exits) \ {b} \subseteq S
    BY <1>5, <2>3
  <2>5. \A m \in S \cap DOMAIN preds : Elements(preds[m]) \ {b} \subseteq S
    <3> TAKE m \in S \cap DOMAIN preds
    <3>1. m \in Ways({b}) \cap DOMAIN preds /\ m \in Blocks /\ m # v
      BY <1>3, <2>2
    <3>2. Elements(preds[m]) \ {b} \subseteq Ways({b})
      BY <2>3, <3>1
    <3>3. s \notin Elements(preds[m])
      BY <2>1, <3>1
    <3> QED BY <3>2, <3>3
  <2>6. CASE s = b
    <3>1. \A m \in S \cap DOMAIN preds : b \notin Elements(preds[m])
      BY <1>3, <2>1, <2>2, <2>6
    <3>2. b \notin Elements(Exits)
      BY <1>5, <2>6
    <3>3. Elements(Exits) \ {} \subseteq S /\ \A m \in S \cap DOMAIN preds : Elements(preds[m]) \ {} \subseteq S
      BY <2>4, <2>5, <3>1, <3>2
    <3> HIDE DEF S
    <3>4. Ways({}) \subseteq S
      BY <1>3, <3>3, ReachedIsLeast DEF Ways
    <3> QED BY <2>2, <3>4 DEF S
  <2>7. CASE s # b
    <3>1. s \in Ways({})
      <4>1. \A m \in Ways({}) \cap DOMAIN preds : Elements(preds[m]) \ {} \subseteq Ways({})
        BY <1>3, ReachedIsClosed DEF Ways
      <4> QED BY <1>2, <1>3, <2>2, <4>1
    <3>2. s \in Ways({b})
      BY <1>1, <2>7, <3>1 DEF OnWays
    <3> HIDE DEF S
    <3>3. Ways({b}) \subseteq S
      BY <1>3, <2>4, <2>5, ReachedIsLeast DEF Ways
    <3> QED BY <3>2, <3>3 DEF S
  <2> QED BY <2>6, <2>7
<1>7. Len(succs[s]) > 1
  <2> DEFINE n == Len(succs[s])
  <2>1. n # 1 /\ n \in Nat \ {0}
    BY <1>5, <1>6
  <2> HIDE DEF n
  <2>2. n > 1
    BY <2>1
  <2> QED BY <2>2 DEF n
<1> QED BY <1>2, <1>7

\* The tree lists each child once.
LEMMA ChildrenOnce ==
  ASSUME TreeDone, NEW b \in Ways({})
  PROVE  NoRepeats(children[b])
<1>1. NoRepeats(postorder)
  BY TreePaths DEF NoRepeats
<1>2. postorder \in Seq(DOMAIN graph.ahead)
  BY DoneFacts DEF TreeDone, PostorderOK
<1>3. children[b] = ChildrenOf(b)
  BY ChildFacts
<1> QED BY <1>1, <1>2, <1>3, PickedOnce DEF ChildrenOf

\* The tree's nodes in post-order: a node's children come before it, the
\* placeholder last.
LEMMA TreeOrder ==
  ASSUME TreeDone, NEW posts, posts = Posts(walk.events)
  PROVE  /\ Len(posts) \in Nat \ {0} /\ DOMAIN posts = 1..Len(posts)
         /\ posts[Len(posts)] = PseudoExit
         /\ Elements(posts) = Ways({}) \cup {PseudoExit}
         /\ \A i, j \in 1..Len(posts) : posts[i] = posts[j] => i = j
         /\ \A k \in 1..Len(posts) : posts[k] \in Ways({}) =>
              \A c \in Elements(children[posts[k]]) : \E j \in 1..k - 1 : posts[j] = c
<1> DEFINE V == Elements(postorder)
<1>1. /\ DomInv /\ phase = "done" /\ analysis = "post_dominators"
      /\ children = [c \in V |-> ChildrenOf(c)]
      /\ Search(V, children, graph.root, walk) /\ walk.stack = << >>
      /\ graph = GraphOf("post_dominators")
  BY DEF TreeDone, DomInv, BuildsTree
<1>2. graph.root = PseudoExit
  BY <1>1 DEF GraphOf
<1>3. /\ V = Ways({}) \cup {PseudoExit} /\ Ways({}) \subseteq Blocks /\ PseudoExit \notin Blocks
      /\ IsFiniteSet(Blocks)
  BY <1>1, TreePaths, WaysFacts
<1>4. IsFiniteSet(V)
  <2>1. IsFiniteSet(Blocks \cup {PseudoExit})
    BY <1>3, FS_AddElement
  <2>2. V \subseteq Blocks \cup {PseudoExit}
    BY <1>3
  <2> QED BY <2>1, <2>2, FS_Subset
<1>5. /\ GraphOK(graph, DOMAIN graph.ahead)
      /\ PostorderOK(DOMAIN graph.ahead, graph.ahead, graph.root, postorder)
      /\ IdomsOK(dominator, Len(postorder), 1..Len(postorder))
  BY <1>1, DoneFacts
<1>6. PICK up : SearchOK(V, children, graph.root, walk, up)
  BY <1>1 DEF Search
<1> DEFINE A == DOMAIN graph.ahead
<1>7. GraphOK(graph, A) /\ PostorderOK(A, graph.ahead, graph.root, postorder)
  BY <1>5
<1> HIDE DEF A
<1>8. walk.seen = V
  BY <1>1, <1>5, <1>6, <1>7, TreeSearch
<1>9. \A x \in V : IndexOf(x) \in 1..Len(postorder) /\ postorder[IndexOf(x)] = x
  BY <1>7, IndexFacts
<1>10. \A x \in V : \A c \in Elements(children[x]) : dominator[IndexOf(c)] = IndexOf(x) /\ c \in V
  <2> TAKE x \in V
  <2> TAKE c \in Elements(children[x])
  <2>1. children[x] = AtPositions(postorder, {i \in DOMAIN postorder : dominator[i] = IndexOf(x) /\ postorder[i] # x})
    BY <1>1 DEF ChildrenOf
  <2> DEFINE K == {i \in DOMAIN postorder : dominator[i] = IndexOf(x) /\ postorder[i] # x}
  <2>2. postorder \in Seq(A)
    BY <1>7 DEF PostorderOK
  <2>3. Elements(children[x]) = {postorder[i] : i \in DOMAIN postorder \cap K}
    BY <2>1, <2>2, PickedMembers
  <2>4. PICK i \in DOMAIN postorder : dominator[i] = IndexOf(x) /\ postorder[i] = c
    BY <2>3
  <2>5. c \in V
    BY <2>4 DEF Elements
  <2>6. IndexOf(c) = i
    <3>1. IndexOf(c) \in 1..Len(postorder) /\ postorder[IndexOf(c)] = c
      BY <1>9, <2>5
    <3> QED BY <2>4, <3>1, TreePaths
  <2> QED BY <2>4, <2>5, <2>6
<1> HIDE DEF V
<1>11. PostorderOK(V, children, graph.root, posts)
  <2>1. DOMAIN children = V
    BY <1>1
  <2> QED BY <1>1, <1>4, <2>1, SearchEnds
<1>12. Len(posts) \in Nat \ {0} /\ DOMAIN posts = 1..Len(posts) /\ posts[Len(posts)] = PseudoExit
       /\ \A i, j \in 1..Len(posts) : posts[i] = posts[j] => i = j
  BY <1>2, <1>11 DEF PostorderOK
<1>13. /\ Once(walk.events) /\ walk.events \in Seq({"pre", "post"} \X V)
       /\ \A v : Post(v) \in Elements(walk.events) <=> v \in V
       /\ \A v \in V \ {PseudoExit} : /\ up[v] \in V /\ v \in Elements(children[up[v]])
                                      /\ Before(walk.events, Post(v), Post(up[v]))
  <2>1. \A v : ~OnStack(walk, v)
    BY <1>1 DEF OnStack
  <2>2. EventsOK(walk) /\ EnteredOK(children, graph.root, walk, up) /\ walk \in States(V)
    BY <1>6 DEF SearchOK
  <2>3. Once(walk.events) /\ \A v : Post(v) \in Elements(walk.events) <=> v \in V
    BY <1>8, <2>1, <2>2 DEF EventsOK
  <2>4. walk.events \in Seq({"pre", "post"} \X V)
    BY <2>2 DEF States
  <2>5. up \in [V \ {PseudoExit} -> V]
    BY <1>2, <1>8, <2>2 DEF EnteredOK
  <2>6. \A v \in V \ {PseudoExit} : /\ up[v] \in V /\ v \in Elements(children[up[v]])
                                    /\ Before(walk.events, Post(v), Post(up[v]))
    BY <1>2, <1>8, <2>2, <2>3, <2>5 DEF EnteredOK
  <2> QED BY <2>3, <2>4, <2>6
<1>14. /\ \A v : v \in Elements(posts) <=> Post(v) \in Elements(walk.events)
       /\ \A i, j \in 1..Len(posts) : i < j <=> Before(walk.events, Post(posts[i]), Post(posts[j]))
  BY <1>13, PostsInOrder
<1>15. Elements(posts) = Ways({}) \cup {PseudoExit}
  BY <1>3, <1>13, <1>14
<1>16. ASSUME NEW k \in 1..Len(posts), posts[k] \in Ways({}), NEW c \in Elements(children[posts[k]])
       PROVE  \E j \in 1..k - 1 : posts[j] = c
  <2>1. posts[k] \in V /\ c \in Ways({}) /\ c \in V \ {PseudoExit}
    BY <1>3, <1>16, ChildFacts
  <2>2. up[c] \in V /\ c \in Elements(children[up[c]]) /\ Before(walk.events, Post(c), Post(up[c]))
    BY <1>13, <2>1
  <2>3. IndexOf(up[c]) = IndexOf(posts[k])
    BY <1>10, <1>16, <2>1, <2>2
  <2>4. up[c] = posts[k]
    BY <1>9, <2>1, <2>2, <2>3
  <2>5. PICK j \in 1..Len(posts) : posts[j] = c
    <3>1. c \in Elements(posts)
      BY <1>15, <2>1
    <3> QED BY <1>12, <3>1 DEF Elements
  <2>6. j < k
    BY <1>14, <2>2, <2>4, <2>5
  <2>7. j \in 1..k - 1
    BY <1>12, <2>6
  <2> QED BY <2>5, <2>7
<1> QED BY <1>12, <1>15, <1>16

\* Each dependence of a block is listed once if its children's are.
LEMMA FrontierOnce ==
  ASSUME TreeDone, DivTypeOK, NEW b \in Ways({}),
         \A c \in Elements(children[b]) :
           c \in DOMAIN cd /\ Elements(cd[c]) = DependencesByWays(c) /\ NoRepeats(cd[c]),
         NoRepeats(preds[b])
  PROVE  NoRepeats(FrontierOf(b))
<1> DEFINE D == Dependences({b})
           local == AtPositions(LocalOf(b), Kept(b, LocalOf(b)))
           n == Len(children[b])
           each == [k \in DOMAIN children[b] |-> DependencesOf(children[b][k])]
<1>1. DomInv /\ b \in Blocks /\ preds[b] \in Seq(Blocks) /\ Blocks \subseteq Nat /\ 0 \notin Blocks
      /\ \A a \in Ways({}) : a \in Blocks
  BY WaysFacts DEF TreeDone
<1>2. /\ FrontierOf(b) = local \o EntryOf(b) \o MineOf(b)
      /\ local \in Seq(D) /\ LocalOf(b) \in Seq(D)
      /\ EntryOf(b) \in Seq(D) /\ MineOf(b) \in Seq(D)
      /\ InheritedOf(b) \in Seq(Dependences(Blocks)) /\ UpOf(b) \in Seq(Dependences(Blocks))
      /\ \A x : x \in Elements(UpOf(b)) <=> \E c \in Elements(children[b]) : x \in Elements(cd[c])
      /\ \A k \in DOMAIN children[b] :
           DependencesOf(children[b][k]) \in Seq(Dependences({children[b][k]}))
  BY FrontierParts
<1>3. /\ NoRepeats(children[b]) /\ children[b] \in Seq(DOMAIN graph.ahead)
      /\ \A c \in Elements(children[b]) : c \in Ways({}) /\ c # b /\ ~OnWays(c, b)
      /\ \A c, d \in Elements(children[b]) : \A v : OnWays(c, v) /\ OnWays(d, v) => c = d
  <2>1. postorder \in Seq(DOMAIN graph.ahead)
    BY DoneFacts DEF TreeDone, PostorderOK
  <2>2. children[b] = ChildrenOf(b)
    BY ChildFacts
  <2>3. children[b] \in Seq(DOMAIN graph.ahead)
    BY <2>1, <2>2, PickedMembers DEF ChildrenOf
  <2> QED BY <2>3, ChildFacts, ChildrenOnce
<1>4. n \in Nat /\ DOMAIN children[b] = 1..n /\ \A k \in 1..n : children[b][k] \in Elements(children[b])
  BY <1>3 DEF Elements
<1> HIDE DEF D, local, n
<1>5. NoRepeats(local)
  <2>1. DOMAIN LocalOf(b) = DOMAIN preds[b] /\ \A k \in DOMAIN preds[b] : LocalOf(b)[k].source = preds[b][k]
    BY DEF LocalOf
  <2>2. NoRepeats(LocalOf(b))
    BY <2>1 DEF NoRepeats
  <2> QED BY <1>2, <2>2, PickedOnce DEF local
<1>6. NoRepeats(EntryOf(b))
  <2>1. \A k \in DOMAIN EntryOf(b) : k = 1
    BY DEF EntryOf
  <2> QED BY <2>1 DEF NoRepeats
<1>7. NoRepeats(UpOf(b))
  <2>1. ASSUME NEW k \in 1..n
        PROVE  /\ each[k] = cd[children[b][k]] /\ each[k] \in Seq(Dependences({children[b][k]}))
               /\ each[k] \in Seq(Dependences(Blocks)) /\ NoRepeats(each[k])
               /\ \A d \in Elements(each[k]) : d.target = children[b][k]
    <3> DEFINE c == children[b][k]
    <3>1. c \in Elements(children[b]) /\ c \in Blocks
      BY <1>1, <1>3, <1>4
    <3>2. each[k] = DependencesOf(c) /\ DependencesOf(c) = cd[c]
      BY <1>4, <3>1 DEF DependencesOf
    <3>3. DependencesOf(c) \in Seq(Dependences({c}))
      BY <1>2, <1>4
    <3> HIDE DEF c, each
    <3>4. each[k] \in Seq(Dependences({c})) /\ each[k] \in Seq(Dependences(Blocks)) /\ NoRepeats(each[k])
      BY <3>1, <3>2, <3>3, DependencesWiden
    <3>5. \A d \in Elements(each[k]) : d.target = c
      <4>1. Elements(each[k]) \subseteq Dependences({c})
        BY <3>4, SeqFacts
      <4>2. \A d \in Dependences({c}) : d.target = c
        BY DEF Dependences
      <4> QED BY <4>1, <4>2
    <3> QED BY <3>2, <3>4, <3>5 DEF c
  <2>2. DOMAIN each = 1..n /\ Len(each) = n /\ UpOf(b) = Concatenated(each)
    BY <1>4 DEF UpOf
  <2> HIDE DEF each
  <2>3. \A k, l \in 1..n : k # l => Elements(each[k]) \cap Elements(each[l]) = {}
    <3> SUFFICES ASSUME NEW k \in 1..n, NEW l \in 1..n, k # l, NEW d, d \in Elements(each[k]), d \in Elements(each[l])
                 PROVE  FALSE
      OBVIOUS
    <3>1. children[b][k] = children[b][l]
      BY <2>1
    <3> QED BY <1>3, <1>4, <3>1 DEF NoRepeats
  <2> DEFINE B == Dependences(Blocks)
  <2>4. \A k \in 1..n : each[k] \in Seq(B) /\ NoRepeats(each[k])
    BY <2>1
  <2> HIDE DEF B
  <2>5. NoRepeats(Concatenated(each))
    BY <1>4, <2>2, <2>3, <2>4, ConcatenatedOnce
  <2> QED BY <2>2, <2>5
<1>8. NoRepeats(InheritedOf(b))
  <2> DEFINE B == Dependences(Blocks)
  <2>1. UpOf(b) \in Seq(B)
    BY <1>2
  <2> HIDE DEF B
  <2> QED BY <1>7, <2>1, PickedOnce DEF InheritedOf
<1>9. \A k \in DOMAIN InheritedOf(b) :
        \E c \in Elements(children[b]) :
          /\ InheritedOf(b)[k] \in DependencesByWays(c)
          /\ InheritedOf(b)[k] \in Dependences(Blocks)
  <2> TAKE k \in DOMAIN InheritedOf(b)
  <2>1. Elements(InheritedOf(b)) \subseteq Elements(UpOf(b))
    <3>1. Elements(InheritedOf(b)) = {UpOf(b)[i] : i \in DOMAIN UpOf(b) \cap Kept(b, UpOf(b))}
      BY <1>2, PickedMembers DEF InheritedOf
    <3> QED BY <3>1 DEF Elements
  <2>2. InheritedOf(b)[k] \in Elements(InheritedOf(b))
    BY DEF Elements
  <2>3. InheritedOf(b)[k] \in Dependences(Blocks)
    BY <1>2, <2>2, SeqFacts
  <2> QED BY <1>2, <2>1, <2>2, <2>3
<1>10. \A k \in DOMAIN MineOf(b) :
         /\ k \in DOMAIN InheritedOf(b)
         /\ MineOf(b)[k].source = InheritedOf(b)[k].source
         /\ MineOf(b)[k].via = InheritedOf(b)[k].via
  <2> TAKE k \in DOMAIN MineOf(b)
  <2>1. k \in DOMAIN InheritedOf(b) /\ MineOf(b)[k] = [InheritedOf(b)[k] EXCEPT !.target = b]
    BY DEF MineOf
  <2>2. InheritedOf(b)[k] \in Dependences(Blocks)
    BY <1>9, <2>1
  <2> QED BY <2>1, <2>2 DEF Dependences
<1>11. NoRepeats(MineOf(b))
  <2> SUFFICES ASSUME NEW k \in DOMAIN MineOf(b), NEW l \in DOMAIN MineOf(b), MineOf(b)[k] = MineOf(b)[l]
               PROVE  k = l
    BY DEF NoRepeats
  <2> DEFINE x == InheritedOf(b)[k]
             y == InheritedOf(b)[l]
  <2>1. k \in DOMAIN InheritedOf(b) /\ l \in DOMAIN InheritedOf(b) /\ x.source = y.source /\ x.via = y.via
    BY <1>10
  <2>2. PICK c \in Elements(children[b]) : x \in DependencesByWays(c)
    BY <1>9, <2>1
  <2>3. PICK e \in Elements(children[b]) : y \in DependencesByWays(e)
    BY <1>9, <2>1
  <2>4. OnWays(c, x.via) /\ OnWays(e, y.via) /\ x = [source |-> x.source, target |-> c, via |-> x.via]
        /\ y = [source |-> y.source, target |-> e, via |-> y.via]
    BY <2>2, <2>3, DependenceFacts
  <2> HIDE DEF x, y
  <2>5. c = e
    BY <1>3, <2>1, <2>4
  <2>6. x = y
    BY <2>1, <2>4, <2>5
  <2> QED BY <1>8, <2>1, <2>6 DEF NoRepeats, x, y
<1>12. \A x \in Elements(local) : x.source \in Blocks /\ x.via = b
  <2>1. \A k \in DOMAIN LocalOf(b) : LocalOf(b)[k].source \in Blocks /\ LocalOf(b)[k].via = b
    BY <1>1 DEF LocalOf
  <2>2. Elements(local) = {LocalOf(b)[k] : k \in DOMAIN LocalOf(b) \cap Kept(b, LocalOf(b))}
    BY <1>2, PickedMembers DEF local
  <2> QED BY <2>1, <2>2
<1>13. \A x \in Elements(EntryOf(b)) : x.source \notin Blocks /\ x.via = b
  BY <1>1 DEF EntryOf, Elements, PseudoEntryBlock
<1>14. \A x \in Elements(MineOf(b)) : x.via # b
  <2> TAKE x \in Elements(MineOf(b))
  <2>1. PICK k \in DOMAIN MineOf(b) : x = MineOf(b)[k]
    BY DEF Elements
  <2>2. k \in DOMAIN InheritedOf(b) /\ x.via = InheritedOf(b)[k].via
    BY <1>10, <2>1
  <2>3. PICK c \in Elements(children[b]) : InheritedOf(b)[k] \in DependencesByWays(c)
    BY <1>9, <2>2
  <2>4. OnWays(c, x.via)
    BY <2>2, <2>3, DependenceFacts
  <2> QED BY <1>3, <2>4
<1> DEFINE front == local \o EntryOf(b)
<1>15. NoRepeats(front)
  <2>1. Elements(local) \cap Elements(EntryOf(b)) = {}
    BY <1>12, <1>13
  <2> QED BY <1>2, <1>5, <1>6, <2>1, JoinedOnce
<1>16. Elements(front) = Elements(local) \cup Elements(EntryOf(b)) /\ front \in Seq(D)
  BY <1>2, JoinedElements
<1>17. FrontierOf(b) = front \o MineOf(b)
  BY <1>2
<1> HIDE DEF front
<1>18. Elements(front) \cap Elements(MineOf(b)) = {}
  BY <1>12, <1>13, <1>14, <1>16
<1>19. NoRepeats(front \o MineOf(b))
  BY <1>2, <1>11, <1>15, <1>16, <1>18, JoinedOnce
<1> QED BY <1>17, <1>19
-----------------------------------------------------------------------------
\* The invariant of the dependences.

\* No block names a target twice.
TargetsApart == \A a \in Blocks : NoRepeats(succs[a])

\* The predecessors of a block are listed once then.
LEMMA PredecessorsOnce ==
  ASSUME DomInv, TargetsApart, NEW b \in Blocks
  PROVE  NoRepeats(preds[b])
<1> DEFINE own(a) == [k \in DOMAIN succs[a] |-> a]
           hits(a) == {k \in DOMAIN succs[a] : succs[a][k] = b}
           from(n) == AtPositions(own(Order[n]), hits(Order[n]))
           all == [n \in DOMAIN Order |-> from(n)]
           N == Len(succs)
<1>1. /\ succs \in Functions /\ preds = Predecessors(succs, Order)
      /\ N \in Nat /\ Blocks = 1..N /\ DOMAIN succs = Blocks /\ \A a \in Blocks : succs[a] \in Seq(Blocks)
  BY FunctionFacts DEF DomInv, Blocks
<1>2. preds[b] = Concatenated(all)
  BY <1>1 DEF Predecessors, Blocks
<1>3. DOMAIN Order = 1..N /\ \A n \in 1..N : Order[n] = n
  BY <1>1 DEF Order
<1>4. ASSUME NEW n \in 1..N
      PROVE  from(n) \in Seq(Blocks) /\ NoRepeats(from(n)) /\ Elements(from(n)) \subseteq {n}
  <2>1. Order[n] = n /\ n \in Blocks /\ succs[n] \in Seq(Blocks) /\ NoRepeats(succs[n])
    BY <1>1, <1>3 DEF TargetsApart
  <2>2. own(n) \in Seq({n}) /\ own(n) \in Seq(Blocks) /\ DOMAIN own(n) = DOMAIN succs[n]
    <3>1. Len(succs[n]) \in Nat /\ DOMAIN succs[n] = 1..Len(succs[n])
      BY <2>1
    <3> QED BY <2>1, <3>1
  <2>3. \A k, l \in DOMAIN own(n) \cap hits(n) : k = l
    BY <2>1, <2>2 DEF NoRepeats
  <2> HIDE DEF own, hits
  <2>4. NoRepeats(AtPositions(own(n), hits(n)))
    BY <2>2, <2>3, PickedAtOne
  <2>5. AtPositions(own(n), hits(n)) \in Seq({n}) /\ AtPositions(own(n), hits(n)) \in Seq(Blocks)
    BY <2>2, PickedMembers
  <2>6. Elements(AtPositions(own(n), hits(n))) \subseteq {n}
    BY <2>5, SeqFacts
  <2> QED BY <2>1, <2>4, <2>5, <2>6
<1> HIDE DEF from
<1>5. DOMAIN all = 1..N /\ Len(all) = N /\ \A n \in 1..N : all[n] = from(n)
  BY <1>1, <1>3
<1> HIDE DEF all, N
<1>6. \A k \in 1..N : all[k] \in Seq(Blocks) /\ NoRepeats(all[k])
  BY <1>4, <1>5
<1>7. \A k, l \in 1..N : k # l => Elements(all[k]) \cap Elements(all[l]) = {}
  <2> TAKE k, l \in 1..N
  <2>1. Elements(all[k]) \subseteq {k} /\ Elements(all[l]) \subseteq {l}
    BY <1>4, <1>5
  <2> QED BY <2>1
<1>8. NoRepeats(Concatenated(all))
  BY <1>1, <1>5, <1>6, <1>7, ConcatenatedOnce
<1> QED BY <1>2, <1>8

-----------------------------------------------------------------------------
\* The invariant of the dependences: those of the blocks done are those of
\* paths, and the blocks are done children first.
CdInv ==
  /\ stage = "dominance" => DOMAIN cd = {PseudoEntryBlock}
  /\ PseudoEntryBlock \in DOMAIN cd /\ DOMAIN cd \subseteq Ways({}) \cup {PseudoEntryBlock}
  /\ \A b \in DOMAIN cd \ {PseudoEntryBlock} :
       /\ Elements(cd[b]) = DependencesByWays(b)
       /\ TargetsApart => NoRepeats(cd[b])
  /\ stage \in {"traverse", "follow", "run", "done"} => Ways({}) \subseteq DOMAIN cd

\* What the dependences are read off stays.
LEMMA SameWays ==
  ASSUME UNCHANGED <<succs, preds>>
  PROVE  /\ \A cut : Ways(cut)' = Ways(cut)
         /\ \A b : DependencesByWays(b)' = DependencesByWays(b)
         /\ TargetsApart' = TargetsApart
<1>1. Exits' = Exits /\ Blocks' = Blocks
  BY DEF Exits, Order, Blocks
<1>2. \A cut : Ways(cut)' = Ways(cut)
  BY <1>1 DEF Ways
<1>3. \A a, b : OnWays(a, b)' = OnWays(a, b)
  BY <1>2 DEF OnWays
<1>4. Arrivals' = Arrivals
  BY <1>1 DEF Arrivals
<1>5. \A b : DependencesByWays(b)' = DependencesByWays(b)
  BY <1>3, <1>4 DEF DependencesByWays
<1>6. TargetsApart' = TargetsApart
  BY <1>1 DEF TargetsApart
<1> QED BY <1>2, <1>5, <1>6

\* The next node's dependences are those of paths.
LEMMA NextIsRight ==
  ASSUME TreeDone, DivTypeOK, CdInv, NEW node, NextNode(node)
  PROVE  /\ node # PseudoExit => /\ node \in Ways({}) /\ Elements(FrontierOf(node)) = DependencesByWays(node)
                                 /\ TargetsApart => NoRepeats(FrontierOf(node))
         /\ node = PseudoExit => Ways({}) \subseteq DOMAIN cd
<1> DEFINE posts == Posts(walk.events)
<1>1. PICK k \in DOMAIN posts : posts[k] = node /\ \A j \in 1 .. k - 1 : posts[j] \in DOMAIN cd
  BY DEF NextNode
<1>2. /\ Len(posts) \in Nat \ {0} /\ DOMAIN posts = 1..Len(posts)
      /\ posts[Len(posts)] = PseudoExit
      /\ Elements(posts) = Ways({}) \cup {PseudoExit}
      /\ \A i, j \in 1..Len(posts) : posts[i] = posts[j] => i = j
      /\ \A i \in 1..Len(posts) : posts[i] \in Ways({}) =>
           \A c \in Elements(children[posts[i]]) : \E j \in 1..i - 1 : posts[j] = c
  BY TreeOrder
<1>3. DomInv /\ Ways({}) \subseteq Blocks /\ PseudoExit \notin Blocks /\ PseudoEntryBlock \notin Blocks
  BY WaysFacts DEF TreeDone, PseudoEntryBlock
<1> HIDE DEF posts
<1>4. ASSUME node # PseudoExit
      PROVE  /\ node \in Ways({}) /\ Elements(FrontierOf(node)) = DependencesByWays(node)
             /\ TargetsApart => NoRepeats(FrontierOf(node))
  <2>1. node \in Ways({})
    <3>1. node \in Elements(posts)
      BY <1>1 DEF Elements
    <3> QED BY <1>2, <1>4, <3>1
  <2>2. \A c \in Elements(children[node]) :
          /\ c \in DOMAIN cd /\ Elements(cd[c]) = DependencesByWays(c)
          /\ TargetsApart => NoRepeats(cd[c])
    <3> TAKE c \in Elements(children[node])
    <3>0. PICK j \in 1..k - 1 : posts[j] = c
      BY <1>1, <1>2, <2>1
    <3>1. c \in DOMAIN cd
      BY <1>1, <3>0
    <3>2. c \in Ways({})
      BY <2>1, ChildFacts
    <3>3. c \in DOMAIN cd \ {PseudoEntryBlock}
      BY <1>3, <3>1, <3>2
    <3> QED BY <3>3 DEF CdInv
  <2>3. Elements(FrontierOf(node)) = DependencesByWays(node)
    BY <2>1, <2>2, FrontierRight
  <2>4. ASSUME TargetsApart PROVE NoRepeats(FrontierOf(node))
    <3>1. NoRepeats(preds[node])
      BY <1>3, <2>1, <2>4, PredecessorsOnce
    <3>2. \A c \in Elements(children[node]) :
            c \in DOMAIN cd /\ Elements(cd[c]) = DependencesByWays(c) /\ NoRepeats(cd[c])
      BY <2>2, <2>4
    <3> QED BY <2>1, <3>1, <3>2, FrontierOnce
  <2> QED BY <2>1, <2>3, <2>4
<1>5. ASSUME node = PseudoExit PROVE Ways({}) \subseteq DOMAIN cd
  <2>1. k = Len(posts)
    BY <1>1, <1>2, <1>5
  <2>2. ASSUME NEW v \in Ways({}) PROVE v \in DOMAIN cd
    <3>0. v \in Elements(posts)
      BY <1>2
    <3>1. PICK j \in 1..Len(posts) : posts[j] = v
      BY <1>2, <3>0 DEF Elements
    <3>2. v # PseudoExit
      BY <1>3
    <3>3. j # Len(posts)
      BY <1>2, <3>1, <3>2
    <3>4. j \in 1..k - 1
      <4> DEFINE m == Len(posts)
      <4>1. m \in Nat \ {0} /\ k = m /\ j \in 1..m /\ j # m
        BY <1>2, <2>1, <3>3
      <4> HIDE DEF m
      <4> QED BY <4>1
    <3>5. posts[j] \in DOMAIN cd
      BY <1>1, <3>4
    <3> QED BY <3>1, <3>5
  <2> QED BY <2>2
<1> QED BY <1>4, <1>5

\* The dependences start with the pseudo entry's alone.
LEMMA DependencesStart == DivInit => CdInv
BY DEF DivInit, CdInv, PseudoEntryBlock

\* Every step keeps the invariant of the dependences.
LEMMA DependencesKept == DomInv /\ DivInv /\ CdInv /\ [DivNext]_divVars => CdInv'
<1> SUFFICES ASSUME DomInv, DivInv, CdInv, [DivNext]_divVars PROVE CdInv'
  OBVIOUS
<1>1. DivTypeOK
  BY DEF DivInv
<1>2. UNCHANGED <<succs, preds>>
  BY DEF DivNext, Dominance, DomNext, Walk, Traversed, StartPass, Refine, Refined, Numbered,
         Setup, Frontier, Tour, Follow, Visit, Converged, divVars, domVars
<1>3. /\ Ways({})' = Ways({})
      /\ \A b : DependencesByWays(b)' = DependencesByWays(b)
      /\ TargetsApart' = TargetsApart
  BY <1>2, SameWays
<1>4. ASSUME cd' = cd,
             stage' = "dominance" => stage = "dominance",
             stage' \in {"traverse", "follow", "run", "done"} =>
               stage \in {"traverse", "follow", "run", "done"}
      PROVE  CdInv'
  BY <1>3, <1>4 DEF CdInv
<1>5. CASE Dominance \/ Setup \/ Tour \/ Follow \/ Visit \/ Converged \/ UNCHANGED divVars
  <2>1. /\ cd' = cd /\ (stage' = "dominance" => stage = "dominance")
        /\ stage' \in {"traverse", "follow", "run", "done"} => stage \in {"traverse", "follow", "run", "done"}
    BY <1>5 DEF Dominance, Setup, Tour, Follow, Visit, Converged, divVars, divOnly
  <2> QED BY <1>4, <2>1
<1>6. CASE Frontier
  <2>1. PICK node : /\ NextNode(node)
                    /\ \/ /\ node # PseudoExit /\ UNCHANGED stage
                          /\ cd' = [b \in DOMAIN cd \cup {node} |-> IF b = node THEN FrontierOf(b) ELSE cd[b]]
                       \/ node = PseudoExit /\ stage' = "traverse" /\ UNCHANGED cd
    BY <1>6 DEF Frontier
  <2>2. stage = "frontiers" /\ TreeDone
    BY <1>1, <1>6 DEF Frontier, TreeDone, DivTypeOK
  <2>3. CASE /\ node # PseudoExit /\ UNCHANGED stage
             /\ cd' = [b \in DOMAIN cd \cup {node} |-> IF b = node THEN FrontierOf(b) ELSE cd[b]]
    <3>1. /\ node \in Ways({}) /\ Elements(FrontierOf(node)) = DependencesByWays(node)
          /\ TargetsApart => NoRepeats(FrontierOf(node))
      BY <1>1, <2>1, <2>2, <2>3, NextIsRight
    <3>2. \A b \in DOMAIN cd' \ {PseudoEntryBlock} :
            /\ Elements(cd'[b]) = DependencesByWays(b)
            /\ TargetsApart => NoRepeats(cd'[b])
      BY <2>3, <3>1 DEF CdInv
    <3>3. PseudoEntryBlock \in DOMAIN cd' /\ DOMAIN cd' \subseteq Ways({}) \cup {PseudoEntryBlock}
      BY <2>3, <3>1 DEF CdInv
    <3> QED BY <1>3, <2>2, <2>3, <3>2, <3>3 DEF CdInv, PseudoEntryBlock
  <2>4. CASE node = PseudoExit /\ stage' = "traverse" /\ UNCHANGED cd
    <3>1. Ways({}) \subseteq DOMAIN cd
      BY <1>1, <2>1, <2>2, <2>4, NextIsRight
    <3> QED BY <1>3, <2>4, <3>1 DEF CdInv, PseudoEntryBlock
  <2> QED BY <2>1, <2>3, <2>4
<1> QED BY <1>5, <1>6 DEF DivNext

\* The control dependences are those that control_dependence.h defines, of
\* paths, and only the ends of branches are depended on.
LEMMA DependencesFollow == DomInv /\ DivInv /\ CdInv => ControlDependencesAreRight
<1> SUFFICES ASSUME DomInv, DivInv, CdInv, stage \in {"run", "done"} PROVE ControlDependencesAreRight
  BY DEF ControlDependencesAreRight
<1> DEFINE exiting == Reached(preds, ToSet(Exits), {})
           avoiding == [a \in Blocks |-> Reached(preds, ToSet(Exits), {a})]
           PostDom(a, b) == b \in exiting /\ b \notin avoiding[a]
           Edges == {<<0, 1>>} \cup UNION {{b} \X ToSet(succs[b]) : b \in Blocks}
           Expected(b) ==
             {[source |-> e[1], target |-> b, via |-> e[2]] :
                e \in {f \in Edges : PostDom(b, f[2])
                                   /\ (f[1] \in {PseudoEntryBlock, b} \/ ~PostDom(b, f[1]))}}
<1>1. ToSet(Exits) = Elements(Exits) /\ Ways({}) \subseteq Blocks
  BY WaysFacts
<1>2. exiting = Ways({}) /\ \A a \in Blocks : avoiding[a] = Ways({a})
  BY <1>1 DEF Ways
<1>3. Edges = Arrivals
  BY DEF Arrivals, PseudoEntryBlock, ToSet, Elements
<1>4. \A a \in Blocks : \A b : PostDom(a, b) <=> OnWays(a, b)
  BY <1>2 DEF OnWays
<1> HIDE DEF exiting, avoiding, Edges
<1>5. \A b \in Blocks : Expected(b) = DependencesByWays(b)
  <2> TAKE b \in Blocks
  <2>1. \A x : PostDom(b, x) <=> OnWays(b, x)
    BY <1>4
  <2> HIDE DEF PostDom
  <2> QED BY <1>3, <2>1 DEF DependencesByWays
<1>6. DOMAIN cd = exiting \cup {PseudoEntryBlock}
  BY <1>2 DEF CdInv
<1>7. prog \in Programs /\ succs = prog.succs
  BY DEF DivInv, DivTypeOK
<1>8. ASSUME NEW b \in exiting
      PROVE  /\ ToSet(cd[b]) = Expected(b)
             /\ \A d \in ToSet(cd[b]) : d.source # PseudoEntryBlock => d.source \in DOMAIN prog.cond
             /\ TargetsApart => NoRepeats(cd[b])
  <2>1. b \in Blocks /\ b \in DOMAIN cd \ {PseudoEntryBlock}
    BY <1>1, <1>2, <1>6, WaysFacts DEF PseudoEntryBlock
  <2>2. Elements(cd[b]) = DependencesByWays(b) /\ (TargetsApart => NoRepeats(cd[b]))
    BY <2>1 DEF CdInv
  <2>3. ToSet(cd[b]) = Elements(cd[b])
    BY DEF ToSet, Elements
  <2>4. \A d \in DependencesByWays(b) : d.source # PseudoEntryBlock => d.source \in DOMAIN prog.cond
    BY <1>7, SourceBranches, DivergenceAssumption DEF ProgramOK, Blocks
  <2> QED BY <1>5, <2>1, <2>2, <2>3, <2>4
<1>9. (\A b \in Blocks : IsInjective(succs[b])) => \A b \in exiting : IsInjective(cd[b])
  <2>1. \A f : IsInjective(f) <=> NoRepeats(f)
    BY DEF IsInjective, NoRepeats
  <2> QED BY <1>8, <2>1 DEF TargetsApart
<1> HIDE DEF PostDom, Expected
<1>10. /\ DOMAIN cd = exiting \cup {PseudoEntryBlock}
       /\ \A b \in exiting :
            /\ ToSet(cd[b]) = Expected(b)
            /\ \A d \in ToSet(cd[b]) : d.source # PseudoEntryBlock => d.source \in DOMAIN prog.cond
       /\ (\A b \in Blocks : IsInjective(succs[b])) => \A b \in exiting : IsInjective(cd[b])
  BY <1>6, <1>8, <1>9
<1> QED BY <1>10 DEF ControlDependencesAreRight, exiting, avoiding, PostDom, Edges, Expected

\* Every function's control dependences are right.
THEOREM ControlDependencesFound == DivSpec => []ControlDependencesAreRight
<1>1. DivSpec => []CdInv
  BY DependencesStart, DependencesKept, DivergenceInvariant, DivergenceDominators, PTL DEF DivSpec
<1> QED BY <1>1, DependencesFollow, DivergenceInvariant, DivergenceDominators, PTL
-----------------------------------------------------------------------------
\* The levels: flows and sides.

\* What a function over a finite set takes is finite.
LEMMA FiniteRange ==
  ASSUME NEW f, IsFiniteSet(DOMAIN f)
  PROVE  IsFiniteSet({f[x] : x \in DOMAIN f})
<1> DEFINE S == DOMAIN f
           T == {f[x] : x \in S}
           g == [x \in S |-> f[x]]
<1>1. g \in [S -> T] /\ \A t \in T : \E s \in S : g[s] = t
  OBVIOUS
<1> HIDE DEF T, g
<1>2. g \in Surjection(S, T)
  BY <1>1 DEF Surjection
<1>3. IsFiniteSet(T)
  BY <1>2, FS_Surjection
<1> QED BY <1>3 DEF T

\* There are finitely many items.
LEMMA AnalyzedIsFinite ==
  ASSUME prog \in Programs, succs = prog.succs
  PROVE  IsFiniteSet(Analyzed)
<1>1. Len(succs) \in Nat \ {0} /\ Blocks = 1..Len(succs) /\ \A b \in Blocks : Body(b) \in Seq(Instruction)
  BY ProgramFacts
<1>2. IsFiniteSet(Blocks)
  <2>1. 1 \in Int /\ Len(succs) \in Int
    BY <1>1
  <2> QED BY <1>1, <2>1, FS_Interval
<1>3. ASSUME NEW b \in Blocks PROVE IsFiniteSet(ToSet(Body(b)))
  <2> DEFINE s == Body(b)
  <2>1. Len(s) \in Nat /\ DOMAIN s = 1..Len(s)
    BY <1>1
  <2> HIDE DEF s
  <2>2. 1 \in Int /\ Len(s) \in Int
    BY <2>1
  <2>3. IsFiniteSet(DOMAIN s)
    BY <2>1, <2>2, FS_Interval
  <2>4. IsFiniteSet({s[k] : k \in DOMAIN s})
    BY <2>3, FiniteRange
  <2> QED BY <2>4 DEF ToSet, s
<1>4. IsFiniteSet(Instructions)
  <2> DEFINE f == [b \in Blocks |-> ToSet(Body(b))]
             sets == {f[b] : b \in DOMAIN f}
  <2>1. IsFiniteSet(DOMAIN f)
    BY <1>2
  <2>2. IsFiniteSet(sets)
    BY <2>1, FiniteRange
  <2>3. sets = {ToSet(Body(b)) : b \in Blocks}
    OBVIOUS
  <2>4. \A T \in sets : IsFiniteSet(T)
    BY <1>3, <2>3
  <2> HIDE DEF sets
  <2>5. IsFiniteSet(UNION sets)
    BY <2>2, <2>4, FS_UNION
  <2> QED BY <2>3, <2>5 DEF Instructions
<1>5. IsFiniteSet(Values)
  <2> DEFINE f == [I \in Instructions |-> I.id]
  <2>1. IsFiniteSet({f[I] : I \in DOMAIN f})
    BY <1>4, FiniteRange
  <2>2. {f[I] : I \in DOMAIN f} = Values
    BY DEF Values
  <2> QED BY <2>1, <2>2
<1>6. IsFiniteSet(Blocks \cap DOMAIN cd)
  BY <1>2, FS_Subset
<1> QED BY <1>5, <1>6, FS_Union DEF Analyzed

-----------------------------------------------------------------------------
\* Where the flows lead from an item, and from a set of them.
FlowsOut == [id \in Analyzed |-> {x \in Analyzed : id \in FlowsInto(x)}]
Downstream(from) == Closure(FlowsOut, from)

\* A set is upstream of what is downstream of it, and the flows stay there.
LEMMA DownstreamFacts ==
  ASSUME prog \in Programs, succs = prog.succs, NEW from
  PROVE  /\ from \subseteq Downstream(from)
         /\ \A x \in Analyzed : \A id \in FlowsInto(x) :
              id \in Analyzed /\ id \in Downstream(from) => x \in Downstream(from)
         /\ \A more : from \subseteq more => Downstream(from) \subseteq Downstream(more)
<1>1. DOMAIN FlowsOut = Analyzed /\ \A id \in Analyzed : FlowsOut[id] = {x \in Analyzed : id \in FlowsInto(x)}
  BY DEF FlowsOut
<1>2. IsFiniteSet(DOMAIN FlowsOut)
  BY <1>1, AnalyzedIsFinite
<1>3. /\ from \subseteq Downstream(from)
      /\ \A m \in Downstream(from) \cap DOMAIN FlowsOut : FlowsOut[m] \subseteq Downstream(from)
  BY <1>2, ClosureIsClosed DEF Downstream
<1>4. ASSUME NEW more, from \subseteq more PROVE Downstream(from) \subseteq Downstream(more)
  <2>1. /\ more \subseteq Downstream(more)
        /\ \A m \in Downstream(more) \cap DOMAIN FlowsOut : FlowsOut[m] \subseteq Downstream(more)
    BY <1>2, ClosureIsClosed DEF Downstream
  <2> DEFINE S == Downstream(more)
  <2>2. from \subseteq S /\ \A m \in S \cap DOMAIN FlowsOut : FlowsOut[m] \subseteq S
    BY <1>4, <2>1
  <2> HIDE DEF S
  <2>3. Closure(FlowsOut, from) \subseteq S
    BY <1>2, <2>2, ClosureIsLeast
  <2> QED BY <2>3 DEF Downstream, S
<1>5. ASSUME NEW x \in Analyzed, NEW id \in FlowsInto(x), id \in Analyzed, id \in Downstream(from)
      PROVE  x \in Downstream(from)
  <2>1. x \in FlowsOut[id]
    BY <1>1, <1>5
  <2> QED BY <1>1, <1>3, <1>5, <2>1
<1> QED BY <1>3, <1>4, <1>5

\* The loads of a kind, and the blocks where invocations have reconverged.
LoadedAs(kind) == {id \in Values : InstructionOf(id).op = kind}
Reconverged ==
  {b \in Blocks \cap Analyzed : \E d \in ToSet(cd[b]) :
     /\ d.source # PseudoEntryBlock
     /\ FollowFrom(d.via) # FollowFrom(b)
     /\ LevelOf(prog.cond[d.source]) # Uniform}

\* What may be divergent, and what may not be uniform.
DivergentSide == Downstream(LoadedAs("divergent") \cup Reconverged)
RaisedSide == Downstream(LoadedAs("divergent") \cup LoadedAs("flat"))

\* Finding f of item x gives it no more than that.
Fits(x, f) == /\ f.level = Divergent => x \in DivergentSide
              /\ f.level # Uniform => x \in RaisedSide

\* The invariant of the levels.  A block outside the tree stays uniform; a value
\* that is partially uniform owes it to an operand, so that its level never
\* falls when it is computed again.
LevelsOK ==
  stage \in {"run", "done"} =>
    /\ \A x \in Analyzed : /\ level[x] = Divergent => x \in DivergentSide
                           /\ level[x] # Uniform => x \in RaisedSide
    /\ \A b \in Blocks \ DOMAIN cd : level[b] = Uniform
    /\ \A v \in Values :
         LET I == InstructionOf(v)
         IN  /\ level[v] = PartiallyUniform /\ I.op \notin Loading =>
                  \E a \in Elements(I.args) : LevelOf(a) # Uniform
             /\ I.op = "uniform" => level[v] = Uniform

\* What is not uniform has been analyzed, and is on its side.
LEMMA SideFacts ==
  ASSUME DivTypeOK, LevelsOK, stage = "run", NEW id, LevelOf(id) # Uniform
  PROVE  /\ id \in Analyzed /\ id \in RaisedSide
         /\ LevelOf(id) = Divergent => id \in DivergentSide
<1>1. id \in Blocks \cup Values /\ LevelOf(id) = level[id]
  BY LevelFacts
<1>2. id \in Analyzed
  BY <1>1 DEF LevelsOK, Analyzed
<1> QED BY <1>1, <1>2 DEF LevelsOK

\* So is what it flows into.
LEMMA FlowStays ==
  ASSUME DivTypeOK, LevelsOK, stage = "run", NEW x \in Analyzed, NEW id \in FlowsInto(x),
         LevelOf(id) # Uniform
  PROVE  x \in RaisedSide /\ (LevelOf(id) = Divergent => x \in DivergentSide)
<1>1. id \in Analyzed /\ id \in RaisedSide /\ (LevelOf(id) = Divergent => id \in DivergentSide)
  BY SideFacts
<1>2. prog \in Programs /\ succs = prog.succs
  BY DEF DivTypeOK
<1>3. x \in RaisedSide
  BY <1>1, <1>2, DownstreamFacts DEF RaisedSide
<1>4. LevelOf(id) = Divergent => x \in DivergentSide
  BY <1>1, <1>2, DownstreamFacts DEF DivergentSide
<1> QED BY <1>3, <1>4

\* Taking a dependence gives a block no more than its flows do, and never less
\* than it had.
LEMMA TakeFits ==
  ASSUME DomInv, DivTypeOK, CdInv, LevelsOK, stage = "run", NEW b \in Blocks, b \in DOMAIN cd,
         NEW d \in Elements(cd[b]), NEW found \in Findings, Fits(b, found)
  PROVE  /\ Take(b, found, d) \in Findings /\ Fits(b, Take(b, found, d))
         /\ found.level <= Take(b, found, d).level
<1> DEFINE own == IF d.source = b THEN found.level ELSE LevelOf(d.source)
           cond == prog.cond[d.source]
           condition == LevelOf(cond)
           apart == FollowFrom(d.via) # FollowFrom(b)
           seen == IF apart /\ condition = PartiallyUniform THEN Divergent ELSE condition
           Levels == {Uniform, PartiallyUniform, Divergent}
           took == Take(b, found, d)
<1>1. took = IF own > found.level THEN [found EXCEPT !.level = own, !.source = d.source]
             ELSE IF d.source # PseudoEntryBlock /\ seen > found.level
             THEN [level |-> seen, source |-> cond, branch |-> d.source]
             ELSE found
  BY DEF Take
<1>2. found.level \in Levels /\ found.source \in Int /\ found.branch \in Int
  BY DEF Findings
<1>3. own \in Levels /\ condition \in Levels /\ seen \in Levels
  BY <1>2, LevelFacts DEF Divergent
<1>4. d \in Dependences({b}) /\ took \in Findings
  <2>1. cd[b] \in Seq(Dependences({b}))
    BY DEF DivTypeOK
  <2>2. d \in Dependences({b})
    BY <2>1, SeqFacts
  <2> QED BY <2>2, TakeFacts
<1>5. /\ b \in Analyzed /\ b \in Blocks \cap Analyzed /\ d \in ToSet(cd[b])
      /\ d.source # PseudoEntryBlock => d.source \in FlowsInto(b)
  BY DEF Analyzed, FlowsInto, ToSet, Elements
<1>6. d.source # PseudoEntryBlock => d.source \in DOMAIN prog.cond /\ cond \in FlowsInto(b)
  <2> SUFFICES ASSUME d.source # PseudoEntryBlock
               PROVE  d.source \in DOMAIN prog.cond /\ cond \in FlowsInto(b)
    OBVIOUS
  <2>1. Elements(cd[b]) = DependencesByWays(b)
    <3>1. b \in DOMAIN cd \ {PseudoEntryBlock}
      BY WaysFacts DEF PseudoEntryBlock
    <3> QED BY <3>1 DEF CdInv
  <2>2. d.source \in Blocks /\ Len(succs[d.source]) > 1
    BY <2>1, SourceBranches
  <2>3. prog \in Programs /\ succs = prog.succs
    BY DEF DivTypeOK
  <2>4. d.source \in DOMAIN prog.cond
    BY <2>2, <2>3, DivergenceAssumption DEF ProgramOK, Blocks
  <2> QED BY <2>4, <1>5 DEF FlowsInto
<1>7. d.source = PseudoEntryBlock => LevelOf(d.source) = Uniform
  BY LevelFacts, InstructionFacts, ProgramFacts DEF DivTypeOK, PseudoEntryBlock
<1>8. d.source # PseudoEntryBlock /\ apart /\ condition # Uniform => b \in DivergentSide
  <2> SUFFICES ASSUME d.source # PseudoEntryBlock, apart, condition # Uniform PROVE b \in DivergentSide
    OBVIOUS
  <2>1. b \in Reconverged
    BY <1>5 DEF Reconverged
  <2>2. prog \in Programs /\ succs = prog.succs
    BY DEF DivTypeOK
  <2> QED BY <2>1, <2>2, DownstreamFacts DEF DivergentSide
<1>9. d.source # PseudoEntryBlock /\ condition # Uniform =>
        b \in RaisedSide /\ (condition = Divergent => b \in DivergentSide)
  BY <1>5, <1>6, FlowStays
<1>10. d.source # b /\ own # Uniform => b \in RaisedSide /\ (own = Divergent => b \in DivergentSide)
  BY <1>5, <1>7, FlowStays
<1>11. seen # Uniform => condition # Uniform
  BY DEF Uniform, Divergent, PartiallyUniform
<1>12. seen = Divergent => condition = Divergent \/ apart
  BY DEF Uniform, Divergent, PartiallyUniform
<1>14. d.source = b => own = found.level
  OBVIOUS
<1> HIDE DEF own, cond, condition, apart, seen, took
<1>15. CASE own > found.level
  <2>1. took.level = own
    BY <1>1, <1>2, <1>3, <1>15 DEF Findings
  <2>2. own # Uniform /\ d.source # b /\ found.level <= own
    BY <1>2, <1>3, <1>14, <1>15 DEF Uniform, PartiallyUniform, Divergent
  <2> QED BY <1>4, <1>10, <2>1, <2>2 DEF Fits, took
<1>16. CASE ~(own > found.level) /\ d.source # PseudoEntryBlock /\ seen > found.level
  <2>1. took.level = seen
    BY <1>1, <1>16
  <2>2. seen # Uniform /\ found.level <= seen
    BY <1>2, <1>3, <1>16 DEF Uniform, PartiallyUniform, Divergent
  <2> QED BY <1>4, <1>8, <1>9, <1>11, <1>12, <1>16, <2>1, <2>2 DEF Fits, took
<1>17. CASE ~(own > found.level) /\ ~(d.source # PseudoEntryBlock /\ seen > found.level)
  <2>1. took = found
    BY <1>1, <1>17
  <2>2. found.level <= found.level
    BY <1>2 DEF Uniform, PartiallyUniform, Divergent
  <2> QED BY <1>4, <2>1, <2>2 DEF took
<1> QED BY <1>15, <1>16, <1>17
-----------------------------------------------------------------------------
\* What a visit gives, and the invariant of the levels.

\* Nor does the visit of a block; one outside the tree stays as it is.
LEMMA VisitBlockFits ==
  ASSUME DomInv, DivTypeOK, CdInv, LevelsOK, stage = "run", NEW b \in Blocks
  PROVE  /\ level[b] <= VisitBlock(b).level
         /\ b \in DOMAIN cd => Fits(b, VisitBlock(b))
         /\ b \notin DOMAIN cd => VisitBlock(b).level = Uniform
<1> DEFINE deps == DependencesOf(b)
           step == [p \in Elements(deps) \X Findings |-> Take(b, p[2], p[1])]
           Levels == {Uniform, PartiallyUniform, Divergent}
           start == FoundOf(b)
<1>1. /\ start \in Findings /\ start.level = level[b] /\ LevelOf(b) = level[b]
      /\ level[b] \in Levels /\ level[b] <= level[b]
  <2>1. FoundOf(b) \in Findings /\ FoundOf(b).level = level[b] /\ LevelOf(b) = level[b]
    BY LevelFacts
  <2>2. level[b] \in Levels
    BY <2>1, LevelFacts
  <2> QED BY <2>1, <2>2 DEF Uniform, PartiallyUniform, Divergent
<1>2. b \in DOMAIN cd => Fits(b, start)
  BY <1>1 DEF LevelsOK, Analyzed, Fits
<1>3. b \notin DOMAIN cd => start.level = Uniform
  BY <1>1 DEF LevelsOK
<1> HIDE DEF start
<1>4. CASE ~HasBlock(b) \/ LevelOf(b) = Divergent
  <2>1. VisitBlock(b) = start
    BY <1>4 DEF VisitBlock, start
  <2> QED BY <1>1, <1>2, <1>3, <2>1
<1>5. CASE ~(~HasBlock(b) \/ LevelOf(b) = Divergent)
  <2>1. VisitBlock(b) = RunOver(step, start, deps)
    BY <1>5 DEF VisitBlock, start
  <2>2. deps \in Seq(Dependences({b}))
    <3>1. b \in DOMAIN cd => cd[b] \in Seq(Dependences({b}))
      BY DEF DivTypeOK
    <3> QED BY <3>1, EmptyIn DEF DependencesOf
  <2>3. deps \in Seq(Elements(deps)) /\ Len(deps) \in Nat /\ DOMAIN deps = 1..Len(deps)
    BY <2>2, OverItsElements
  <2>4. (b \in DOMAIN cd => deps = cd[b]) /\ (b \notin DOMAIN cd => deps = << >>)
    BY DEF DependencesOf
  <2>5. \A e \in Elements(deps) : \A f \in Findings : step[<<e, f>>] = Take(b, f, e)
    OBVIOUS
  <2> HIDE DEF deps, step
  <2>6. CASE b \in DOMAIN cd
    <3> DEFINE Fit == {f \in Findings : Fits(b, f) /\ level[b] <= f.level}
               len == Len(deps)
               I == [n \in 0..len |-> Fit]
    <3>1. ASSUME NEW e \in Elements(deps), NEW f \in Fit PROVE step[<<e, f>>] \in Fit
      <4>1. e \in Elements(cd[b]) /\ f \in Findings /\ Fits(b, f) /\ level[b] <= f.level
        BY <2>4, <2>6
      <4>2. /\ Take(b, f, e) \in Findings /\ Fits(b, Take(b, f, e))
            /\ f.level <= Take(b, f, e).level
        BY <2>6, <4>1, TakeFits
      <4>3. level[b] <= Take(b, f, e).level
        <5>1. f.level \in Levels /\ Take(b, f, e).level \in Levels
          BY <4>1, <4>2 DEF Findings
        <5> DEFINE k == f.level
                   l == Take(b, f, e).level
        <5>2. level[b] \in Levels /\ k \in Levels /\ l \in Levels /\ level[b] <= k /\ k <= l
          BY <1>1, <4>1, <4>2, <5>1
        <5> HIDE DEF k, l
        <5>3. level[b] <= l
          BY <5>2 DEF Uniform, PartiallyUniform, Divergent
        <5> QED BY <5>3 DEF l
      <4>4. step[<<e, f>>] = Take(b, f, e)
        BY <2>5, <4>1
      <4> QED BY <4>2, <4>3, <4>4
    <3>2. start \in Fit
      BY <1>1, <1>2, <2>6
    <3> HIDE DEF Fit
    <3>3. len \in Nat /\ Len(deps) = len /\ 0 \in 0..len /\ len \in 0..len
      BY <2>3
    <3>4. \A n \in 1..len : deps[n] \in Elements(deps)
      BY <2>3 DEF Elements
    <3>5. \A n \in 0..len : I[n] = Fit
      OBVIOUS
    <3>6. \A n \in 1..len : n \in 0..len /\ n - 1 \in 0..len
      BY <3>3
    <3> HIDE DEF I, len
    <3>7. \A n \in 1..len : \A x \in I[n-1] : step[<<deps[n], x>>] \in I[n]
      BY <3>1, <3>4, <3>5, <3>6
    <3>8. start \in I[0]
      BY <3>2, <3>3, <3>5
    <3>9. RunOver(step, start, deps) \in I[len]
      BY <3>3, <3>7, <3>8, RunOverInvariant
    <3>10. VisitBlock(b) \in Fit
      BY <2>1, <3>3, <3>5, <3>9
    <3> QED BY <2>6, <3>10 DEF Fit
  <2>7. CASE b \notin DOMAIN cd
    <3> DEFINE I == [n \in 0..0 |-> {start}]
    <3>1. Len(deps) = 0 /\ 0 \in Nat
      BY <2>4, <2>7
    <3>2. start \in I[0] /\ \A n \in 1..0 : \A x \in I[n-1] : step[<<deps[n], x>>] \in I[n]
      OBVIOUS
    <3>3. I[0] = {start}
      OBVIOUS
    <3> HIDE DEF I
    <3>4. RunOver(step, start, deps) \in I[0]
      BY <3>1, <3>2, RunOverInvariant
    <3>5. VisitBlock(b) = start
      BY <2>1, <3>3, <3>4
    <3> QED BY <1>1, <1>3, <2>7, <3>5
  <2> QED BY <2>6, <2>7
<1> QED BY <1>4, <1>5

\* Nor does the visit of a value, whose level does not fall either.
LEMMA VisitInstructionFits ==
  ASSUME DivTypeOK, LevelsOK, stage = "run", NEW v \in Values
  PROVE  LET I == InstructionOf(v)
             f == VisitInstruction(I)
         IN  /\ level[v] <= f.level
             /\ Fits(v, f)
             /\ f.level = PartiallyUniform /\ I.op \notin Loading =>
                  \E a \in Elements(I.args) : LevelOf(a) # Uniform
             /\ I.op = "uniform" => f.level = Uniform
<1> DEFINE I == InstructionOf(v)
           Highest(found, a) ==
             IF LevelOf(a) > found.level THEN [found EXCEPT !.level = LevelOf(a), !.source = a]
             ELSE found
           start == [FoundOf(v) EXCEPT !.level = Uniform]
           step == [p \in Elements(I.args) \X Findings |-> Highest(p[2], p[1])]
           Root(l) == [level |-> l, source |-> 0, branch |-> 0]
           Levels == {Uniform, PartiallyUniform, Divergent}
           Right(f) == /\ level[v] <= f.level
                       /\ Fits(v, f)
                       /\ f.level = PartiallyUniform /\ I.op \notin Loading =>
                            \E a \in Elements(I.args) : LevelOf(a) # Uniform
                       /\ I.op = "uniform" => f.level = Uniform
<1>1. I \in Instruction /\ I.id = v /\ prog \in Programs /\ succs = prog.succs
  BY InstructionFacts DEF DivTypeOK
<1>2. /\ FoundOf(v) \in Findings /\ FoundOf(v).level = level[v] /\ LevelOf(v) = level[v]
      /\ level[v] \in Levels
  <2>1. FoundOf(v) \in Findings /\ FoundOf(v).level = level[v] /\ LevelOf(v) = level[v]
    BY LevelFacts
  <2> QED BY <2>1, LevelFacts
<1>3. VisitInstruction(I) =
        IF LevelOf(v) = Divergent THEN FoundOf(v)
        ELSE CASE I.op = "uniform" -> start
               [] I.op = "flat" -> Root(PartiallyUniform)
               [] I.op = "divergent" -> Root(Divergent)
               [] OTHER -> RunOver(step, start, I.args)
  BY <1>1 DEF VisitInstruction
<1>4. start \in Findings /\ start.level = Uniform
  BY <1>2 DEF Findings
<1>5. I.args \in Seq(Elements(I.args)) /\ Len(I.args) \in Nat /\ DOMAIN I.args = 1..Len(I.args)
  BY <1>1, OverItsElements DEF Instruction
<1>6. v \in Analyzed /\ v \notin Blocks /\ FlowsInto(v) = Elements(I.args)
  BY LevelFacts DEF Analyzed, FlowsInto
<1>7. /\ level[v] = Divergent => v \in DivergentSide
      /\ level[v] # Uniform => v \in RaisedSide
      /\ level[v] = PartiallyUniform /\ I.op \notin Loading =>
           \E a \in Elements(I.args) : LevelOf(a) # Uniform
      /\ I.op = "uniform" => level[v] = Uniform
  BY <1>6 DEF LevelsOK
<1>8. I.op = "divergent" => v \in DivergentSide
  <2>1. I.op = "divergent" => v \in LoadedAs("divergent")
    BY DEF LoadedAs
  <2> QED BY <1>1, <2>1, DownstreamFacts DEF DivergentSide
<1>9. I.op \in {"flat", "divergent"} => v \in RaisedSide
  <2>1. I.op \in {"flat", "divergent"} => v \in LoadedAs("divergent") \cup LoadedAs("flat")
    BY DEF LoadedAs
  <2> QED BY <1>1, <2>1, DownstreamFacts DEF RaisedSide
<1>10. ASSUME NEW a \in Elements(I.args), LevelOf(a) # Uniform
       PROVE  v \in RaisedSide /\ (LevelOf(a) = Divergent => v \in DivergentSide)
  BY <1>6, <1>10, FlowStays
<1> HIDE DEF I, start
<1>11. ASSUME NEW a \in Elements(I.args), NEW f \in Findings
       PROVE  /\ Highest(f, a) \in Findings
              /\ Fits(v, f) => Fits(v, Highest(f, a))
              /\ (f.level # Uniform => \E e \in Elements(I.args) : LevelOf(e) # Uniform) =>
                   (Highest(f, a).level # Uniform => \E e \in Elements(I.args) : LevelOf(e) # Uniform)
  <2>1. LevelOf(a) \in Levels /\ f.level \in Levels
    BY LevelFacts DEF Findings
  <2>2. CASE LevelOf(a) > f.level
    <3>1. Highest(f, a) = [f EXCEPT !.level = LevelOf(a), !.source = a]
      BY <2>2
    <3>2. LevelOf(a) # Uniform
      BY <2>1, <2>2 DEF Uniform, PartiallyUniform, Divergent
    <3>3. a \in Int
      BY <3>2, LevelFacts
    <3> HIDE DEF Highest
    <3>4. Highest(f, a) \in Findings /\ Highest(f, a).level = LevelOf(a)
      BY <2>1, <3>1, <3>3 DEF Findings
    <3> QED BY <1>10, <3>2, <3>4 DEF Fits
  <2>3. CASE ~(LevelOf(a) > f.level)
    <3>1. Highest(f, a) = f
      BY <2>3
    <3> HIDE DEF Highest
    <3> QED BY <3>1
  <2> QED BY <2>2, <2>3
<1> HIDE DEF Highest
<1>12. \A e \in Elements(I.args) : \A f \in Findings : step[<<e, f>>] = Highest(f, e)
  OBVIOUS
<1> HIDE DEF step
<1>13. CASE LevelOf(v) = Divergent
  <2>1. VisitInstruction(I) = FoundOf(v)
    BY <1>3, <1>13
  <2>2. level[v] <= level[v]
    BY <1>2 DEF Uniform, PartiallyUniform, Divergent
  <2>3. Right(FoundOf(v))
    BY <1>2, <1>7, <2>2 DEF Fits
  <2> QED BY <2>1, <2>3 DEF I
<1>14. CASE LevelOf(v) # Divergent /\ I.op = "uniform"
  <2>1. VisitInstruction(I) = start
    BY <1>3, <1>14
  <2>2. level[v] = Uniform /\ Uniform <= Uniform
    BY <1>7, <1>14 DEF Uniform
  <2>3. Right(start)
    BY <1>4, <2>2 DEF Fits, Uniform, PartiallyUniform, Divergent
  <2> QED BY <2>1, <2>3 DEF I
<1>15. CASE LevelOf(v) # Divergent /\ I.op = "flat"
  <2>1. VisitInstruction(I) = Root(PartiallyUniform)
    BY <1>3, <1>15
  <2>2. level[v] <= PartiallyUniform
    BY <1>2, <1>15 DEF Uniform, PartiallyUniform, Divergent
  <2>3. Right(Root(PartiallyUniform))
    BY <1>9, <1>15, <2>2 DEF Fits, Loading, Uniform, PartiallyUniform, Divergent
  <2> QED BY <2>1, <2>3 DEF I
<1>16. CASE LevelOf(v) # Divergent /\ I.op = "divergent"
  <2>1. VisitInstruction(I) = Root(Divergent)
    BY <1>3, <1>16
  <2>2. level[v] <= Divergent
    BY <1>2 DEF Uniform, PartiallyUniform, Divergent
  <2>3. Right(Root(Divergent))
    BY <1>8, <1>9, <1>16, <2>2 DEF Fits, PartiallyUniform, Divergent
  <2> QED BY <2>1, <2>3 DEF I
<1>17. CASE LevelOf(v) # Divergent /\ I.op \notin {"uniform", "flat", "divergent"}
  <2> DEFINE args == I.args
             len == Len(args)
             Fit == {f \in Findings : /\ Fits(v, f)
                                      /\ f.level # Uniform => \E e \in Elements(args) : LevelOf(e) # Uniform}
             J == [n \in 0..len |-> Fit]
  <2>1. VisitInstruction(I) = RunOver(step, start, args)
    BY <1>3, <1>17
  <2>2. start \in Fit
    BY <1>4 DEF Fits, Uniform, Divergent
  <2>3. ASSUME NEW e \in Elements(args), NEW f \in Fit PROVE step[<<e, f>>] \in Fit
    <3>1. step[<<e, f>>] = Highest(f, e) /\ f \in Findings /\ Fits(v, f)
      BY <1>12
    <3> QED BY <1>11, <3>1
  <2>4. len \in Nat /\ Len(args) = len /\ 0 \in 0..len /\ len \in 0..len
    BY <1>5
  <2>5. \A n \in 1..len : args[n] \in Elements(args)
    BY <1>5 DEF Elements
  <2> HIDE DEF Fit, args
  <2>6. \A n \in 0..len : J[n] = Fit
    OBVIOUS
  <2>7. \A n \in 1..len : n \in 0..len /\ n - 1 \in 0..len
    BY <2>4
  <2> HIDE DEF J, len
  <2>8. \A n \in 1..len : \A x \in J[n-1] : step[<<args[n], x>>] \in J[n]
    BY <2>3, <2>5, <2>6, <2>7
  <2>9. start \in J[0]
    BY <2>2, <2>4, <2>6
  <2>10. RunOver(step, start, args) \in J[len]
    BY <2>4, <2>8, <2>9, RunOverInvariant
  <2>11. VisitInstruction(I) \in Fit
    BY <2>1, <2>4, <2>6, <2>10
  <2> DEFINE f == VisitInstruction(I)
  <2>12. /\ f \in Findings /\ Fits(v, f) /\ f.level \in Levels
         /\ f.level # Uniform => \E e \in Elements(I.args) : LevelOf(e) # Uniform
    BY <2>11 DEF Fit, Findings, args
  <2>13. level[v] # Uniform => f.level # Uniform
    <3> SUFFICES ASSUME level[v] # Uniform PROVE f.level # Uniform
      OBVIOUS
    <3>1. level[v] = PartiallyUniform /\ I.op \notin Loading
      BY <1>2, <1>17 DEF Loading
    <3>2. \E a \in Elements(I.args) : LevelOf(a) # Uniform
      BY <1>7, <3>1
    <3> QED BY <3>2, VisitInstructionFacts DEF I
  <2> HIDE DEF f
  <2>14. level[v] <= f.level
    BY <1>2, <1>17, <2>12, <2>13 DEF Uniform, PartiallyUniform, Divergent
  <2>15. Right(f)
    BY <1>17, <2>12, <2>14 DEF Uniform, PartiallyUniform
  <2> QED BY <2>15 DEF I, f
<1> QED BY <1>13, <1>14, <1>15, <1>16, <1>17

-----------------------------------------------------------------------------
\* What the flows and the sides rest on.
LEMMA SameSides ==
  ASSUME UNCHANGED <<prog, succs, cd>>
  PROVE  /\ UNCHANGED <<Blocks, Values, Analyzed, FlowsOut, RaisedSide>>
         /\ \A v : InstructionOf(v)' = InstructionOf(v)
         /\ \A kind : LoadedAs(kind)' = LoadedAs(kind)
         /\ DivergentSide' = Downstream(LoadedAs("divergent") \cup Reconverged')
<1>1. UNCHANGED <<Blocks, Values, Analyzed>> /\ (\A v : InstructionOf(v)' = InstructionOf(v))
      /\ \A id : FlowsInto(id)' = FlowsInto(id)
  BY SameShader, SameFlows
<1>2. FlowsOut' = FlowsOut
  BY <1>1 DEF FlowsOut
<1>3. \A kind : LoadedAs(kind)' = LoadedAs(kind)
  BY <1>1 DEF LoadedAs
<1>4. RaisedSide' = RaisedSide
  BY <1>2, <1>3 DEF RaisedSide, Downstream
<1>5. DivergentSide' = Downstream(LoadedAs("divergent") \cup Reconverged')
  BY <1>2, <1>3 DEF DivergentSide, Downstream
<1> QED BY <1>1, <1>2, <1>3, <1>4, <1>5

\* Steps that leave the levels and what they rest on alone.
LEMMA SameLevels ==
  ASSUME LevelsOK, UNCHANGED <<prog, succs, cd, follow, level>>,
         stage' \in {"run", "done"} => stage \in {"run", "done"}
  PROVE  LevelsOK'
<1>1. /\ UNCHANGED <<Blocks, Values, Analyzed, RaisedSide>>
      /\ \A v : InstructionOf(v)' = InstructionOf(v)
      /\ DivergentSide' = Downstream(LoadedAs("divergent") \cup Reconverged')
  BY SameSides
<1>2. (\A id : LevelOf(id)' = LevelOf(id)) /\ \A b : FollowFrom(b)' = FollowFrom(b)
  BY DEF LevelOf, FollowFrom
<1>3. Reconverged' = Reconverged
  BY <1>1, <1>2 DEF Reconverged
<1>4. DivergentSide' = DivergentSide
  BY <1>1, <1>3 DEF DivergentSide
<1> QED BY <1>1, <1>2, <1>4 DEF LevelsOK

\* A visit keeps the levels within their sides.
LEMMA VisitStaysWithin == DomInv /\ DivInv /\ CdInv /\ LevelsOK /\ Visit => LevelsOK'
<1> SUFFICES ASSUME DomInv, DivInv, CdInv, LevelsOK, Visit PROVE LevelsOK'
  OBVIOUS
<1> DEFINE item == Head(worklist)
           found == IF item \in Blocks THEN VisitBlock(item)
                    ELSE VisitInstruction(InstructionOf(item))
           Levels == {Uniform, PartiallyUniform, Divergent}
<1>1. /\ stage = "run" /\ worklist # << >> /\ UNCHANGED <<prog, succs, stage, cd, follow>>
      /\ \/ item < 0 /\ UNCHANGED level
         \/ ~(item < 0) /\ level' = [level EXCEPT ![item] = found.level]
  BY DEF Visit, domVars
<1>2. CASE item < 0 /\ UNCHANGED level
  BY <1>1, <1>2, SameLevels
<1>3. CASE ~(item < 0) /\ level' = [level EXCEPT ![item] = found.level]
  <2>1. /\ DivTypeOK /\ ForwardMirrorsReverse /\ worklist \in Seq(Items)
        /\ level \in [Blocks \cup Values -> Levels] /\ prog \in Programs /\ succs = prog.succs
    BY DEF DivInv, DivTypeOK
  <2>2. item \in Items
    BY <1>1, <2>1, HeadAndTail
  <2> HIDE DEF item
  <2>3. item \in Blocks \cup Values
    BY <1>3, <2>1, <2>2, LevelFacts DEF Items
  <2>4. \A v \in Values : v \notin Blocks
    BY <2>1, LevelFacts
  <2>5. found \in Findings
    BY <1>1, <2>1, <2>3, VisitBlockFacts, VisitInstructionFacts
  <2>6. found.level \in Levels
    BY <2>5 DEF Findings
  <2>7. /\ level[item] <= found.level
        /\ item \in Analyzed => Fits(item, found)
        /\ item \in Blocks \ DOMAIN cd => found.level = Uniform
        /\ item \in Values =>
             /\ found.level = PartiallyUniform /\ InstructionOf(item).op \notin Loading =>
                  \E a \in Elements(InstructionOf(item).args) : LevelOf(a) # Uniform
             /\ InstructionOf(item).op = "uniform" => found.level = Uniform
    <3>1. CASE item \in Blocks
      <4>1. found = VisitBlock(item) /\ item \notin Values /\ (item \in Analyzed => item \in DOMAIN cd)
        BY <2>4, <3>1 DEF Analyzed
      <4> HIDE DEF found
      <4> QED BY <1>1, <2>1, <3>1, <4>1, VisitBlockFits
    <3>2. CASE item \notin Blocks
      <4>1. found = VisitInstruction(InstructionOf(item)) /\ item \in Values
        BY <2>3, <3>2
      <4> HIDE DEF found
      <4> QED BY <1>1, <2>1, <3>2, <4>1, VisitInstructionFits
    <3> QED BY <3>1, <3>2
  <2> HIDE DEF found
  <2>8. /\ DOMAIN level = Blocks \cup Values /\ DOMAIN level' = Blocks \cup Values
        /\ level'[item] = found.level
        /\ \A x \in Blocks \cup Values : x # item => level'[x] = level[x]
    BY <1>3, <2>1, <2>3
  \* What is not uniform stays so.
  <2>9. \A id : LevelOf(id) # Uniform => LevelOf(id)' # Uniform
    <3>1. level[item] # Uniform => found.level # Uniform
      BY <2>1, <2>3, <2>6, <2>7 DEF Uniform, PartiallyUniform, Divergent
    <3> QED BY <2>8, <3>1 DEF LevelOf
  <2>10. /\ UNCHANGED <<Blocks, Values, Analyzed, RaisedSide>>
         /\ \A v : InstructionOf(v)' = InstructionOf(v)
         /\ DivergentSide' = Downstream(LoadedAs("divergent") \cup Reconverged')
    BY <1>1, SameSides
  <2>11. DivergentSide \subseteq DivergentSide'
    <3>1. Reconverged \subseteq Reconverged'
      <4>1. \A b : FollowFrom(b)' = FollowFrom(b)
        BY <1>1 DEF FollowFrom
      <4>2. ASSUME NEW b \in Reconverged PROVE b \in Reconverged'
        <5>1. PICK d \in ToSet(cd[b]) : /\ d.source # PseudoEntryBlock
                                        /\ FollowFrom(d.via) # FollowFrom(b)
                                        /\ LevelOf(prog.cond[d.source]) # Uniform
          BY <4>2 DEF Reconverged
        <5>2. LevelOf(prog.cond[d.source])' # Uniform
          BY <1>1, <2>9, <5>1
        <5>3. b \in (Blocks \cap Analyzed)'
          BY <2>10, <4>2 DEF Reconverged
        <5>4. /\ d \in ToSet(cd[b])' /\ d.source # PseudoEntryBlock
              /\ FollowFrom(d.via)' # FollowFrom(b)'
          BY <1>1, <4>1, <5>1
        <5> QED BY <5>2, <5>3, <5>4 DEF Reconverged, PseudoEntryBlock
      <4> QED BY <4>2
    <3>2. LoadedAs("divergent") \cup Reconverged \subseteq LoadedAs("divergent") \cup Reconverged'
      BY <3>1
    <3>3. Downstream(LoadedAs("divergent") \cup Reconverged)
            \subseteq Downstream(LoadedAs("divergent") \cup Reconverged')
      BY <2>1, <3>2, DownstreamFacts
    <3> QED BY <2>10, <3>3 DEF DivergentSide
  <2>12. ASSUME NEW x \in Analyzed
         PROVE  /\ level'[x] = Divergent => x \in DivergentSide'
                /\ level'[x] # Uniform => x \in RaisedSide
    <3>1. x \in Blocks \cup Values
      BY DEF Analyzed
    <3>2. CASE x = item
      BY <2>7, <2>8, <2>11, <3>2 DEF Fits
    <3>3. CASE x # item
      BY <1>1, <2>8, <2>11, <3>1, <3>3 DEF LevelsOK
    <3> QED BY <3>2, <3>3
  <2>13. ASSUME NEW b \in Blocks \ DOMAIN cd PROVE level'[b] = Uniform
    BY <1>1, <2>7, <2>8 DEF LevelsOK
  <2>14. ASSUME NEW v \in Values
         PROVE  LET I == InstructionOf(v)
                IN  /\ level'[v] = PartiallyUniform /\ I.op \notin Loading =>
                         \E a \in Elements(I.args) : LevelOf(a)' # Uniform
                    /\ I.op = "uniform" => level'[v] = Uniform
    <3>1. CASE v = item
      BY <2>7, <2>8, <2>9, <3>1
    <3>2. CASE v # item
      BY <1>1, <2>8, <2>9, <3>2 DEF LevelsOK
    <3> QED BY <3>1, <3>2
  <2> QED BY <1>1, <2>10, <2>12, <2>13, <2>14 DEF LevelsOK, Uniform, PartiallyUniform, Divergent, Loading
<1> QED BY <1>1, <1>2, <1>3

\* The levels start within their sides.
LEMMA LevelsStart == DivInit => LevelsOK
BY DEF DivInit, LevelsOK

\* Every step keeps the levels within their sides.
LEMMA LevelsKept == DomInv /\ DivInv /\ CdInv /\ LevelsOK /\ [DivNext]_divVars => LevelsOK'
<1> SUFFICES ASSUME DomInv, DivInv, CdInv, LevelsOK, [DivNext]_divVars PROVE LevelsOK'
  OBVIOUS
<1>1. succs' = succs /\ prog' = prog
  BY DEF DivNext, Dominance, DomNext, Walk, Traversed, StartPass, Refine, Refined, Numbered,
         Setup, Frontier, Tour, Follow, Visit, Converged, divVars, domVars
<1>2. CASE Dominance \/ Setup \/ Tour \/ Converged \/ UNCHANGED divVars
  <2>1. /\ UNCHANGED <<cd, follow, level>>
        /\ stage' \in {"run", "done"} => stage \in {"run", "done"}
    BY <1>2 DEF Dominance, Setup, Tour, Converged, divVars, divOnly
  <2> QED BY <1>1, <2>1, SameLevels
<1>3. CASE Frontier
  <2>1. stage' \in {"frontiers", "traverse"}
    BY <1>3 DEF Frontier
  <2> QED BY <2>1 DEF LevelsOK
<1>4. CASE Follow
  <2>1. stage = "follow" /\ UNCHANGED <<level, cd>>
    BY <1>4 DEF Follow
  <2>2. \A x \in Blocks \cup Values : level[x] = Uniform
    BY <2>1 DEF DivInv, NonUniformityIsFollowed
  <2>3. UNCHANGED <<Blocks, Values, Analyzed>>
    BY <1>1, <2>1, SameSides
  <2>4. \A x \in (Blocks \cup Values)' : level'[x] = Uniform
    BY <2>1, <2>2, <2>3
  <2>5. (Analyzed \subseteq Blocks \cup Values)'
    BY DEF Analyzed
  <2> QED BY <2>4, <2>5 DEF LevelsOK, Uniform, PartiallyUniform, Divergent
<1>5. CASE Visit
  BY <1>5, VisitStaysWithin
<1> QED BY <1>2, <1>3, <1>4, <1>5 DEF DivNext

\* Within the sides, nothing has a level that its flows do not give it.
LEMMA LevelsFollow == LevelsOK => NeverTooDivergent
<1> SUFFICES ASSUME LevelsOK, stage \in {"run", "done"} PROVE NeverTooDivergent
  BY DEF NeverTooDivergent
<1> DEFINE Into == [x \in Analyzed |-> FlowsInto(x)]
           Flows == [id \in Analyzed |-> {x \in Analyzed : id \in Into[x]}]
           Loaded(kind) == {id \in Values : InstructionOf(id).op = kind}
           reconverged == {b \in Blocks \cap Analyzed : \E d \in ToSet(cd[b]) :
                             /\ d.source # PseudoEntryBlock
                             /\ FollowFrom(d.via) # FollowFrom(b)
                             /\ LevelOf(prog.cond[d.source]) # Uniform}
<1>1. Flows = FlowsOut
  BY DEF FlowsOut
<1>2. DivergentSide = Closure(Flows, Loaded("divergent") \cup reconverged)
  BY <1>1 DEF DivergentSide, Downstream, LoadedAs, Reconverged
<1>3. RaisedSide = Closure(Flows, Loaded("divergent") \cup Loaded("flat"))
  BY <1>1 DEF RaisedSide, Downstream, LoadedAs
<1> HIDE DEF Into, Flows, Loaded, reconverged
<1>4. /\ {x \in Analyzed : level[x] = Divergent}
           \subseteq Closure(Flows, Loaded("divergent") \cup reconverged)
      /\ {x \in Analyzed : level[x] # Uniform}
           \subseteq Closure(Flows, Loaded("divergent") \cup Loaded("flat"))
  BY <1>2, <1>3 DEF LevelsOK
<1> QED BY <1>4 DEF NeverTooDivergent, Into, Flows, Loaded, reconverged

\* Every level is justified by the flows into its item, and by the table of
\* unconditional branches as DivergenceAnalysis::Setup has computed it.
THEOREM LevelsAreJustified == DivSpec => []NeverTooDivergent
<1>1. DivSpec => []CdInv
  BY DependencesStart, DependencesKept, DivergenceInvariant, DivergenceDominators, PTL DEF DivSpec
<1>2. DivSpec => []LevelsOK
  BY <1>1, LevelsStart, LevelsKept, DivergenceInvariant, DivergenceDominators, PTL DEF DivSpec
<1> QED BY <1>2, LevelsFollow, PTL
=============================================================================
