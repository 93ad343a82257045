--------------------- MODULE EquivalenceRelationProofs ---------------------
(***************************************************************************)
(* Proofs about EquivalenceRelation, for any set of values.  That parents  *)
(* form a forest is stated without paths, by a certificate: the root of    *)
(* every value, which agrees with its parent's, and a depth, which is less *)
(* for the parent.                                                         *)
(***************************************************************************)
EXTENDS EquivalenceRelation, SubsequencesProofs, TLAPS

\* root and depth certify that the parents p of the values in K form a forest.
Certifies(p, K, root, depth) ==
  \A x \in K :
    /\ p[root[x]] = root[x]
    /\ root[p[x]] = root[x]
    /\ p[x] = x => root[x] = x
    /\ p[x] # x => depth[p[x]] < depth[x]

IsForest ==
  \E root \in [known -> known], depth \in [known -> Nat] :
    Certifies(parent, known, root, depth)

\* ClassOf, in a forest that need not be the current one.
ClassIn(p, K, v) ==
  {w \in K : \A S \in SUBSET K :
                (\A x \in K : p[x] \in S <=> x \in S) /\ v \in S => w \in S}

\* What is known of the Find in progress and of those that returned.
FindInvariant ==
  /\ pc # "idle" => Len(found) <= Len(call.args)
  /\ pc # "idle" =>
       \A k \in DOMAIN found :
         found[k] \in ClassOf(call.args[k]) /\ IsRepresentative(found[k])
  /\ pc \in {"chase", "compress"} =>
       /\ Len(found) < Len(call.args)
       /\ current \in ClassOf(call.args[Len(found) + 1])
       /\ result \in ClassOf(call.args[Len(found) + 1])
  /\ pc = "compress" => IsRepresentative(result)
  /\ pc \in {"return", "collect"} => Len(found) = Len(call.args)
  /\ pc \in {"chase", "compress", "return"} => collected = << >>

\* A value of the class is on the stack or visited exactly when its parent
\* has been visited.
CollectInvariant ==
  pc = "collect" =>
    LET seen == collected \o stack IN
    /\ call.op = "GetEquivalenceClass"
    /\ Distinct(seen)
    /\ Elements(seen) \subseteq ClassOf(call.args[1])
    /\ found[1] \in Elements(seen)
    /\ \A w \in ClassOf(call.args[1]) \ {found[1]} :
         w \in Elements(seen) <=> parent[w] \in Elements(collected)

IInv ==
  /\ TypeOK
  /\ IsForest
  /\ ChildrenMirrorParents
  /\ FindInvariant
  /\ CollectInvariant
  /\ AnswersAreRight
-----------------------------------------------------------------------------
\* In a certified forest, a class is the set of values with the same root:
\* whether a closed set holds a value only depends on the value's root.
LEMMA CertifiedClass ==
  ASSUME NEW K, NEW p \in [K -> K], NEW root \in [K -> K], NEW depth \in [K -> Nat],
         Certifies(p, K, root, depth), NEW v \in K
  PROVE  ClassIn(p, K, v) = {w \in K : root[w] = root[v]}
<1>1. ASSUME NEW S \in SUBSET K, \A x \in K : p[x] \in S <=> x \in S,
             NEW w \in K
      PROVE  w \in S <=> root[w] \in S
  <2> DEFINE Bad == {n \in Nat : \E x \in K : depth[x] = n /\ ~(x \in S <=> root[x] \in S)}
  <2>1. SUFFICES ASSUME Bad # {} PROVE FALSE
    <3>1. depth[w] \in Nat  OBVIOUS
    <3>2. depth[w] \notin Bad  BY <2>1
    <3>. QED BY <3>1, <3>2
  <2>2. PICK n \in Bad : \A m \in Bad : n <= m
    <3>1. Bad \subseteq Nat  OBVIOUS
    <3>. HIDE DEF Bad
    <3>. QED BY <2>1, <3>1, LeastNatural
  <2>3. PICK x \in K : depth[x] = n /\ ~(x \in S <=> root[x] \in S)  OBVIOUS
  <2>4. p[x] # x  BY <2>3 DEF Certifies
  <2>5. p[x] \in K /\ depth[p[x]] \in Nat /\ depth[p[x]] < depth[x] /\ root[p[x]] = root[x]
    BY <2>4 DEF Certifies
  <2>6. p[x] \in S <=> root[p[x]] \in S
    <3>1. depth[p[x]] \notin Bad
      <4>. HIDE DEF Bad
      <4>1. n \in Nat  BY DEF Bad
      <4>. QED BY <2>2, <2>3, <2>5, <4>1
    <3>. QED BY <3>1, <2>5
  <2>. QED BY <1>1, <2>3, <2>5, <2>6
<1>2. {w \in K : root[w] = root[v]} \in SUBSET K  OBVIOUS
<1>3. \A x \in K : p[x] \in {w \in K : root[w] = root[v]}
                     <=> x \in {w \in K : root[w] = root[v]}
  BY DEF Certifies
<1>4. ASSUME NEW w \in ClassIn(p, K, v) PROVE w \in K /\ root[w] = root[v]
  <2>1. v \in {x \in K : root[x] = root[v]}  OBVIOUS
  <2>2. w \in {x \in K : root[x] = root[v]}  BY <1>4, <1>2, <1>3, <2>1 DEF ClassIn
  <2>. QED BY <2>2
<1>5. ASSUME NEW w \in K, root[w] = root[v] PROVE w \in ClassIn(p, K, v)
  <2>1. SUFFICES ASSUME NEW S \in SUBSET K, \A x \in K : p[x] \in S <=> x \in S, v \in S
                 PROVE  w \in S
    BY DEF ClassIn
  <2>2. v \in S <=> root[v] \in S  BY <1>1, <2>1
  <2>3. w \in S <=> root[w] \in S  BY <1>1, <2>1
  <2>. QED BY <2>1, <2>2, <2>3, <1>5
<1>. QED BY <1>4, <1>5

\* The class of a value as an operator of the forest, for use with primes.
LEMMA ClassOfIsClassIn == \A v : ClassOf(v) = ClassIn(parent, known, v)
BY DEF ClassOf, ClassIn, Closed

\* The two together, as they are cited.
LEMMA ClassByRoot ==
  ASSUME parent \in [known -> known], NEW root \in [known -> known],
         NEW depth \in [known -> Nat], Certifies(parent, known, root, depth)
  PROVE  \A v \in known : ClassOf(v) = {w \in known : root[w] = root[v]}
BY CertifiedClass, ClassOfIsClassIn

\* Erasing from a list without duplicates.
LEMMA EraseFromDistinct ==
  ASSUME NEW S, NEW s \in Seq(S), Distinct(s), NEW v \in Elements(s)
  PROVE  /\ Erase(s, v) \in Seq(S)
         /\ Distinct(Erase(s, v))
         /\ Elements(Erase(s, v)) = Elements(s) \ {v}
<1> DEFINE k == CHOOSE i \in DOMAIN s : s[i] = v /\ \A j \in 1..(i - 1) : s[j] # v
<1>1. k \in DOMAIN s /\ s[k] = v
  <2>1. PICK i \in DOMAIN s : s[i] = v  BY DEF Elements
  <2>2. \A j \in 1..(i - 1) : s[j] # v
    <3>1. ASSUME NEW j \in 1..(i - 1), s[j] = v PROVE FALSE
      <4>1. j \in DOMAIN s /\ j # i  OBVIOUS
      <4>. QED BY <4>1, <3>1, <2>1 DEF Distinct
    <3>. QED BY <3>1
  <2>. QED BY <2>1, <2>2
<1>2. Erase(s, v) = Without(s, k)  BY DEF Erase
<1> HIDE DEF k
<1>3. k \in 1..Len(s) /\ Len(s) \in Nat  BY <1>1
<1> DEFINE t == Without(s, k)
<1>4. DOMAIN t = 1..(Len(s) - 1)  BY DEF Without
<1>5. \A i \in 1..(Len(s) - 1) : t[i] = (IF i < k THEN s[i] ELSE s[i + 1])  BY DEF Without
<1>6. t \in Seq(S)
  <2>1. \A i \in 1..(Len(s) - 1) : t[i] \in S  BY <1>3, <1>5
  <2>2. t \in [1..(Len(s) - 1) -> S]
    BY <2>1 DEF Without
  <2>3. Len(s) - 1 \in Nat  BY <1>3
  <2>. QED BY <2>2, <2>3
<1>7. Distinct(t)
  <2>1. SUFFICES ASSUME NEW i \in 1..(Len(s) - 1), NEW j \in 1..(Len(s) - 1), t[i] = t[j]
                 PROVE  i = j
    BY <1>4 DEF Distinct
  <2> DEFINE up(n) == IF n < k THEN n ELSE n + 1
  <2>2. up(i) \in DOMAIN s /\ up(j) \in DOMAIN s  BY <1>3
  <2>3. s[up(i)] = s[up(j)]  BY <2>1, <1>5
  <2>4. up(i) = up(j)
    <3>. HIDE DEF up
    <3>. QED BY <2>2, <2>3 DEF Distinct
  <2>. QED BY <2>4, <1>3
<1>8. Elements(t) = Elements(s) \ {v}
  <2>1. ASSUME NEW x \in Elements(t) PROVE x \in Elements(s) \ {v}
    <3>1. PICK i \in 1..(Len(s) - 1) : x = t[i]  BY <1>4 DEF Elements
    <3> DEFINE u == IF i < k THEN i ELSE i + 1
    <3>2. u \in DOMAIN s /\ u # k /\ x = s[u]  BY <3>1, <1>5, <1>3
    <3> HIDE DEF u
    <3>3. s[u] # v  BY <3>2, <1>1 DEF Distinct
    <3>. QED BY <3>2, <3>3 DEF Elements
  <2>2. ASSUME NEW x \in Elements(s), x # v PROVE x \in Elements(t)
    <3>1. PICK i \in DOMAIN s : x = s[i]  BY DEF Elements
    <3>2. i # k  BY <3>1, <2>2, <1>1
    <3> DEFINE d == IF i < k THEN i ELSE i - 1
    <3>3. d \in 1..(Len(s) - 1) /\ t[d] = s[i]  BY <3>1, <3>2, <1>3, <1>5
    <3> HIDE DEF d, t
    <3>. QED BY <3>3, <3>1, <1>4 DEF Elements
  <2>. QED BY <2>1, <2>2
<1>. QED BY <1>2, <1>6, <1>7, <1>8

\* Appending a new element keeps a sequence distinct.
LEMMA AppendDistinct ==
  ASSUME NEW S, NEW s \in Seq(S), NEW v \in S, Distinct(s), v \notin Elements(s)
  PROVE  /\ Append(s, v) \in Seq(S)
         /\ Distinct(Append(s, v))
         /\ Elements(Append(s, v)) = Elements(s) \cup {v}
<1> DEFINE t == Append(s, v)
<1>1. /\ t \in Seq(S) /\ DOMAIN t = 1..(Len(s) + 1) /\ Len(s) \in Nat
      /\ t[Len(s) + 1] = v /\ \A i \in 1..Len(s) : t[i] = s[i]
  OBVIOUS
<1>2. DOMAIN s = 1..Len(s)  OBVIOUS
<1> HIDE DEF t
<1>3. Distinct(t)
  <2>1. SUFFICES ASSUME NEW i \in 1..(Len(s) + 1), NEW j \in 1..(Len(s) + 1), t[i] = t[j]
                 PROVE  i = j
    BY <1>1 DEF Distinct
  <2>2. \A n \in 1..Len(s) : t[n] \in Elements(s)  BY <1>1, <1>2 DEF Elements
  <2>3. CASE i \in 1..Len(s) /\ j \in 1..Len(s)  BY <2>1, <2>3, <1>1, <1>2 DEF Distinct
  <2>4. CASE ~(i \in 1..Len(s) /\ j \in 1..Len(s))
    <3>1. i = Len(s) + 1 \/ j = Len(s) + 1  BY <2>4, <1>1
    <3>2. CASE i = j  BY <3>2
    <3>3. CASE i # j
      <4>1. (i = Len(s) + 1 /\ j \in 1..Len(s)) \/ (j = Len(s) + 1 /\ i \in 1..Len(s))
        BY <3>1, <3>3, <1>1
      <4>. QED BY <4>1, <2>1, <2>2, <1>1
    <3>. QED BY <3>2, <3>3
  <2>. QED BY <2>3, <2>4
<1>4. Elements(t) = Elements(s) \cup {v}
  <2>1. ASSUME NEW x \in Elements(t) PROVE x \in Elements(s) \cup {v}
    <3>1. PICK i \in 1..(Len(s) + 1) : x = t[i]  BY <1>1 DEF Elements
    <3>2. CASE i = Len(s) + 1  BY <3>1, <3>2, <1>1
    <3>3. CASE i \in 1..Len(s)  BY <3>1, <3>3, <1>1, <1>2 DEF Elements
    <3>. QED BY <3>2, <3>3, <1>1
  <2>2. ASSUME NEW x \in Elements(s) PROVE x \in Elements(t)
    <3>1. PICK i \in 1..Len(s) : x = s[i]  BY <1>2 DEF Elements
    <3>2. i \in 1..(Len(s) + 1)  BY <1>1
    <3>. QED BY <3>1, <3>2, <1>1 DEF Elements
  <2>3. v \in Elements(t)
    <3>1. Len(s) + 1 \in 1..(Len(s) + 1)  BY <1>1
    <3>. QED BY <3>1, <1>1 DEF Elements
  <2>. QED BY <2>1, <2>2, <2>3
<1>. QED BY <1>1, <1>3, <1>4 DEF t

\* What the arguments of a call are.
LEMMA CallShape ==
  ASSUME NEW K, NEW c \in Calls(K)
  PROVE  /\ c.args \in Seq(K)
         /\ c.op \in {"Find", "GetEquivalenceClass"} => Len(c.args) = 1
         /\ c.op \in {"IsEquivalent", "MakeEquivalent"} => Len(c.args) = 2
         /\ c.op \in {"Find", "GetEquivalenceClass", "IsEquivalent", "MakeEquivalent"}
         /\ Len(c.args) \in {1, 2}
         /\ c # NoCall
<1>1. CASE c \in [op : {"Find", "GetEquivalenceClass"}, args : {<<v>> : v \in K}]
  <2>1. PICK v \in K : c.args = <<v>>  BY <1>1
  <2>2. c.op \in {"Find", "GetEquivalenceClass"}  BY <1>1
  <2>3. <<v>> \in Seq(K) /\ Len(<<v>>) = 1  OBVIOUS
  <2>. QED BY <2>1, <2>2, <2>3 DEF NoCall
<1>2. CASE c \in [op : {"IsEquivalent", "MakeEquivalent"},
                  args : {<<v, w>> : v \in K, w \in K}]
  <2>1. PICK v \in K, w \in K : c.args = <<v, w>>  BY <1>2
  <2>2. c.op \in {"IsEquivalent", "MakeEquivalent"}  BY <1>2
  <2>3. <<v, w>> \in Seq(K) /\ Len(<<v, w>>) = 2  OBVIOUS
  <2>. QED BY <2>1, <2>2, <2>3 DEF NoCall
<1>. QED BY <1>1, <1>2 DEF Calls

\* A call on known values is one when more values are known.
LEMMA CallsGrow ==
  ASSUME NEW K, NEW L, K \subseteq L
  PROVE  Calls(K) \subseteq Calls(L)
BY DEF Calls

\* A step that leaves the forest alone leaves all that is said of it alone.
LEMMA SameForest ==
  ASSUME UNCHANGED forest
  PROVE  /\ IsForest => IsForest'
         /\ ChildrenMirrorParents => ChildrenMirrorParents'
         /\ \A v : ClassOf(v)' = ClassOf(v)
         /\ \A v : IsRepresentative(v)' = IsRepresentative(v)
<1>1. known' = known /\ parent' = parent /\ children' = children  BY DEF forest
<1>2. IsForest => IsForest'  BY <1>1 DEF IsForest, Certifies
<1>3. ChildrenMirrorParents => ChildrenMirrorParents'
  BY <1>1 DEF ChildrenMirrorParents, Distinct, Elements
<1>4. \A v : ClassOf(v)' = ClassOf(v)  BY <1>1 DEF ClassOf, Closed
<1>5. \A v : IsRepresentative(v)' = IsRepresentative(v)  BY <1>1 DEF IsRepresentative
<1>. QED BY <1>2, <1>3, <1>4, <1>5

\* Members of a class share the root, which is the class's representative;
\* so a class has one.
LEMMA OneRoot ==
  ASSUME TypeOK, IsForest
  PROVE  /\ \A v \in known : v \in ClassOf(v)
         /\ \A v \in known : \A w \in ClassOf(v) :
              w \in known /\ parent[w] \in ClassOf(v)
         /\ \A v \in known : \A x, y \in ClassOf(v) :
              IsRepresentative(x) /\ IsRepresentative(y) => x = y
         /\ \A v \in known : \E r \in ClassOf(v) : IsRepresentative(r)
         /\ \A v, w \in known : \A x \in ClassOf(v), y \in ClassOf(w) :
              IsRepresentative(x) /\ IsRepresentative(y) => (x = y <=> w \in ClassOf(v))
<1>1. PICK root \in [known -> known], depth \in [known -> Nat] :
        Certifies(parent, known, root, depth)
  BY DEF IsForest
<1>2. parent \in [known -> known]  BY DEF TypeOK
<1>3. \A v \in known : ClassOf(v) = {w \in known : root[w] = root[v]}
  BY <1>1, <1>2, ClassByRoot
<1>4. \A x \in known : IsRepresentative(x) => root[x] = x
  BY <1>1 DEF Certifies, IsRepresentative
<1>5. \A v \in known : v \in ClassOf(v)  BY <1>3
<1>6. \A v \in known : \A w \in ClassOf(v) : w \in known /\ parent[w] \in ClassOf(v)
  BY <1>1, <1>2, <1>3 DEF Certifies
<1>7. \A v \in known : \A x, y \in ClassOf(v) :
        IsRepresentative(x) /\ IsRepresentative(y) => x = y
  BY <1>3, <1>4
<1>8. \A v \in known : \E r \in ClassOf(v) : IsRepresentative(r)
  <2>1. TAKE v \in known
  <2>2. root[v] \in known /\ parent[root[v]] = root[v]  BY <1>1 DEF Certifies
  <2>3. IsRepresentative(root[v])  BY <2>2 DEF IsRepresentative
  <2>4. root[root[v]] = root[v]  BY <2>2, <2>3, <1>4
  <2>. QED BY <2>2, <2>3, <2>4, <1>3
<1>9. \A v, w \in known : \A x \in ClassOf(v), y \in ClassOf(w) :
        IsRepresentative(x) /\ IsRepresentative(y) => (x = y <=> w \in ClassOf(v))
  BY <1>3, <1>4
<1>. QED BY <1>5, <1>6, <1>7, <1>8, <1>9

\* The initial state satisfies the invariant.
LEMMA InitIInv == Init => IInv
<1> SUFFICES ASSUME Init PROVE IInv  OBVIOUS
<1> USE DEF Init
<1>1. TypeOK  BY DEF TypeOK, NoCall
<1>2. IsForest
  <2>1. parent \in [known -> known]  OBVIOUS
  <2>2. [x \in known |-> 0] \in [known -> Nat]  OBVIOUS
  <2>3. Certifies(parent, known, parent, [x \in known |-> 0])  BY DEF Certifies
  <2>. QED BY <2>1, <2>2, <2>3 DEF IsForest
<1>3. ChildrenMirrorParents  BY DEF ChildrenMirrorParents
<1>4. FindInvariant /\ CollectInvariant /\ AnswersAreRight
  BY DEF FindInvariant, CollectInvariant, AnswersAreRight, NoCall
<1>. QED BY <1>1, <1>2, <1>3, <1>4 DEF IInv

\* A new value is alone in its class and changes no other.
LEMMA RegisterFacts ==
  ASSUME IInv, NEW v \in Values, Register(v)
  PROVE  /\ IsForest'
         /\ ClassOf(v)' = {v}
         /\ \A x \in known : ClassOf(x)' = ClassOf(x)
<1> USE DEF IInv
<1>1. PICK root \in [known -> known], depth \in [known -> Nat] :
        Certifies(parent, known, root, depth)
  BY DEF IsForest
<1> DEFINE r == [x \in known' |-> IF x = v THEN v ELSE root[x]]
           d == [x \in known' |-> IF x = v THEN 0 ELSE depth[x]]
<1>2. known' = known \cup {v} /\ v \notin known /\ parent \in [known -> known]
  BY DEF Register, TypeOK
<1>3. r \in [known' -> known'] /\ d \in [known' -> Nat]  BY <1>2
<1>4. parent' \in [known' -> known']  BY <1>2 DEF Register
<1>5. Certifies(parent', known', r, d)
  <2>1. SUFFICES ASSUME NEW x \in known'
                 PROVE  /\ parent'[r[x]] = r[x]
                        /\ r[parent'[x]] = r[x]
                        /\ parent'[x] = x => r[x] = x
                        /\ parent'[x] # x => d[parent'[x]] < d[x]
    BY DEF Certifies
  <2>2. CASE x = v  BY <2>2, <1>2 DEF Register
  <2>3. CASE x # v
    <3>1. x \in known /\ root[x] \in known /\ parent[x] \in known  BY <2>3, <1>2
    <3>2. r[x] = root[x] /\ d[x] = depth[x] /\ parent'[x] = parent[x]
      BY <3>1, <1>2 DEF Register
    <3>3. r[parent[x]] = root[parent[x]] /\ d[parent[x]] = depth[parent[x]]
          /\ parent'[root[x]] = parent[root[x]]
      BY <3>1, <1>2 DEF Register
    <3>. QED BY <3>1, <3>2, <3>3, <1>1 DEF Certifies
  <2>. QED BY <2>2, <2>3
<1>6. \A x \in known : ClassOf(x) = {w \in known : root[w] = root[x]}
  BY <1>1, <1>2, ClassByRoot
<1>7. \A x \in known' : ClassOf(x)' = {w \in known' : r[w] = r[x]}
  <2> HIDE DEF r, d
  <2>1. \A x \in known' : ClassIn(parent', known', x) = {w \in known' : r[w] = r[x]}
    BY <1>3, <1>4, <1>5, CertifiedClass
  <2>2. \A x : ClassOf(x)' = ClassIn(parent', known', x)  BY DEF ClassOf, ClassIn, Closed
  <2>. QED BY <2>1, <2>2
<1>8. \A x \in known : r[x] = root[x] /\ root[x] \in known /\ root[x] # v  BY <1>2
<1>9. r[v] = v  BY <1>2
<1>10. IsForest'
  <2> HIDE DEF r, d
  <2>. QED BY <1>3, <1>5 DEF IsForest
<1> HIDE DEF r, d
<1>11. ClassOf(v)' = {v}  BY <1>2, <1>7, <1>8, <1>9
<1>12. ASSUME NEW x \in known PROVE ClassOf(x)' = ClassOf(x)
  <2>1. ClassOf(x)' = {w \in known' : r[w] = r[x]}  BY <1>2, <1>7
  <2>2. \A w \in known' : r[w] = r[x] <=> w \in known /\ root[w] = root[x]
    BY <1>2, <1>8, <1>9
  <2>. QED BY <2>1, <2>2, <1>2, <1>6
<1>. QED BY <1>10, <1>11, <1>12

\* Register keeps the invariant.
LEMMA RegisterStep ==
  ASSUME IInv, NEW v \in Values, Register(v)
  PROVE  IInv'
<1> USE DEF IInv
<1>1. TypeOK'
  <2>1. known' \subseteq Values /\ known \subseteq known'  BY DEF Register, TypeOK
  <2>2. parent' \in [known' -> known']  BY DEF Register, TypeOK
  <2>3. children' \in [known' -> Seq(known')]
    <3>1. \A x \in known : children[x] \in Seq(known')  BY <2>1 DEF TypeOK
    <3>. QED BY <3>1 DEF Register
  <2>4. found' \in Seq(known') /\ stack' \in Seq(known') /\ collected' \in Seq(known')
    BY <2>1 DEF Register, TypeOK
  <2>. QED BY <2>1, <2>2, <2>3, <2>4 DEF Register, TypeOK
<1>2. IsForest'  BY RegisterFacts
<1>3. ChildrenMirrorParents'
  <2>1. SUFFICES ASSUME NEW x \in known'
                 PROVE  /\ Distinct(children'[x])
                        /\ Elements(children'[x]) = {y \in known' \ {x} : parent'[y] = x}
    BY DEF ChildrenMirrorParents, Distinct, Elements
  <2>2. known' = known \cup {v} /\ v \notin known  BY DEF Register
  <2>3. \A y \in known : parent'[y] = parent[y] /\ parent[y] \in known
    BY <2>2 DEF Register, TypeOK
  <2>4. parent'[v] = v  BY <2>2 DEF Register
  <2>5. CASE x = v
    <3>1. children'[x] = << >>  BY <2>5 DEF Register
    <3>2. Distinct(children'[x]) /\ Elements(children'[x]) = {}
      BY <3>1 DEF Distinct, Elements
    <3>. QED BY <3>2, <2>2, <2>3, <2>5
  <2>6. CASE x # v
    <3>1. x \in known /\ children'[x] = children[x]  BY <2>6, <2>2 DEF Register
    <3>2. Distinct(children[x]) /\ Elements(children[x]) = {y \in known \ {x} : parent[y] = x}
      BY <3>1 DEF ChildrenMirrorParents
    <3>. QED BY <3>1, <3>2, <2>2, <2>3, <2>4, <2>6
  <2>. QED BY <2>5, <2>6
<1>4. FindInvariant' /\ CollectInvariant' /\ AnswersAreRight'
  BY DEF Register, FindInvariant, CollectInvariant, AnswersAreRight, NoCall
<1>. QED BY <1>1, <1>2, <1>3, <1>4

\* Starting a call keeps it.
LEMMA StartStep ==
  ASSUME IInv, NEW c \in Calls(known), Start(c)
  PROVE  IInv'
<1> USE DEF IInv
<1>1. /\ c.args \in Seq(known) /\ Len(c.args) \in {1, 2} /\ c # NoCall
  BY CallShape
<1>2. c.args[1] \in known  BY <1>1
<1>3. UNCHANGED forest  BY DEF Start
<1>4. TypeOK'
  BY <1>1, <1>2, <1>3 DEF Start, StartFind, TypeOK, forest
<1>5. IsForest' /\ ChildrenMirrorParents'  BY <1>3, SameForest
<1>6. c.args[1] \in ClassOf(c.args[1])'  BY <1>2, <1>3, OneRoot, SameForest
<1>7. FindInvariant'
  BY <1>1, <1>6 DEF Start, StartFind, FindInvariant
<1>8. CollectInvariant' /\ AnswersAreRight'
  BY DEF Start, StartFind, CollectInvariant, AnswersAreRight
<1>. QED BY <1>4, <1>5, <1>7, <1>8

\* Going up to a parent keeps it.
LEMMA ChaseStep ==
  ASSUME IInv, Chase
  PROVE  IInv'
<1> USE DEF IInv
<1>1. UNCHANGED forest  BY DEF Chase, forest
<1>2. pc = "chase" /\ call \in Calls(known)  BY DEF Chase, TypeOK
<1>3. call.args \in Seq(known) /\ Len(call.args) \in {1, 2}  BY <1>2, CallShape
<1>4. TypeOK'  BY <1>1, <1>2 DEF Chase, TypeOK, forest
<1>5. IsForest' /\ ChildrenMirrorParents'  BY <1>1, SameForest
<1>6. Len(found) < Len(call.args) /\ Len(found) \in Nat  BY <1>2 DEF FindInvariant, TypeOK
<1>7. call.args[Len(found) + 1] \in known  BY <1>3, <1>6
<1>8. parent[result] \in ClassOf(call.args[Len(found) + 1])
  BY <1>2, <1>7, OneRoot DEF FindInvariant
<1>9. FindInvariant'
  BY <1>1, <1>2, <1>8, SameForest DEF Chase, FindInvariant
<1>10. CollectInvariant' /\ AnswersAreRight'
  BY <1>2 DEF Chase, CollectInvariant, AnswersAreRight
<1>. QED BY <1>4, <1>5, <1>9, <1>10

\* Reaching the root keeps it.
LEMMA ChasedStep ==
  ASSUME IInv, Chased
  PROVE  IInv'
<1> USE DEF IInv
<1>1. UNCHANGED forest  BY DEF Chased, forest
<1>2. pc = "chase" /\ result \in known  BY DEF Chased, TypeOK
<1>3. TypeOK'  BY <1>1, <1>2 DEF Chased, TypeOK, forest
<1>4. IsForest' /\ ChildrenMirrorParents'  BY <1>1, SameForest
<1>5. IsRepresentative(result)  BY <1>2 DEF Chased, IsRepresentative
<1>6. FindInvariant'
  BY <1>1, <1>2, <1>5, SameForest DEF Chased, FindInvariant
<1>7. CollectInvariant' /\ AnswersAreRight'
  BY <1>2 DEF Chased, CollectInvariant, AnswersAreRight
<1>. QED BY <1>3, <1>4, <1>6, <1>7

\* Compression moves current, which is no representative, from a parent that
\* is no representative either to the representative. Its class is the same.
LEMMA CompressFacts ==
  ASSUME IInv, Compress
  PROVE  /\ current \in known /\ result \in known /\ parent[current] \in known
         /\ parent[result] = result
         /\ current # result /\ parent[current] # current /\ parent[current] # result
         /\ IsForest'
         /\ \A v \in known : ClassOf(v)' = ClassOf(v)
         /\ \A v \in known : IsRepresentative(v)' <=> IsRepresentative(v)
<1> USE DEF IInv
<1>1. pc = "compress" /\ call \in Calls(known) /\ parent \in [known -> known]
  BY DEF Compress, TypeOK
<1>2. call.args \in Seq(known)  BY <1>1, CallShape
<1>3. Len(found) < Len(call.args) /\ Len(found) \in Nat  BY <1>1 DEF FindInvariant, TypeOK
<1> DEFINE arg == call.args[Len(found) + 1]
<1>4. arg \in known  BY <1>2, <1>3
<1>5. current \in ClassOf(arg) /\ result \in ClassOf(arg) /\ IsRepresentative(result)
  BY <1>1 DEF FindInvariant
<1>6. current \in known /\ result \in known /\ parent[current] \in known
      /\ parent[result] = result /\ parent[current] # result
  BY <1>1, <1>4, <1>5, OneRoot DEF IsRepresentative, Compress
<1>7. parent[current] # current
  <2>1. SUFFICES ASSUME parent[current] = current PROVE FALSE  OBVIOUS
  <2>2. IsRepresentative(current)  BY <2>1, <1>6 DEF IsRepresentative
  <2>3. current = result  BY <2>2, <1>4, <1>5, OneRoot
  <2>. QED BY <2>1, <2>3, <1>6
<1>8. PICK root \in [known -> known], depth \in [known -> Nat] :
        Certifies(parent, known, root, depth)
  BY DEF IsForest
<1>9. \A v \in known : ClassOf(v) = {w \in known : root[w] = root[v]}
  BY <1>1, <1>8, ClassByRoot
<1>10. root[current] = root[arg] /\ root[result] = root[arg] /\ root[result] = result
  BY <1>4, <1>5, <1>6, <1>8, <1>9 DEF Certifies
<1>11. known' = known /\ parent' = [parent EXCEPT ![current] = result]  BY DEF Compress
<1> DEFINE d == [x \in known |-> IF x = result THEN 0 ELSE depth[x] + 1]
<1>12. d \in [known -> Nat] /\ parent' \in [known -> known]  BY <1>1, <1>6, <1>11
<1>13. Certifies(parent', known, root, d)
  <2>1. SUFFICES ASSUME NEW x \in known
                 PROVE  /\ parent'[root[x]] = root[x]
                        /\ root[parent'[x]] = root[x]
                        /\ parent'[x] = x => root[x] = x
                        /\ parent'[x] # x => d[parent'[x]] < d[x]
    BY DEF Certifies
  <2>2. root[x] \in known /\ parent[x] \in known /\ parent[root[x]] = root[x]
        /\ root[parent[x]] = root[x] /\ (parent[x] = x => root[x] = x)
        /\ (parent[x] # x => depth[parent[x]] < depth[x])
        /\ depth[x] \in Nat /\ depth[parent[x]] \in Nat
    BY <1>1, <1>8 DEF Certifies
  <2>3. root[x] # current  BY <2>2, <1>7
  <2>4. parent'[root[x]] = root[x]  BY <2>2, <2>3, <1>1, <1>11
  <2>5. CASE x = current
    <3>1. parent'[x] = result  BY <2>5, <1>11, <1>1
    <3>2. d[result] = 0 /\ d[x] = depth[x] + 1  BY <2>5, <1>6
    <3>. QED BY <3>1, <3>2, <2>2, <2>4, <2>5, <1>10, <1>6
  <2>6. CASE x # current
    <3>1. parent'[x] = parent[x]  BY <2>6, <1>11, <1>1
    <3>2. parent[x] # x => d[parent[x]] < d[x]  BY <2>2, <1>6
    <3>. QED BY <3>1, <3>2, <2>2, <2>4
  <2>. QED BY <2>5, <2>6
<1>14. IsForest'
  <2> HIDE DEF d
  <2>. QED BY <1>11, <1>12, <1>13 DEF IsForest
<1>15. \A v \in known : ClassOf(v)' = ClassOf(v)
  <2>1. \A v \in known : ClassIn(parent', known, v) = {w \in known : root[w] = root[v]}
    <3> HIDE DEF d
    <3>. QED BY <1>12, <1>13, CertifiedClass
  <2>2. \A v : ClassOf(v)' = ClassIn(parent', known, v)
    BY <1>11 DEF ClassOf, ClassIn, Closed
  <2>. QED BY <2>1, <2>2, <1>9
<1>16. \A v \in known : IsRepresentative(v)' <=> IsRepresentative(v)
  BY <1>1, <1>6, <1>7, <1>11 DEF IsRepresentative
<1>17. current # result  BY <1>6
<1>. QED BY <1>6, <1>7, <1>14, <1>15, <1>16, <1>17

\* Moving one value below the root keeps it.
LEMMA CompressStep ==
  ASSUME IInv, Compress
  PROVE  IInv'
<1> USE DEF IInv
<1>1. /\ current \in known /\ result \in known /\ parent[current] \in known
      /\ parent[result] = result
      /\ current # result /\ parent[current] # current /\ parent[current] # result
      /\ IsForest'
      /\ \A v \in known : ClassOf(v)' = ClassOf(v)
      /\ \A v \in known : IsRepresentative(v)' <=> IsRepresentative(v)
  BY CompressFacts
<1>2. pc = "compress" /\ call \in Calls(known) /\ parent \in [known -> known]
      /\ children \in [known -> Seq(known)]
  BY DEF Compress, TypeOK
<1>3. call.args \in Seq(known)  BY <1>2, CallShape
<1>4. known' = known /\ parent' = [parent EXCEPT ![current] = result]
      /\ children' = [children EXCEPT ![result] = Append(@, current),
                                      ![parent[current]] = Erase(@, current)]
  BY DEF Compress, Moved
<1> DEFINE next == parent[current]
<1>5. /\ Append(children[result], current) \in Seq(known)
      /\ Distinct(Append(children[result], current))
      /\ Elements(Append(children[result], current)) = Elements(children[result]) \cup {current}
  <2>1. Distinct(children[result]) /\ current \notin Elements(children[result])
    BY <1>1 DEF ChildrenMirrorParents
  <2>2. children[result] \in Seq(known)  BY <1>1, <1>2
  <2>. QED BY <2>1, <2>2, <1>1, AppendDistinct
<1>6. /\ Erase(children[next], current) \in Seq(known)
      /\ Distinct(Erase(children[next], current))
      /\ Elements(Erase(children[next], current)) = Elements(children[next]) \ {current}
  <2>1. Distinct(children[next]) /\ current \in Elements(children[next])
    BY <1>1 DEF ChildrenMirrorParents
  <2>2. children[next] \in Seq(known)  BY <1>1, <1>2
  <2>. QED BY <2>1, <2>2, EraseFromDistinct
<1>7. /\ children'[result] = Append(children[result], current)
      /\ children'[next] = Erase(children[next], current)
      /\ \A x \in known \ {result, next} : children'[x] = children[x]
      /\ DOMAIN children' = known
  BY <1>1, <1>2, <1>4
<1>8. TypeOK'
  <2>1. parent' \in [known -> known]  BY <1>1, <1>2, <1>4
  <2>2. children' \in [known -> Seq(known)]
    <3>1. \A x \in known : children'[x] \in Seq(known)  BY <1>2, <1>5, <1>6, <1>7
    <3>2. children' = [x \in known |-> children'[x]]  BY <1>4, <1>2
    <3>. QED BY <3>1, <3>2
  <2>3. current' = next /\ UNCHANGED <<call, found, result, stack, collected, pc>>
    BY DEF Compress
  <2>. QED BY <1>1, <1>2, <1>4, <2>1, <2>2, <2>3 DEF TypeOK
<1>9. ChildrenMirrorParents'
  <2>1. SUFFICES ASSUME NEW x \in known
                 PROVE  /\ Distinct(children'[x])
                        /\ Elements(children'[x]) = {y \in known \ {x} : parent'[y] = x}
    BY <1>4 DEF ChildrenMirrorParents, Distinct, Elements
  <2>2. Distinct(children[x]) /\ Elements(children[x]) = {y \in known \ {x} : parent[y] = x}
    BY DEF ChildrenMirrorParents
  <2>3. parent'[current] = result /\ \A y \in known \ {current} : parent'[y] = parent[y]
    BY <1>1, <1>2, <1>4
  <2>4. CASE x = result  BY <2>2, <2>3, <2>4, <1>1, <1>5, <1>7
  <2>5. CASE x = next  BY <2>2, <2>3, <2>5, <1>1, <1>6, <1>7
  <2>6. CASE x # result /\ x # next  BY <2>2, <2>3, <2>6, <1>1, <1>7
  <2>. QED BY <2>4, <2>5, <2>6
<1>10. FindInvariant'
  <2>1. Len(found) < Len(call.args) /\ Len(found) \in Nat /\ found \in Seq(known)
    BY <1>2 DEF FindInvariant, TypeOK
  <2>2. \A k \in DOMAIN found : call.args[k] \in known /\ found[k] \in known
    BY <2>1, <1>3
  <2>3. call.args[Len(found) + 1] \in known  BY <2>1, <1>3
  <2>4. next \in ClassOf(call.args[Len(found) + 1])
    BY <2>3, <1>2, OneRoot DEF FindInvariant
  <2>5. call' = call /\ found' = found /\ current' = next /\ result' = result
        /\ pc' = "compress" /\ collected' = << >>
    BY <1>2 DEF Compress, FindInvariant
  <2>6. \A k \in DOMAIN found :
          found[k] \in ClassOf(call.args[k]) /\ IsRepresentative(found[k])
    BY <1>2 DEF FindInvariant
  <2>7. result \in ClassOf(call.args[Len(found) + 1]) /\ IsRepresentative(result)
    BY <1>2 DEF FindInvariant
  <2>8. \A k \in DOMAIN found :
          found'[k] \in ClassOf(call.args[k])' /\ IsRepresentative(found[k])'
    BY <1>1, <2>2, <2>5, <2>6
  <2>9. next \in ClassOf(call.args[Len(found) + 1])'  BY <1>1, <2>3, <2>4, <2>5
  <2>10. result \in ClassOf(call.args[Len(found) + 1])'  BY <1>1, <2>3, <2>5, <2>7
  <2>11. IsRepresentative(result)'  BY <1>1, <2>5, <2>7
  <2>. QED BY <2>1, <2>5, <2>8, <2>9, <2>10, <2>11 DEF FindInvariant
<1>11. CollectInvariant' /\ AnswersAreRight'
  BY <1>2 DEF Compress, CollectInvariant, AnswersAreRight
<1>. QED BY <1>1, <1>8, <1>9, <1>10, <1>11

\* The end of a Find keeps it: the root found is that of its argument.
LEMMA EndFindStep ==
  ASSUME IInv, EndFind
  PROVE  IInv'
<1> USE DEF IInv
<1>1. UNCHANGED forest  BY DEF EndFind, forest
<1>2. pc = "compress" /\ call \in Calls(known)  BY DEF EndFind, TypeOK
<1>3. call.args \in Seq(known) /\ Len(call.args) \in {1, 2} /\ call # NoCall
  BY <1>2, CallShape
<1>4. /\ Len(found) < Len(call.args) /\ Len(found) \in Nat /\ found \in Seq(known)
      /\ IsRepresentative(result) /\ result \in ClassOf(call.args[Len(found) + 1])
      /\ collected = << >> /\ result \in known
  BY <1>2 DEF FindInvariant, TypeOK
<1>5. /\ found' \in Seq(known) /\ Len(found') = Len(found) + 1
      /\ found'[Len(found) + 1] = result
      /\ \A k \in 1..Len(found) : found'[k] = found[k]
  BY <1>4 DEF EndFind
<1>6. TypeOK'
  <2>1. Len(found') <= 2  BY <1>3, <1>4, <1>5
  <2>2. Len(found') < Len(call.args) => call.args[Len(found') + 1] \in known
    BY <1>3, <1>4, <1>5
  <2>3. current' \in known /\ result' \in known /\ pc' \in {"chase", "return"}
    BY <2>2, <1>2, <1>4 DEF EndFind, StartFind, TypeOK
  <2>. QED BY <2>1, <2>3, <1>1, <1>2, <1>3, <1>5 DEF EndFind, forest, TypeOK
<1>7. IsForest' /\ ChildrenMirrorParents'  BY <1>1, SameForest
<1>8. \A v : ClassOf(v)' = ClassOf(v) /\ IsRepresentative(v)' = IsRepresentative(v)
  BY <1>1, SameForest
<1>9. FindInvariant'
  <2>1. call' = call /\ collected' = << >>  BY <1>4 DEF EndFind
  <2>2. \A k \in DOMAIN found' :
          found'[k] \in ClassOf(call.args[k]) /\ IsRepresentative(found'[k])
    <3>1. TAKE k \in DOMAIN found'
    <3>2. k \in 1..Len(found) \/ k = Len(found) + 1  BY <1>4, <1>5
    <3>3. CASE k \in 1..Len(found)
      <4>1. k \in DOMAIN found  BY <3>3, <1>4
      <4>. QED BY <3>3, <4>1, <1>2, <1>5 DEF FindInvariant
    <3>4. CASE k = Len(found) + 1  BY <3>4, <1>4, <1>5
    <3>. QED BY <3>2, <3>3, <3>4
  <2>3. CASE Len(found') < Len(call.args)
    <3>1. pc' = "chase" /\ current' = call.args[Len(found') + 1] /\ result' = current'
      BY <2>3 DEF EndFind, StartFind
    <3>2. call.args[Len(found') + 1] \in known  BY <2>3, <1>3, <1>4, <1>5
    <3>3. current' \in ClassOf(call.args[Len(found') + 1])  BY <3>1, <3>2, OneRoot
    <3>. QED BY <2>1, <2>2, <2>3, <3>1, <3>3, <1>5, <1>8 DEF FindInvariant
  <2>4. CASE ~(Len(found') < Len(call.args))
    <3>1. pc' = "return" /\ Len(found') = Len(call.args)
      BY <2>4, <1>3, <1>4, <1>5 DEF EndFind
    <3>. QED BY <2>1, <2>2, <3>1, <1>5, <1>8 DEF FindInvariant
  <2>. QED BY <2>3, <2>4
<1>10. CollectInvariant' /\ AnswersAreRight'
  BY <1>2 DEF EndFind, StartFind, CollectInvariant, AnswersAreRight
<1>. QED BY <1>6, <1>7, <1>9, <1>10

\* The answers of Find and IsEquivalent keep it.
LEMMA AnswerStep ==
  ASSUME IInv, Answer
  PROVE  IInv'
<1> USE DEF IInv
<1>1. UNCHANGED forest  BY DEF Answer, forest
<1>2. pc = "return" /\ pc' = "idle" /\ call \in Calls(known)  BY DEF Answer, TypeOK
<1>3. TypeOK'  BY <1>1, <1>2 DEF Answer, TypeOK, forest
<1>4. IsForest' /\ ChildrenMirrorParents'  BY <1>1, SameForest
<1>5. \A v : ClassOf(v)' = ClassOf(v) /\ IsRepresentative(v)' = IsRepresentative(v)
  BY <1>1, SameForest
<1>6. /\ call.args \in Seq(known)
      /\ call.op = "Find" => Len(call.args) = 1
      /\ call.op = "IsEquivalent" => Len(call.args) = 2
  BY <1>2, CallShape
<1>7. /\ found \in Seq(known) /\ Len(found) = Len(call.args)
      /\ \A k \in DOMAIN found :
           found[k] \in ClassOf(call.args[k]) /\ IsRepresentative(found[k])
  BY <1>2 DEF FindInvariant, TypeOK
<1>8. AnswersAreRight'
  <2>1. call' = call /\ found' = found /\ call.op \in {"Find", "IsEquivalent"}
    BY DEF Answer
  <2>2. CASE call.op = "Find"
    <3>1. found[1] \in ClassOf(call.args[1]) /\ IsRepresentative(found[1])
      BY <2>2, <1>6, <1>7
    <3>. QED BY <2>1, <2>2, <3>1, <1>5 DEF AnswersAreRight
  <2>3. CASE call.op = "IsEquivalent"
    <3>1. call.args[1] \in known /\ call.args[2] \in known
      BY <2>3, <1>6
    <3>2. /\ found[1] \in ClassOf(call.args[1]) /\ IsRepresentative(found[1])
          /\ found[2] \in ClassOf(call.args[2]) /\ IsRepresentative(found[2])
      BY <2>3, <1>6, <1>7
    <3>3. found[1] = found[2] <=> call.args[2] \in ClassOf(call.args[1])
      BY <3>1, <3>2, OneRoot
    <3>. QED BY <2>1, <2>3, <3>3, <1>5 DEF AnswersAreRight
  <2>. QED BY <2>1, <2>2, <2>3
<1>9. FindInvariant' /\ CollectInvariant'
  BY <1>2 DEF FindInvariant, CollectInvariant
<1>. QED BY <1>3, <1>4, <1>8, <1>9

\* Linking two representatives merges their classes and leaves the others.
LEMMA LinkFacts ==
  ASSUME IInv, Link
  PROVE  /\ call.args[1] \in known /\ call.args[2] \in known
         /\ found[1] \in known /\ found[2] \in known
         /\ found[1] \in ClassOf(call.args[1]) /\ found[2] \in ClassOf(call.args[2])
         /\ parent[found[1]] = found[1] /\ parent[found[2]] = found[2]
         /\ IsForest'
         /\ \A v \in known :
              ClassOf(v)' = IF v \in ClassOf(call.args[1]) \cup ClassOf(call.args[2])
                            THEN ClassOf(call.args[1]) \cup ClassOf(call.args[2])
                            ELSE ClassOf(v)
<1> USE DEF IInv
<1>1. pc = "return" /\ call \in Calls(known) /\ call.op = "MakeEquivalent"
      /\ parent \in [known -> known]
  BY DEF Link, TypeOK
<1> DEFINE v1 == call.args[1]  v2 == call.args[2]  r1 == found[1]  r2 == found[2]
<1>2. call.args \in Seq(known) /\ Len(call.args) = 2 /\ found \in Seq(known)
      /\ Len(found) = 2
  BY <1>1, CallShape DEF FindInvariant, TypeOK
<1>3. v1 \in known /\ v2 \in known /\ r1 \in known /\ r2 \in known  BY <1>2
<1>4. r1 \in ClassOf(v1) /\ r2 \in ClassOf(v2) /\ parent[r1] = r1 /\ parent[r2] = r2
  BY <1>1, <1>2 DEF FindInvariant, IsRepresentative
<1>5. PICK root \in [known -> known], depth \in [known -> Nat] :
        Certifies(parent, known, root, depth)
  BY DEF IsForest
<1>6. \A v \in known : ClassOf(v) = {w \in known : root[w] = root[v]}
  BY <1>1, <1>5, ClassByRoot
<1>7. root[v1] = r1 /\ root[v2] = r2 /\ root[r1] = r1 /\ root[r2] = r2
  BY <1>3, <1>4, <1>5, <1>6 DEF Certifies
<1>8. known' = known
      /\ parent' = (IF r1 = r2 THEN parent ELSE [parent EXCEPT ![r1] = r2])
  BY DEF Link
<1> HIDE DEF v1, v2, r1, r2
<1> DEFINE rt == [x \in known |-> IF root[x] = r1 THEN r2 ELSE root[x]]
           d == [x \in known |-> IF root[x] = r1 THEN depth[x] + depth[r2] + 1 ELSE depth[x]]
<1>9. rt \in [known -> known] /\ parent' \in [known -> known]  BY <1>1, <1>3, <1>8
<1>10. CASE r1 = r2
  <2>1. parent' = parent  BY <1>10, <1>8
  <2>2. IsForest'  BY <2>1, <1>8, <1>5 DEF IsForest
  <2>3. \A v : ClassOf(v)' = ClassOf(v)  BY <2>1, <1>8 DEF ClassOf, Closed
  <2>4. ClassOf(v1) = ClassOf(v2)  BY <1>3, <1>6, <1>7, <1>10
  <2>5. \A v \in known : v \in ClassOf(v1) => ClassOf(v) = ClassOf(v1)  BY <1>3, <1>6
  <2>. QED BY <2>2, <2>3, <2>4, <2>5, <1>3, <1>4 DEF v1, v2, r1, r2
<1>11. CASE r1 # r2
  <2>1. parent' = [parent EXCEPT ![r1] = r2]  BY <1>11, <1>8
  <2>2. d \in [known -> Nat]
    <3>1. depth[r2] \in Nat  BY <1>3
    <3>. QED BY <3>1
  <2>3. Certifies(parent', known, rt, d)
    <3>1. SUFFICES ASSUME NEW x \in known
                   PROVE  /\ parent'[rt[x]] = rt[x]
                          /\ rt[parent'[x]] = rt[x]
                          /\ parent'[x] = x => rt[x] = x
                          /\ parent'[x] # x => d[parent'[x]] < d[x]
      BY DEF Certifies
    <3>2. root[x] \in known /\ parent[x] \in known /\ parent[root[x]] = root[x]
          /\ root[parent[x]] = root[x] /\ (parent[x] = x => root[x] = x)
          /\ (parent[x] # x => depth[parent[x]] < depth[x])
          /\ depth[x] \in Nat /\ depth[parent[x]] \in Nat /\ depth[r2] \in Nat
      BY <1>1, <1>3, <1>5 DEF Certifies
    <3>3. rt[x] \in known /\ rt[x] # r1  BY <1>3, <1>11, <3>2
    <3>4. parent'[rt[x]] = rt[x]
      <4>1. parent[rt[x]] = rt[x]  BY <3>2, <1>4 DEF r2
      <4>. QED BY <4>1, <3>3, <2>1, <1>1
    <3>5. CASE x = r1
      <4>1. parent'[x] = r2 /\ root[x] = r1  BY <3>5, <2>1, <1>1, <1>7
      <4>2. rt[x] = r2 /\ rt[r2] = r2  BY <4>1, <1>3, <1>7, <1>11
      <4>3. d[x] = depth[x] + depth[r2] + 1 /\ d[r2] = depth[r2]
        BY <4>1, <1>3, <1>7, <1>11
      <4>. QED BY <4>1, <4>2, <4>3, <3>2, <3>4, <3>5, <1>11
    <3>6. CASE x # r1
      <4>1. parent'[x] = parent[x]  BY <3>6, <2>1, <1>1
      <4>2. rt[parent[x]] = rt[x]  BY <3>2
      <4>3. parent[x] # x => d[parent[x]] < d[x]  BY <3>2
      <4>4. parent[x] = x => rt[x] = x  BY <3>2, <3>6
      <4>. QED BY <4>1, <4>2, <4>3, <4>4, <3>4
    <3>. QED BY <3>5, <3>6
  <2>4. IsForest'
    <3> HIDE DEF d, rt
    <3>. QED BY <1>8, <1>9, <2>2, <2>3 DEF IsForest
  <2>5. \A v \in known : ClassOf(v)' = {w \in known : rt[w] = rt[v]}
    <3> HIDE DEF d, rt
    <3>1. \A v \in known : ClassIn(parent', known, v) = {w \in known : rt[w] = rt[v]}
      BY <1>9, <2>2, <2>3, CertifiedClass
    <3>2. \A v : ClassOf(v)' = ClassIn(parent', known, v)
      BY <1>8 DEF ClassOf, ClassIn, Closed
    <3>. QED BY <3>1, <3>2
  <2>6. ClassOf(v1) = {w \in known : root[w] = r1} /\ ClassOf(v2) = {w \in known : root[w] = r2}
    BY <1>3, <1>6, <1>7
  <2>7. ASSUME NEW v \in known
        PROVE  ClassOf(v)' = IF v \in ClassOf(v1) \cup ClassOf(v2)
                             THEN ClassOf(v1) \cup ClassOf(v2) ELSE ClassOf(v)
    <3>1. ClassOf(v) = {w \in known : root[w] = root[v]}  BY <1>6
    <3>2. CASE root[v] \in {r1, r2}
      <4>1. rt[v] = r2  BY <3>2
      <4>2. \A w \in known : rt[w] = r2 <=> root[w] \in {r1, r2}  OBVIOUS
      <4>. QED BY <4>1, <4>2, <3>2, <2>5, <2>6
    <3>3. CASE root[v] \notin {r1, r2}
      <4>1. rt[v] = root[v]  BY <3>3
      <4>2. \A w \in known : rt[w] = root[v] <=> root[w] = root[v]  BY <3>3
      <4>. QED BY <4>1, <4>2, <3>1, <3>3, <2>5, <2>6
    <3>. QED BY <3>2, <3>3
  <2>. QED BY <2>4, <2>7, <1>3, <1>4 DEF v1, v2, r1, r2
<1>. QED BY <1>10, <1>11

\* Linking two roots keeps it.
LEMMA LinkStep ==
  ASSUME IInv, Link
  PROVE  IInv'
<1> USE DEF IInv
<1> DEFINE v1 == call.args[1]  v2 == call.args[2]  r1 == found[1]  r2 == found[2]
<1>1. /\ v1 \in known /\ v2 \in known /\ r1 \in known /\ r2 \in known
      /\ parent[r1] = r1 /\ IsForest'
      /\ \A v \in known : ClassOf(v)' = IF v \in ClassOf(v1) \cup ClassOf(v2)
                                        THEN ClassOf(v1) \cup ClassOf(v2) ELSE ClassOf(v)
  BY LinkFacts
<1>2. parent \in [known -> known] /\ children \in [known -> Seq(known)]  BY DEF TypeOK
<1>3. /\ known' = known
      /\ IF r1 = r2 THEN parent' = parent /\ children' = children
         ELSE /\ parent' = [parent EXCEPT ![r1] = r2]
              /\ children' = [children EXCEPT ![r2] = Append(@, r1)]
      /\ pc = "return" /\ pc' = "idle" /\ call.op = "MakeEquivalent"
      /\ UNCHANGED <<call, found, current, result, stack, collected>>
  BY DEF Link
<1>4. ASSUME r1 = r2 PROVE TypeOK' /\ ChildrenMirrorParents'
  <2>1. UNCHANGED forest  BY <1>3, <1>4 DEF forest
  <2>2. TypeOK'  BY <1>3, <2>1 DEF TypeOK, forest
  <2>3. ChildrenMirrorParents'  BY <2>1, SameForest
  <2>. QED BY <2>2, <2>3
<1>5. ASSUME r1 # r2 PROVE TypeOK' /\ ChildrenMirrorParents'
  <2>1. parent' = [parent EXCEPT ![r1] = r2] /\ children' = [children EXCEPT ![r2] = Append(@, r1)]
    BY <1>3, <1>5
  <2>2. /\ Append(children[r2], r1) \in Seq(known)
        /\ Distinct(Append(children[r2], r1))
        /\ Elements(Append(children[r2], r1)) = Elements(children[r2]) \cup {r1}
    <3>1. Distinct(children[r2]) /\ r1 \notin Elements(children[r2])
      BY <1>1, <1>5 DEF ChildrenMirrorParents
    <3>2. children[r2] \in Seq(known)  BY <1>1, <1>2
    <3>. QED BY <3>1, <3>2, <1>1, AppendDistinct
  <2>3. children'[r2] = Append(children[r2], r1)
        /\ \A x \in known \ {r2} : children'[x] = children[x]
    BY <2>1, <1>1, <1>2
  <2>4. TypeOK'
    <3>1. parent' \in [known -> known]  BY <2>1, <1>1, <1>2
    <3>2. children' \in [known -> Seq(known)]
      <4>1. \A x \in known : children'[x] \in Seq(known)  BY <1>2, <2>2, <2>3
      <4>2. children' = [x \in known |-> children'[x]]  BY <2>1, <1>2
      <4>. QED BY <4>1, <4>2
    <3>. QED BY <3>1, <3>2, <1>3 DEF TypeOK
  <2>5. ChildrenMirrorParents'
    <3>1. SUFFICES ASSUME NEW x \in known
                   PROVE  /\ Distinct(children'[x])
                          /\ Elements(children'[x]) = {y \in known \ {x} : parent'[y] = x}
      BY <1>3 DEF ChildrenMirrorParents, Distinct, Elements
    <3>2. Distinct(children[x]) /\ Elements(children[x]) = {y \in known \ {x} : parent[y] = x}
      BY DEF ChildrenMirrorParents
    <3>3. parent'[r1] = r2 /\ \A y \in known \ {r1} : parent'[y] = parent[y]
      BY <2>1, <1>1, <1>2
    <3>4. CASE x = r2  BY <3>2, <3>3, <3>4, <2>2, <2>3, <1>1, <1>5
    <3>5. CASE x # r2  BY <3>2, <3>3, <3>5, <2>3, <1>1, <1>5
    <3>. QED BY <3>4, <3>5
  <2>. QED BY <2>4, <2>5
<1>6. v2 \in ClassOf(v1)'
  <2>1. v1 \in ClassOf(v1) /\ v2 \in ClassOf(v2)  BY <1>1, OneRoot
  <2>2. v2 \in ClassOf(v1) \cup ClassOf(v2)  BY <2>1
  <2>3. call' = call  BY <1>3
  <2>. QED BY <2>1, <2>2, <2>3, <1>1
<1>7. AnswersAreRight'
  BY <1>3, <1>6 DEF AnswersAreRight
<1>8. FindInvariant' /\ CollectInvariant'
  BY <1>3 DEF FindInvariant, CollectInvariant
<1>. QED BY <1>1, <1>4, <1>5, <1>7, <1>8

\* Starting the traversal at the root keeps it.
LEMMA StartCollectingStep ==
  ASSUME IInv, StartCollecting
  PROVE  IInv'
<1> USE DEF IInv
<1>1. UNCHANGED forest  BY DEF StartCollecting, forest
<1>2. /\ pc = "return" /\ pc' = "collect" /\ call.op = "GetEquivalenceClass"
      /\ call \in Calls(known) /\ found \in Seq(known) /\ collected = << >>
      /\ parent \in [known -> known]
      /\ UNCHANGED <<call, found, current, result, collected>> /\ stack' = found
  BY DEF StartCollecting, TypeOK, FindInvariant
<1>3. call.args \in Seq(known) /\ Len(call.args) = 1  BY <1>2, CallShape
<1>4. /\ Len(found) = 1 /\ found[1] \in ClassOf(call.args[1]) /\ IsRepresentative(found[1])
  BY <1>2, <1>3 DEF FindInvariant
<1>5. TypeOK'  BY <1>1, <1>2 DEF TypeOK, forest
<1>6. IsForest' /\ ChildrenMirrorParents'  BY <1>1, SameForest
<1>7. FindInvariant'
  BY <1>1, <1>2, SameForest DEF FindInvariant
<1>8. CollectInvariant'
  <2>1. call.args[1] \in known  BY <1>3
  <2>2. collected' \o stack' = found
    <3>1. << >> \o found = found  BY <1>2
    <3>. QED BY <3>1, <1>2
  <2>3. Distinct(found) /\ Elements(found) = {found[1]}
    <3>1. DOMAIN found = {1}  BY <1>2, <1>4
    <3>. QED BY <3>1 DEF Distinct, Elements
  <2>4. Elements(collected) = {}  BY <1>2 DEF Elements
  <2>5. \A w \in ClassOf(call.args[1]) \ {found[1]} :
          w \in Elements(found) <=> parent[w] \in Elements(collected)
    BY <2>3, <2>4
  <2>6. ClassOf(call.args[1])' = ClassOf(call.args[1])  BY <1>1, <1>2, SameForest
  <2>7. parent' = parent  BY <1>1 DEF forest
  <2>8. Elements(collected') = Elements(collected)  BY <1>2
  <2>. QED BY <1>2, <1>4, <2>2, <2>3, <2>5, <2>6, <2>7, <2>8 DEF CollectInvariant
<1>9. AnswersAreRight'  BY <1>2 DEF AnswersAreRight
<1>. QED BY <1>5, <1>6, <1>7, <1>8, <1>9

\* The elements of a concatenation, and when it has no duplicates.
LEMMA ConcatElements ==
  ASSUME NEW S, NEW s \in Seq(S), NEW t \in Seq(S)
  PROVE  /\ s \o t \in Seq(S)
         /\ Elements(s \o t) = Elements(s) \cup Elements(t)
         /\ Distinct(s) /\ Distinct(t) /\ Elements(s) \cap Elements(t) = {} => Distinct(s \o t)
         /\ Distinct(s \o t) => Distinct(s) /\ Distinct(t) /\ Elements(s) \cap Elements(t) = {}
<1> DEFINE u == s \o t
           m == Len(s)
           n == Len(t)
<1>1. /\ u \in Seq(S) /\ DOMAIN u = 1..(m + n) /\ m \in Nat /\ n \in Nat
      /\ \A i \in 1..m : u[i] = s[i]
      /\ \A i \in (m + 1)..(m + n) : u[i] = t[i - m]
      /\ DOMAIN s = 1..m /\ DOMAIN t = 1..n
  OBVIOUS
<1> HIDE DEF u, m, n
<1>2. \A j \in 1..n : j + m \in 1..(m + n) /\ u[j + m] = t[j]
  <2>1. TAKE j \in 1..n
  <2>2. j + m \in (m + 1)..(m + n) /\ (j + m) - m = j  BY <1>1
  <2>. QED BY <2>2, <1>1
<1>3. Elements(u) = Elements(s) \cup Elements(t)
  <2>1. ASSUME NEW x \in Elements(u) PROVE x \in Elements(s) \cup Elements(t)
    <3>1. PICK i \in 1..(m + n) : x = u[i]  BY <1>1 DEF Elements
    <3>2. CASE i \in 1..m  BY <3>1, <3>2, <1>1 DEF Elements
    <3>3. CASE i \notin 1..m
      <4>1. i \in (m + 1)..(m + n) /\ i - m \in 1..n  BY <3>3, <1>1
      <4>. QED BY <4>1, <3>1, <1>1 DEF Elements
    <3>. QED BY <3>2, <3>3
  <2>2. ASSUME NEW x \in Elements(s) PROVE x \in Elements(u)
    <3>1. PICK i \in 1..m : x = s[i]  BY <1>1 DEF Elements
    <3>2. i \in 1..(m + n)  BY <1>1
    <3>. QED BY <3>1, <3>2, <1>1 DEF Elements
  <2>3. ASSUME NEW x \in Elements(t) PROVE x \in Elements(u)
    <3>1. PICK j \in 1..n : x = t[j]  BY <1>1 DEF Elements
    <3>. QED BY <3>1, <1>1, <1>2 DEF Elements
  <2>. QED BY <2>1, <2>2, <2>3
<1>4. ASSUME Distinct(s), Distinct(t), Elements(s) \cap Elements(t) = {}
      PROVE  Distinct(u)
  <2>1. SUFFICES ASSUME NEW i \in 1..(m + n), NEW j \in 1..(m + n), u[i] = u[j]
                 PROVE  i = j
    BY <1>1 DEF Distinct
  <2>2. \A k \in 1..(m + n) :
          (k \in 1..m /\ u[k] = s[k] /\ u[k] \in Elements(s))
          \/ (k - m \in 1..n /\ u[k] = t[k - m] /\ u[k] \in Elements(t))
    <3>1. TAKE k \in 1..(m + n)
    <3>2. CASE k \in 1..m  BY <3>2, <1>1 DEF Elements
    <3>3. CASE k \notin 1..m
      <4>1. k \in (m + 1)..(m + n) /\ k - m \in 1..n  BY <3>3, <1>1
      <4>. QED BY <4>1, <1>1 DEF Elements
    <3>. QED BY <3>2, <3>3
  <2>3. CASE i \in 1..m /\ j \in 1..m  BY <2>1, <2>3, <1>1, <1>4 DEF Distinct
  <2>4. CASE i \notin 1..m /\ j \notin 1..m
    <3>1. i - m = j - m  BY <2>1, <2>2, <2>4, <1>1, <1>4 DEF Distinct
    <3>. QED BY <3>1, <1>1
  <2>5. CASE (i \in 1..m) # (j \in 1..m)  BY <2>1, <2>2, <2>5, <1>1, <1>4
  <2>. QED BY <2>3, <2>4, <2>5
<1>5. ASSUME Distinct(u)
      PROVE  Distinct(s) /\ Distinct(t) /\ Elements(s) \cap Elements(t) = {}
  <2>1. Distinct(s)
    <3>1. 1..m \subseteq 1..(m + n)  BY <1>1
    <3>. QED BY <3>1, <1>1, <1>5 DEF Distinct
  <2>2. Distinct(t)
    <3>1. SUFFICES ASSUME NEW i \in 1..n, NEW j \in 1..n, t[i] = t[j] PROVE i = j
      BY <1>1 DEF Distinct
    <3>2. i + m = j + m  BY <3>1, <1>1, <1>2, <1>5 DEF Distinct
    <3>. QED BY <3>2, <1>1
  <2>3. ASSUME NEW x \in Elements(s), x \in Elements(t) PROVE FALSE
    <3>1. PICK i \in 1..m : x = s[i]  BY <1>1 DEF Elements
    <3>2. PICK j \in 1..n : x = t[j]  BY <1>1, <2>3 DEF Elements
    <3>3. u[i] = x /\ u[j + m] = x /\ j + m \in 1..(m + n)
      BY <3>1, <3>2, <1>1, <1>2
    <3>5. i \in 1..(m + n)  BY <1>1
    <3>4. i = j + m  BY <3>3, <3>5, <1>1, <1>5 DEF Distinct
    <3>. QED BY <3>4, <1>1
  <2>. QED BY <2>1, <2>2, <2>3
<1>. QED BY <1>1, <1>3, <1>4, <1>5 DEF u

\* What the top of a stack and popping it amount to.
LEMMA SplitLast ==
  ASSUME NEW S, NEW s \in Seq(S), s # << >>
  PROVE  /\ s[Len(s)] \in S /\ <<s[Len(s)]>> \in Seq(S)
         /\ SubSeq(s, 1, Len(s) - 1) \in Seq(S)
         /\ SubSeq(s, 1, Len(s) - 1) \o <<s[Len(s)]>> = s
<1> DEFINE n == Len(s)
           t == SubSeq(s, 1, n - 1)
           u == t \o <<s[n]>>
<1>1. n \in Nat \ {0} /\ DOMAIN s = 1..n  OBVIOUS
<1>2. s[n] \in S /\ <<s[n]>> \in Seq(S) /\ Len(<<s[n]>>) = 1 /\ <<s[n]>>[1] = s[n]
  BY <1>1
<1>3. t \in Seq(S) /\ Len(t) = n - 1 /\ \A k \in 1..(n - 1) : t[k] = s[k]
  BY <1>1
<1> HIDE DEF t, n
<1>4. u \in Seq(S) /\ Len(u) = n
  BY <1>1, <1>2, <1>3
<1>5. \A k \in 1..n : u[k] = s[k]
  BY <1>1, <1>2, <1>3
<1>6. u = s
  <2>1. Len(s) = n  BY DEF n
  <2> HIDE DEF u
  <2>. QED BY <2>1, <1>4, <1>5
<1>. QED BY <1>2, <1>3, <1>6 DEF n, t, u

\* Visiting one value keeps it.
LEMMA VisitStep ==
  ASSUME IInv, Visit
  PROVE  IInv'
<1> USE DEF IInv
<1> DEFINE item == stack[Len(stack)]
           rest == SubSeq(stack, 1, Len(stack) - 1)
           class == ClassOf(call.args[1])
<1>1. UNCHANGED forest  BY DEF Visit, forest
<1>2. /\ pc = "collect" /\ pc' = "collect" /\ call \in Calls(known)
      /\ found \in Seq(known) /\ collected \in Seq(known) /\ stack \in Seq(known)
      /\ parent \in [known -> known] /\ children \in [known -> Seq(known)]
      /\ UNCHANGED <<call, found, current, result>>
      /\ collected' = Append(collected, item) /\ stack' = rest \o children[item]
      /\ stack # << >>
  BY DEF Visit, TypeOK
<1>3. call.op = "GetEquivalenceClass"  BY <1>2 DEF CollectInvariant
<1>4. call.args \in Seq(known) /\ Len(call.args) = 1  BY <1>2, <1>3, CallShape
<1>5. call.args[1] \in known  BY <1>4
<1>6. /\ Distinct(collected \o stack) /\ Elements(collected \o stack) \subseteq class
      /\ found[1] \in Elements(collected \o stack)
      /\ \A w \in class \ {found[1]} :
           w \in Elements(collected \o stack) <=> parent[w] \in Elements(collected)
  BY <1>2 DEF CollectInvariant
<1>7. found[1] \in class /\ IsRepresentative(found[1])
  <2>1. Len(found) = 1  BY <1>2, <1>4 DEF FindInvariant
  <2>. QED BY <2>1, <1>2 DEF FindInvariant
<1>8. /\ item \in known /\ rest \in Seq(known) /\ <<item>> \in Seq(known)
      /\ rest \o <<item>> = stack
  <2>1. stack \in Seq(known) /\ stack # << >>  BY <1>2
  <2>. QED BY <2>1, SplitLast
<1>9. children[item] \in Seq(known)  BY <1>2, <1>8
<1> HIDE DEF item, rest
<1>10. Elements(<<item>>) = {item}
  <2>1. DOMAIN <<item>> = {1}  OBVIOUS
  <2>. QED BY <2>1 DEF Elements
<1>11. /\ Elements(stack) = Elements(rest) \cup {item}
       /\ Elements(collected \o stack) = Elements(collected) \cup Elements(stack)
       /\ Distinct(collected) /\ Distinct(rest) /\ item \notin Elements(rest)
       /\ Elements(collected) \cap Elements(stack) = {}
  <2>1. /\ Elements(collected \o stack) = Elements(collected) \cup Elements(stack)
        /\ Distinct(collected) /\ Distinct(stack)
        /\ Elements(collected) \cap Elements(stack) = {}
    BY <1>2, <1>6, ConcatElements
  <2>2. Distinct(rest \o <<item>>)  BY <2>1, <1>8
  <2>3. /\ Elements(rest \o <<item>>) = Elements(rest) \cup Elements(<<item>>)
        /\ Distinct(rest) /\ Elements(rest) \cap Elements(<<item>>) = {}
    <3>1. rest \in Seq(known) /\ <<item>> \in Seq(known)  BY <1>8
    <3> DEFINE top == <<item>>
    <3>2. top \in Seq(known)  BY <3>1
    <3>3. Distinct(rest \o top)  BY <2>2
    <3> HIDE DEF top
    <3>4. /\ Elements(rest \o top) = Elements(rest) \cup Elements(top)
          /\ Distinct(rest) /\ Elements(rest) \cap Elements(top) = {}
      BY <3>1, <3>2, <3>3, ConcatElements
    <3>. QED BY <3>4 DEF top
  <2>. QED BY <2>1, <2>3, <1>8, <1>10
<1>12. Distinct(children[item]) /\ Elements(children[item]) = {x \in known \ {item} : parent[x] = item}
  BY <1>8 DEF ChildrenMirrorParents
<1>13. Elements(children[item]) = {x \in class \ {found[1]} : parent[x] = item}
  <2>1. item \in class  BY <1>6, <1>11
  <2>2. ASSUME NEW x \in known \ {item}, parent[x] = item
        PROVE  x \in class /\ x # found[1]
    <3>1. PICK root \in [known -> known], depth \in [known -> Nat] :
            Certifies(parent, known, root, depth)
      BY DEF IsForest
    <3>2. class = {w \in known : root[w] = root[call.args[1]]}
      BY <3>1, <1>2, <1>5, ClassByRoot
    <3>3. root[x] = root[item]  BY <2>2, <3>1 DEF Certifies
    <3>4. x # found[1]  BY <2>2, <1>7 DEF IsRepresentative
    <3>. QED BY <3>2, <3>3, <3>4, <2>1
  <2>3. ASSUME NEW x \in class, x # found[1], parent[x] = item
        PROVE  x \in known \ {item}
    <3>1. x \in known  BY <1>5, OneRoot
    <3>2. x # item
      <4>1. SUFFICES ASSUME x = item PROVE FALSE  OBVIOUS
      <4>2. IsRepresentative(x)  BY <4>1, <2>3, <3>1 DEF IsRepresentative
      <4>3. x = found[1]  BY <4>2, <2>3, <1>5, <1>7, OneRoot
      <4>. QED BY <4>3, <2>3
    <3>. QED BY <3>1, <3>2
  <2>. QED BY <2>2, <2>3, <1>12
<1>14. Elements(children[item]) \cap (Elements(collected) \cup Elements(stack)) = {}
  <2>1. item \notin Elements(collected)  BY <1>11
  <2>. QED BY <2>1, <1>6, <1>11, <1>13
<1>15. /\ Elements(collected') = Elements(collected) \cup {item}
       /\ Elements(stack') = Elements(rest) \cup Elements(children[item])
       /\ Distinct(collected') /\ Distinct(stack')
       /\ collected' \in Seq(known) /\ stack' \in Seq(known)
  <2>1. Elements(collected') = Elements(collected) \cup {item} /\ Distinct(collected')
        /\ collected' \in Seq(known)
    BY <1>2, <1>8, <1>11, AppendDistinct
  <2>2. Elements(rest) \cap Elements(children[item]) = {}  BY <1>11, <1>14
  <2>3. Elements(stack') = Elements(rest) \cup Elements(children[item]) /\ Distinct(stack')
        /\ stack' \in Seq(known)
    <3>1. Distinct(rest) /\ Distinct(children[item])  BY <1>11, <1>12
    <3>. QED BY <2>2, <3>1, <1>2, <1>8, <1>9, ConcatElements
  <2>. QED BY <2>1, <2>3
<1>16. /\ Elements(collected' \o stack') = Elements(collected') \cup Elements(stack')
       /\ Distinct(collected' \o stack')
  <2>1. Elements(collected') \cap Elements(stack') = {}  BY <1>11, <1>14, <1>15
  <2>. QED BY <2>1, <1>15, ConcatElements
<1>17. Elements(collected' \o stack') = Elements(collected \o stack) \cup Elements(children[item])
  BY <1>11, <1>15, <1>16
<1>18. TypeOK'  BY <1>1, <1>2, <1>15 DEF TypeOK, forest
<1>19. IsForest' /\ ChildrenMirrorParents'  BY <1>1, SameForest
<1>20. FindInvariant'
  BY <1>1, <1>2, SameForest DEF FindInvariant
<1>21. CollectInvariant'
  <2>1. class' = class /\ parent' = parent /\ found' = found /\ call' = call
    BY <1>1, <1>2, SameForest DEF forest
  <2>2. Elements(collected' \o stack') \subseteq class  BY <1>6, <1>13, <1>17
  <2>3. found[1] \in Elements(collected' \o stack')  BY <1>6, <1>17
  <2>4. \A w \in class \ {found[1]} :
          w \in Elements(collected' \o stack') <=> parent[w] \in Elements(collected')
    BY <1>6, <1>13, <1>15, <1>17
  <2>. QED BY <2>1, <2>2, <2>3, <2>4, <1>3, <1>16 DEF CollectInvariant
<1>22. AnswersAreRight'  BY <1>2 DEF AnswersAreRight
<1>. QED BY <1>18, <1>19, <1>20, <1>21, <1>22

\* With nothing left on the stack the whole class has been visited: of the
\* values that have not, the least deep would have a visited parent.
LEMMA CollectedStep ==
  ASSUME IInv, pc = "collect", stack = << >>
  PROVE  Distinct(collected) /\ Elements(collected) = ClassOf(call.args[1])
<1> USE DEF IInv
<1> DEFINE class == ClassOf(call.args[1])
<1>1. /\ call \in Calls(known) /\ collected \in Seq(known) /\ found \in Seq(known)
      /\ call.op = "GetEquivalenceClass" /\ parent \in [known -> known]
  BY DEF TypeOK, CollectInvariant
<1>2. call.args \in Seq(known) /\ Len(call.args) = 1  BY <1>1, CallShape
<1>3. call.args[1] \in known  BY <1>2
<1>4. collected \o stack = collected  BY <1>1
<1>5. /\ Distinct(collected) /\ Elements(collected) \subseteq class
      /\ found[1] \in Elements(collected)
      /\ \A w \in class \ {found[1]} :
           w \in Elements(collected) <=> parent[w] \in Elements(collected)
  BY <1>4 DEF CollectInvariant
<1>6. found[1] \in class /\ IsRepresentative(found[1])
  <2>1. Len(found) = 1  BY <1>1, <1>2 DEF FindInvariant
  <2>. QED BY <2>1, <1>1 DEF FindInvariant
<1>7. PICK root \in [known -> known], depth \in [known -> Nat] :
        Certifies(parent, known, root, depth)
  BY DEF IsForest
<1>8. class \subseteq Elements(collected)
  <2> DEFINE Missed == {n \in Nat : \E w \in class \ Elements(collected) : depth[w] = n}
  <2>1. SUFFICES ASSUME NEW w \in class \ Elements(collected) PROVE FALSE  OBVIOUS
  <2>2. w \in known /\ depth[w] \in Nat  BY <1>3, OneRoot
  <2>3. Missed # {}
    <3>1. depth[w] \in Missed  BY <2>1, <2>2
    <3>. QED BY <3>1
  <2>4. Missed \subseteq Nat  OBVIOUS
  <2>5. PICK n \in Missed : \A m \in Missed : n <= m
    <3>. HIDE DEF Missed
    <3>. QED BY <2>3, <2>4, LeastNatural
  <2>6. PICK x \in class \ Elements(collected) : depth[x] = n  OBVIOUS
  <2>7. x \in known /\ x # found[1] /\ parent[x] \in class  BY <2>6, <1>3, <1>5, OneRoot
  <2>8. parent[x] # x
    <3>1. SUFFICES ASSUME parent[x] = x PROVE FALSE  OBVIOUS
    <3>2. IsRepresentative(x)  BY <3>1, <2>7 DEF IsRepresentative
    <3>. QED BY <3>2, <2>6, <2>7, <1>3, <1>6, OneRoot
  <2>9. depth[parent[x]] < depth[x] /\ depth[parent[x]] \in Nat /\ depth[x] \in Nat
    BY <2>7, <2>8, <1>1, <1>7 DEF Certifies
  <2>10. parent[x] \notin Elements(collected)  BY <2>6, <2>7, <1>5
  <2>11. depth[parent[x]] \in Missed  BY <2>7, <2>9, <2>10
  <2>12. n <= depth[parent[x]]
    <3>. HIDE DEF Missed
    <3>. QED BY <2>5, <2>11
  <2>. QED BY <2>6, <2>9, <2>12
<1>. QED BY <1>5, <1>8

-----------------------------------------------------------------------------
\* The end of the traversal keeps it.
LEMMA CollectedStepIInv ==
  ASSUME IInv, Collected
  PROVE  IInv'
<1> USE DEF IInv
<1>1. UNCHANGED forest  BY DEF Collected, forest
<1>2. /\ pc = "collect" /\ pc' = "idle" /\ stack = << >>
      /\ UNCHANGED <<call, found, current, result, stack, collected>>
  BY DEF Collected
<1>3. TypeOK'  BY <1>1, <1>2 DEF TypeOK, forest
<1>4. IsForest' /\ ChildrenMirrorParents'  BY <1>1, SameForest
<1>5. FindInvariant' /\ CollectInvariant'  BY <1>2 DEF FindInvariant, CollectInvariant
<1>6. Distinct(collected) /\ Elements(collected) = ClassOf(call.args[1])
      /\ call.op = "GetEquivalenceClass"
  BY <1>2, CollectedStep DEF CollectInvariant
<1>7. ClassOf(call.args[1])' = ClassOf(call.args[1])  BY <1>1, <1>2, SameForest
<1>8. Distinct(collected') /\ Elements(collected') = ClassOf(call.args[1])'
  BY <1>2, <1>6, <1>7
<1>9. AnswersAreRight'
  BY <1>2, <1>6, <1>8 DEF AnswersAreRight
<1>. QED BY <1>3, <1>4, <1>5, <1>9

\* Stuttering keeps it.
LEMMA StutterStep ==
  ASSUME IInv, UNCHANGED vars
  PROVE  IInv'
<1> USE DEF IInv
<1>1. UNCHANGED forest
      /\ UNCHANGED <<call, found, current, result, stack, collected, pc>>
  BY DEF vars, forest
<1>2. TypeOK'  BY <1>1 DEF TypeOK, forest
<1>3. IsForest' /\ ChildrenMirrorParents'  BY <1>1, SameForest
<1>4. \A v : ClassOf(v)' = ClassOf(v) /\ IsRepresentative(v)' = IsRepresentative(v)
  BY <1>1, SameForest
<1>5. FindInvariant'  BY <1>1, <1>4 DEF FindInvariant
<1>6. parent' = parent  BY <1>1 DEF forest
<1>7. CollectInvariant'  BY <1>1, <1>4, <1>6 DEF CollectInvariant
<1>8. AnswersAreRight'  BY <1>1, <1>4 DEF AnswersAreRight
<1>. QED BY <1>2, <1>3, <1>5, <1>7, <1>8

\* Every step keeps the invariant.
LEMMA NextStep ==
  ASSUME IInv, [Next]_vars
  PROVE  IInv'
BY RegisterStep, StartStep, ChaseStep, ChasedStep, CompressStep, EndFindStep, AnswerStep,
   LinkStep, StartCollectingStep, VisitStep, CollectedStepIInv, StutterStep
   DEF Next, Step

\* The inductive invariant, on which the rest depends.
THEOREM EquivalenceInvariant == Spec => []IInv
<1>1. Init => IInv  BY InitIInv
<1>2. IInv /\ [Next]_vars => IInv'  BY NextStep
<1>. QED BY <1>1, <1>2, PTL DEF Spec

\* The variables have their types, whatever the calls.
THEOREM EquivalenceTypeCorrect == Spec => []TypeOK
<1>1. IInv => TypeOK  BY DEF IInv
<1>. QED BY <1>1, EquivalenceInvariant, PTL

\* Parents and children record the same forest between any two iterations of
\* Find: its assertion on the child to erase never fails.
THEOREM ForestsAgree == Spec => []ChildrenMirrorParents
<1>1. IInv => ChildrenMirrorParents  BY DEF IInv
<1>. QED BY <1>1, EquivalenceInvariant, PTL

\* A class has exactly one representative, also in the middle of Find.
THEOREM ClassesHaveOneRepresentative == Spec => []OneRepresentative
<1>1. IInv => OneRepresentative
  <2>1. SUFFICES ASSUME IInv, NEW v \in known
                 PROVE  \E r \in ClassOf(v) :
                          /\ IsRepresentative(r)
                          /\ \A x \in ClassOf(v) : IsRepresentative(x) => x = r
    BY DEF OneRepresentative
  <2>2. PICK r \in ClassOf(v) : IsRepresentative(r)  BY <2>1, OneRoot DEF IInv
  <2>3. \A x \in ClassOf(v) : IsRepresentative(x) => x = r
    BY <2>1, <2>2, OneRoot DEF IInv
  <2>. QED BY <2>2, <2>3
<1>. QED BY <1>1, EquivalenceInvariant, PTL

\* Every call answers as the equivalence classes say.
THEOREM CallsAnswerRight == Spec => []AnswersAreRight
<1>1. IInv => AnswersAreRight  BY DEF IInv
<1>. QED BY <1>1, EquivalenceInvariant, PTL

\* A retired representative is never one again, and only MakeEquivalent
\* retires one.
THEOREM RepresentativesRetire == Spec => RepresentativesOnlyRetire
<1> DEFINE Goal ==
      \A v \in known :
        /\ IsRepresentative(v)' => IsRepresentative(v)
        /\ IsRepresentative(v) /\ ~IsRepresentative(v)' =>
             call.op = "MakeEquivalent" /\ pc' = "idle"
<1>1. ASSUME IInv, [Next]_vars PROVE Goal \/ UNCHANGED vars
  <2>1. CASE Compress  BY <2>1, <1>1, CompressFacts
  <2>2. CASE Link
    <3>1. parent[found[1]] = found[1] /\ found[1] \in known  BY <2>2, <1>1, LinkFacts
    <3>2. call.op = "MakeEquivalent" /\ pc' = "idle" /\ known' = known
          /\ (parent' = parent \/ parent' = [parent EXCEPT ![found[1]] = found[2]])
      BY <2>2 DEF Link
    <3>3. parent \in [known -> known]  BY <1>1 DEF IInv, TypeOK
    <3>. QED BY <3>1, <3>2, <3>3 DEF IsRepresentative
  <2>3. CASE \E v \in Values : Register(v)
    <3>1. PICK v \in Values : Register(v)  BY <2>3
    <3>2. \A x \in known : x \in known' /\ parent'[x] = parent[x]  BY <3>1 DEF Register
    <3>. QED BY <3>2 DEF IsRepresentative
  <2>4. CASE UNCHANGED forest  BY <2>4, SameForest
  <2>5. \A c : Start(c) => UNCHANGED forest  BY DEF Start
  <2>6. Chase \/ Chased \/ EndFind \/ Answer \/ StartCollecting \/ Visit \/ Collected
        => UNCHANGED forest
    BY DEF Chase, Chased, EndFind, Answer, StartCollecting, Visit, Collected, forest
  <2>. QED BY <1>1, <2>1, <2>2, <2>3, <2>4, <2>5, <2>6 DEF Next, Step
<1>2. IInv /\ [Next]_vars => [Goal]_vars  BY <1>1
<1>. QED BY <1>2, EquivalenceInvariant, PTL DEF Spec, RepresentativesOnlyRetire

\* The classes partition the known values; the class with v is ClassOf(v).
LEMMA ClassesPartition ==
  ASSUME TypeOK, IsForest
  PROVE  /\ P!Known = known
         /\ \A v \in known : P!ClassWith(v) = ClassOf(v)
<1>1. \A v \in known : v \in ClassOf(v) /\ ClassOf(v) \subseteq known
  BY OneRoot
<1>2. P!Known = known  BY <1>1 DEF P!Known
<1>3. \A v \in known, w \in known : v \in ClassOf(w) => ClassOf(w) = ClassOf(v)
  <2>1. PICK root \in [known -> known], depth \in [known -> Nat] :
          Certifies(parent, known, root, depth)
    BY DEF IsForest
  <2>2. parent \in [known -> known]  BY DEF TypeOK
  <2>3. \A v \in known : ClassOf(v) = {w \in known : root[w] = root[v]}
    BY <2>1, <2>2, ClassByRoot
  <2>. QED BY <2>3
<1>4. ASSUME NEW v \in known PROVE P!ClassWith(v) = ClassOf(v)
  <2>1. {c \in {ClassOf(w) : w \in known} : v \in c} = {ClassOf(v)}
    BY <1>1, <1>3
  <2>2. P!ClassWith(v) = UNION {c \in {ClassOf(w) : w \in known} : v \in c}
    BY DEF P!ClassWith
  <2>. QED BY <2>1, <2>2
<1>. QED BY <1>2, <1>4

\* The forest, its compression and its traversals implement a partition to
\* which values are added and whose classes are merged.
THEOREM KeepsThePartition == Spec => Implements
<1> DEFINE classes == {ClassOf(v) : v \in known}
<1>1. Init => P!PartitionInit
  BY DEF Init, P!PartitionInit
<1>2. ASSUME IInv, [Next]_vars
      PROVE  P!PartitionNext \/ UNCHANGED classes
  <2>1. TypeOK /\ IsForest  BY <1>2 DEF IInv
  <2>2. CASE \E v \in Values : Register(v)
    <3>1. PICK v \in Values : Register(v)  BY <2>2
    <3>2. ClassOf(v)' = {v} /\ \A x \in known : ClassOf(x)' = ClassOf(x)
      BY <1>2, <3>1, RegisterFacts
    <3>3. known' = known \cup {v} /\ v \notin known  BY <3>1 DEF Register
    <3>4. classes' = classes \cup {{v}}  BY <3>2, <3>3
    <3>5. v \in Values \ P!Known  BY <2>1, <3>3, ClassesPartition
    <3>6. P!AddValue(v)  BY <3>4, <3>5 DEF P!AddValue
    <3>. QED BY <3>6 DEF P!PartitionNext
  <2>3. CASE Link
    <3> DEFINE v1 == call.args[1]  v2 == call.args[2]
    <3>1. /\ v1 \in known /\ v2 \in known
          /\ \A v \in known : ClassOf(v)' = IF v \in ClassOf(v1) \cup ClassOf(v2)
                                            THEN ClassOf(v1) \cup ClassOf(v2) ELSE ClassOf(v)
      BY <1>2, <2>3, LinkFacts
    <3>2. known' = known  BY <2>3 DEF Link
    <3> HIDE DEF v1, v2
    <3>3. P!ClassWith(v1) = ClassOf(v1) /\ P!ClassWith(v2) = ClassOf(v2) /\ P!Known = known
      BY <2>1, <3>1, ClassesPartition
    <3>4. \A v \in known : ClassOf(v) \in {ClassOf(v1), ClassOf(v2)}
                             <=> v \in ClassOf(v1) \cup ClassOf(v2)
      <4>1. \A v \in known : v \in ClassOf(v)  BY <2>1, OneRoot
      <4>2. \A v, w \in known : v \in ClassOf(w) => ClassOf(v) = ClassOf(w)
        <5>1. PICK root \in [known -> known], depth \in [known -> Nat] :
                Certifies(parent, known, root, depth)
          BY <2>1 DEF IsForest
        <5>2. parent \in [known -> known]  BY <2>1 DEF TypeOK
        <5>3. \A v \in known : ClassOf(v) = {w \in known : root[w] = root[v]}
          BY <5>1, <5>2, ClassByRoot
        <5>. QED BY <5>3
      <4>. QED BY <4>1, <4>2, <3>1
    <3>5. classes' = (classes \ {ClassOf(v1), ClassOf(v2)}) \cup {ClassOf(v1) \cup ClassOf(v2)}
      <4>1. v1 \in ClassOf(v1)  BY <2>1, <3>1, OneRoot
      <4>2. classes' = {ClassOf(v)' : v \in known}  BY <3>2
      <4>3. ASSUME NEW c \in classes'
            PROVE  c \in (classes \ {ClassOf(v1), ClassOf(v2)}) \cup {ClassOf(v1) \cup ClassOf(v2)}
        <5>1. PICK v \in known : c = ClassOf(v)'  BY <3>2
        <5>. QED BY <5>1, <3>1, <3>4
      <4>4. ASSUME NEW c \in classes, c \notin {ClassOf(v1), ClassOf(v2)} PROVE c \in classes'
        <5>1. PICK v \in known : c = ClassOf(v)  OBVIOUS
        <5>2. c = ClassOf(v)'  BY <5>1, <4>4, <3>1, <3>4
        <5>. QED BY <5>1, <5>2, <3>2
      <4>5. ClassOf(v1) \cup ClassOf(v2) \in classes'
        <5>1. ASSUME NEW v \in known, v = v1 PROVE ClassOf(v)' \in classes' /\ ClassOf(v)' = ClassOf(v1) \cup ClassOf(v2)
          BY <5>1, <3>1, <3>2, <4>1
        <5>. QED BY <5>1, <3>1
      <4>. QED BY <4>3, <4>4, <4>5
    <3>6. P!Merge(v1, v2)  BY <3>1, <3>3, <3>5 DEF P!Merge
    <3>7. v1 \in Values /\ v2 \in Values  BY <2>1, <3>1 DEF TypeOK
    <3>. QED BY <3>6, <3>7 DEF P!PartitionNext
  <2>4. CASE Compress
    <3>1. known' = known  BY <2>4 DEF Compress
    <3>2. \A v \in known : ClassOf(v)' = ClassOf(v)  BY <1>2, <2>4, CompressFacts
    <3>. QED BY <3>1, <3>2
  <2>5. CASE UNCHANGED forest
    <3>1. known' = known  BY <2>5 DEF forest
    <3>2. \A v : ClassOf(v)' = ClassOf(v)  BY <2>5, SameForest
    <3>. QED BY <3>1, <3>2
  <2>6. \A c : Start(c) => UNCHANGED forest  BY DEF Start
  <2>7. Chase \/ Chased \/ EndFind \/ Answer \/ StartCollecting \/ Visit \/ Collected
        \/ UNCHANGED vars => UNCHANGED forest
    BY DEF Chase, Chased, EndFind, Answer, StartCollecting, Visit, Collected, forest, vars
  <2>. QED BY <1>2, <2>2, <2>3, <2>4, <2>5, <2>6, <2>7 DEF Next, Step
<1>3. IInv /\ [Next]_vars => [P!PartitionNext]_classes  BY <1>2
<1>. QED BY <1>1, <1>3, EquivalenceInvariant, PTL DEF Spec, Implements, P!PartitionSpec
=============================================================================
