----------------------- MODULE DecorationManagerProofs -----------------------
(***************************************************************************)
(* The decoration manager, for every choice of ids, decorations and        *)
(* addresses: its tables say what the annotations of the module say, no    *)
(* annotation names an id that is gone, and removals and clonings change   *)
(* the decorations of the one id they are for, and those they are asked    *)
(* for alone.                                                              *)
(***************************************************************************)
EXTENDS DecorationManager, TLAPS

\* Applications of a group, one that has lost its targets among them.
Applications == [op : {"OpGroupDecorate"}, id : Groups, targets : SUBSET Targets]
Annots == Decorates \cup Applications

\* The annotation a belongs into the vector v of x.
Listed(a, x, v) ==
  IF a.op = "OpDecorate" THEN v = "direct" /\ x = a.id
  ELSE \/ v = "indirect" /\ x \in a.targets
       \/ v = "appliers" /\ x = a.id

Once(b) == IF b THEN 1 ELSE 0
Says(ann, i, x, v) == ann[i] # Nothing /\ Listed(ann[i], x, v)

\* The type of a manager.
Shaped(m) == DOMAIN m \subseteq AllIds /\ m \in [DOMAIN m -> [Lists -> [Insts -> Nat]]]

\* The annotations ann, and the manager m that records each where it belongs.
Sound(ann, m) ==
  /\ ann \in [Insts -> Annots \cup {Nothing}]
  /\ Shaped(m)
  /\ \A x \in AllIds, v \in Lists, i \in Insts : Count(m, x, v, i) = Once(Says(ann, i, x, v))

\* What pushing and erasing does to how often an instruction is recorded.
LEMMA PushCount ==
  ASSUME NEW m, NEW xs, NEW v, NEW i, NEW j \in Insts, NEW x, NEW w \in Lists,
         Count(m, x, w, j) \in Nat
  PROVE  Count(Push(m, xs, v, i), x, w, j)
           = Count(m, x, w, j) + (IF x \in xs /\ w = v /\ j = i THEN 1 ELSE 0)
<1>1. CASE x \in DOMAIN m \cup xs
  <2>1. Push(m, xs, v, i)[x] = [u \in Lists |-> [k \in Insts |->
          Count(m, x, u, k) + (IF x \in xs /\ u = v /\ k = i THEN 1 ELSE 0)]]
    BY <1>1 DEF Push
  <2>2. x \in DOMAIN Push(m, xs, v, i)
    BY <1>1 DEF Push
  <2>3. Count(Push(m, xs, v, i), x, w, j) = Push(m, xs, v, i)[x][w][j]
    BY <2>2 DEF Count
  <2> QED BY <1>1, <2>1, <2>3
<1>2. CASE x \notin DOMAIN m \cup xs
  <2>1. x \notin DOMAIN Push(m, xs, v, i)
    BY <1>2 DEF Push
  <2> QED BY <1>2, <2>1 DEF Count
<1> QED BY <1>1, <1>2

\* An instruction is added once where it belongs, and nothing else is.
LEMMA AddCount ==
  ASSUME NEW m, NEW i, NEW j \in Insts, NEW a, NEW x, NEW v \in Lists,
         Count(m, x, v, j) \in Nat
  PROVE  Count(AddDecoration(m, i, a), x, v, j)
           = Count(m, x, v, j) + Once(j = i /\ Listed(a, x, v))
<1>1. CASE a.op = "OpDecorate"
  <2>1. AddDecoration(m, i, a) = Push(m, {a.id}, "direct", i)
    BY <1>1 DEF AddDecoration
  <2> QED BY <1>1, <2>1, PushCount DEF Listed, Once
<1>2. CASE a.op # "OpDecorate"
  <2> DEFINE n == Push(m, a.targets, "indirect", i)
  <2>1. AddDecoration(m, i, a) = Push(n, {a.id}, "appliers", i)
    BY <1>2 DEF AddDecoration
  <2>2. Count(n, x, v, j)
          = Count(m, x, v, j) + (IF x \in a.targets /\ v = "indirect" /\ j = i THEN 1 ELSE 0)
    BY PushCount
  <2>3. Count(n, x, v, j) \in Nat
    BY <2>2
  <2> HIDE DEF n
  <2>4. Count(Push(n, {a.id}, "appliers", i), x, v, j)
          = Count(n, x, v, j) + (IF x = a.id /\ v = "appliers" /\ j = i THEN 1 ELSE 0)
    BY <2>3, PushCount
  <2> QED BY <1>2, <2>1, <2>2, <2>4 DEF Listed, Once
<1> QED BY <1>1, <1>2

\* Erased are the addresses given, from that vector of those ids.
LEMMA EraseCount ==
  ASSUME NEW m, NEW xs, NEW v, NEW is, NEW i \in Insts, NEW x, NEW w \in Lists
  PROVE  Count(Erase(m, xs, v, is), x, w, i)
           = IF x \in xs /\ w = v /\ i \in is THEN 0 ELSE Count(m, x, w, i)
<1>1. CASE x \in DOMAIN m
  <2>1. Erase(m, xs, v, is)[x] = [u \in Lists |-> [j \in Insts |->
          IF x \in xs /\ u = v /\ j \in is THEN 0 ELSE m[x][u][j]]]
    BY <1>1 DEF Erase
  <2>2. x \in DOMAIN Erase(m, xs, v, is)
    BY <1>1 DEF Erase
  <2>3. Count(Erase(m, xs, v, is), x, w, i) = Erase(m, xs, v, is)[x][w][i]
    BY <2>2 DEF Count
  <2> QED BY <1>1, <2>1, <2>3 DEF Count
<1>2. CASE x \notin DOMAIN m
  <2>1. x \notin DOMAIN Erase(m, xs, v, is)
    BY <1>2 DEF Erase
  <2> QED BY <1>2, <2>1 DEF Count
<1> QED BY <1>1, <1>2

\* An instruction that is removed is not recorded where it belonged.
LEMMA RemoveCount ==
  ASSUME NEW m, NEW i, NEW j \in Insts, NEW a, NEW x, NEW v \in Lists
  PROVE  Count(RemoveDecoration(m, i, a), x, v, j)
           = IF j = i /\ Listed(a, x, v) THEN 0 ELSE Count(m, x, v, j)
<1>1. CASE a.op = "OpDecorate"
  <2>1. RemoveDecoration(m, i, a) = Erase(m, {a.id}, "direct", {i})
    BY <1>1 DEF RemoveDecoration
  <2> QED BY <1>1, <2>1, EraseCount DEF Listed
<1>2. CASE a.op # "OpDecorate"
  <2> DEFINE n == Erase(m, a.targets, "indirect", {i})
  <2>1. RemoveDecoration(m, i, a) = Erase(n, {a.id}, "appliers", {i})
    BY <1>2 DEF RemoveDecoration
  <2>2. Count(n, x, v, j)
          = IF x \in a.targets /\ v = "indirect" /\ j = i THEN 0 ELSE Count(m, x, v, j)
    BY EraseCount
  <2> HIDE DEF n
  <2>3. Count(Erase(n, {a.id}, "appliers", {i}), x, v, j)
          = IF x = a.id /\ v = "appliers" /\ j = i THEN 0 ELSE Count(n, x, v, j)
    BY EraseCount
  <2> QED BY <1>2, <2>1, <2>2, <2>3 DEF Listed
<1> QED BY <1>1, <1>2

\* How often the manager that Together makes records instruction i.
Counted(m, made, x, v, i) ==
  IF i \in DOMAIN made THEN Count(made[i], x, v, i) ELSE Count(m, x, v, i)

\* A loop records of an instruction what its own turn does.
LEMMA TogetherCount ==
  ASSUME NEW m, NEW made, NEW i \in Insts, NEW x, NEW v \in Lists
  PROVE  Count(Together(m, made), x, v, i) = Counted(m, made, x, v, i)
<1> DEFINE D == DOMAIN m \cup UNION {DOMAIN made[j] : j \in DOMAIN made}
           n(j) == IF j \in DOMAIN made THEN made[j] ELSE m
<1>1. Together(m, made) = [y \in D |-> [w \in Lists |-> [j \in Insts |-> Count(n(j), y, w, j)]]]
  BY DEF Together
<1>2. DOMAIN n(i) \subseteq D
  OBVIOUS
<1>3. x \in D => Count(Together(m, made), x, v, i) = Count(n(i), x, v, i)
  <2> SUFFICES ASSUME x \in D
               PROVE  Count(Together(m, made), x, v, i) = Count(n(i), x, v, i)
    OBVIOUS
  <2>1. Together(m, made)[x] = [w \in Lists |-> [j \in Insts |-> Count(n(j), x, w, j)]]
    BY <1>1
  <2>2. Count(Together(m, made), x, v, i) = Together(m, made)[x][v][i]
    BY <1>1 DEF Count
  <2> QED BY <2>1, <2>2
<1>4. x \notin D => Count(Together(m, made), x, v, i) = Count(n(i), x, v, i)
  <2> SUFFICES ASSUME x \notin D
               PROVE  Count(Together(m, made), x, v, i) = Count(n(i), x, v, i)
    OBVIOUS
  <2>1. Count(Together(m, made), x, v, i) = 0
    BY <1>1 DEF Count
  <2>2. Count(n(i), x, v, i) = 0
    BY <1>2 DEF Count
  <2> QED BY <2>1, <2>2
<1>5. Count(Together(m, made), x, v, i) = Count(n(i), x, v, i)
  BY <1>3, <1>4
<1> QED BY <1>5 DEF Counted

\* The operations of a manager keep its type.
LEMMA PushShaped ==
  ASSUME NEW m, Shaped(m), NEW xs \in SUBSET AllIds, NEW v, NEW i
  PROVE  Shaped(Push(m, xs, v, i))
<1>1. \A x : \A w \in Lists, j \in Insts : Count(m, x, w, j) \in Nat
  BY DEF Shaped, Count
<1>2. \A x \in DOMAIN m \cup xs, w \in Lists, j \in Insts :
        Count(m, x, w, j) + (IF x \in xs /\ w = v /\ j = i THEN 1 ELSE 0) \in Nat
  BY <1>1
<1>3. Push(m, xs, v, i) \in [DOMAIN m \cup xs -> [Lists -> [Insts -> Nat]]]
  BY <1>2 DEF Push
<1> QED BY <1>3 DEF Shaped

\* Nor does erasing change the shape of a manager.
LEMMA EraseShaped ==
  ASSUME NEW m, Shaped(m), NEW xs, NEW v, NEW is
  PROVE  Shaped(Erase(m, xs, v, is))
<1>1. \A x \in DOMAIN m, w \in Lists, j \in Insts :
        (IF x \in xs /\ w = v /\ j \in is THEN 0 ELSE m[x][w][j]) \in Nat
  BY DEF Shaped
<1>2. Erase(m, xs, v, is) \in [DOMAIN m -> [Lists -> [Insts -> Nat]]]
  BY <1>1 DEF Erase
<1> QED BY <1>2 DEF Shaped

\* Nor do AddDecoration,
LEMMA AddShaped ==
  ASSUME NEW m, Shaped(m), NEW i, NEW a \in Annots
  PROVE  Shaped(AddDecoration(m, i, a))
<1>1. a.id \in AllIds
  BY DEF Annots, Decorates, Applications, AllIds
<1>2. CASE a.op = "OpDecorate"
  <2>1. {a.id} \in SUBSET AllIds
    BY <1>1
  <2> QED BY <1>2, <2>1, PushShaped DEF AddDecoration
<1>3. CASE a.op # "OpDecorate"
  <2>1. a.targets \in SUBSET AllIds /\ {a.id} \in SUBSET AllIds
    BY <1>1, <1>3 DEF Annots, Decorates, Applications, AllIds
  <2>2. Shaped(Push(m, a.targets, "indirect", i))
    BY <2>1, PushShaped
  <2>3. Shaped(Push(Push(m, a.targets, "indirect", i), {a.id}, "appliers", i))
    BY <2>1, <2>2, PushShaped
  <2> QED BY <1>3, <2>3 DEF AddDecoration
<1> QED BY <1>2, <1>3

\* RemoveDecoration,
LEMMA RemoveShaped ==
  ASSUME NEW m, Shaped(m), NEW i, NEW a
  PROVE  Shaped(RemoveDecoration(m, i, a))
<1>1. CASE a.op = "OpDecorate"
  BY <1>1, EraseShaped DEF RemoveDecoration
<1>2. CASE a.op # "OpDecorate"
  <2>1. Shaped(Erase(m, a.targets, "indirect", {i}))
    BY EraseShaped
  <2>2. Shaped(Erase(Erase(m, a.targets, "indirect", {i}), {a.id}, "appliers", {i}))
    BY <2>1, EraseShaped
  <2> QED BY <1>2, <2>2 DEF RemoveDecoration
<1> QED BY <1>1, <1>2

\* or putting the turns of a loop together.
LEMMA TogetherShaped ==
  ASSUME NEW m, Shaped(m), NEW made, \A i \in DOMAIN made : Shaped(made[i])
  PROVE  Shaped(Together(m, made))
<1> DEFINE D == DOMAIN m \cup UNION {DOMAIN made[j] : j \in DOMAIN made}
           n(j) == IF j \in DOMAIN made THEN made[j] ELSE m
<1>1. Together(m, made) = [y \in D |-> [w \in Lists |-> [j \in Insts |-> Count(n(j), y, w, j)]]]
  BY DEF Together
<1>2. D \subseteq AllIds
  BY DEF Shaped
<1>3. \A j : Shaped(n(j))
  OBVIOUS
<1> HIDE DEF D, n
<1>4. \A y \in D, w \in Lists, j \in Insts : Count(n(j), y, w, j) \in Nat
  BY <1>3 DEF Shaped, Count
<1>5. Together(m, made) \in [D -> [Lists -> [Insts -> Nat]]]
  BY <1>1, <1>4
<1> QED BY <1>2, <1>5 DEF Shaped

-----------------------------------------------------------------------------
\* Steps on the module and its manager together keep them sound.

\* What Sound says is what Records says.
LEMMA SoundIsRecorded ==
  ASSUME NEW m, NEW ann \in [Insts -> Annots \cup {Nothing}]
  PROVE  Sound(ann, m) <=> Records(m, ann) /\ Shaped(m)
<1>1. \A x \in AllIds, i \in Insts :
        /\ i \in DirectlyOn(ann, x) <=> Says(ann, i, x, "direct")
        /\ i \in AppliedTo(ann, x) <=> Says(ann, i, x, "indirect")
        /\ i \in AppliersOf(ann, x) <=> Says(ann, i, x, "appliers")
  <2> SUFFICES ASSUME NEW x \in AllIds, NEW i \in Insts, ann[i] # Nothing
               PROVE  /\ ann[i].op = "OpDecorate" /\ ann[i].id = x <=> Listed(ann[i], x, "direct")
                      /\ ann[i].op # "OpDecorate" /\ x \in Names(ann[i]) \ {ann[i].id}
                            <=> Listed(ann[i], x, "indirect")
                      /\ ann[i].op # "OpDecorate" /\ ann[i].id = x <=> Listed(ann[i], x, "appliers")
    BY DEF Says, DirectlyOn, AppliedTo, AppliersOf
  <2>1. ann[i] \in Annots
    OBVIOUS
  <2> QED BY <2>1, IdsAssumption DEF Annots, Decorates, Applications, Names, Listed
<1>2. "direct" \in Lists /\ "indirect" \in Lists /\ "appliers" \in Lists
  BY DEF Lists
<1>3. \A v \in Lists : v = "direct" \/ v = "indirect" \/ v = "appliers"
  BY DEF Lists
<1>4. Sound(ann, m) => Records(m, ann) /\ Shaped(m)
  <2> SUFFICES ASSUME Sound(ann, m), NEW x \in AllIds, NEW i \in Insts
               PROVE  /\ Count(m, x, "direct", i) = Once(i \in DirectlyOn(ann, x))
                      /\ Count(m, x, "indirect", i) = Once(i \in AppliedTo(ann, x))
                      /\ Count(m, x, "appliers", i) = Once(i \in AppliersOf(ann, x))
    BY DEF Records, Once, Sound
  <2>1. \A v \in Lists : Count(m, x, v, i) = Once(Says(ann, i, x, v))
    BY DEF Sound
  <2>2. /\ Count(m, x, "direct", i) = Once(Says(ann, i, x, "direct"))
        /\ Count(m, x, "indirect", i) = Once(Says(ann, i, x, "indirect"))
        /\ Count(m, x, "appliers", i) = Once(Says(ann, i, x, "appliers"))
    BY <1>2, <2>1
  <2> QED BY <1>1, <2>2 DEF Once
<1>5. Records(m, ann) /\ Shaped(m) => Sound(ann, m)
  <2> SUFFICES ASSUME Records(m, ann), Shaped(m), NEW x \in AllIds, NEW v \in Lists, NEW i \in Insts
               PROVE  Count(m, x, v, i) = Once(Says(ann, i, x, v))
    BY DEF Sound
  <2>1. /\ Count(m, x, "direct", i) = Once(i \in DirectlyOn(ann, x))
        /\ Count(m, x, "indirect", i) = Once(i \in AppliedTo(ann, x))
        /\ Count(m, x, "appliers", i) = Once(i \in AppliersOf(ann, x))
    BY DEF Records, Once
  <2>2. CASE v = "direct"
    BY <1>1, <2>1, <2>2 DEF Once
  <2>3. CASE v = "indirect"
    BY <1>1, <2>1, <2>3 DEF Once
  <2>4. CASE v = "appliers"
    BY <1>1, <2>1, <2>4 DEF Once
  <2> QED BY <1>3, <2>2, <2>3, <2>4
<1> QED BY <1>4, <1>5

\* A manager built anew is sound.
LEMMA AnalyzedIsSound ==
  ASSUME annotations \in [Insts -> Annots \cup {Nothing}]
  PROVE  Sound(annotations, Analyzed)
<1> DEFINE none == << >>
           made == [i \in Live |-> AddDecoration(none, i, annotations[i])]
<1>0. Shaped(Analyzed)
  <2>1. Shaped(none)
    BY DEF Shaped
  <2>2. \A i \in Live : annotations[i] \in Annots
    BY DEF Live
  <2>3. \A i \in Live : Shaped(AddDecoration(none, i, annotations[i]))
    <3> HIDE DEF none
    <3> QED BY <2>1, <2>2, AddShaped
  <2>4. \A i \in DOMAIN made : Shaped(made[i])
    BY <2>3
  <2>5. Analyzed = Together(none, made)
    BY DEF Analyzed
  <2> HIDE DEF none, made
  <2> QED BY <2>1, <2>4, <2>5, TogetherShaped
<1> SUFFICES ASSUME NEW x \in AllIds, NEW v \in Lists, NEW i \in Insts
             PROVE  Count(Analyzed, x, v, i) = Once(Says(annotations, i, x, v))
  BY <1>0 DEF Sound
<1>1. Count(Analyzed, x, v, i)
        = IF i \in Live THEN Count(made[i], x, v, i) ELSE Count(none, x, v, i)
  <2>1. Analyzed = Together(none, made)
    BY DEF Analyzed
  <2>2. DOMAIN made = Live
    OBVIOUS
  <2>3. Count(Together(none, made), x, v, i)
          = IF i \in DOMAIN made THEN Count(made[i], x, v, i) ELSE Count(none, x, v, i)
    <3> HIDE DEF made, none
    <3>1. Count(Together(none, made), x, v, i) = Counted(none, made, x, v, i)
      BY TogetherCount
    <3> QED BY <3>1 DEF Counted
  <2> QED BY <2>1, <2>2, <2>3
<1>2. Count(none, x, v, i) = 0
  BY DEF Count
<1>3. i \in Live => Count(made[i], x, v, i) = 0 + Once(Listed(annotations[i], x, v))
  BY <1>2, AddCount DEF Once
<1>4. i \in Live <=> annotations[i] # Nothing
  BY DEF Live
<1> QED BY <1>1, <1>2, <1>3, <1>4 DEF Says, Once

\* An annotation is added at an address that has none.
LEMMA AddIsSound ==
  ASSUME NEW ann, NEW m, Sound(ann, m), NEW i \in Insts, ann[i] = Nothing,
         NEW a \in Annots
  PROVE  Sound([ann EXCEPT ![i] = a], AddDecoration(m, i, a))
<1> DEFINE new == [ann EXCEPT ![i] = a]
<1>1. new \in [Insts -> Annots \cup {Nothing}]
  BY DEF Sound
<1> SUFFICES ASSUME NEW x \in AllIds, NEW v \in Lists, NEW j \in Insts
             PROVE  Count(AddDecoration(m, i, a), x, v, j) = Once(Says(new, j, x, v))
  <2>1. Shaped(AddDecoration(m, i, a))
    BY AddShaped DEF Sound
  <2> QED BY <1>1, <2>1 DEF Sound
<1>2. Count(m, x, v, j) = Once(Says(ann, j, x, v))
  BY DEF Sound
<1>3. Count(AddDecoration(m, i, a), x, v, j)
        = Count(m, x, v, j) + Once(j = i /\ Listed(a, x, v))
  BY <1>2, AddCount DEF Once
<1>4. a # Nothing
  BY IdsAssumption DEF Annots, Applications
<1>5. new[j] = IF j = i THEN a ELSE ann[j]
  BY DEF Sound
<1> QED BY <1>2, <1>3, <1>4, <1>5 DEF Says, Once

\* An annotation is killed.
LEMMA RemoveIsSound ==
  ASSUME NEW ann, NEW m, Sound(ann, m), NEW i \in Insts, ann[i] # Nothing
  PROVE  Sound([ann EXCEPT ![i] = Nothing], RemoveDecoration(m, i, ann[i]))
<1> DEFINE new == [ann EXCEPT ![i] = Nothing]
<1>1. new \in [Insts -> Annots \cup {Nothing}]
  BY DEF Sound
<1> SUFFICES ASSUME NEW x \in AllIds, NEW v \in Lists, NEW j \in Insts
             PROVE  Count(RemoveDecoration(m, i, ann[i]), x, v, j) = Once(Says(new, j, x, v))
  <2>1. Shaped(RemoveDecoration(m, i, ann[i]))
    BY RemoveShaped DEF Sound
  <2> QED BY <1>1, <2>1 DEF Sound
<1>2. Count(m, x, v, j) = Once(Says(ann, j, x, v))
  BY DEF Sound
<1>3. Count(RemoveDecoration(m, i, ann[i]), x, v, j)
        = IF j = i /\ Listed(ann[i], x, v) THEN 0 ELSE Count(m, x, v, j)
  BY RemoveCount
<1>4. new[j] = IF j = i THEN Nothing ELSE ann[j]
  BY DEF Sound
<1> QED BY <1>2, <1>3, <1>4 DEF Says, Once

\* The loop that kills the annotations is.
LEMMA KillIsSound ==
  ASSUME NEW s, Sound(s.ann, s.mgr), NEW is, \A i \in is : i \in Insts => s.ann[i] # Nothing
  PROVE  Sound(Kill(s, is).ann, Kill(s, is).mgr)
<1> DEFINE new == [i \in Insts |-> IF i \in is THEN Nothing ELSE s.ann[i]]
           made == [i \in is |-> RemoveDecoration(s.mgr, i, s.ann[i])]
<1>1. Kill(s, is).ann = new /\ Kill(s, is).mgr = Together(s.mgr, made)
  BY DEF Kill
<1>2. new \in [Insts -> Annots \cup {Nothing}] /\ Shaped(s.mgr)
  BY DEF Sound
<1> SUFFICES ASSUME NEW x \in AllIds, NEW v \in Lists, NEW j \in Insts
             PROVE  Count(Together(s.mgr, made), x, v, j) = Once(Says(new, j, x, v))
  <2>1. \A i \in DOMAIN made : Shaped(made[i])
    BY <1>2, RemoveShaped
  <2> HIDE DEF new, made
  <2>2. Shaped(Together(s.mgr, made))
    BY <1>2, <2>1, TogetherShaped
  <2> QED BY <1>1, <1>2, <2>2 DEF Sound
<1>3. Count(s.mgr, x, v, j) = Once(Says(s.ann, j, x, v))
  BY DEF Sound
<1>4. Count(Together(s.mgr, made), x, v, j)
        = IF j \in is THEN Count(made[j], x, v, j) ELSE Count(s.mgr, x, v, j)
  <2>2. DOMAIN made = is
    OBVIOUS
  <2>3. Count(Together(s.mgr, made), x, v, j)
          = IF j \in DOMAIN made THEN Count(made[j], x, v, j) ELSE Count(s.mgr, x, v, j)
    <3> HIDE DEF made, new
    <3>1. Count(Together(s.mgr, made), x, v, j) = Counted(s.mgr, made, x, v, j)
      BY TogetherCount
    <3> QED BY <3>1 DEF Counted
  <2> QED BY <2>2, <2>3
<1>5. j \in is => Count(made[j], x, v, j)
                    = IF Listed(s.ann[j], x, v) THEN 0 ELSE Count(s.mgr, x, v, j)
  BY RemoveCount
<1> QED BY <1>3, <1>4, <1>5 DEF Says, Once

\* The loop that adds clones for y is.
LEMMA ClonesAreSound ==
  ASSUME NEW s, Sound(s.ann, s.mgr), NEW f, NEW y \in AllIds,
         \A i \in DOMAIN f : /\ i \in Insts /\ s.ann[i] = Nothing
                             /\ f[i][2] \in Insts /\ s.ann[f[i][2]] \in Decorates
  PROVE  Sound(Clones(s, f, y).ann, Clones(s, f, y).mgr)
<1> DEFINE clone(i) == [s.ann[f[i][2]] EXCEPT !.id = y]
           new == [i \in Insts |-> IF i \in DOMAIN f THEN clone(i) ELSE s.ann[i]]
           made == [i \in DOMAIN f |-> AddDecoration(s.mgr, i, clone(i))]
<1>1. Clones(s, f, y).ann = new /\ Clones(s, f, y).mgr = Together(s.mgr, made)
  BY DEF Clones
<1>2. \A i \in DOMAIN f : clone(i) \in Decorates
  BY DEF Decorates
<1>3. new \in [Insts -> Annots \cup {Nothing}]
  BY <1>2 DEF Sound, Annots
<1> SUFFICES ASSUME NEW x \in AllIds, NEW v \in Lists, NEW j \in Insts
             PROVE  Count(Together(s.mgr, made), x, v, j) = Once(Says(new, j, x, v))
  <2>1. SUFFICES Sound(new, Together(s.mgr, made))
    BY <1>1
  <2>2. \A i \in DOMAIN f : clone(i) \in Annots /\ Shaped(s.mgr)
    BY <1>2 DEF Annots, Sound
  <2>3. \A i \in DOMAIN made : Shaped(made[i])
    <3> HIDE DEF clone
    <3> QED BY <2>2, AddShaped
  <2> HIDE DEF new, made, clone
  <2>4. Shaped(Together(s.mgr, made))
    BY <2>3, TogetherShaped DEF Sound
  <2> QED BY <1>3, <2>4 DEF Sound
<1>4. Count(s.mgr, x, v, j) = Once(Says(s.ann, j, x, v))
  BY DEF Sound
<1>5. Count(Together(s.mgr, made), x, v, j)
        = IF j \in DOMAIN f THEN Count(made[j], x, v, j) ELSE Count(s.mgr, x, v, j)
  <2>2. DOMAIN made = DOMAIN f
    OBVIOUS
  <2> HIDE DEF made
  <2>3. Count(Together(s.mgr, made), x, v, j) = Counted(s.mgr, made, x, v, j)
    BY TogetherCount
  <2> QED BY <2>2, <2>3 DEF Counted
<1>6. j \in DOMAIN f => Count(made[j], x, v, j)
                          = Count(s.mgr, x, v, j) + Once(Listed(clone(j), x, v))
  BY <1>4, AddCount DEF Once
<1>7. j \in DOMAIN f => clone(j) # Nothing
  BY <1>2, IdsAssumption
<1> QED BY <1>4, <1>5, <1>6, <1>7 DEF Says, Once

\* What setting targets does to how often an instruction is recorded.
LEMMA RetargetCount ==
  ASSUME NEW s, Sound(s.ann, s.mgr), NEW forgotten, NEW ts,
         NEW x \in AllIds, NEW v \in Lists, NEW j \in Insts
  PROVE  Count(Retarget(s, forgotten, ts).mgr, x, v, j)
           = IF j \in DOMAIN ts
             THEN (IF Listed([s.ann[j] EXCEPT !.targets = forgotten[j]], x, v) THEN 0
                   ELSE Count(s.mgr, x, v, j))
                  + Once(Listed([s.ann[j] EXCEPT !.targets = ts[j]], x, v))
             ELSE Count(s.mgr, x, v, j)
<1> DEFINE with(i, targets) == [s.ann[i] EXCEPT !.targets = targets]
           left(i) == RemoveDecoration(s.mgr, i, with(i, forgotten[i]))
           made == [i \in DOMAIN ts |-> AddDecoration(left(i), i, with(i, ts[i]))]
<1>1. Retarget(s, forgotten, ts).mgr = Together(s.mgr, made)
  BY DEF Retarget
<1>2. Count(s.mgr, x, v, j) \in Nat
  BY DEF Sound, Once
<1>3. DOMAIN made = DOMAIN ts
  OBVIOUS
<1>4. j \in DOMAIN ts => made[j] = AddDecoration(left(j), j, with(j, ts[j]))
  OBVIOUS
<1> HIDE DEF made
<1>5. Count(left(j), x, v, j) = IF Listed(with(j, forgotten[j]), x, v) THEN 0
                                ELSE Count(s.mgr, x, v, j)
  <2> HIDE DEF with
  <2> QED BY RemoveCount
<1>6. Count(AddDecoration(left(j), j, with(j, ts[j])), x, v, j)
        = Count(left(j), x, v, j) + Once(Listed(with(j, ts[j]), x, v))
  <2>1. Count(left(j), x, v, j) \in Nat
    BY <1>2, <1>5
  <2> HIDE DEF left, with
  <2> QED BY <2>1, AddCount DEF Once
<1>7. Count(Together(s.mgr, made), x, v, j)
        = IF j \in DOMAIN ts THEN Count(made[j], x, v, j) ELSE Count(s.mgr, x, v, j)
  <2>1. Count(Together(s.mgr, made), x, v, j) = Counted(s.mgr, made, x, v, j)
    BY TogetherCount
  <2> QED BY <1>3, <2>1 DEF Counted
<1> HIDE DEF left
<1> QED BY <1>1, <1>4, <1>5, <1>6, <1>7

\* And its manager has the shape of one.
LEMMA RetargetShaped ==
  ASSUME NEW s, Sound(s.ann, s.mgr), NEW forgotten, NEW ts,
         \A i \in DOMAIN ts : s.ann[i] \in Applications /\ ts[i] \subseteq Targets
  PROVE  Shaped(Retarget(s, forgotten, ts).mgr)
<1> DEFINE with(i, targets) == [s.ann[i] EXCEPT !.targets = targets]
           left(i) == RemoveDecoration(s.mgr, i, with(i, forgotten[i]))
           made == [i \in DOMAIN ts |-> AddDecoration(left(i), i, with(i, ts[i]))]
<1>1. Retarget(s, forgotten, ts).mgr = Together(s.mgr, made)
  BY DEF Retarget
<1>2. \A i \in DOMAIN ts : with(i, ts[i]) \in Annots
  BY DEF Applications, Annots
<1>3. \A i : Shaped(left(i))
  <2> HIDE DEF with
  <2> QED BY RemoveShaped DEF Sound
<1>4. \A i \in DOMAIN made : Shaped(made[i])
  <2> HIDE DEF with, left
  <2> QED BY <1>2, <1>3, AddShaped
<1> HIDE DEF made
<1>5. Shaped(s.mgr)
  BY DEF Sound
<1> QED BY <1>1, <1>4, <1>5, TogetherShaped

\* Targets that are set after those before are forgotten.
LEMMA RetargetIsSound ==
  ASSUME NEW s, Sound(s.ann, s.mgr), NEW old, NEW ts,
         \A i \in DOMAIN ts : /\ i \in Insts /\ s.ann[i] \in Applications
                              /\ old[i] = s.ann[i].targets /\ ts[i] \subseteq Targets
  PROVE  Sound(Retarget(s, old, ts).ann, Retarget(s, old, ts).mgr)
<1> DEFINE with(i, targets) == [s.ann[i] EXCEPT !.targets = targets]
           new == [i \in Insts |-> IF i \in DOMAIN ts THEN with(i, ts[i]) ELSE s.ann[i]]
           m == Retarget(s, old, ts).mgr
<1>1. Retarget(s, old, ts).ann = new
  BY DEF Retarget
<1>2. \A i \in DOMAIN ts : with(i, ts[i]) \in Applications /\ with(i, old[i]) = s.ann[i]
  BY DEF Applications
<1>3. new \in [Insts -> Annots \cup {Nothing}]
  BY <1>2 DEF Sound, Annots
<1>4. ASSUME NEW x \in AllIds, NEW v \in Lists, NEW j \in Insts
      PROVE  Count(m, x, v, j) = Once(Says(new, j, x, v))
  <2>1. Count(s.mgr, x, v, j) = Once(Says(s.ann, j, x, v))
    BY DEF Sound
  <2>2. Count(m, x, v, j)
          = IF j \in DOMAIN ts
            THEN (IF Listed(with(j, old[j]), x, v) THEN 0 ELSE Count(s.mgr, x, v, j))
                 + Once(Listed(with(j, ts[j]), x, v))
            ELSE Count(s.mgr, x, v, j)
    BY RetargetCount
  <2>3. j \in DOMAIN ts => with(j, ts[j]) # Nothing
    BY <1>2, IdsAssumption DEF Applications
  <2>4. CASE j \in DOMAIN ts
    <3>1. new[j] = with(j, ts[j])
      BY <2>4
    <3>2. Says(new, j, x, v) <=> Listed(with(j, ts[j]), x, v)
      BY <2>3, <2>4, <3>1 DEF Says
    <3>3. (IF Listed(with(j, old[j]), x, v) THEN 0 ELSE Count(s.mgr, x, v, j)) = 0
      BY <1>2, <2>1, <2>4 DEF Says, Once
    <3> HIDE DEF with, new, m
    <3> QED BY <2>2, <2>4, <3>2, <3>3 DEF Once
  <2>5. CASE j \notin DOMAIN ts
    <3>1. new[j] = s.ann[j]
      BY <2>5
    <3>2. Says(new, j, x, v) <=> Says(s.ann, j, x, v)
      BY <3>1 DEF Says
    <3> QED BY <2>1, <2>2, <2>5, <3>2 DEF Once
  <2> QED BY <2>4, <2>5
<1>5. Shaped(m)
  BY RetargetShaped
<1> HIDE DEF new, m
<1>6. Sound(new, m)
  BY <1>3, <1>4, <1>5 DEF Sound
<1> QED BY <1>1, <1>6 DEF m

\* Taking x out of the applications of groups, although those without targets
\* are not taken off the lists and the others are, of x, only at the end.
LEMMA StripIsSound ==
  ASSUME NEW s, Sound(s.ann, s.mgr), NEW x \in AllIds, NEW is \in SUBSET Insts,
         \A i \in is : s.ann[i] \in Applications
  PROVE  Sound(Strip(s, x, is).ann, Strip(s, x, is).mgr)
<1> DEFINE rest == [i \in is |-> s.ann[i].targets \ {x}]
           kept == Restrict(rest, {i \in is : rest[i] # {}})
           with(i) == [s.ann[i] EXCEPT !.targets = rest[i]]
           new == [i \in Insts |-> IF i \in is THEN with(i) ELSE s.ann[i]]
           moved == Retarget(s, kept, kept).mgr
           m == Erase(moved, {x}, "indirect", is)
<1>1. Strip(s, x, is).ann = new /\ Strip(s, x, is).mgr = m
  BY DEF Strip
<1>2. \A i \in is : /\ with(i) \in Applications
                    /\ with(i) # Nothing /\ s.ann[i] # Nothing
  BY IdsAssumption DEF Applications
<1>3. new \in [Insts -> Annots \cup {Nothing}]
  BY <1>2 DEF Sound, Annots
<1>4. ASSUME NEW y \in AllIds, NEW v \in Lists, NEW j \in Insts
      PROVE  Count(m, y, v, j) = Once(Says(new, j, y, v))
  <2>1. Count(s.mgr, y, v, j) = Once(Says(s.ann, j, y, v))
    BY DEF Sound
  <2>2. Count(moved, y, v, j)
          = IF j \in DOMAIN kept
            THEN (IF Listed([s.ann[j] EXCEPT !.targets = kept[j]], y, v) THEN 0
                  ELSE Count(s.mgr, y, v, j))
                 + Once(Listed([s.ann[j] EXCEPT !.targets = kept[j]], y, v))
            ELSE Count(s.mgr, y, v, j)
    <3>1. \A f, t : Count(Retarget(s, f, t).mgr, y, v, j)
            = IF j \in DOMAIN t
              THEN (IF Listed([s.ann[j] EXCEPT !.targets = f[j]], y, v) THEN 0
                    ELSE Count(s.mgr, y, v, j))
                   + Once(Listed([s.ann[j] EXCEPT !.targets = t[j]], y, v))
              ELSE Count(s.mgr, y, v, j)
      BY RetargetCount
    <3> HIDE DEF kept
    <3> QED BY <3>1
  <2>3. Count(m, y, v, j)
          = IF y \in {x} /\ v = "indirect" /\ j \in is THEN 0 ELSE Count(moved, y, v, j)
    <3> HIDE DEF rest, kept, with, new, moved
    <3>1. \A n, xs, w : Count(Erase(n, xs, w, is), y, v, j)
            = IF y \in xs /\ v = w /\ j \in is THEN 0 ELSE Count(n, y, v, j)
      BY EraseCount
    <3> QED BY <3>1
  <2>4. /\ DOMAIN kept \subseteq is
        /\ j \in DOMAIN kept => kept[j] = rest[j]
    BY DEF Restrict
  <2>5. j \in is => (Listed(with(j), y, v) <=> Listed(s.ann[j], y, v) /\ ~(y = x /\ v = "indirect"))
    BY DEF Listed, Applications
  <2>6. j \in is => (Says(new, j, y, v) <=> Listed(with(j), y, v))
    BY <1>2 DEF Says
  <2>7. j \in is => (Says(s.ann, j, y, v) <=> Listed(s.ann[j], y, v))
    BY <1>2 DEF Says
  <2>8. j \notin is => (Says(new, j, y, v) <=> Says(s.ann, j, y, v))
    BY DEF Says
  <2>9. j \in DOMAIN kept => [s.ann[j] EXCEPT !.targets = kept[j]] = with(j)
    BY <2>4
  <2> HIDE DEF with, new, m, moved, kept, rest
  <2>10. CASE j \in is /\ y = x /\ v = "indirect"
    BY <2>3, <2>5, <2>6, <2>10 DEF Once
  <2>11. CASE j \in is /\ ~(y = x /\ v = "indirect")
    <3>1. Count(m, y, v, j) = Count(moved, y, v, j)
      BY <2>3, <2>11
    <3>2. Says(new, j, y, v) <=> Says(s.ann, j, y, v)
      BY <2>5, <2>6, <2>7, <2>11
    <3>3. Count(moved, y, v, j) = Once(Says(s.ann, j, y, v))
      <4>1. CASE j \in DOMAIN kept
        <5>1. Count(moved, y, v, j)
                = (IF Listed(with(j), y, v) THEN 0 ELSE Count(s.mgr, y, v, j))
                  + Once(Listed(with(j), y, v))
          BY <2>2, <2>9, <4>1
        <5> QED BY <2>1, <2>5, <2>7, <2>11, <5>1 DEF Once
      <4>2. CASE j \notin DOMAIN kept
        BY <2>1, <2>2, <4>2
      <4> QED BY <4>1, <4>2
    <3> QED BY <3>1, <3>2, <3>3 DEF Once
  <2>12. CASE j \notin is
    <3>1. Count(m, y, v, j) = Count(s.mgr, y, v, j)
      BY <2>2, <2>3, <2>4, <2>12
    <3> QED BY <2>1, <2>8, <2>12, <3>1 DEF Once
  <2> QED BY <2>10, <2>11, <2>12
<1>5. Shaped(m)
  <2>1. \A i \in DOMAIN kept : s.ann[i] \in Applications /\ kept[i] \subseteq Targets
    BY DEF Restrict, Applications
  <2>2. Shaped(moved)
    <3> HIDE DEF kept
    <3> QED BY <2>1, RetargetShaped
  <2> HIDE DEF moved
  <2> QED BY <2>2, EraseShaped
<1> HIDE DEF new, m
<1>6. Sound(new, m)
  BY <1>3, <1>4, <1>5 DEF Sound
<1> QED BY <1>1, <1>6

-----------------------------------------------------------------------------
\* What passes see.

\* The annotations of the module and the tables a pass gets for them.
Entry == annotations \in [Insts -> Decorates \cup Appliers \cup {Nothing}] /\ Sound(annotations, Current)

\* What f must be for its addresses to be free and its clones just those of cs.
FitsPlaces(f, cs) ==
  /\ DOMAIN f \subseteq Free
  /\ \A i \in DOMAIN f : f[i] \in cs
  /\ \A c \in cs : \E i \in DOMAIN f : f[i] = c

\* Addresses for clones are free, and every clone has one.
LEMMA PlacesFit ==
  ASSUME NEW cs, NEW f \in Places(cs)
  PROVE  FitsPlaces(f, cs)
<1>1. PICK is \in SUBSET Free : f \in Bijection(is, cs)
  BY DEF Places
<1> QED BY <1>1 DEF FitsPlaces, Bijection, Injection, Surjection

\* Without clones none are needed.
LEMMA NoPlacesFit == FitsPlaces(<< >>, {})
BY DEF FitsPlaces

\* What the lists of a manager that is in step hold.
LEMMA InSays ==
  ASSUME NEW ann, NEW m, Sound(ann, m), NEW x \in AllIds, NEW v \in Lists
  PROVE  In(m, x, v) = {i \in Insts : Says(ann, i, x, v)}
<1>1. \A i \in Insts : Count(m, x, v, i) = Once(Says(ann, i, x, v))
  BY DEF Sound
<1> QED BY <1>1 DEF In, Once

\* They are the annotations that concern x.
LEMMA ListsOfEntry ==
  ASSUME Entry, NEW x \in AllIds
  PROVE  /\ DirectOf(x) = DirectlyOn(annotations, x)
         /\ IndirectOf(x) = AppliedTo(annotations, x)
         /\ In(Current, x, "appliers") = AppliersOf(annotations, x)
         /\ x \in Groups => IndirectOf(x) = {}
         /\ x \in Targets => In(Current, x, "appliers") = {}
         /\ \A i \in DirectOf(x) : i \in Insts /\ annotations[i] \in Decorates /\ annotations[i] # Nothing
                                   /\ annotations[i].id = x
         /\ \A i \in IndirectOf(x) : i \in Insts /\ annotations[i] \in Appliers /\ annotations[i] # Nothing
                                     /\ x \in annotations[i].targets
         /\ \A i \in In(Current, x, "appliers") :
              i \in Insts /\ annotations[i] \in Appliers /\ annotations[i] # Nothing
              /\ annotations[i].id = x
<1>1. /\ DirectOf(x) = {i \in Insts : Says(annotations, i, x, "direct")}
      /\ IndirectOf(x) = {i \in Insts : Says(annotations, i, x, "indirect")}
      /\ In(Current, x, "appliers") = {i \in Insts : Says(annotations, i, x, "appliers")}
  <2>1. "direct" \in Lists /\ "indirect" \in Lists /\ "appliers" \in Lists
    BY DEF Lists
  <2> QED BY <2>1, InSays DEF Entry, DirectOf, IndirectOf
<1>2. \A i \in Insts :
        annotations[i] # Nothing => annotations[i] \in Decorates \/ annotations[i] \in Appliers
  BY DEF Entry
<1>3. \A a \in Decorates : a.op = "OpDecorate"
  BY DEF Decorates
<1>4. \A a \in Appliers : a.op # "OpDecorate" /\ a.id \in Groups /\ a.targets \subseteq Targets
  BY DEF Appliers
<1>5. \A i \in Insts :
        /\ Says(annotations, i, x, "direct") <=> i \in DirectlyOn(annotations, x)
        /\ Says(annotations, i, x, "indirect") <=> i \in AppliedTo(annotations, x)
        /\ Says(annotations, i, x, "appliers") <=> i \in AppliersOf(annotations, x)
  BY <1>2, <1>3, <1>4, IdsAssumption
     DEF Says, Listed, DirectlyOn, AppliedTo, AppliersOf, Names
<1>6. DirectlyOn(annotations, x) \subseteq Insts /\ AppliedTo(annotations, x) \subseteq Insts
      /\ AppliersOf(annotations, x) \subseteq Insts
  BY DEF DirectlyOn, AppliedTo, AppliersOf
<1>7. /\ DirectOf(x) = DirectlyOn(annotations, x)
      /\ IndirectOf(x) = AppliedTo(annotations, x)
      /\ In(Current, x, "appliers") = AppliersOf(annotations, x)
  BY <1>1, <1>5, <1>6
<1>8. \A i \in DirectOf(x) : i \in Insts /\ annotations[i] \in Decorates /\ annotations[i] # Nothing
                             /\ annotations[i].id = x
  BY <1>2, <1>4, <1>7 DEF DirectlyOn
<1>9. \A i \in IndirectOf(x) : i \in Insts /\ annotations[i] \in Appliers /\ annotations[i] # Nothing
                               /\ x \in annotations[i].targets
  BY <1>2, <1>3, <1>7 DEF AppliedTo, Names
<1>10. \A i \in In(Current, x, "appliers") :
         i \in Insts /\ annotations[i] \in Appliers /\ annotations[i] # Nothing
         /\ annotations[i].id = x
  BY <1>2, <1>3, <1>7 DEF AppliersOf
<1>11. x \in Groups => IndirectOf(x) = {}
  BY <1>4, <1>9, IdsAssumption
<1>12. x \in Targets => In(Current, x, "appliers") = {}
  BY <1>4, <1>10, IdsAssumption
<1> QED BY <1>7, <1>8, <1>9, <1>10, <1>11, <1>12

-----------------------------------------------------------------------------
\* RemoveDecorationsFrom.

\* What RemoveDecorationsFrom makes of the annotation at i.
AfterRemoval(x, p, f, i) ==
  IF i \in DOMAIN f THEN [annotations[f[i][2]] EXCEPT !.id = x]
  ELSE IF i \in DirectOf(x) /\ annotations[i].dec \in p THEN Nothing
  ELSE IF i \in StrippedAppliers(x, p)
       THEN IF annotations[i].targets = {x} THEN Nothing
            ELSE [annotations[i] EXCEPT !.targets = @ \ {x}]
  ELSE IF i \in In(Current, x, "appliers") /\ \A d \in DirectOf(x) : annotations[d].dec \in p
       THEN Nothing
  ELSE annotations[i]

\* An entry without instructions can go.
LEMMA EraseIfEmptyIsSound ==
  ASSUME NEW s, Sound(s.ann, s.mgr), NEW x \in AllIds
  PROVE  /\ EraseIfEmpty(s, x).ann = s.ann
         /\ Sound(s.ann, EraseIfEmpty(s, x).mgr)
<1> DEFINE less == Restrict(s.mgr, DOMAIN s.mgr \ {x})
<1>1. CASE \A v \in Lists : In(s.mgr, x, v) = {}
  <2>1. ASSUME NEW y \in AllIds, NEW v \in Lists, NEW i \in Insts
        PROVE  Count(less, y, v, i) = Count(s.mgr, y, v, i)
    <3>1. CASE y = x
      <4>1. Count(less, y, v, i) = 0
        BY <3>1 DEF Count, Restrict
      <4>2. Count(s.mgr, y, v, i) \in {0, 1}
        BY DEF Sound, Once
      <4>3. ~(Count(s.mgr, y, v, i) > 0)
        BY <1>1, <3>1 DEF In
      <4> QED BY <4>1, <4>2, <4>3
    <3>2. CASE y # x
      BY <3>2 DEF Count, Restrict
    <3> QED BY <3>1, <3>2
  <2>2. Shaped(less)
    BY DEF Sound, Shaped, Restrict
  <2> HIDE DEF less
  <2>3. Sound(s.ann, less)
    BY <2>1, <2>2 DEF Sound
  <2>4. EraseIfEmpty(s, x) = [ann |-> s.ann, mgr |-> less]
    BY <1>1 DEF EraseIfEmpty, less
  <2> QED BY <2>3, <2>4
<1>2. CASE ~ \A v \in Lists : In(s.mgr, x, v) = {}
  BY <1>2 DEF EraseIfEmpty
<1> QED BY <1>1, <1>2

\* Removing decorations keeps the manager in step, and this is what it does.
LEMMA RemovalIsSound ==
  ASSUME Entry, NEW x \in AllIds, NEW p, NEW f, FitsPlaces(f, ToClone(x, p))
  PROVE  /\ Sound(RemoveDecorationsFrom(x, p, f).ann, RemoveDecorationsFrom(x, p, f).mgr)
         /\ \A i \in Insts : RemoveDecorationsFrom(x, p, f).ann[i] = AfterRemoval(x, p, f, i)
<1> DEFINE is == StrippedAppliers(x, p)
           dead == {i \in DirectOf(x) : annotations[i].dec \in p} \cup Emptied(is, x)
           wasGroup == In(Current, x, "appliers") # {}
           s1 == Strip(State, x, is)
           s2 == Clones(s1, f, x)
           s3 == Kill(s2, dead)
           s4 == KillAppliers(s3, x, wasGroup)
           s5 == EraseIfEmpty(s4, x)
           without(i) == [annotations[i] EXCEPT !.targets = @ \ {x}]
           clone(i) == [annotations[f[i][2]] EXCEPT !.id = x]
<1>0. Sound(State.ann, State.mgr) /\ State.ann = annotations /\ State.mgr = Current
  BY DEF Entry, State
<1>1. /\ is \subseteq IndirectOf(x) /\ is \subseteq Insts
      /\ \A i \in is : /\ annotations[i] \in Applications /\ annotations[i] # Nothing
                       /\ i \notin DirectOf(x) /\ i \notin Free
  <2>1. is \subseteq IndirectOf(x)
    BY DEF StrippedAppliers
  <2>2. \A i \in IndirectOf(x) : i \in Insts /\ annotations[i] \in Appliers /\ annotations[i] # Nothing
    BY ListsOfEntry
  <2>3. \A i \in DirectOf(x) : annotations[i] \in Decorates
    BY ListsOfEntry
  <2> HIDE DEF is
  <2> QED BY <2>1, <2>2, <2>3 DEF Appliers, Applications, Decorates, Free, Live
<1>2. \A i \in DOMAIN f : /\ i \in Insts /\ annotations[i] = Nothing /\ i \notin is
                          /\ f[i][2] \in Insts /\ f[i][2] \notin is
                          /\ annotations[f[i][2]] \in Decorates
  <2> SUFFICES ASSUME NEW i \in DOMAIN f
               PROVE  /\ i \in Insts /\ annotations[i] = Nothing /\ i \notin is
                      /\ f[i][2] \in Insts /\ f[i][2] \notin is
                      /\ annotations[f[i][2]] \in Decorates
    OBVIOUS
  <2>1. i \in Free /\ f[i] \in ToClone(x, p)
    BY DEF FitsPlaces
  <2>2. i \in Insts /\ annotations[i] = Nothing
    BY <2>1 DEF Free, Live
  <2>3. f[i][1] \in is /\ f[i][2] \in Insts /\ f[i][2] \in DirectOf(annotations[f[i][1]].id)
    BY <2>1 DEF ToClone, KeptBy
  <2>4. annotations[f[i][1]].id \in AllIds
    BY <1>1, <2>3 DEF Applications, AllIds
  <2>5. annotations[f[i][2]] \in Decorates
    BY <2>3, <2>4, ListsOfEntry
  <2> HIDE DEF is
  <2>6. f[i][2] \notin is
    BY <1>1, <2>5 DEF Applications, Decorates
  <2> QED BY <1>1, <2>1, <2>2, <2>3, <2>5, <2>6
<1>3. Sound(s1.ann, s1.mgr)
  <2> HIDE DEF is
  <2> QED BY <1>0, <1>1, StripIsSound
<1>4. /\ \A i \in is : s1.ann[i] = without(i)
      /\ \A i \in Insts \ is : s1.ann[i] = annotations[i]
  <2> HIDE DEF is
  <2>1. \A i \in is : State.ann[i].targets \ {x} = annotations[i].targets \ {x}
    BY <1>0
  <2>2. s1.ann = [i \in Insts |-> IF i \in is
                    THEN [State.ann[i] EXCEPT !.targets = State.ann[i].targets \ {x}] ELSE State.ann[i]]
    BY DEF Strip
  <2> HIDE DEF s1
  <2> QED BY <1>0, <1>1, <2>1, <2>2
<1>5. Sound(s2.ann, s2.mgr)
  <2>1. \A i \in DOMAIN f : /\ i \in Insts /\ s1.ann[i] = Nothing
                            /\ f[i][2] \in Insts /\ s1.ann[f[i][2]] \in Decorates
    <3> HIDE DEF is, s1
    <3> QED BY <1>2, <1>4
  <2> HIDE DEF s1
  <2> QED BY <1>3, <2>1, ClonesAreSound
<1>6. /\ \A i \in DOMAIN f : s2.ann[i] = clone(i) /\ clone(i) \in Decorates
      /\ \A i \in is : s2.ann[i] = without(i)
      /\ \A i \in Insts \ (is \cup DOMAIN f) : s2.ann[i] = annotations[i]
  <2>1. s2.ann = [i \in Insts |-> IF i \in DOMAIN f THEN [s1.ann[f[i][2]] EXCEPT !.id = x] ELSE s1.ann[i]]
    BY DEF Clones
  <2> HIDE DEF is, s1, s2
  <2>2. \A i \in DOMAIN f : s2.ann[i] = clone(i)
    BY <1>2, <1>4, <2>1
  <2>3. \A i \in DOMAIN f : clone(i) \in Decorates
    BY <1>2 DEF Decorates
  <2>4. \A i \in is : s2.ann[i] = without(i)
    BY <1>1, <1>2, <1>4, <2>1
  <2> QED BY <1>4, <2>1, <2>2, <2>3, <2>4
<1>7. /\ \A i \in dead : i \in Insts /\ i \notin DOMAIN f
      /\ \A i \in dead : s2.ann[i] # Nothing
      /\ \A i \in is : without(i) \in Applications /\ without(i) # Nothing
  <2>1. \A i \in DirectOf(x) : i \in Insts /\ annotations[i] # Nothing
    BY ListsOfEntry
  <2>2. Emptied(is, x) \subseteq is
    BY DEF Emptied
  <2> HIDE DEF is, s2
  <2>3. \A i \in is : without(i) \in Applications
    BY <1>1 DEF Applications
  <2>4. \A i \in is : without(i) # Nothing
    BY <2>3, IdsAssumption DEF Applications
  <2>5. \A i \in dead : i \in Insts /\ i \notin DOMAIN f
    BY <1>1, <1>2, <2>1, <2>2
  <2> QED BY <1>1, <1>6, <2>1, <2>2, <2>3, <2>4, <2>5
<1>8. Sound(s3.ann, s3.mgr)
  <2> HIDE DEF dead, s2
  <2> QED BY <1>5, <1>7, KillIsSound
<1>9. \A i \in Insts : s3.ann[i] = IF i \in dead THEN Nothing ELSE s2.ann[i]
  BY DEF Kill
<1>10. ASSUME wasGroup
       PROVE  /\ is = {} /\ DOMAIN f = {} /\ dead = {i \in DirectOf(x) : annotations[i].dec \in p}
              /\ In(s3.mgr, x, "direct") = DirectOf(x) \ dead
              /\ In(s3.mgr, x, "indirect") = {}
              /\ In(s3.mgr, x, "appliers") = In(Current, x, "appliers")
  <2>1. x \in Groups
    BY <1>10, ListsOfEntry DEF AllIds
  <2>2. IndirectOf(x) = {}
    BY <2>1, ListsOfEntry
  <2>3. is = {}
    BY <1>1, <2>2
  <2>4. DOMAIN f = {}
    <3>1. ToClone(x, p) = {}
      BY <2>3 DEF ToClone
    <3> QED BY <3>1 DEF FitsPlaces
  <2>5. dead = {i \in DirectOf(x) : annotations[i].dec \in p}
    BY <2>3 DEF Emptied
  <2>6. \A i \in Insts : s3.ann[i] = IF i \in dead THEN Nothing ELSE annotations[i]
    <3> HIDE DEF is, dead, s3, s2
    <3> QED BY <1>6, <1>9, <2>3, <2>4
  <2>7. \A v \in Lists : In(s3.mgr, x, v) = {i \in Insts : Says(s3.ann, i, x, v)}
    <3> HIDE DEF s3
    <3> QED BY <1>8, InSays
  <2>8. \A v \in Lists : In(Current, x, v) = {i \in Insts : Says(annotations, i, x, v)}
    BY InSays DEF Entry
  <2> HIDE DEF s3, dead
  <2>9. \A v \in Lists : In(s3.mgr, x, v) = In(Current, x, v) \ dead
    BY <2>6, <2>7, <2>8 DEF Says
  <2>10. "direct" \in Lists /\ "indirect" \in Lists /\ "appliers" \in Lists
    BY DEF Lists
  <2>11. In(Current, x, "appliers") \cap dead = {}
    <3>1. \A i \in DirectOf(x) : annotations[i] \in Decorates
      BY ListsOfEntry
    <3>2. \A i \in In(Current, x, "appliers") : annotations[i] \in Appliers
      BY ListsOfEntry
    <3> QED BY <2>5, <3>1, <3>2 DEF Decorates, Appliers
  <2>12. In(s3.mgr, x, "direct") = DirectOf(x) \ dead
    BY <2>9, <2>10 DEF DirectOf
  <2>13. In(s3.mgr, x, "indirect") = {}
    BY <2>2, <2>9, <2>10 DEF IndirectOf
  <2>14. In(s3.mgr, x, "appliers") = In(Current, x, "appliers")
    BY <2>9, <2>10, <2>11
  <2> HIDE DEF is
  <2> QED BY <2>3, <2>4, <2>5, <2>12, <2>13, <2>14
<1>11. Sound(s4.ann, s4.mgr)
  <2>1. CASE s4 = s3
    <3> HIDE DEF s4, s3
    <3> QED BY <1>8, <2>1
  <2>2. CASE s4 = Kill(s3, In(s3.mgr, x, "appliers"))
    <3>1. "appliers" \in Lists
      BY DEF Lists
    <3> HIDE DEF s3
    <3>2. \A i \in In(s3.mgr, x, "appliers") : s3.ann[i] # Nothing
      BY <1>8, <3>1, InSays DEF Says
    <3>3. Sound(Kill(s3, In(s3.mgr, x, "appliers")).ann, Kill(s3, In(s3.mgr, x, "appliers")).mgr)
      BY <1>8, <3>2, KillIsSound
    <3> HIDE DEF s4
    <3> QED BY <2>2, <3>3
  <2> HIDE DEF s3
  <2> QED BY <2>1, <2>2 DEF KillAppliers
<1>12. \A i \in Insts :
         s4.ann[i] = IF /\ i \in In(Current, x, "appliers")
                        /\ \A d \in DirectOf(x) : annotations[d].dec \in p
                     THEN Nothing ELSE s3.ann[i]
  <2>1. CASE wasGroup
    <3>1. In(s3.mgr, x, "direct") = {} <=> \A d \in DirectOf(x) : annotations[d].dec \in p
      <4> HIDE DEF s3
      <4> QED BY <1>10, <2>1
    <3>2. \A i : Kill(s3, In(s3.mgr, x, "appliers")).ann
                  = [j \in Insts |-> IF j \in In(s3.mgr, x, "appliers") THEN Nothing ELSE s3.ann[j]]
      BY DEF Kill
    <3> HIDE DEF s3, is, dead
    <3>3. s4 = IF \A d \in DirectOf(x) : annotations[d].dec \in p
               THEN Kill(s3, In(s3.mgr, x, "appliers")) ELSE s3
      BY <1>10, <2>1, <3>1 DEF KillAppliers
    <3> HIDE DEF s4
    <3> QED BY <1>10, <2>1, <3>2, <3>3
  <2>2. CASE ~wasGroup
    <3> HIDE DEF s3
    <3>1. s4 = s3
      BY <2>2 DEF KillAppliers
    <3> HIDE DEF s4
    <3> QED BY <2>2, <3>1
  <2> QED BY <2>1, <2>2
<1>13. s5.ann = s4.ann /\ Sound(s5.ann, s5.mgr)
  <2> HIDE DEF s4
  <2> QED BY <1>11, EraseIfEmptyIsSound
<1>14. CASE x \in DOMAIN Current
  <2>1. RemoveDecorationsFrom(x, p, f) = s5
    BY <1>14 DEF RemoveDecorationsFrom
  <2>2. \A i \in is : i \in Emptied(is, x) <=> annotations[i].targets = {x}
    BY DEF Emptied
  <2>3. \A i \in is : i \notin DirectOf(x) /\ i \notin In(Current, x, "appliers")
    <3>1. \A i \in is : i \in IndirectOf(x)
      BY <1>1
    <3>2. In(Current, x, "appliers") # {} => IndirectOf(x) = {}
      BY ListsOfEntry DEF AllIds
    <3> HIDE DEF is
    <3> QED BY <1>1, <3>1, <3>2
  <2>4. \A i \in In(Current, x, "appliers") : annotations[i] # Nothing
    BY ListsOfEntry
  <2>5. \A i \in Insts : s5.ann[i] = AfterRemoval(x, p, f, i)
    <3> SUFFICES ASSUME NEW i \in Insts PROVE s5.ann[i] = AfterRemoval(x, p, f, i)
      OBVIOUS
    <3>1. i \in dead <=> \/ i \in DirectOf(x) /\ annotations[i].dec \in p
                         \/ i \in is /\ annotations[i].targets = {x}
      BY <2>2 DEF Emptied
    <3>2. AfterRemoval(x, p, f, i) =
            IF i \in DOMAIN f THEN clone(i)
            ELSE IF i \in DirectOf(x) /\ annotations[i].dec \in p THEN Nothing
            ELSE IF i \in is THEN IF annotations[i].targets = {x} THEN Nothing ELSE without(i)
            ELSE IF i \in In(Current, x, "appliers") /\ \A d \in DirectOf(x) : annotations[d].dec \in p
                 THEN Nothing
            ELSE annotations[i]
      BY DEF AfterRemoval
    <3> HIDE DEF is, dead, s2, s3, s4, s5, without, clone
    <3>3. s5.ann[i] = IF /\ i \in In(Current, x, "appliers")
                         /\ \A d \in DirectOf(x) : annotations[d].dec \in p
                      THEN Nothing ELSE s3.ann[i]
      BY <1>12, <1>13
    <3>4. s3.ann[i] = IF i \in dead THEN Nothing ELSE s2.ann[i]
      BY <1>9
    <3>5. CASE i \in DOMAIN f
      <4>1. i \notin dead /\ s2.ann[i] = clone(i) /\ annotations[i] = Nothing
        BY <1>2, <1>6, <1>7, <3>5
      <4>2. i \notin In(Current, x, "appliers")
        BY <2>4, <4>1
      <4> QED BY <3>2, <3>3, <3>4, <3>5, <4>1, <4>2
    <3>6. CASE i \notin DOMAIN f /\ i \in is
      <4>1. s2.ann[i] = without(i)
        BY <1>6, <3>6
      <4> QED BY <2>3, <3>1, <3>2, <3>3, <3>4, <3>6, <4>1
    <3>7. CASE i \notin DOMAIN f /\ i \notin is
      <4>1. s2.ann[i] = annotations[i]
        BY <1>6, <3>7
      <4> QED BY <3>1, <3>2, <3>3, <3>4, <3>7, <4>1
    <3> QED BY <3>5, <3>6, <3>7
  <2> HIDE DEF s5
  <2> QED BY <1>13, <2>1, <2>5
<1>15. CASE x \notin DOMAIN Current
  <2>1. RemoveDecorationsFrom(x, p, f) = State
    BY <1>15 DEF RemoveDecorationsFrom
  <2>2. DirectOf(x) = {} /\ IndirectOf(x) = {} /\ In(Current, x, "appliers") = {}
    BY <1>15 DEF DirectOf, IndirectOf, In, Count
  <2>3. is = {}
    BY <1>1, <2>2
  <2>4. DOMAIN f = {}
    <3>1. ToClone(x, p) = {}
      BY <2>3 DEF ToClone
    <3> QED BY <3>1 DEF FitsPlaces
  <2>5. \A i \in Insts : AfterRemoval(x, p, f, i) = annotations[i]
    BY <2>2, <2>3, <2>4 DEF AfterRemoval
  <2> QED BY <1>0, <2>1, <2>5
<1> QED BY <1>14, <1>15

-----------------------------------------------------------------------------
\* The invariant, over removals,

\* The inductive invariant.
DecorationInv == TypeOK /\ Tracked /\ NoneNamesTheDead

Typed(ann) == ann \in [Insts -> Decorates \cup Appliers \cup {Nothing}]

\* A pass that asks for the manager gets one in step with the module.
LEMMA EntryHolds == DecorationInv => Entry
<1> SUFFICES ASSUME DecorationInv PROVE Entry
  OBVIOUS
<1>1. Typed(annotations) /\ Shaped(manager)
  BY DEF DecorationInv, TypeOK, Shaped, Typed
<1>2. \A a \in Appliers : a \in Applications
  BY DEF Appliers, Applications
<1>3. annotations \in [Insts -> Annots \cup {Nothing}]
  BY <1>1, <1>2 DEF Typed, Annots
<1>4. CASE valid
  <2>1. Records(manager, annotations)
    BY <1>4 DEF DecorationInv, Tracked
  <2>2. Sound(annotations, manager)
    BY <1>1, <1>3, <2>1, SoundIsRecorded
  <2> QED BY <1>1, <1>4, <2>2 DEF Entry, Current, Typed
<1>5. CASE ~valid
  BY <1>1, <1>3, <1>5, AnalyzedIsSound DEF Entry, Current, Typed
<1> QED BY <1>4, <1>5

\* What a step on the module and its manager has to establish.
LEMMA BecomeKeeps ==
  ASSUME NEW s, Sound(s.ann, s.mgr), Typed(s.ann), Become(s), valid' = TRUE,
         ids' \subseteq AllIds,
         \A i \in Insts : s.ann[i] # Nothing => Names(s.ann[i]) \subseteq ids'
  PROVE  DecorationInv'
<1>1. annotations' = s.ann /\ manager' = s.mgr
  BY DEF Become
<1>2. Records(s.mgr, s.ann)
  BY SoundIsRecorded DEF Sound
<1>3. Tracked'
  BY <1>1, <1>2 DEF Tracked, Records, DirectlyOn, AppliedTo, AppliersOf, Names, Count
<1>4. TypeOK'
  BY <1>1 DEF TypeOK, Typed, Sound, Shaped
<1>5. NoneNamesTheDead'
  BY <1>1 DEF NoneNamesTheDead, Live, Names
<1> QED BY <1>3, <1>4, <1>5 DEF DecorationInv

\* A removal leaves annotations, without applications that have no target.
LEMMA RemovalIsTyped ==
  ASSUME Entry, NEW x \in AllIds, NEW p, NEW f, FitsPlaces(f, ToClone(x, p))
  PROVE  Typed(RemoveDecorationsFrom(x, p, f).ann)
<1> DEFINE ann == RemoveDecorationsFrom(x, p, f).ann
<1>1. /\ ann \in [Insts -> Annots \cup {Nothing}]
      /\ \A i \in Insts : ann[i] = AfterRemoval(x, p, f, i)
  BY RemovalIsSound DEF Sound
<1>2. \A i \in StrippedAppliers(x, p) : annotations[i] \in Appliers
  <2>1. StrippedAppliers(x, p) \subseteq IndirectOf(x)
    BY DEF StrippedAppliers
  <2> QED BY <2>1, ListsOfEntry
<1>3. \A i \in DOMAIN f : annotations[f[i][2]] \in Decorates
  <2> SUFFICES ASSUME NEW i \in DOMAIN f PROVE annotations[f[i][2]] \in Decorates
    OBVIOUS
  <2>1. f[i] \in ToClone(x, p)
    BY DEF FitsPlaces
  <2>2. f[i][1] \in StrippedAppliers(x, p) /\ f[i][2] \in DirectOf(annotations[f[i][1]].id)
    BY <2>1 DEF ToClone, KeptBy
  <2>3. annotations[f[i][1]].id \in AllIds
    BY <1>2, <2>2 DEF Appliers, AllIds
  <2> QED BY <2>2, <2>3, ListsOfEntry
<1>4. \A i \in Insts : AfterRemoval(x, p, f, i) \in Decorates \cup Appliers \cup {Nothing}
  <2> SUFFICES ASSUME NEW i \in Insts
               PROVE  AfterRemoval(x, p, f, i) \in Decorates \cup Appliers \cup {Nothing}
    OBVIOUS
  <2>1. annotations[i] \in Decorates \cup Appliers \cup {Nothing}
    BY DEF Entry
  <2>2. i \in DOMAIN f => [annotations[f[i][2]] EXCEPT !.id = x] \in Decorates
    BY <1>3 DEF Decorates
  <2>3. i \in StrippedAppliers(x, p) /\ annotations[i].targets # {x} =>
          [annotations[i] EXCEPT !.targets = @ \ {x}] \in Appliers
    BY <1>2 DEF Appliers
  <2> QED BY <2>1, <2>2, <2>3 DEF AfterRemoval
<1> HIDE DEF ann
<1>5. Typed(ann)
  BY <1>1, <1>4 DEF Typed
<1> QED BY <1>5 DEF ann

\* After a removal the annotations name what they named, and clones x.
LEMMA RemovalNames ==
  ASSUME Entry, NoneNamesTheDead, NEW x \in ids, ids \subseteq AllIds, NEW p, NEW f,
         FitsPlaces(f, ToClone(x, p)), NEW i \in Insts,
         AfterRemoval(x, p, f, i) # Nothing
  PROVE  Names(AfterRemoval(x, p, f, i)) \subseteq ids
<1> DEFINE stripped == [annotations[i] EXCEPT !.targets = @ \ {x}]
           clone == [annotations[f[i][2]] EXCEPT !.id = x]
<1>1. \A j \in StrippedAppliers(x, p) : annotations[j] \in Appliers /\ annotations[j] # Nothing /\ j \in Insts
  <2>1. StrippedAppliers(x, p) \subseteq IndirectOf(x)
    BY DEF StrippedAppliers
  <2> QED BY <2>1, ListsOfEntry
<1>2. CASE i \in DOMAIN f
  <2>1. f[i] \in ToClone(x, p)
    BY <1>2 DEF FitsPlaces
  <2>2. f[i][1] \in StrippedAppliers(x, p) /\ f[i][2] \in DirectOf(annotations[f[i][1]].id)
    BY <2>1 DEF ToClone, KeptBy
  <2>3. annotations[f[i][1]].id \in AllIds
    BY <1>1, <2>2 DEF Appliers, AllIds
  <2>4. annotations[f[i][2]] \in Decorates
    BY <2>2, <2>3, ListsOfEntry
  <2>5. Names(clone) = {x}
    BY <2>4 DEF Names, Decorates
  <2> QED BY <1>2, <2>5 DEF AfterRemoval
<1>3. CASE i \notin DOMAIN f /\ i \in StrippedAppliers(x, p)
  <2>1. Names(annotations[i]) \subseteq ids
    BY <1>1, <1>3 DEF NoneNamesTheDead, Live
  <2>2. Names(stripped) \subseteq Names(annotations[i])
    BY <1>1, <1>3 DEF Names, Appliers
  <2>3. AfterRemoval(x, p, f, i) = stripped
    BY <1>3 DEF AfterRemoval
  <2> QED BY <2>1, <2>2, <2>3
<1>4. CASE i \notin DOMAIN f /\ i \notin StrippedAppliers(x, p)
  <2>1. AfterRemoval(x, p, f, i) = annotations[i] /\ annotations[i] # Nothing
    BY <1>4 DEF AfterRemoval
  <2> QED BY <2>1 DEF NoneNamesTheDead, Live
<1> QED BY <1>2, <1>3, <1>4

\* RemoveDecorationsFrom keeps the invariant: its clones name the id alone.
LEMMA RemoveKeeps ==
  ASSUME DecorationInv, NEW x \in AllIds, NEW p \in SUBSET Decs, Remove(x, p)
  PROVE  DecorationInv'
<1>1. PICK f \in Places(ToClone(x, p)) : Become(RemoveDecorationsFrom(x, p, f))
  BY DEF Remove
<1> DEFINE s == RemoveDecorationsFrom(x, p, f)
<1>2. FitsPlaces(f, ToClone(x, p)) /\ Entry
  BY PlacesFit, EntryHolds
<1>3. Sound(s.ann, s.mgr) /\ \A i \in Insts : s.ann[i] = AfterRemoval(x, p, f, i)
  BY <1>2, RemovalIsSound
<1>4. Typed(s.ann)
  BY <1>2, RemovalIsTyped
<1>5. x \in ids /\ ids \subseteq AllIds /\ ids' = ids /\ valid' = TRUE
  BY DEF Remove, DecorationInv, TypeOK
<1> HIDE DEF s
<1>6. \A i \in Insts : s.ann[i] # Nothing => Names(s.ann[i]) \subseteq ids
  BY <1>2, <1>3, <1>5, RemovalNames DEF DecorationInv
<1> QED BY <1>1, <1>3, <1>4, <1>5, <1>6, BecomeKeeps DEF s

\* Nothing names an id all whose decorations were removed.
LEMMA KillDefKeeps ==
  ASSUME DecorationInv, NEW x \in AllIds, KillDef(x)
  PROVE  DecorationInv'
<1> DEFINE s == RemoveDecorationsFrom(x, Decs, << >>)
<1>1. Entry /\ x \in ids /\ ids \subseteq AllIds /\ ids' = ids \ {x} /\ valid' = TRUE /\ Become(s)
  BY EntryHolds DEF KillDef, DecorationInv, TypeOK
<1>2. /\ \A i \in DirectOf(x) : annotations[i].dec \in Decs
      /\ \A i \in IndirectOf(x) : KeptBy(i, Decs) = {}
  <2>1. \A z \in AllIds : \A d \in DirectOf(z) : annotations[d].dec \in Decs
    <3>1. \A z \in AllIds : \A d \in DirectOf(z) : annotations[d] \in Decorates
      BY <1>1, ListsOfEntry
    <3> QED BY <3>1 DEF Decorates
  <2>2. \A i \in IndirectOf(x) : annotations[i].id \in AllIds
    <3>1. \A i \in IndirectOf(x) : annotations[i] \in Appliers
      BY <1>1, ListsOfEntry
    <3> QED BY <3>1 DEF Appliers, AllIds
  <2> QED BY <2>1, <2>2 DEF KeptBy
<1>3. StrippedAppliers(x, Decs) = IndirectOf(x)
  BY <1>2 DEF StrippedAppliers
<1>4. ToClone(x, Decs) = {}
  BY <1>2, <1>3 DEF ToClone
<1>5. FitsPlaces(<< >>, ToClone(x, Decs))
  BY <1>4, NoPlacesFit
<1>6. Sound(s.ann, s.mgr) /\ \A i \in Insts : s.ann[i] = AfterRemoval(x, Decs, << >>, i)
  BY <1>1, <1>5, RemovalIsSound
<1>7. Typed(s.ann)
  BY <1>1, <1>5, RemovalIsTyped
<1>8. ASSUME NEW i \in Insts, s.ann[i] # Nothing
      PROVE  Names(s.ann[i]) \subseteq ids \ {x}
  <2>1. Names(s.ann[i]) \subseteq ids
    BY <1>1, <1>5, <1>6, <1>8, RemovalNames DEF DecorationInv
  <2>2. s.ann[i] = IF i \in DirectOf(x) THEN Nothing
                   ELSE IF i \in IndirectOf(x)
                        THEN IF annotations[i].targets = {x} THEN Nothing
                             ELSE [annotations[i] EXCEPT !.targets = @ \ {x}]
                   ELSE IF i \in In(Current, x, "appliers") THEN Nothing
                   ELSE annotations[i]
    BY <1>2, <1>3, <1>6 DEF AfterRemoval
  <2>3. x \notin Names(s.ann[i])
    <3>1. CASE i \in IndirectOf(x)
      <4>1. annotations[i] \in Appliers /\ x \in annotations[i].targets
        BY <1>1, <3>1, ListsOfEntry
      <4>2. s.ann[i] = [annotations[i] EXCEPT !.targets = @ \ {x}]
        BY <1>8, <2>2, <3>1
      <4> HIDE DEF s
      <4> QED BY <4>1, <4>2, IdsAssumption DEF Appliers, Names
    <3>2. CASE i \notin IndirectOf(x)
      <4>1. /\ i \notin DirectlyOn(annotations, x) /\ i \notin AppliedTo(annotations, x)
            /\ i \notin AppliersOf(annotations, x)
        BY <1>1, <1>8, <2>2, <3>2, ListsOfEntry
      <4>2. s.ann[i] = annotations[i]
        BY <1>8, <2>2, <3>2
      <4> HIDE DEF s
      <4> QED BY <1>8, <4>1, <4>2 DEF DirectlyOn, AppliedTo, AppliersOf, Names
    <3> QED BY <3>1, <3>2
  <2> QED BY <2>1, <2>3
<1> HIDE DEF s
<1> QED BY <1>1, <1>6, <1>7, <1>8, BecomeKeeps

-----------------------------------------------------------------------------
\* over the clonings,

\* What the clonings take is at addresses, of annotations that decorate.
LEMMA CloneSources ==
  ASSUME Entry, NEW x \in AllIds, NEW p, NEW f,
         FitsPlaces(f, ToCloneAll(x)) \/ FitsPlaces(f, Some(x, p))
  PROVE  \A i \in DOMAIN f : /\ i \in Insts /\ annotations[i] = Nothing
                             /\ f[i][2] \in Insts /\ annotations[f[i][2]] \in Decorates
<1> SUFFICES ASSUME NEW i \in DOMAIN f
             PROVE  /\ i \in Insts /\ annotations[i] = Nothing
                    /\ f[i][2] \in Insts /\ annotations[f[i][2]] \in Decorates
  OBVIOUS
<1>1. i \in Insts /\ annotations[i] = Nothing
  BY DEF FitsPlaces, Free, Live
<1>2. \A z \in AllIds : \A d \in DirectOf(z) : d \in Insts /\ annotations[d] \in Decorates
  BY ListsOfEntry
<1>3. \A j \in IndirectOf(x) : annotations[j].id \in AllIds
  <2>1. \A j \in IndirectOf(x) : annotations[j] \in Appliers
    BY ListsOfEntry
  <2> QED BY <2>1 DEF Appliers, AllIds
<1>4. CASE f[i] \in ToCloneAll(x)
  <2>1. f[i][2] \in DirectOf(x)
    BY <1>4 DEF ToCloneAll
  <2> QED BY <1>1, <1>2, <2>1
<1>5. CASE f[i] \in Some(x, p)
  <2>1. CASE f[i] \in {<<x, d>> : d \in {e \in DirectOf(x) : annotations[e].dec \in p}}
    <3>1. f[i][2] \in DirectOf(x)
      BY <2>1
    <3> QED BY <1>1, <1>2, <3>1
  <2>2. CASE f[i] \in {c \in IndirectOf(x) \X Insts :
                         c[2] \in DirectOf(annotations[c[1]].id) /\ annotations[c[2]].dec \in p}
    <3>1. f[i][1] \in IndirectOf(x) /\ f[i][2] \in DirectOf(annotations[f[i][1]].id)
      BY <2>2
    <3> QED BY <1>1, <1>2, <1>3, <3>1
  <2> QED BY <1>5, <2>1, <2>2 DEF Some
<1> QED BY <1>4, <1>5 DEF FitsPlaces

\* Adding clones to the module as it is.
LEMMA ClonesOfState ==
  ASSUME Entry, NEW y \in AllIds, NEW f,
         \A i \in DOMAIN f : /\ i \in Insts /\ annotations[i] = Nothing
                             /\ f[i][2] \in Insts /\ annotations[f[i][2]] \in Decorates
  PROVE  /\ Sound(Clones(State, f, y).ann, Clones(State, f, y).mgr)
         /\ Typed(Clones(State, f, y).ann)
         /\ \A i \in Insts :
              Clones(State, f, y).ann[i] = IF i \in DOMAIN f
                                           THEN [annotations[f[i][2]] EXCEPT !.id = y]
                                           ELSE annotations[i]
<1>1. State.ann = annotations /\ Sound(State.ann, State.mgr)
  BY DEF State, Entry
<1>2. Sound(Clones(State, f, y).ann, Clones(State, f, y).mgr)
  BY <1>1, ClonesAreSound
<1>3. Clones(State, f, y).ann = [i \in Insts |-> IF i \in DOMAIN f THEN [annotations[f[i][2]] EXCEPT !.id = y]
                                               ELSE annotations[i]]
  BY <1>1 DEF Clones
<1>4. \A i \in DOMAIN f : [annotations[f[i][2]] EXCEPT !.id = y] \in Decorates
  BY DEF Decorates
<1>5. \A i \in Insts : annotations[i] \in Decorates \cup Appliers \cup {Nothing}
  BY DEF Entry
<1>6. Typed(Clones(State, f, y).ann)
  BY <1>3, <1>4, <1>5 DEF Typed
<1> QED BY <1>2, <1>3, <1>6

\* What CloneDecorations makes of the annotation at i.
AfterCloning(x, y, f, i) ==
  IF i \in DOMAIN f THEN [annotations[f[i][2]] EXCEPT !.id = y]
  ELSE IF i \in IndirectOf(x) THEN [annotations[i] EXCEPT !.targets = @ \cup {y}]
  ELSE annotations[i]

\* Cloning decorations keeps the manager in step, and this is what it does.
LEMMA CloningIsSound ==
  ASSUME Entry, NEW x \in AllIds, NEW y \in Targets, NEW f, FitsPlaces(f, ToCloneAll(x))
  PROVE  /\ Sound(CloneDecorations(x, y, f).ann, CloneDecorations(x, y, f).mgr)
         /\ Typed(CloneDecorations(x, y, f).ann)
         /\ \A i \in Insts : CloneDecorations(x, y, f).ann[i] = AfterCloning(x, y, f, i)
<1> DEFINE s == Clones(State, f, y)
           targets == [i \in IndirectOf(x) |-> annotations[i].targets]
           more == [i \in IndirectOf(x) |-> targets[i] \cup {y}]
<1>1. y \in AllIds
  BY DEF AllIds
<1>2. \A i \in DOMAIN f : /\ i \in Insts /\ annotations[i] = Nothing
                          /\ f[i][2] \in Insts /\ annotations[f[i][2]] \in Decorates
  BY CloneSources
<1>3. /\ Sound(s.ann, s.mgr) /\ Typed(s.ann)
      /\ \A i \in Insts : s.ann[i] = IF i \in DOMAIN f THEN [annotations[f[i][2]] EXCEPT !.id = y]
                                     ELSE annotations[i]
  BY <1>1, <1>2, ClonesOfState
<1>4. CloneDecorations(x, y, f) = Retarget(s, targets, more)
  BY DEF CloneDecorations
<1>5. \A i \in IndirectOf(x) : /\ i \in Insts /\ annotations[i] \in Appliers /\ annotations[i] # Nothing
                               /\ i \notin DOMAIN f
  BY <1>2, ListsOfEntry
<1> HIDE DEF s
<1>6. \A i \in IndirectOf(x) : s.ann[i] = annotations[i]
  BY <1>3, <1>5
<1>7. \A i \in DOMAIN more : /\ i \in Insts /\ s.ann[i] \in Applications
                             /\ targets[i] = s.ann[i].targets /\ more[i] \subseteq Targets
  BY <1>5, <1>6 DEF Appliers, Applications
<1>8. Sound(Retarget(s, targets, more).ann, Retarget(s, targets, more).mgr)
  <2> HIDE DEF targets, more
  <2> QED BY <1>3, <1>7, RetargetIsSound
<1>9. Retarget(s, targets, more).ann
        = [i \in Insts |-> IF i \in IndirectOf(x) THEN [annotations[i] EXCEPT !.targets = @ \cup {y}]
                           ELSE s.ann[i]]
  <2>1. Retarget(s, targets, more).ann
          = [i \in Insts |-> IF i \in DOMAIN more THEN [s.ann[i] EXCEPT !.targets = more[i]] ELSE s.ann[i]]
    BY DEF Retarget
  <2>2. \A i \in IndirectOf(x) : [s.ann[i] EXCEPT !.targets = more[i]]
                                   = [annotations[i] EXCEPT !.targets = @ \cup {y}]
    BY <1>6
  <2>3. DOMAIN more = IndirectOf(x)
    OBVIOUS
  <2> HIDE DEF more
  <2> QED BY <2>1, <2>2, <2>3
<1>10. \A i \in IndirectOf(x) : [annotations[i] EXCEPT !.targets = @ \cup {y}] \in Appliers
  <2> SUFFICES ASSUME NEW i \in IndirectOf(x)
               PROVE  [annotations[i] EXCEPT !.targets = @ \cup {y}] \in Appliers
    OBVIOUS
  <2>1. annotations[i].targets \cup {y} \in (SUBSET Targets) \ {{}}
    <3> DEFINE ts == annotations[i].targets \cup {y}
    <3>1. ts \subseteq Targets /\ y \in ts
      BY <1>5 DEF Appliers
    <3> HIDE DEF ts
    <3>2. ts # {}
      BY <3>1
    <3>3. ts \in SUBSET Targets /\ ts \notin {{}}
      BY <3>1, <3>2
    <3>4. ts \in (SUBSET Targets) \ {{}}
      BY <3>3
    <3> QED BY <3>4 DEF ts
  <2> QED BY <1>5, <2>1 DEF Appliers
<1>11. Typed(Retarget(s, targets, more).ann)
  <2>1. \A i \in Insts : s.ann[i] \in Decorates \cup Appliers \cup {Nothing}
    BY <1>3 DEF Typed
  <2> HIDE DEF targets, more
  <2> QED BY <1>9, <1>10, <2>1 DEF Typed
<1>12. \A i \in Insts : Retarget(s, targets, more).ann[i] = AfterCloning(x, y, f, i)
  BY <1>3, <1>5, <1>9 DEF AfterCloning
<1> HIDE DEF targets, more
<1> QED BY <1>4, <1>8, <1>11, <1>12

\* CloneDecorations keeps it: what it adds names the new id, which is defined.
LEMMA CloneKeeps ==
  ASSUME DecorationInv, NEW x \in AllIds, NEW y \in AllIds, Clone(x, y)
  PROVE  DecorationInv'
<1>1. PICK f \in Places(ToCloneAll(x)) : Become(CloneDecorations(x, y, f))
  BY DEF Clone
<1> DEFINE s == CloneDecorations(x, y, f)
<1>2. FitsPlaces(f, ToCloneAll(x)) /\ Entry /\ y \in Targets /\ y \in ids
  BY PlacesFit, EntryHolds DEF Clone, Undecorated
<1>3. Sound(s.ann, s.mgr) /\ Typed(s.ann) /\ \A i \in Insts : s.ann[i] = AfterCloning(x, y, f, i)
  BY <1>2, CloningIsSound
<1>4. ids \subseteq AllIds /\ ids' = ids /\ valid' = TRUE
  BY DEF Clone, DecorationInv, TypeOK
<1>5. \A i \in DOMAIN f : annotations[f[i][2]] \in Decorates
  BY <1>2, CloneSources
<1>6. \A i \in IndirectOf(x) : annotations[i] \in Appliers /\ annotations[i] # Nothing /\ i \in Insts
  BY <1>2, ListsOfEntry
<1> HIDE DEF s
<1>7. ASSUME NEW i \in Insts, s.ann[i] # Nothing
      PROVE  Names(s.ann[i]) \subseteq ids
  <2>1. CASE i \in DOMAIN f
    <3>1. s.ann[i] = [annotations[f[i][2]] EXCEPT !.id = y]
      BY <1>3, <2>1 DEF AfterCloning
    <3>2. Names(s.ann[i]) = {y}
      BY <1>5, <2>1, <3>1 DEF Names, Decorates
    <3> QED BY <1>2, <3>2
  <2>2. CASE i \notin DOMAIN f /\ i \in IndirectOf(x)
    <3>1. s.ann[i] = [annotations[i] EXCEPT !.targets = @ \cup {y}]
      BY <1>3, <2>2 DEF AfterCloning
    <3>2. Names(s.ann[i]) \subseteq Names(annotations[i]) \cup {y}
      BY <1>6, <2>2, <3>1 DEF Names, Appliers
    <3>3. Names(annotations[i]) \subseteq ids
      BY <1>6, <2>2 DEF DecorationInv, NoneNamesTheDead, Live
    <3> QED BY <1>2, <3>2, <3>3
  <2>3. CASE i \notin DOMAIN f /\ i \notin IndirectOf(x)
    <3>1. s.ann[i] = annotations[i]
      BY <1>3, <2>3 DEF AfterCloning
    <3> QED BY <1>7, <3>1 DEF DecorationInv, NoneNamesTheDead, Live
  <2> QED BY <2>1, <2>2, <2>3
<1> QED BY <1>1, <1>3, <1>4, <1>7, BecomeKeeps DEF s

\* So do the clones of some decorations.
LEMMA CloneSomeKeeps ==
  ASSUME DecorationInv, NEW x \in AllIds, NEW y \in AllIds, NEW p \in SUBSET Decs,
         CloneSome(x, y, p)
  PROVE  DecorationInv'
<1>1. PICK f \in Places(Some(x, p)) : Become(Clones(State, f, y))
  BY DEF CloneSome
<1> DEFINE s == Clones(State, f, y)
<1>2. FitsPlaces(f, Some(x, p)) /\ Entry /\ y \in ids
  BY PlacesFit, EntryHolds DEF CloneSome, Undecorated
<1>3. \A i \in DOMAIN f : /\ i \in Insts /\ annotations[i] = Nothing
                          /\ f[i][2] \in Insts /\ annotations[f[i][2]] \in Decorates
  BY <1>2, CloneSources
<1>4. /\ Sound(s.ann, s.mgr) /\ Typed(s.ann)
      /\ \A i \in Insts : s.ann[i] = IF i \in DOMAIN f THEN [annotations[f[i][2]] EXCEPT !.id = y]
                                     ELSE annotations[i]
  BY <1>2, <1>3, ClonesOfState
<1>5. ids \subseteq AllIds /\ ids' = ids /\ valid' = TRUE
  BY DEF CloneSome, DecorationInv, TypeOK
<1> HIDE DEF s
<1>6. ASSUME NEW i \in Insts, s.ann[i] # Nothing
      PROVE  Names(s.ann[i]) \subseteq ids
  <2>1. CASE i \in DOMAIN f
    <3>1. s.ann[i] = [annotations[f[i][2]] EXCEPT !.id = y]
      BY <1>4, <2>1
    <3>2. Names(s.ann[i]) = {y}
      BY <1>3, <2>1, <3>1 DEF Names, Decorates
    <3> QED BY <1>2, <3>2
  <2>2. CASE i \notin DOMAIN f
    <3>1. s.ann[i] = annotations[i]
      BY <1>4, <2>2
    <3> QED BY <1>6, <3>1 DEF DecorationInv, NoneNamesTheDead, Live
  <2> QED BY <2>1, <2>2
<1> QED BY <1>1, <1>4, <1>5, <1>6, BecomeKeeps DEF s

-----------------------------------------------------------------------------
\* and over the rest.

\* A manager without entries.
LEMMA NoEntries == Shaped(<< >>)
BY DEF Shaped

\* AddAnnotationInst keeps it, whether the manager is valid or not.
LEMMA AddKeeps ==
  ASSUME DecorationInv, NEW i \in Insts, NEW a \in Decorates \cup Appliers, AddAnnotation(i, a)
  PROVE  DecorationInv'
<1>1. /\ annotations' = [annotations EXCEPT ![i] = a] /\ annotations[i] = Nothing
      /\ Names(a) \subseteq ids /\ ids' = ids /\ valid' = valid
      /\ manager' = IF valid THEN AddDecoration(manager, i, a) ELSE manager
  BY DEF AddAnnotation, Free, Live
<1>2. a \in Annots
  BY DEF Annots, Appliers, Applications
<1>3. Entry /\ annotations \in [Insts -> Decorates \cup Appliers \cup {Nothing}]
  BY EntryHolds DEF DecorationInv, TypeOK
<1>4. valid => Sound(annotations', manager')
  BY <1>1, <1>2, <1>3, AddIsSound DEF Entry, Current
<1>5. valid => Tracked'
  <2>1. \A m, ann : Sound(ann, m) => Records(m, ann)
    BY SoundIsRecorded DEF Sound
  <2>2. valid => Records(manager', annotations')
    BY <1>4, <2>1
  <2> QED BY <2>2 DEF Tracked, Records, DirectlyOn, AppliedTo, AppliersOf, Names, Count
<1>6. Tracked'
  BY <1>1, <1>5 DEF Tracked
<1>7. TypeOK'
  <2>1. annotations' \in [Insts -> Decorates \cup Appliers \cup {Nothing}]
    BY <1>1, <1>3
  <2>2. Shaped(manager')
    BY <1>1, <1>4 DEF Sound, DecorationInv, TypeOK, Shaped
  <2> QED BY <1>1, <2>1, <2>2 DEF DecorationInv, TypeOK, Shaped
<1>8. NoneNamesTheDead'
  BY <1>1, <1>3 DEF DecorationInv, NoneNamesTheDead, Live, Names
<1> QED BY <1>6, <1>7, <1>8 DEF DecorationInv

\* KillInst of an annotation too.
LEMMA KillAnnotationKeeps ==
  ASSUME DecorationInv, NEW i \in Insts, KillAnnotation(i)
  PROVE  DecorationInv'
<1>1. /\ annotations' = [annotations EXCEPT ![i] = Nothing] /\ annotations[i] # Nothing
      /\ ids' = ids /\ valid' = valid
      /\ manager' = IF valid THEN RemoveDecoration(manager, i, annotations[i]) ELSE manager
  BY DEF KillAnnotation, Live
<1>2. Entry /\ annotations \in [Insts -> Decorates \cup Appliers \cup {Nothing}]
  BY EntryHolds DEF DecorationInv, TypeOK
<1>3. valid => Sound(annotations', manager')
  BY <1>1, <1>2, RemoveIsSound DEF Entry, Current
<1>4. valid => Tracked'
  <2>1. \A m, ann : Sound(ann, m) => Records(m, ann)
    BY SoundIsRecorded DEF Sound
  <2>2. valid => Records(manager', annotations')
    BY <1>3, <2>1
  <2> QED BY <2>2 DEF Tracked, Records, DirectlyOn, AppliedTo, AppliersOf, Names, Count
<1>5. Tracked'
  BY <1>1, <1>4 DEF Tracked
<1>6. TypeOK'
  <2>1. annotations' \in [Insts -> Decorates \cup Appliers \cup {Nothing}]
    BY <1>1, <1>2
  <2>2. Shaped(manager')
    BY <1>1, <1>3 DEF Sound, DecorationInv, TypeOK, Shaped
  <2> QED BY <1>1, <2>1, <2>2 DEF DecorationInv, TypeOK, Shaped
<1>7. NoneNamesTheDead'
  BY <1>1, <1>2 DEF DecorationInv, NoneNamesTheDead, Live, Names
<1> QED BY <1>5, <1>6, <1>7 DEF DecorationInv

\* A new manager is sound, and an invalid one says nothing.
LEMMA BuildKeeps ==
  ASSUME DecorationInv, Build \/ Invalidate
  PROVE  DecorationInv'
<1>1. CASE Build
  <2>1. /\ annotations' = annotations /\ ids' = ids /\ valid' = TRUE
        /\ manager' = Current
    BY <1>1 DEF Build, Current
  <2> DEFINE s == State
  <2>2. Sound(s.ann, s.mgr) /\ Typed(s.ann) /\ Become(s)
    BY <2>1, EntryHolds DEF State, Entry, Typed, Become
  <2>3. \A i \in Insts : s.ann[i] # Nothing => Names(s.ann[i]) \subseteq ids
    BY DEF State, DecorationInv, NoneNamesTheDead, Live
  <2>4. ids' \subseteq AllIds
    BY <2>1 DEF DecorationInv, TypeOK
  <2> HIDE DEF s
  <2> QED BY <2>1, <2>2, <2>3, <2>4, BecomeKeeps
<1>2. CASE Invalidate
  <2>1. annotations' = annotations /\ ids' = ids /\ valid' = FALSE /\ manager' = << >>
    BY <1>2 DEF Invalidate
  <2>2. TypeOK'
    <3>1. Shaped(manager')
      BY <2>1, NoEntries
    <3> QED BY <2>1, <3>1 DEF DecorationInv, TypeOK, Shaped
  <2> QED BY <2>1, <2>2 DEF DecorationInv, Tracked, NoneNamesTheDead, Live, Names
<1> QED BY <1>1, <1>2

\* Every step keeps the invariant.
LEMMA NextKeeps == DecorationInv /\ [Next]_vars => DecorationInv'
<1> SUFFICES ASSUME DecorationInv, [Next]_vars PROVE DecorationInv'
  OBVIOUS
<1>1. CASE Next
  <2>1. CASE \E i \in Insts, a \in Decorates \cup Appliers : AddAnnotation(i, a)
    BY <2>1, AddKeeps
  <2>2. CASE \E x \in AllIds : KillDef(x)
    BY <2>2, KillDefKeeps
  <2>3. CASE \E x \in AllIds, p \in SUBSET Decs : Remove(x, p)
    BY <2>3, RemoveKeeps
  <2>4. CASE \E x, y \in AllIds : Clone(x, y)
    BY <2>4, CloneKeeps
  <2>5. CASE \E x, y \in AllIds, p \in SUBSET Decs : CloneSome(x, y, p)
    BY <2>5, CloneSomeKeeps
  <2>6. CASE \E i \in Insts : KillAnnotation(i)
    BY <2>6, KillAnnotationKeeps
  <2>7. CASE Build \/ Invalidate
    BY <2>7, BuildKeeps
  <2> QED BY <1>1, <2>1, <2>2, <2>3, <2>4, <2>5, <2>6, <2>7 DEF Next
<1>2. CASE UNCHANGED vars
  BY <1>2 DEF vars, DecorationInv, TypeOK, Tracked, Records, DirectlyOn, AppliedTo, AppliersOf,
              Names, Count, NoneNamesTheDead, Live
<1> QED BY <1>1, <1>2

\* The inductive invariant, from which the others follow.
THEOREM DecorationInvariant == Spec => []DecorationInv
<1>1. Init => DecorationInv
  <2> SUFFICES ASSUME Init PROVE DecorationInv
    OBVIOUS
  <2>1. TypeOK
    <3>1. Shaped(manager)
      BY NoEntries DEF Init
    <3>2. annotations \in [Insts -> Decorates \cup Appliers \cup {Nothing}]
      BY DEF Init
    <3> QED BY <3>1, <3>2 DEF Init, TypeOK, Shaped
  <2> QED BY <2>1 DEF Init, DecorationInv, Tracked, NoneNamesTheDead, Live
<1> QED BY <1>1, NextKeeps, PTL DEF Spec

\* Lists are kept for ids only, and count instructions.
THEOREM DecorationTypeCorrect == Spec => []TypeOK
<1>1. DecorationInv => TypeOK
  BY DEF DecorationInv
<1> QED BY <1>1, DecorationInvariant, PTL

\* Whatever is added, killed, cloned and removed, the manager says what the
\* annotations of the module say, each once.
THEOREM ManagerIsTracked == Spec => []Tracked
<1>1. DecorationInv => Tracked
  BY DEF DecorationInv
<1> QED BY <1>1, DecorationInvariant, PTL

\* No annotation names an id that was killed.
THEOREM NoDeadNames == Spec => []NoneNamesTheDead
<1>1. DecorationInv => NoneNamesTheDead
  BY DEF DecorationInv
<1> QED BY <1>1, DecorationInvariant, PTL

-----------------------------------------------------------------------------
\* What a removal does to decorations.

\* A decoration of x is on it or on a group applied to it.
LEMMA DecorationsIff ==
  ASSUME NEW ann, NEW x, NEW c
  PROVE  c \in DecorationsOf(ann, x) <=>
           \/ \E d \in DirectlyOn(ann, x) : ann[d].dec = c
           \/ \E i \in AppliedTo(ann, x) : \E d \in DirectlyOn(ann, ann[i].id) : ann[d].dec = c
BY DEF DecorationsOf

\* What annotations are, and what is said of x by which.
LEMMA Saying ==
  ASSUME Entry, NEW x \in AllIds
  PROVE  /\ \A i \in DirectlyOn(annotations, x) :
              /\ i \in Insts /\ annotations[i] \in Decorates /\ annotations[i] # Nothing
              /\ annotations[i].op = "OpDecorate" /\ annotations[i].id = x
         /\ \A i \in AppliedTo(annotations, x) :
              /\ i \in Insts /\ annotations[i] \in Appliers /\ annotations[i] # Nothing
              /\ annotations[i].op # "OpDecorate" /\ annotations[i].id \in Groups
              /\ annotations[i].id \in AllIds /\ annotations[i].id # x
              /\ x \in Targets /\ x \in annotations[i].targets
<1>1. \A i \in DirectlyOn(annotations, x) :
        i \in Insts /\ annotations[i] \in Decorates /\ annotations[i] # Nothing
        /\ annotations[i].op = "OpDecorate" /\ annotations[i].id = x
  BY ListsOfEntry DEF Decorates
<1>2. \A i \in AppliedTo(annotations, x) :
        i \in Insts /\ annotations[i] \in Appliers /\ annotations[i] # Nothing
        /\ x \in annotations[i].targets
  BY ListsOfEntry
<1> QED BY <1>1, <1>2, IdsAssumption DEF Appliers, AllIds

\* A removal leaves the decorations of other ids where they are.
LEMMA RemovalDirect ==
  ASSUME Entry, NEW x \in AllIds, NEW p, NEW f, FitsPlaces(f, ToClone(x, p)),
         NEW ann, \A i \in Insts : ann[i] = AfterRemoval(x, p, f, i),
         NEW z \in AllIds, z # x
  PROVE  /\ DirectlyOn(ann, z) = DirectlyOn(annotations, z)
         /\ \A d \in DirectlyOn(annotations, z) : ann[d] = annotations[d]
<1>1. ASSUME NEW d \in DirectlyOn(annotations, z)
      PROVE  ann[d] = annotations[d] /\ d \in Insts /\ d \in DirectlyOn(ann, z)
  <2>1. d \in Insts /\ annotations[d] \in Decorates /\ annotations[d] # Nothing
        /\ annotations[d].op = "OpDecorate" /\ annotations[d].id = z
    BY Saying
  <2>2. d \notin DOMAIN f
    BY <2>1 DEF FitsPlaces, Free, Live
  <2>3. d \notin DirectOf(x)
    BY <2>1, ListsOfEntry
  <2>4. d \notin IndirectOf(x) /\ d \notin In(Current, x, "appliers")
    <3>1. annotations[d] \notin Appliers
      BY <2>1 DEF Appliers
    <3> QED BY <3>1, ListsOfEntry
  <2>5. d \notin StrippedAppliers(x, p)
    BY <2>4 DEF StrippedAppliers
  <2>6. ann[d] = annotations[d]
    BY <2>1, <2>2, <2>3, <2>4, <2>5 DEF AfterRemoval
  <2> QED BY <2>1, <2>6 DEF DirectlyOn
<1>2. ASSUME NEW d \in DirectlyOn(ann, z)
      PROVE  d \in DirectlyOn(annotations, z)
  <2>1. d \in Insts /\ ann[d] # Nothing /\ ann[d].op = "OpDecorate" /\ ann[d].id = z
    BY DEF DirectlyOn
  <2>2. d \notin DOMAIN f
    <3> SUFFICES ASSUME d \in DOMAIN f PROVE FALSE
      OBVIOUS
    <3>1. ann[d] = [annotations[f[d][2]] EXCEPT !.id = x]
      BY <2>1 DEF AfterRemoval
    <3>2. f[d] \in ToClone(x, p)
      BY DEF FitsPlaces
    <3>3. f[d][1] \in IndirectOf(x) /\ f[d][2] \in DirectOf(annotations[f[d][1]].id)
      BY <3>2 DEF ToClone, KeptBy, StrippedAppliers
    <3>4. annotations[f[d][1]].id \in AllIds
      BY <3>3, ListsOfEntry, Saying
    <3>5. annotations[f[d][2]] \in Decorates
      BY <3>3, <3>4, ListsOfEntry
    <3>6. ann[d].id = x
      BY <3>1, <3>5 DEF Decorates
    <3> QED BY <2>1, <3>6
  <2>3. d \notin StrippedAppliers(x, p)
    <3> SUFFICES ASSUME d \in StrippedAppliers(x, p) PROVE FALSE
      OBVIOUS
    <3>1. d \in IndirectOf(x)
      BY DEF StrippedAppliers
    <3>2. annotations[d] \in Appliers /\ annotations[d] \notin Decorates
      BY <3>1, ListsOfEntry DEF Appliers, Decorates
    <3>3. d \notin DirectOf(x)
      BY <3>2, ListsOfEntry
    <3>4. ann[d] = [annotations[d] EXCEPT !.targets = @ \ {x}]
      BY <2>1, <2>2, <3>3 DEF AfterRemoval
    <3> QED BY <2>1, <3>2, <3>4 DEF Appliers
  <2>4. ann[d] = annotations[d]
    BY <2>1, <2>2, <2>3 DEF AfterRemoval
  <2> QED BY <2>1, <2>4 DEF DirectlyOn
<1> QED BY <1>1, <1>2

\* And the applications of groups to them.
LEMMA RemovalApplied ==
  ASSUME Entry, NEW x \in AllIds, NEW p, NEW f, FitsPlaces(f, ToClone(x, p)),
         NEW ann, \A i \in Insts : ann[i] = AfterRemoval(x, p, f, i),
         NEW z \in AllIds, z # x,
         \A i \in AppliedTo(annotations, z) : annotations[i].id # x
  PROVE  /\ AppliedTo(ann, z) = AppliedTo(annotations, z)
         /\ \A i \in AppliedTo(annotations, z) : ann[i].id = annotations[i].id
<1>1. ASSUME NEW i \in AppliedTo(annotations, z)
      PROVE  ann[i].id = annotations[i].id /\ i \in AppliedTo(ann, z)
  <2>1. /\ i \in Insts /\ annotations[i] \in Appliers /\ annotations[i] # Nothing
        /\ annotations[i].op # "OpDecorate" /\ annotations[i].id # z /\ z \in annotations[i].targets
    BY Saying
  <2>2. i \notin DOMAIN f
    BY <2>1 DEF FitsPlaces, Free, Live
  <2>3. i \notin DirectOf(x)
    <3>1. annotations[i] \notin Decorates
      BY <2>1 DEF Decorates
    <3> QED BY <3>1, ListsOfEntry
  <2>4. i \notin In(Current, x, "appliers")
    BY ListsOfEntry
  <2>5. CASE i \in StrippedAppliers(x, p)
    <3>1. ann[i] = [annotations[i] EXCEPT !.targets = @ \ {x}]
      BY <2>1, <2>2, <2>3, <2>5 DEF AfterRemoval
    <3>2. [annotations[i] EXCEPT !.targets = @ \ {x}] \in Applications
      BY <2>1 DEF Applications, Appliers
    <3>3. /\ ann[i].op # "OpDecorate" /\ ann[i].id = annotations[i].id /\ z \in ann[i].targets
          /\ ann[i] # Nothing
      BY <2>1, <3>1, <3>2, IdsAssumption DEF Appliers, Applications
    <3> QED BY <2>1, <3>3 DEF AppliedTo, Names
  <2>6. CASE i \notin StrippedAppliers(x, p)
    <3>1. ann[i] = annotations[i]
      BY <2>1, <2>2, <2>3, <2>4, <2>6 DEF AfterRemoval
    <3> QED BY <2>1, <3>1 DEF AppliedTo, Names
  <2> QED BY <2>5, <2>6
<1>2. ASSUME NEW i \in AppliedTo(ann, z)
      PROVE  i \in AppliedTo(annotations, z)
  <2>1. /\ i \in Insts /\ ann[i] # Nothing /\ ann[i].op # "OpDecorate"
        /\ z \in ann[i].targets /\ z # ann[i].id
    BY DEF AppliedTo, Names
  <2>2. i \notin DOMAIN f
    <3> SUFFICES ASSUME i \in DOMAIN f PROVE FALSE
      OBVIOUS
    <3>1. ann[i] = [annotations[f[i][2]] EXCEPT !.id = x]
      BY <2>1 DEF AfterRemoval
    <3>2. f[i] \in ToClone(x, p)
      BY DEF FitsPlaces
    <3>3. f[i][1] \in IndirectOf(x) /\ f[i][2] \in DirectOf(annotations[f[i][1]].id)
      BY <3>2 DEF ToClone, KeptBy, StrippedAppliers
    <3>4. annotations[f[i][1]].id \in AllIds
      BY <3>3, ListsOfEntry, Saying
    <3>5. annotations[f[i][2]] \in Decorates
      BY <3>3, <3>4, ListsOfEntry
    <3>6. ann[i].op = "OpDecorate"
      BY <3>1, <3>5 DEF Decorates
    <3> QED BY <2>1, <3>6
  <2>3. CASE i \in StrippedAppliers(x, p)
    <3>1. i \in IndirectOf(x)
      BY <2>3 DEF StrippedAppliers
    <3>2. annotations[i] \in Appliers /\ annotations[i] \notin Decorates /\ annotations[i] # Nothing
      BY <3>1, ListsOfEntry DEF Appliers, Decorates
    <3>3. i \notin DirectOf(x)
      BY <3>2, ListsOfEntry
    <3>4. ann[i] = [annotations[i] EXCEPT !.targets = @ \ {x}]
      BY <2>1, <2>2, <2>3, <3>3 DEF AfterRemoval
    <3>5. z \in annotations[i].targets /\ annotations[i].op # "OpDecorate" /\ annotations[i].id # z
      BY <2>1, <3>2, <3>4 DEF Appliers
    <3> QED BY <2>1, <3>2, <3>5 DEF AppliedTo, Names
  <2>4. CASE i \notin StrippedAppliers(x, p)
    <3>1. ann[i] = annotations[i]
      BY <2>1, <2>2, <2>4 DEF AfterRemoval
    <3> QED BY <2>1, <3>1 DEF AppliedTo, Names
  <2> QED BY <2>3, <2>4
<1> QED BY <1>1, <1>2

\* What a removal leaves on x itself: what was kept, and the clones.
LEMMA RemovalDirectOn ==
  ASSUME Entry, NEW x \in AllIds, NEW p, NEW f, FitsPlaces(f, ToClone(x, p)),
         NEW ann, \A i \in Insts : ann[i] = AfterRemoval(x, p, f, i)
  PROVE  /\ DirectlyOn(ann, x) = {d \in DirectlyOn(annotations, x) : annotations[d].dec \notin p}
                                   \cup DOMAIN f
         /\ \A d \in DOMAIN f : ann[d].dec = annotations[f[d][2]].dec
         /\ \A d \in DirectlyOn(annotations, x) : annotations[d].dec \notin p => ann[d] = annotations[d]
<1>1. ASSUME NEW d \in DOMAIN f
      PROVE  d \in DirectlyOn(ann, x) /\ ann[d].dec = annotations[f[d][2]].dec /\ d \in Insts
  <2>1. d \in Insts /\ f[d] \in ToClone(x, p)
    BY DEF FitsPlaces, Free
  <2>2. ann[d] = [annotations[f[d][2]] EXCEPT !.id = x]
    BY <2>1 DEF AfterRemoval
  <2>3. f[d][1] \in IndirectOf(x) /\ f[d][2] \in DirectOf(annotations[f[d][1]].id)
    BY <2>1 DEF ToClone, KeptBy, StrippedAppliers
  <2>4. annotations[f[d][1]].id \in AllIds
    BY <2>3, ListsOfEntry, Saying
  <2>5. annotations[f[d][2]] \in Decorates
    BY <2>3, <2>4, ListsOfEntry
  <2>6. ann[d] \in Decorates
    BY <2>2, <2>5 DEF Decorates
  <2>7. ann[d] # Nothing /\ ann[d].op = "OpDecorate"
    BY <2>6, IdsAssumption DEF Decorates
  <2>8. ann[d].id = x /\ ann[d].dec = annotations[f[d][2]].dec
    BY <2>2, <2>5 DEF Decorates
  <2> QED BY <2>1, <2>7, <2>8 DEF DirectlyOn
<1>2. ASSUME NEW d \in DirectlyOn(annotations, x), annotations[d].dec \notin p
      PROVE  ann[d] = annotations[d] /\ d \in DirectlyOn(ann, x)
  <2>1. /\ d \in Insts /\ annotations[d] \in Decorates /\ annotations[d] # Nothing
        /\ annotations[d].op = "OpDecorate" /\ annotations[d].id = x
    BY Saying
  <2>2. d \notin DOMAIN f
    BY <2>1 DEF FitsPlaces, Free, Live
  <2>3. annotations[d] \notin Appliers
    BY <2>1 DEF Appliers
  <2>4. d \notin IndirectOf(x) /\ d \notin In(Current, x, "appliers")
    BY <2>3, ListsOfEntry
  <2>5. d \notin StrippedAppliers(x, p)
    BY <2>4 DEF StrippedAppliers
  <2>6. ann[d] = annotations[d]
    BY <1>2, <2>1, <2>2, <2>4, <2>5 DEF AfterRemoval
  <2> QED BY <2>1, <2>6 DEF DirectlyOn
<1>3. ASSUME NEW d \in DirectlyOn(ann, x), d \notin DOMAIN f
      PROVE  d \in DirectlyOn(annotations, x) /\ annotations[d].dec \notin p
  <2>1. d \in Insts /\ ann[d] # Nothing /\ ann[d].op = "OpDecorate" /\ ann[d].id = x
    BY DEF DirectlyOn
  <2>2. d \notin StrippedAppliers(x, p)
    <3> SUFFICES ASSUME d \in StrippedAppliers(x, p) PROVE FALSE
      OBVIOUS
    <3>1. d \in IndirectOf(x)
      BY DEF StrippedAppliers
    <3>2. annotations[d] \in Appliers /\ annotations[d] \notin Decorates
      BY <3>1, ListsOfEntry DEF Appliers, Decorates
    <3>3. d \notin DirectOf(x)
      BY <3>2, ListsOfEntry
    <3>4. ann[d] = [annotations[d] EXCEPT !.targets = @ \ {x}]
      BY <1>3, <2>1, <3>3 DEF AfterRemoval
    <3> QED BY <2>1, <3>2, <3>4 DEF Appliers
  <2>3. ann[d] = annotations[d] /\ ~(d \in DirectOf(x) /\ annotations[d].dec \in p)
    BY <1>3, <2>1, <2>2 DEF AfterRemoval
  <2>4. d \in DirectlyOn(annotations, x)
    BY <2>1, <2>3 DEF DirectlyOn
  <2> QED BY <2>3, <2>4, ListsOfEntry
<1> QED BY <1>1, <1>2, <1>3

\* And the groups that stay applied to it: those that keep all they have.
LEMMA RemovalAppliedTo ==
  ASSUME Entry, NEW x \in AllIds, NEW p, NEW f, FitsPlaces(f, ToClone(x, p)),
         NEW ann, \A i \in Insts : ann[i] = AfterRemoval(x, p, f, i)
  PROVE  /\ AppliedTo(ann, x) = AppliedTo(annotations, x) \ StrippedAppliers(x, p)
         /\ \A i \in AppliedTo(annotations, x) \ StrippedAppliers(x, p) : ann[i] = annotations[i]
<1>1. ASSUME NEW i \in AppliedTo(annotations, x), i \notin StrippedAppliers(x, p)
      PROVE  ann[i] = annotations[i] /\ i \in AppliedTo(ann, x)
  <2>1. /\ i \in Insts /\ annotations[i] \in Appliers /\ annotations[i] # Nothing
        /\ annotations[i].op # "OpDecorate" /\ annotations[i].id # x /\ x \in annotations[i].targets
        /\ x \in Targets
    BY Saying
  <2>2. i \notin DOMAIN f
    BY <2>1 DEF FitsPlaces, Free, Live
  <2>3. i \notin DirectOf(x) /\ i \notin In(Current, x, "appliers")
    <3>1. annotations[i] \notin Decorates
      BY <2>1 DEF Decorates
    <3> QED BY <2>1, <3>1, ListsOfEntry
  <2>4. ann[i] = annotations[i]
    BY <1>1, <2>1, <2>2, <2>3 DEF AfterRemoval
  <2> QED BY <2>1, <2>4 DEF AppliedTo, Names
<1>2. ASSUME NEW i \in AppliedTo(ann, x)
      PROVE  i \in AppliedTo(annotations, x) /\ i \notin StrippedAppliers(x, p)
  <2>1. /\ i \in Insts /\ ann[i] # Nothing /\ ann[i].op # "OpDecorate"
        /\ x \in ann[i].targets /\ x # ann[i].id
    BY DEF AppliedTo, Names
  <2>2. i \notin DOMAIN f
    <3> SUFFICES ASSUME i \in DOMAIN f PROVE FALSE
      OBVIOUS
    <3>1. i \in DirectlyOn(ann, x)
      BY RemovalDirectOn
    <3> QED BY <2>1, <3>1 DEF DirectlyOn
  <2>3. i \notin StrippedAppliers(x, p)
    <3> SUFFICES ASSUME i \in StrippedAppliers(x, p) PROVE FALSE
      OBVIOUS
    <3>1. i \in IndirectOf(x)
      BY DEF StrippedAppliers
    <3>2. annotations[i] \in Appliers /\ annotations[i] \notin Decorates
      BY <3>1, ListsOfEntry DEF Appliers, Decorates
    <3>3. i \notin DirectOf(x)
      BY <3>2, ListsOfEntry
    <3>4. ann[i] = [annotations[i] EXCEPT !.targets = @ \ {x}]
      BY <2>1, <2>2, <3>3 DEF AfterRemoval
    <3> QED BY <2>1, <3>2, <3>4 DEF Appliers
  <2>4. ann[i] = annotations[i]
    BY <2>1, <2>2, <2>3 DEF AfterRemoval
  <2> QED BY <2>1, <2>3, <2>4 DEF AppliedTo, Names
<1> QED BY <1>1, <1>2

\* The decorations that the predicate keeps are those left, on x or by groups.
LEMMA RemovalOfX ==
  ASSUME Entry, NEW x \in AllIds, NEW p, NEW f, FitsPlaces(f, ToClone(x, p)),
         NEW ann, \A i \in Insts : ann[i] = AfterRemoval(x, p, f, i)
  PROVE  DecorationsOf(ann, x) = DecorationsOf(annotations, x) \ p
<1>1. /\ DirectlyOn(ann, x) = {d \in DirectlyOn(annotations, x) : annotations[d].dec \notin p}
                                \cup DOMAIN f
      /\ \A d \in DOMAIN f : ann[d].dec = annotations[f[d][2]].dec
      /\ \A d \in DirectlyOn(annotations, x) : annotations[d].dec \notin p => ann[d] = annotations[d]
  BY RemovalDirectOn
<1>2. /\ AppliedTo(ann, x) = AppliedTo(annotations, x) \ StrippedAppliers(x, p)
      /\ \A i \in AppliedTo(annotations, x) \ StrippedAppliers(x, p) : ann[i] = annotations[i]
  BY RemovalAppliedTo
<1>3. \A i \in AppliedTo(annotations, x) :
        /\ annotations[i].id \in AllIds /\ annotations[i].id # x /\ i \in Insts
        /\ DirectOf(annotations[i].id) = DirectlyOn(annotations, annotations[i].id)
        /\ DirectlyOn(ann, annotations[i].id) = DirectlyOn(annotations, annotations[i].id)
        /\ \A d \in DirectlyOn(annotations, annotations[i].id) : ann[d] = annotations[d] /\ d \in Insts
  <2> SUFFICES ASSUME NEW i \in AppliedTo(annotations, x)
               PROVE  /\ annotations[i].id \in AllIds /\ annotations[i].id # x /\ i \in Insts
                      /\ DirectOf(annotations[i].id) = DirectlyOn(annotations, annotations[i].id)
                      /\ DirectlyOn(ann, annotations[i].id) = DirectlyOn(annotations, annotations[i].id)
                      /\ \A d \in DirectlyOn(annotations, annotations[i].id) :
                           ann[d] = annotations[d] /\ d \in Insts
    OBVIOUS
  <2>1. annotations[i].id \in AllIds /\ annotations[i].id # x /\ i \in Insts
    BY Saying
  <2> DEFINE g == annotations[i].id
  <2>2. g \in AllIds /\ g # x
    BY <2>1
  <2> HIDE DEF g
  <2>3. DirectOf(g) = DirectlyOn(annotations, g)
    BY <2>2, ListsOfEntry
  <2>4. /\ DirectlyOn(ann, g) = DirectlyOn(annotations, g)
        /\ \A d \in DirectlyOn(annotations, g) : ann[d] = annotations[d]
    BY <2>2, RemovalDirect
  <2>5. \A d \in DirectlyOn(annotations, g) : d \in Insts
    BY DEF DirectlyOn
  <2> QED BY <2>1, <2>3, <2>4, <2>5 DEF g
<1>4. IndirectOf(x) = AppliedTo(annotations, x)
  BY ListsOfEntry
<1>5. \A i \in AppliedTo(annotations, x) :
        KeptBy(i, p) = {d \in DirectlyOn(annotations, annotations[i].id) : annotations[d].dec \notin p}
  BY <1>3 DEF KeptBy
<1>6. ASSUME NEW c, c \in DecorationsOf(ann, x)
      PROVE  c \in DecorationsOf(annotations, x) /\ c \notin p
  <2>1. ASSUME NEW d \in DirectlyOn(ann, x), ann[d].dec = c
        PROVE  c \in DecorationsOf(annotations, x) /\ c \notin p
    <3>1. CASE d \in DOMAIN f
      <4>1. f[d] \in ToClone(x, p)
        BY <3>1 DEF FitsPlaces
      <4>2. f[d][1] \in AppliedTo(annotations, x) /\ f[d][2] \in KeptBy(f[d][1], p)
        BY <1>4, <4>1 DEF ToClone, StrippedAppliers
      <4>3. /\ f[d][2] \in DirectlyOn(annotations, annotations[f[d][1]].id)
            /\ annotations[f[d][2]].dec \notin p
        BY <1>5, <4>2
      <4>4. annotations[f[d][2]].dec = c
        BY <1>1, <2>1, <3>1
      <4> QED BY <4>2, <4>3, <4>4, DecorationsIff
    <3>2. CASE d \notin DOMAIN f
      <4>1. d \in DirectlyOn(annotations, x) /\ annotations[d].dec \notin p /\ ann[d] = annotations[d]
        BY <1>1, <3>2
      <4> QED BY <2>1, <4>1, DecorationsIff
    <3> QED BY <3>1, <3>2
  <2>2. ASSUME NEW i \in AppliedTo(ann, x), NEW d \in DirectlyOn(ann, ann[i].id), ann[d].dec = c
        PROVE  c \in DecorationsOf(annotations, x) /\ c \notin p
    <3>1. /\ i \in AppliedTo(annotations, x) /\ i \notin StrippedAppliers(x, p)
          /\ ann[i] = annotations[i]
      BY <1>2
    <3>2. /\ d \in DirectlyOn(annotations, annotations[i].id) /\ ann[d] = annotations[d]
      BY <1>3, <3>1
    <3>3. KeptBy(i, p) = DirectOf(annotations[i].id)
      BY <1>4, <3>1 DEF StrippedAppliers
    <3>4. annotations[d].dec \notin p
      BY <1>3, <1>5, <3>1, <3>2, <3>3
    <3> QED BY <2>2, <3>1, <3>2, <3>4, DecorationsIff
  <2> QED BY <1>6, <2>1, <2>2, DecorationsIff
<1>7. ASSUME NEW c, c \in DecorationsOf(annotations, x), c \notin p
      PROVE  c \in DecorationsOf(ann, x)
  <2>1. ASSUME NEW d \in DirectlyOn(annotations, x), annotations[d].dec = c
        PROVE  c \in DecorationsOf(ann, x)
    <3>1. d \in DirectlyOn(ann, x) /\ ann[d] = annotations[d]
      BY <1>1, <1>7, <2>1
    <3> QED BY <2>1, <3>1, DecorationsIff
  <2>2. ASSUME NEW i \in AppliedTo(annotations, x),
               NEW d \in DirectlyOn(annotations, annotations[i].id), annotations[d].dec = c
        PROVE  c \in DecorationsOf(ann, x)
    <3>1. CASE i \in StrippedAppliers(x, p)
      <4>1. <<i, d>> \in ToClone(x, p)
        <5>1. d \in KeptBy(i, p) /\ d \in Insts
          BY <1>3, <1>5, <1>7, <2>2
        <5> QED BY <3>1, <5>1 DEF ToClone
      <4>2. PICK j \in DOMAIN f : f[j] = <<i, d>>
        BY <4>1 DEF FitsPlaces
      <4>3. j \in DirectlyOn(ann, x) /\ ann[j].dec = annotations[d].dec
        BY <1>1, <4>2
      <4> QED BY <2>2, <4>3, DecorationsIff
    <3>2. CASE i \notin StrippedAppliers(x, p)
      <4>1. i \in AppliedTo(ann, x) /\ ann[i] = annotations[i]
        BY <1>2, <3>2
      <4>2. d \in DirectlyOn(ann, ann[i].id) /\ ann[d] = annotations[d]
        BY <1>3, <4>1
      <4> QED BY <2>2, <4>1, <4>2, DecorationsIff
    <3> QED BY <3>1, <3>2
  <2> QED BY <1>7, <2>1, <2>2, DecorationsIff
<1> QED BY <1>6, <1>7

\* Other ids keep what they have, unless the id was a group of theirs.
LEMMA RemovalOfOthers ==
  ASSUME Entry, NEW x \in AllIds, NEW p, NEW f, FitsPlaces(f, ToClone(x, p)),
         NEW ann, \A i \in Insts : ann[i] = AfterRemoval(x, p, f, i),
         NEW y \in AllIds, y # x, \A i \in AppliedTo(annotations, y) : annotations[i].id # x
  PROVE  DecorationsOf(ann, y) = DecorationsOf(annotations, y)
<1>1. /\ DirectlyOn(ann, y) = DirectlyOn(annotations, y)
      /\ \A d \in DirectlyOn(annotations, y) : ann[d] = annotations[d]
  BY RemovalDirect
<1>2. /\ AppliedTo(ann, y) = AppliedTo(annotations, y)
      /\ \A i \in AppliedTo(annotations, y) : ann[i].id = annotations[i].id
  BY RemovalApplied
<1>3. ASSUME NEW i \in AppliedTo(annotations, y)
      PROVE  /\ DirectlyOn(ann, annotations[i].id) = DirectlyOn(annotations, annotations[i].id)
             /\ \A d \in DirectlyOn(annotations, annotations[i].id) : ann[d] = annotations[d]
  <2> DEFINE g == annotations[i].id
  <2>1. g \in AllIds /\ g # x
    BY Saying
  <2> HIDE DEF g
  <2>2. /\ DirectlyOn(ann, g) = DirectlyOn(annotations, g)
        /\ \A d \in DirectlyOn(annotations, g) : ann[d] = annotations[d]
    BY <2>1, RemovalDirect
  <2> QED BY <2>2 DEF g
<1>4. ASSUME NEW c
      PROVE  c \in DecorationsOf(ann, y) <=> c \in DecorationsOf(annotations, y)
  <2>1. (\E d \in DirectlyOn(ann, y) : ann[d].dec = c)
          <=> \E d \in DirectlyOn(annotations, y) : annotations[d].dec = c
    BY <1>1
  <2>2. (\E i \in AppliedTo(ann, y) : \E d \in DirectlyOn(ann, ann[i].id) : ann[d].dec = c)
          <=> \E i \in AppliedTo(annotations, y) :
                \E d \in DirectlyOn(annotations, annotations[i].id) : annotations[d].dec = c
    BY <1>2, <1>3
  <2> QED BY <2>1, <2>2, DecorationsIff
<1> QED BY <1>4

\* A removal takes just the decorations it is asked for off just that id.
THEOREM RemovalIsExact == Spec => []RemovesJustThose
<1>1. DecorationInv => RemovesJustThose
  <2> SUFFICES ASSUME DecorationInv, NEW x \in ids, NEW p \in SUBSET Decs, NEW f \in Places(ToClone(x, p))
               PROVE  LET ann == RemoveDecorationsFrom(x, p, f).ann
                      IN  /\ DecorationsOf(ann, x) = DecorationsOf(annotations, x) \ p
                          /\ \A y \in AllIds \ {x} :
                               (\A i \in AppliedTo(annotations, y) : annotations[i].id # x) =>
                                 DecorationsOf(ann, y) = DecorationsOf(annotations, y)
    BY DEF RemovesJustThose
  <2> DEFINE ann == RemoveDecorationsFrom(x, p, f).ann
  <2>1. Entry /\ x \in AllIds /\ FitsPlaces(f, ToClone(x, p))
    BY EntryHolds, PlacesFit DEF DecorationInv, TypeOK
  <2>2. \A i \in Insts : ann[i] = AfterRemoval(x, p, f, i)
    BY <2>1, RemovalIsSound
  <2> HIDE DEF ann
  <2>3. DecorationsOf(ann, x) = DecorationsOf(annotations, x) \ p
    BY <2>1, <2>2, RemovalOfX
  <2>4. \A y \in AllIds \ {x} :
          (\A i \in AppliedTo(annotations, y) : annotations[i].id # x) =>
            DecorationsOf(ann, y) = DecorationsOf(annotations, y)
    BY <2>1, <2>2, RemovalOfOthers
  <2> QED BY <2>3, <2>4 DEF ann
<1> QED BY <1>1, DecorationInvariant, PTL

-----------------------------------------------------------------------------
\* What the clonings do to them.

\* What adding clones for y alone makes of the annotation at i.
AfterClones(y, f, i) ==
  IF i \in DOMAIN f THEN [annotations[f[i][2]] EXCEPT !.id = y] ELSE annotations[i]

\* What an id that nothing decorates has.
LEMMA NothingOn ==
  ASSUME Entry, NEW y, Undecorated(y)
  PROVE  /\ y \in Targets /\ y \in AllIds
         /\ DirectlyOn(annotations, y) = {} /\ AppliedTo(annotations, y) = {}
<1>1. y \in Targets /\ y \in AllIds
  BY DEF Undecorated, AllIds
<1>2. \A i \in Insts : annotations[i] # Nothing => y \notin Names(annotations[i])
  BY DEF Undecorated, Live
<1>3. DirectlyOn(annotations, y) = {}
  BY <1>2 DEF DirectlyOn, Names
<1>4. AppliedTo(annotations, y) = {}
  BY <1>2 DEF AppliedTo
<1> QED BY <1>1, <1>3, <1>4

\* Where clones for y are added, the decorations that were on other ids are
\* there still, and on y are the clones.
LEMMA CloningDirect ==
  ASSUME Entry, NEW x \in AllIds, NEW y, Undecorated(y), NEW f,
         \A i \in DOMAIN f : /\ i \in Insts /\ annotations[i] = Nothing
                             /\ f[i][2] \in Insts /\ annotations[f[i][2]] \in Decorates,
         NEW ann,
         \A i \in Insts : ann[i] = AfterCloning(x, y, f, i) \/ ann[i] = AfterClones(y, f, i)
  PROVE  /\ DirectlyOn(ann, y) = DOMAIN f
         /\ \A d \in DOMAIN f : ann[d].dec = annotations[f[d][2]].dec
         /\ \A z \in AllIds \ {y} :
              /\ DirectlyOn(ann, z) = DirectlyOn(annotations, z)
              /\ \A d \in DirectlyOn(annotations, z) : ann[d] = annotations[d]
<1>1. ASSUME NEW d \in DOMAIN f
      PROVE  /\ d \in DirectlyOn(ann, y) /\ ann[d].dec = annotations[f[d][2]].dec
             /\ \A z \in AllIds \ {y} : d \notin DirectlyOn(ann, z)
  <2>1. ann[d] = [annotations[f[d][2]] EXCEPT !.id = y]
    BY DEF AfterCloning, AfterClones
  <2>2. ann[d] \in Decorates /\ ann[d].id = y /\ ann[d].dec = annotations[f[d][2]].dec
    BY <2>1, NothingOn DEF Decorates
  <2>3. ann[d] # Nothing /\ ann[d].op = "OpDecorate"
    BY <2>2, IdsAssumption DEF Decorates
  <2> QED BY <2>2, <2>3 DEF DirectlyOn
<1>2. ASSUME NEW i \in IndirectOf(x), i \notin DOMAIN f
      PROVE  /\ i \in Insts /\ ann[i].op # "OpDecorate" /\ annotations[i].op # "OpDecorate"
  <2>1. i \in Insts /\ annotations[i] \in Appliers
    BY ListsOfEntry
  <2>2. [annotations[i] EXCEPT !.targets = @ \cup {y}] \in Applications
    BY <2>1, NothingOn DEF Appliers, Applications
  <2>3. ann[i] \in Applications
    <3>1. annotations[i] \in Applications
      BY <2>1 DEF Appliers, Applications
    <3> QED BY <1>2, <2>1, <2>2, <3>1 DEF AfterCloning, AfterClones
  <2> QED BY <2>1, <2>3 DEF Appliers, Applications
<1>3. ASSUME NEW i \in Insts, i \notin DOMAIN f, i \notin IndirectOf(x)
      PROVE  ann[i] = annotations[i]
  BY <1>3 DEF AfterCloning, AfterClones
<1>4. \A d \in DirectlyOn(ann, y) : d \in DOMAIN f
  <2> SUFFICES ASSUME NEW d \in DirectlyOn(ann, y), d \notin DOMAIN f PROVE FALSE
    OBVIOUS
  <2>1. d \in Insts /\ ann[d] # Nothing /\ ann[d].op = "OpDecorate" /\ ann[d].id = y
    BY DEF DirectlyOn
  <2>2. ann[d] = annotations[d]
    BY <1>2, <1>3, <2>1
  <2>3. d \in DirectlyOn(annotations, y)
    BY <2>1, <2>2 DEF DirectlyOn
  <2> QED BY <2>3, NothingOn
<1>5. ASSUME NEW z \in AllIds \ {y}
      PROVE  /\ DirectlyOn(ann, z) = DirectlyOn(annotations, z)
             /\ \A d \in DirectlyOn(annotations, z) : ann[d] = annotations[d]
  <2>1. ASSUME NEW d \in DirectlyOn(annotations, z)
        PROVE  ann[d] = annotations[d] /\ d \in DirectlyOn(ann, z)
    <3>1. d \in Insts /\ annotations[d] # Nothing /\ annotations[d].op = "OpDecorate" /\ annotations[d].id = z
      BY DEF DirectlyOn
    <3>2. ann[d] = annotations[d]
      BY <1>2, <1>3, <3>1
    <3> QED BY <3>1, <3>2 DEF DirectlyOn
  <2>2. ASSUME NEW d \in DirectlyOn(ann, z)
        PROVE  d \in DirectlyOn(annotations, z)
    <3>1. d \in Insts /\ ann[d] # Nothing /\ ann[d].op = "OpDecorate" /\ ann[d].id = z
      BY DEF DirectlyOn
    <3>2. ann[d] = annotations[d]
      BY <1>1, <1>2, <1>3, <3>1
    <3> QED BY <3>1, <3>2 DEF DirectlyOn
  <2> QED BY <2>1, <2>2
<1> QED BY <1>1, <1>4, <1>5

\* CloneDecorations adds y to the groups of x and leaves the others'.
LEMMA CloningApplied ==
  ASSUME Entry, NEW x \in AllIds, NEW y, Undecorated(y), NEW f,
         \A i \in DOMAIN f : /\ i \in Insts /\ annotations[i] = Nothing
                             /\ f[i][2] \in Insts /\ annotations[f[i][2]] \in Decorates,
         NEW ann, \A i \in Insts : ann[i] = AfterCloning(x, y, f, i)
  PROVE  /\ AppliedTo(ann, y) = AppliedTo(annotations, x)
         /\ \A z \in AllIds \ {y} : AppliedTo(ann, z) = AppliedTo(annotations, z)
         /\ \A i \in Insts : i \notin DOMAIN f => ann[i].id = annotations[i].id
<1>1. \A i \in DOMAIN f : i \in Insts /\ ann[i].op = "OpDecorate"
  <2> SUFFICES ASSUME NEW i \in DOMAIN f PROVE i \in Insts /\ ann[i].op = "OpDecorate"
    OBVIOUS
  <2>1. ann[i] = [annotations[f[i][2]] EXCEPT !.id = y]
    BY DEF AfterCloning
  <2> QED BY <2>1 DEF Decorates
<1>2. ASSUME NEW i \in IndirectOf(x)
      PROVE  /\ i \in Insts /\ i \notin DOMAIN f /\ annotations[i] \in Appliers /\ annotations[i] # Nothing
             /\ x \in annotations[i].targets
             /\ ann[i] \in Applications /\ ann[i] # Nothing
             /\ ann[i].id = annotations[i].id /\ ann[i].targets = annotations[i].targets \cup {y}
  <2>1. i \in Insts /\ annotations[i] \in Appliers /\ annotations[i] # Nothing /\ x \in annotations[i].targets
    BY ListsOfEntry
  <2>2. i \notin DOMAIN f
    BY <2>1
  <2>3. ann[i] = [annotations[i] EXCEPT !.targets = @ \cup {y}]
    BY <2>1, <2>2 DEF AfterCloning
  <2>4. ann[i] \in Applications
    BY <2>1, <2>3, NothingOn DEF Appliers, Applications
  <2>5. ann[i] # Nothing
    BY <2>4, IdsAssumption DEF Applications
  <2>6. ann[i].id = annotations[i].id /\ ann[i].targets = annotations[i].targets \cup {y}
    BY <2>1, <2>3 DEF Appliers
  <2> QED BY <2>1, <2>2, <2>4, <2>5, <2>6
<1>3. ASSUME NEW i \in Insts, i \notin DOMAIN f, i \notin IndirectOf(x)
      PROVE  ann[i] = annotations[i]
  BY <1>3 DEF AfterCloning
<1>4. \A a \in Appliers \cup Applications : a.op # "OpDecorate" /\ a.id \in Groups
  BY DEF Appliers, Applications
<1>5. IndirectOf(x) = AppliedTo(annotations, x) /\ y \in Targets /\ AppliedTo(annotations, y) = {}
  BY ListsOfEntry, NothingOn
<1>6. AppliedTo(ann, y) = AppliedTo(annotations, x)
  <2>1. ASSUME NEW i \in AppliedTo(annotations, x)
        PROVE  i \in AppliedTo(ann, y)
    <3>1. i \in IndirectOf(x)
      BY <1>5
    <3>2. /\ i \in Insts /\ ann[i] # Nothing /\ ann[i].op # "OpDecorate"
          /\ y \in ann[i].targets /\ ann[i].id \in Groups
      BY <1>2, <1>4, <3>1
    <3>3. ann[i].id # y
      BY <1>5, <3>2, IdsAssumption
    <3> QED BY <3>2, <3>3 DEF AppliedTo, Names
  <2>2. ASSUME NEW i \in AppliedTo(ann, y)
        PROVE  i \in AppliedTo(annotations, x)
    <3> SUFFICES ASSUME i \notin IndirectOf(x) PROVE FALSE
      BY <1>5
    <3>1. i \in Insts /\ ann[i] # Nothing /\ ann[i].op # "OpDecorate" /\ y \in Names(ann[i]) \ {ann[i].id}
      BY DEF AppliedTo
    <3>2. ann[i] = annotations[i]
      BY <1>1, <1>3, <3>1
    <3>3. i \in AppliedTo(annotations, y)
      BY <3>1, <3>2 DEF AppliedTo
    <3> QED BY <1>5, <3>3
  <2> QED BY <2>1, <2>2
<1>7. ASSUME NEW z \in AllIds \ {y}
      PROVE  AppliedTo(ann, z) = AppliedTo(annotations, z)
  <2>1. ASSUME NEW i \in Insts, i \in IndirectOf(x)
        PROVE  i \in AppliedTo(ann, z) <=> i \in AppliedTo(annotations, z)
    <3>1. /\ annotations[i] # Nothing /\ ann[i] # Nothing
          /\ annotations[i].op # "OpDecorate" /\ ann[i].op # "OpDecorate"
          /\ ann[i].id = annotations[i].id /\ ann[i].targets = annotations[i].targets \cup {y}
      BY <1>2, <1>4, <2>1
    <3> QED BY <3>1 DEF AppliedTo, Names
  <2>2. ASSUME NEW i \in Insts, i \notin IndirectOf(x)
        PROVE  i \in AppliedTo(ann, z) <=> i \in AppliedTo(annotations, z)
    <3>1. CASE i \in DOMAIN f
      BY <1>1, <3>1 DEF AppliedTo
    <3>2. CASE i \notin DOMAIN f
      <4>1. ann[i] = annotations[i]
        BY <1>3, <2>2, <3>2
      <4> QED BY <4>1 DEF AppliedTo
    <3> QED BY <3>1, <3>2
  <2>3. AppliedTo(ann, z) \subseteq Insts /\ AppliedTo(annotations, z) \subseteq Insts
    BY DEF AppliedTo
  <2> QED BY <2>1, <2>2, <2>3
<1>8. \A i \in Insts : i \notin DOMAIN f => ann[i].id = annotations[i].id
  BY <1>2, <1>3
<1> QED BY <1>6, <1>7, <1>8

\* Adding clones for y alone applies no group to it, and none to another.
LEMMA ClonesApply ==
  ASSUME Entry, NEW y, Undecorated(y), NEW f,
         \A i \in DOMAIN f : /\ i \in Insts /\ annotations[i] = Nothing
                             /\ f[i][2] \in Insts /\ annotations[f[i][2]] \in Decorates,
         NEW ann, \A i \in Insts : ann[i] = AfterClones(y, f, i)
  PROVE  \A z \in AllIds : AppliedTo(ann, z) = AppliedTo(annotations, z)
<1> SUFFICES ASSUME NEW z \in AllIds PROVE AppliedTo(ann, z) = AppliedTo(annotations, z)
  OBVIOUS
<1>1. ASSUME NEW i \in Insts
      PROVE  i \in AppliedTo(ann, z) <=> i \in AppliedTo(annotations, z)
  <2>1. CASE i \in DOMAIN f
    <3>1. ann[i].op = "OpDecorate"
      BY <2>1 DEF AfterClones, Decorates
    <3> QED BY <2>1, <3>1 DEF AppliedTo
  <2>2. CASE i \notin DOMAIN f
    <3>1. ann[i] = annotations[i]
      BY <2>2 DEF AfterClones
    <3> QED BY <3>1 DEF AppliedTo
  <2> QED BY <2>1, <2>2
<1>2. AppliedTo(ann, z) \subseteq Insts /\ AppliedTo(annotations, z) \subseteq Insts
  BY DEF AppliedTo
<1> QED BY <1>1, <1>2

\* The groups that are applied to an id have the decorations they had.
LEMMA GroupsKept ==
  ASSUME Entry, NEW y \in Targets, NEW f, \A i \in DOMAIN f : annotations[i] = Nothing,
         NEW ann,
         \A i \in Insts : i \notin DOMAIN f => ann[i].id = annotations[i].id,
         \A z \in AllIds \ {y} : /\ DirectlyOn(ann, z) = DirectlyOn(annotations, z)
                                 /\ \A d \in DirectlyOn(annotations, z) : ann[d] = annotations[d],
         NEW z \in AllIds, NEW i \in AppliedTo(annotations, z)
  PROVE  /\ ann[i].id = annotations[i].id
         /\ DirectlyOn(ann, annotations[i].id) = DirectlyOn(annotations, annotations[i].id)
         /\ \A d \in DirectlyOn(annotations, annotations[i].id) : ann[d] = annotations[d]
<1> DEFINE g == annotations[i].id
<1>1. i \in Insts /\ annotations[i] # Nothing /\ g \in Groups /\ g \in AllIds
  BY Saying
<1>2. ann[i].id = annotations[i].id
  BY <1>1
<1>3. g \in AllIds \ {y}
  BY <1>1, IdsAssumption
<1> HIDE DEF g
<1>4. /\ DirectlyOn(ann, g) = DirectlyOn(annotations, g)
      /\ \A d \in DirectlyOn(annotations, g) : ann[d] = annotations[d]
  BY <1>3
<1> QED BY <1>2, <1>4 DEF g

\* Where decorations and groups of z are those it had, so is what it has.
LEMMA SameDecorations ==
  ASSUME NEW ann, NEW z, AppliedTo(ann, z) = AppliedTo(annotations, z),
         DirectlyOn(ann, z) = DirectlyOn(annotations, z),
         \A d \in DirectlyOn(annotations, z) : ann[d] = annotations[d],
         \A i \in AppliedTo(annotations, z) :
           /\ ann[i].id = annotations[i].id
           /\ DirectlyOn(ann, annotations[i].id) = DirectlyOn(annotations, annotations[i].id)
           /\ \A d \in DirectlyOn(annotations, annotations[i].id) : ann[d] = annotations[d]
  PROVE  DecorationsOf(ann, z) = DecorationsOf(annotations, z)
<1>1. ASSUME NEW c
      PROVE  c \in DecorationsOf(ann, z) <=> c \in DecorationsOf(annotations, z)
  <2>1. (\E d \in DirectlyOn(ann, z) : ann[d].dec = c)
          <=> \E d \in DirectlyOn(annotations, z) : annotations[d].dec = c
    OBVIOUS
  <2>2. (\E i \in AppliedTo(ann, z) : \E d \in DirectlyOn(ann, ann[i].id) : ann[d].dec = c)
          <=> \E i \in AppliedTo(annotations, z) :
                \E d \in DirectlyOn(annotations, annotations[i].id) : annotations[d].dec = c
    OBVIOUS
  <2> QED BY <2>1, <2>2, DecorationsIff
<1> QED BY <1>1

\* CloneDecorations gives y what x has, and changes what no other has.
LEMMA CloningGivesAll ==
  ASSUME Entry, NEW x \in AllIds, NEW y, Undecorated(y), NEW f, FitsPlaces(f, ToCloneAll(x)),
         NEW ann, \A i \in Insts : ann[i] = AfterCloning(x, y, f, i)
  PROVE  /\ DecorationsOf(ann, y) = DecorationsOf(annotations, x)
         /\ \A z \in AllIds \ {y} : DecorationsOf(ann, z) = DecorationsOf(annotations, z)
<1>1. \A i \in DOMAIN f : /\ i \in Insts /\ annotations[i] = Nothing
                          /\ f[i][2] \in Insts /\ annotations[f[i][2]] \in Decorates
  BY CloneSources
<1>2. /\ DirectlyOn(ann, y) = DOMAIN f
      /\ \A d \in DOMAIN f : ann[d].dec = annotations[f[d][2]].dec
      /\ \A z \in AllIds \ {y} :
           /\ DirectlyOn(ann, z) = DirectlyOn(annotations, z)
           /\ \A d \in DirectlyOn(annotations, z) : ann[d] = annotations[d]
  BY <1>1, CloningDirect
<1>3. /\ AppliedTo(ann, y) = AppliedTo(annotations, x)
      /\ \A z \in AllIds \ {y} : AppliedTo(ann, z) = AppliedTo(annotations, z)
      /\ \A i \in Insts : i \notin DOMAIN f => ann[i].id = annotations[i].id
  BY <1>1, CloningApplied
<1>4. y \in Targets
  BY NothingOn
<1>5. \A z \in AllIds : \A i \in AppliedTo(annotations, z) :
        /\ ann[i].id = annotations[i].id
        /\ DirectlyOn(ann, annotations[i].id) = DirectlyOn(annotations, annotations[i].id)
        /\ \A d \in DirectlyOn(annotations, annotations[i].id) : ann[d] = annotations[d]
  BY <1>1, <1>2, <1>3, <1>4, GroupsKept
<1>6. \A z \in AllIds \ {y} : DecorationsOf(ann, z) = DecorationsOf(annotations, z)
  <2> SUFFICES ASSUME NEW z \in AllIds \ {y}
               PROVE  DecorationsOf(ann, z) = DecorationsOf(annotations, z)
    OBVIOUS
  <2> QED BY <1>2, <1>3, <1>5, SameDecorations
<1>7. ASSUME NEW c
      PROVE  c \in DecorationsOf(ann, y) <=> c \in DecorationsOf(annotations, x)
  <2>1. (\E d \in DirectlyOn(ann, y) : ann[d].dec = c)
          <=> \E d \in DirectlyOn(annotations, x) : annotations[d].dec = c
    <3>1. DirectOf(x) = DirectlyOn(annotations, x)
      BY ListsOfEntry
    <3>2. \A d \in DOMAIN f : f[d][2] \in DirectlyOn(annotations, x)
      <4>1. \A d \in DOMAIN f : f[d] \in ToCloneAll(x)
        BY DEF FitsPlaces
      <4> QED BY <3>1, <4>1 DEF ToCloneAll
    <3>3. \A e \in DirectlyOn(annotations, x) : \E d \in DOMAIN f : f[d][2] = e
      <4> SUFFICES ASSUME NEW e \in DirectlyOn(annotations, x) PROVE \E d \in DOMAIN f : f[d][2] = e
        OBVIOUS
      <4>1. <<x, e>> \in ToCloneAll(x)
        BY <3>1 DEF ToCloneAll
      <4>2. PICK d \in DOMAIN f : f[d] = <<x, e>>
        BY <4>1 DEF FitsPlaces
      <4>3. f[d][2] = e
        BY <4>2
      <4> QED BY <4>3
    <3> QED BY <1>2, <3>2, <3>3
  <2>2. (\E i \in AppliedTo(ann, y) : \E d \in DirectlyOn(ann, ann[i].id) : ann[d].dec = c)
          <=> \E i \in AppliedTo(annotations, x) :
                \E d \in DirectlyOn(annotations, annotations[i].id) : annotations[d].dec = c
    BY <1>3, <1>5
  <2> QED BY <2>1, <2>2, DecorationsIff
<1> QED BY <1>6, <1>7

\* What is asked for of x, on it or on its groups, is what the clones are of.
LEMMA SomeFound ==
  ASSUME Entry, NEW x \in AllIds, NEW p, NEW c
  PROVE  (c \in DecorationsOf(annotations, x) /\ c \in p)
           <=> \E s \in Some(x, p) : annotations[s[2]].dec = c
<1>1. DirectOf(x) = DirectlyOn(annotations, x) /\ IndirectOf(x) = AppliedTo(annotations, x)
  BY ListsOfEntry
<1>2. \A i \in AppliedTo(annotations, x) :
        DirectOf(annotations[i].id) = DirectlyOn(annotations, annotations[i].id)
  <2> SUFFICES ASSUME NEW i \in AppliedTo(annotations, x)
               PROVE  DirectOf(annotations[i].id) = DirectlyOn(annotations, annotations[i].id)
    OBVIOUS
  <2> DEFINE g == annotations[i].id
  <2>1. g \in AllIds
    BY Saying
  <2> HIDE DEF g
  <2>2. DirectOf(g) = DirectlyOn(annotations, g)
    BY <2>1, ListsOfEntry
  <2> QED BY <2>2 DEF g
<1>3. ASSUME c \in DecorationsOf(annotations, x), c \in p
      PROVE  \E s \in Some(x, p) : annotations[s[2]].dec = c
  <2>1. ASSUME NEW d \in DirectlyOn(annotations, x), annotations[d].dec = c
        PROVE  \E s \in Some(x, p) : annotations[s[2]].dec = c
    <3>1. <<x, d>> \in Some(x, p)
      BY <1>1, <1>3, <2>1 DEF Some
    <3> QED BY <2>1, <3>1
  <2>2. ASSUME NEW i \in AppliedTo(annotations, x),
               NEW d \in DirectlyOn(annotations, annotations[i].id), annotations[d].dec = c
        PROVE  \E s \in Some(x, p) : annotations[s[2]].dec = c
    <3>1. <<i, d>> \in IndirectOf(x) \X Insts /\ d \in DirectOf(annotations[i].id)
      BY <1>1, <1>2, <2>2 DEF DirectlyOn
    <3>2. <<i, d>> \in Some(x, p)
      BY <1>3, <2>2, <3>1 DEF Some
    <3> QED BY <2>2, <3>2
  <2> QED BY <1>3, <2>1, <2>2, DecorationsIff
<1>4. ASSUME NEW s \in Some(x, p), annotations[s[2]].dec = c
      PROVE  c \in DecorationsOf(annotations, x) /\ c \in p
  <2>1. CASE s \in {<<x, d>> : d \in {e \in DirectOf(x) : annotations[e].dec \in p}}
    <3>1. s[2] \in DirectlyOn(annotations, x) /\ annotations[s[2]].dec \in p
      BY <1>1, <2>1
    <3> QED BY <1>4, <3>1, DecorationsIff
  <2>2. CASE s \in {e \in IndirectOf(x) \X Insts :
                      e[2] \in DirectOf(annotations[e[1]].id) /\ annotations[e[2]].dec \in p}
    <3>1. /\ s[1] \in AppliedTo(annotations, x) /\ annotations[s[2]].dec \in p
          /\ s[2] \in DirectlyOn(annotations, annotations[s[1]].id)
      BY <1>1, <1>2, <2>2
    <3> QED BY <1>4, <3>1, DecorationsIff
  <2> QED BY <2>1, <2>2 DEF Some
<1> QED BY <1>3, <1>4

\* CloneDecorations of those asked for gives y just those.
LEMMA CloningGivesSome ==
  ASSUME Entry, NEW x \in AllIds, NEW y, Undecorated(y), NEW p, NEW f, FitsPlaces(f, Some(x, p)),
         NEW ann, \A i \in Insts : ann[i] = AfterClones(y, f, i)
  PROVE  /\ DecorationsOf(ann, y) = DecorationsOf(annotations, x) \cap p
         /\ \A z \in AllIds \ {y} : DecorationsOf(ann, z) = DecorationsOf(annotations, z)
<1>1. \A i \in DOMAIN f : /\ i \in Insts /\ annotations[i] = Nothing
                          /\ f[i][2] \in Insts /\ annotations[f[i][2]] \in Decorates
  BY CloneSources
<1>2. /\ DirectlyOn(ann, y) = DOMAIN f
      /\ \A d \in DOMAIN f : ann[d].dec = annotations[f[d][2]].dec
      /\ \A z \in AllIds \ {y} :
           /\ DirectlyOn(ann, z) = DirectlyOn(annotations, z)
           /\ \A d \in DirectlyOn(annotations, z) : ann[d] = annotations[d]
  BY <1>1, CloningDirect
<1>3. \A z \in AllIds : AppliedTo(ann, z) = AppliedTo(annotations, z)
  BY <1>1, ClonesApply
<1>4. y \in Targets /\ y \in AllIds /\ AppliedTo(annotations, y) = {}
  BY NothingOn
<1>5. \A i \in Insts : i \notin DOMAIN f => ann[i].id = annotations[i].id
  BY DEF AfterClones
<1>6. \A z \in AllIds : \A i \in AppliedTo(annotations, z) :
        /\ ann[i].id = annotations[i].id
        /\ DirectlyOn(ann, annotations[i].id) = DirectlyOn(annotations, annotations[i].id)
        /\ \A d \in DirectlyOn(annotations, annotations[i].id) : ann[d] = annotations[d]
  BY <1>1, <1>2, <1>4, <1>5, GroupsKept
<1>7. \A z \in AllIds \ {y} : DecorationsOf(ann, z) = DecorationsOf(annotations, z)
  <2> SUFFICES ASSUME NEW z \in AllIds \ {y}
               PROVE  DecorationsOf(ann, z) = DecorationsOf(annotations, z)
    OBVIOUS
  <2> QED BY <1>2, <1>3, <1>6, SameDecorations
<1>8. \A c : (c \in DecorationsOf(annotations, x) /\ c \in p)
               <=> \E s \in Some(x, p) : annotations[s[2]].dec = c
  BY SomeFound
<1>9. ASSUME NEW c
      PROVE  c \in DecorationsOf(ann, y) <=> c \in DecorationsOf(annotations, x) /\ c \in p
  <2>1. c \in DecorationsOf(ann, y) <=> \E d \in DOMAIN f : annotations[f[d][2]].dec = c
    <3>1. AppliedTo(ann, y) = {}
      BY <1>3, <1>4
    <3> QED BY <1>2, <3>1, DecorationsIff
  <2>2. (\E d \in DOMAIN f : annotations[f[d][2]].dec = c)
          <=> \E s \in Some(x, p) : annotations[s[2]].dec = c
    BY DEF FitsPlaces
  <2> QED BY <1>8, <2>1, <2>2
<1> QED BY <1>7, <1>9

\* Both clonings give the new id just the decorations they are asked for, and
\* change those of no other id.
THEOREM CloningIsExact == Spec => []ClonesJustThose
<1>1. DecorationInv => ClonesJustThose
  <2> SUFFICES ASSUME DecorationInv, NEW x \in ids \cap Targets, NEW y \in ids \cap Targets,
                      Undecorated(y)
               PROVE  /\ \A f \in Places(ToCloneAll(x)) :
                           LET ann == CloneDecorations(x, y, f).ann
                           IN  /\ DecorationsOf(ann, y) = DecorationsOf(annotations, x)
                               /\ \A z \in AllIds \ {y} :
                                    DecorationsOf(ann, z) = DecorationsOf(annotations, z)
                      /\ \A p \in SUBSET Decs : \A f \in Places(Some(x, p)) :
                           LET ann == Clones(State, f, y).ann
                           IN  /\ DecorationsOf(ann, y) = DecorationsOf(annotations, x) \cap p
                               /\ \A z \in AllIds \ {y} :
                                    DecorationsOf(ann, z) = DecorationsOf(annotations, z)
    BY DEF ClonesJustThose
  <2>1. Entry /\ x \in AllIds /\ y \in AllIds /\ y \in Targets
    BY EntryHolds DEF AllIds
  <2>2. ASSUME NEW f \in Places(ToCloneAll(x))
        PROVE  LET ann == CloneDecorations(x, y, f).ann
               IN  /\ DecorationsOf(ann, y) = DecorationsOf(annotations, x)
                   /\ \A z \in AllIds \ {y} : DecorationsOf(ann, z) = DecorationsOf(annotations, z)
    <3> DEFINE ann == CloneDecorations(x, y, f).ann
    <3>1. FitsPlaces(f, ToCloneAll(x))
      BY PlacesFit
    <3>2. \A i \in Insts : ann[i] = AfterCloning(x, y, f, i)
      BY <2>1, <3>1, CloningIsSound
    <3> HIDE DEF ann
    <3>3. /\ DecorationsOf(ann, y) = DecorationsOf(annotations, x)
          /\ \A z \in AllIds \ {y} : DecorationsOf(ann, z) = DecorationsOf(annotations, z)
      BY <2>1, <3>1, <3>2, CloningGivesAll
    <3> QED BY <3>3 DEF ann
  <2>3. ASSUME NEW p \in SUBSET Decs, NEW f \in Places(Some(x, p))
        PROVE  LET ann == Clones(State, f, y).ann
               IN  /\ DecorationsOf(ann, y) = DecorationsOf(annotations, x) \cap p
                   /\ \A z \in AllIds \ {y} : DecorationsOf(ann, z) = DecorationsOf(annotations, z)
    <3> DEFINE ann == Clones(State, f, y).ann
    <3>1. FitsPlaces(f, Some(x, p))
      BY PlacesFit
    <3>2. \A i \in DOMAIN f : /\ i \in Insts /\ annotations[i] = Nothing
                              /\ f[i][2] \in Insts /\ annotations[f[i][2]] \in Decorates
      BY <2>1, <3>1, CloneSources
    <3>3. \A i \in Insts : ann[i] = AfterClones(y, f, i)
      BY <2>1, <3>2, ClonesOfState DEF AfterClones
    <3> HIDE DEF ann
    <3>4. /\ DecorationsOf(ann, y) = DecorationsOf(annotations, x) \cap p
          /\ \A z \in AllIds \ {y} : DecorationsOf(ann, z) = DecorationsOf(annotations, z)
      BY <2>1, <3>1, <3>3, CloningGivesSome
    <3> QED BY <3>4 DEF ann
  <2> QED BY <2>2, <2>3
<1> QED BY <1>1, DecorationInvariant, PTL

=============================================================================
