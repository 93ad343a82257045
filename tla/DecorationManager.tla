-------------------------- MODULE DecorationManager --------------------------
(***************************************************************************)
(* The decoration manager of the optimizer (source/opt/                    *)
(* decoration_manager.cpp): for each id, the instructions that decorate    *)
(* it, those that apply a decoration group to it, and, when it is a group, *)
(* those that apply it. Passes add and kill annotations, clone or remove   *)
(* the decorations of an id, kill ids, and may invalidate the manager. Two *)
(* OpGroupDecorate operands of one instruction are taken to differ.        *)
(***************************************************************************)
EXTENDS Integers, Functions

CONSTANTS
  Insts,     \* addresses
  Targets,   \* ids to decorate, numbers
  Groups,    \* ids of OpDecorationGroup instructions, numbers
  Decs,      \* decorations
  Nothing    \* no annotation at an address

AllIds == Targets \cup Groups

Decorates == [op : {"OpDecorate"}, id : AllIds, dec : Decs]
Appliers == [op : {"OpGroupDecorate"}, id : Groups, targets : (SUBSET Targets) \ {{}}]

\* An id is defined once; nothing is no annotation, even one without targets.
ASSUME IdsAssumption ==
  /\ Targets \cap Groups = {}
  /\ Nothing \notin Decorates \cup [op : {"OpGroupDecorate"}, id : Groups, targets : SUBSET Targets]

VARIABLES
  annotations,  \* the annotations of the module, by address
  ids,          \* the ids that are defined
  valid,        \* kAnalysisDecorations is in valid_analyses_
  manager       \* id_to_decoration_insts_: how often an address is in a vector

vars == <<annotations, ids, valid, manager>>

\* The vectors of TargetData, of decorate_insts the last.
Lists == {"direct", "indirect", "appliers"}

\* How often i is in the vector v of x.
Count(m, x, v, i) == IF x \in DOMAIN m THEN m[x][v][i] ELSE 0
In(m, x, v) == {i \in Insts : Count(m, x, v, i) > 0}
-----------------------------------------------------------------------------
\* Operations of the manager m.

Push(m, xs, v, i) ==
  [x \in DOMAIN m \cup xs |-> [w \in Lists |-> [j \in Insts |->
     Count(m, x, w, j) + (IF x \in xs /\ w = v /\ j = i THEN 1 ELSE 0)]]]

Erase(m, xs, v, is) ==
  [x \in DOMAIN m |-> [w \in Lists |-> [j \in Insts |->
     IF x \in xs /\ w = v /\ j \in is THEN 0 ELSE m[x][w][j]]]]

AddDecoration(m, i, a) ==
  IF a.op = "OpDecorate" THEN Push(m, {a.id}, "direct", i)
  ELSE Push(Push(m, a.targets, "indirect", i), {a.id}, "appliers", i)

\* Mutant: the group forgets no instruction that applied it.
RemoveDecorationButApplier(m, i, a) ==
  IF a.op = "OpDecorate" THEN Erase(m, {a.id}, "direct", {i})
  ELSE Erase(m, a.targets, "indirect", {i})

RemoveDecoration(m, i, a) ==
  IF a.op = "OpDecorate" THEN Erase(m, {a.id}, "direct", {i})
  ELSE Erase(Erase(m, a.targets, "indirect", {i}), {a.id}, "appliers", {i})

\* A loop over instructions that makes made[i] of m for i alone: what is
\* recorded of other instructions is not touched for i, nor read.
Together(m, made) ==
  [x \in DOMAIN m \cup UNION {DOMAIN made[i] : i \in DOMAIN made} |->
     [v \in Lists |-> [i \in Insts |->
        Count(IF i \in DOMAIN made THEN made[i] ELSE m, x, v, i)]]]

Live == {i \in Insts : annotations[i] # Nothing}
Free == Insts \ Live

\* AnalyzeDecorations.
Analyzed == Together(<< >>, [i \in Live |-> AddDecoration(<< >>, i, annotations[i])])

\* What get_decoration_mgr returns.
Current == IF valid THEN manager ELSE Analyzed
-----------------------------------------------------------------------------
\* Steps on the module and its manager together, s = [ann, mgr].

State == [ann |-> annotations, mgr |-> Current]

\* The targets of the instructions in DOMAIN ts are set between ForgetUses,
\* which sees the new ones when they are set before it, and AnalyzeUses.
Retarget(s, forgotten, ts) ==
  LET with(i, targets) == [s.ann[i] EXCEPT !.targets = targets]
  IN  [ann |-> [i \in Insts |-> IF i \in DOMAIN ts THEN with(i, ts[i]) ELSE s.ann[i]],
       mgr |-> Together(s.mgr, [i \in DOMAIN ts |->
                 AddDecoration(RemoveDecoration(s.mgr, i, with(i, forgotten[i])), i, with(i, ts[i]))])]

\* KillInst of annotations.
Kill(s, is) ==
  [ann |-> [i \in Insts |-> IF i \in is THEN Nothing ELSE s.ann[i]],
   mgr |-> Together(s.mgr, [i \in is |-> RemoveDecoration(s.mgr, i, s.ann[i])])]

\* At the addresses in DOMAIN f, clones are added of what f names, for y;
\* AnalyzeUses is called for each.
Clones(s, f, y) ==
  LET clone(i) == [s.ann[f[i][2]] EXCEPT !.id = y]
  IN  [ann |-> [i \in Insts |-> IF i \in DOMAIN f THEN clone(i) ELSE s.ann[i]],
       mgr |-> Together(s.mgr, [i \in DOMAIN f |-> AddDecoration(s.mgr, i, clone(i))])]

DirectOf(x) == In(Current, x, "direct")
IndirectOf(x) == In(Current, x, "indirect")

\* The decorations of a group that the predicate keeps.
KeptBy(i, p) == {d \in DirectOf(annotations[i].id) : annotations[d].dec \notin p}

\* Mutant: an applier whose group has no decorations keeps its targets.
StrippedIfDecorated(x, p) == {i \in IndirectOf(x) : KeptBy(i, p) # DirectOf(annotations[i].id)}

\* Mutant: a group that keeps a decoration keeps its targets.
StrippedIfNoneKept(x, p) == {i \in IndirectOf(x) : KeptBy(i, p) = {}}

\* The appliers that x is taken out of when the decorations p are removed from
\* it: those whose group loses one, or has none.
StrippedAppliers(x, p) ==
  {i \in IndirectOf(x) : \/ KeptBy(i, p) # DirectOf(annotations[i].id)
                         \/ DirectOf(annotations[i].id) = {}}

\* The kept decorations to clone, each by the applier that it came through.
ToClone(x, p) == {c \in StrippedAppliers(x, p) \X Insts : c[2] \in KeptBy(c[1], p)}

\* Addresses for a set of clones.
Places(cs) == UNION {Bijection(is, cs) : is \in SUBSET Free}

\* The appliers lose x; those with no other target are left to be killed.
Strip(s, x, is) ==
  LET rest == [i \in is |-> s.ann[i].targets \ {x}]
      kept == Restrict(rest, {i \in is : rest[i] # {}})
  IN  [ann |-> [i \in Insts |-> IF i \in is THEN [s.ann[i] EXCEPT !.targets = rest[i]]
                               ELSE s.ann[i]],
       mgr |-> Erase(Retarget(s, kept, kept).mgr, {x}, "indirect", is)]

Emptied(is, x) == {i \in is : annotations[i].targets = {x}}

\* Once a group decorates nothing, those that apply it are killed.
KillAppliers(s, x, wasGroup) ==
  IF wasGroup /\ In(s.mgr, x, "direct") = {} /\ In(s.mgr, x, "indirect") = {}
  THEN Kill(s, In(s.mgr, x, "appliers"))
  ELSE s

EraseIfEmpty(s, x) ==
  IF \A v \in Lists : In(s.mgr, x, v) = {}
  THEN [ann |-> s.ann, mgr |-> Restrict(s.mgr, DOMAIN s.mgr \ {x})]
  ELSE s

\* RemoveDecorationsFrom, with addresses f for the clones.
RemoveDecorationsFrom(x, p, f) ==
  IF x \notin DOMAIN Current THEN State
  ELSE LET is == StrippedAppliers(x, p)
           dead == {i \in DirectOf(x) : annotations[i].dec \in p} \cup Emptied(is, x)
           wasGroup == In(Current, x, "appliers") # {}
       IN  EraseIfEmpty(KillAppliers(Kill(Clones(Strip(State, x, is), f, x), dead), x, wasGroup), x)

\* The decorations on x itself.
ToCloneAll(x) == {<<x, d>> : d \in DirectOf(x)}

\* Mutant: groups are not cloned.
CloneDirectDecorations(x, y, f) == Clones(State, f, y)

\* CloneDecorations: y joins x as a target of every applier.
CloneDecorations(x, y, f) ==
  LET targets == [i \in IndirectOf(x) |-> annotations[i].targets]
  IN  Retarget(Clones(State, f, y), targets, [i \in IndirectOf(x) |-> targets[i] \cup {y}])

\* The decorations among p, of x or of a group applied to it, each by whom it
\* is found at.
Some(x, p) ==
  {<<x, d>> : d \in {e \in DirectOf(x) : annotations[e].dec \in p}} \cup
  {c \in IndirectOf(x) \X Insts :
     c[2] \in DirectOf(annotations[c[1]].id) /\ annotations[c[2]].dec \in p}
-----------------------------------------------------------------------------
Names(a) == {a.id} \cup (IF a.op = "OpDecorate" THEN {} ELSE a.targets)

\* An id that nothing decorates, as a new one.
Undecorated(y) == y \in ids \cap Targets /\ \A i \in Live : y \notin Names(annotations[i])

Become(s) == annotations' = s.ann /\ manager' = s.mgr

Init ==
  /\ annotations = [i \in Insts |-> Nothing]
  /\ ids = AllIds
  /\ valid = FALSE /\ manager = << >>

\* IRContext::AddAnnotationInst.
AddAnnotation(i, a) ==
  /\ i \in Free
  /\ Names(a) \subseteq ids
  /\ annotations' = [annotations EXCEPT ![i] = a]
  /\ manager' = IF valid THEN AddDecoration(manager, i, a) ELSE manager
  /\ UNCHANGED <<ids, valid>>

\* IRContext::KillInst of an annotation.
KillAnnotation(i) ==
  /\ i \in Live
  /\ annotations' = [annotations EXCEPT ![i] = Nothing]
  /\ manager' = IF valid THEN RemoveDecoration(manager, i, annotations[i]) ELSE manager
  /\ UNCHANGED <<ids, valid>>

Remove(x, p) ==
  /\ x \in ids
  /\ \E f \in Places(ToClone(x, p)) : Become(RemoveDecorationsFrom(x, p, f))
  /\ valid' = TRUE
  /\ UNCHANGED ids

\* IRContext::KillInst of the instruction that defines x: KillNamesAndDecorates.
KillDef(x) ==
  /\ x \in ids
  /\ Become(RemoveDecorationsFrom(x, Decs, << >>))
  /\ valid' = TRUE
  /\ ids' = ids \ {x}

Clone(x, y) ==
  /\ x \in ids \cap Targets /\ Undecorated(y) /\ x # y
  /\ \E f \in Places(ToCloneAll(x)) : Become(CloneDecorations(x, y, f))
  /\ valid' = TRUE
  /\ UNCHANGED ids

CloneSome(x, y, p) ==
  /\ x \in ids \cap Targets /\ Undecorated(y) /\ x # y
  /\ \E f \in Places(Some(x, p)) : Become(Clones(State, f, y))
  /\ valid' = TRUE
  /\ UNCHANGED ids

\* IRContext::InvalidateAnalyses.
Invalidate ==
  /\ valid
  /\ valid' = FALSE /\ manager' = << >>
  /\ UNCHANGED <<annotations, ids>>

\* IRContext::BuildDecorationManager.
Build ==
  /\ ~valid
  /\ valid' = TRUE /\ manager' = Analyzed
  /\ UNCHANGED <<annotations, ids>>

Next ==
  \/ \E i \in Insts, a \in Decorates \cup Appliers : AddAnnotation(i, a)
  \/ \E x \in AllIds : KillDef(x)
  \/ \E x \in AllIds, p \in SUBSET Decs : Remove(x, p)
  \/ \E x, y \in AllIds : Clone(x, y)
  \/ \E x, y \in AllIds, p \in SUBSET Decs : CloneSome(x, y, p)
  \/ \E i \in Insts : KillAnnotation(i)
  \/ Invalidate
  \/ Build

Spec == Init /\ [][Next]_vars
-----------------------------------------------------------------------------
\* What the annotations of a module ann say of x.
AppliedTo(ann, x) ==
  {i \in Insts : /\ ann[i] # Nothing /\ ann[i].op # "OpDecorate"
                 /\ x \in Names(ann[i]) \ {ann[i].id}}
DirectlyOn(ann, x) == {i \in Insts : ann[i] # Nothing /\ ann[i].op = "OpDecorate" /\ ann[i].id = x}
AppliersOf(ann, x) == {i \in Insts : ann[i] # Nothing /\ ann[i].op # "OpDecorate" /\ ann[i].id = x}

\* The decorations of x, by groups too.
DecorationsOf(ann, x) ==
  {ann[d].dec : d \in DirectlyOn(ann, x) \cup
                      UNION {DirectlyOn(ann, ann[i].id) : i \in AppliedTo(ann, x)}}

\* Types; an instruction that applies a group has a target.
TypeOK ==
  /\ annotations \in [Insts -> Decorates \cup Appliers \cup {Nothing}]
  /\ ids \subseteq AllIds
  /\ valid \in BOOLEAN
  /\ DOMAIN manager \subseteq AllIds
  /\ manager \in [DOMAIN manager -> [Lists -> [Insts -> Nat]]]

\* The manager m records what the annotations ann say, each instruction once.
Records(m, ann) ==
  LET once(b) == IF b THEN 1 ELSE 0
  IN  \A x \in AllIds, i \in Insts :
        /\ Count(m, x, "direct", i) = once(i \in DirectlyOn(ann, x))
        /\ Count(m, x, "indirect", i) = once(i \in AppliedTo(ann, x))
        /\ Count(m, x, "appliers", i) = once(i \in AppliersOf(ann, x))

\* What is recorded for an id is what the module says of it, each instruction
\* once, whatever edits led there.
Tracked == valid => Records(manager, annotations)

\* No annotation names an id that was killed.
NoneNamesTheDead == \A i \in Live : Names(annotations[i]) \subseteq ids

\* What RemoveDecorationsFrom would do to the module as it is: the decorations
\* that satisfy the predicate no longer apply to the id, those that do not
\* still do, and an id that the id is no group of loses or gains none.
RemovesJustThose ==
  \A x \in ids, p \in SUBSET Decs : \A f \in Places(ToClone(x, p)) :
    LET ann == RemoveDecorationsFrom(x, p, f).ann
    IN  /\ DecorationsOf(ann, x) = DecorationsOf(annotations, x) \ p
        /\ \A y \in AllIds \ {x} :
             (\A i \in AppliedTo(annotations, y) : annotations[i].id # x) =>
               DecorationsOf(ann, y) = DecorationsOf(annotations, y)

\* What the two clonings would do to the module as it is: they give the new id
\* the decorations of the old one, all or those asked for, and change those of
\* no other id.
ClonesJustThose ==
  \A x, y \in ids \cap Targets :
    Undecorated(y) /\ x # y =>
      LET gives(ann, ds) == /\ DecorationsOf(ann, y) = ds
                            /\ \A z \in AllIds \ {y} :
                                 DecorationsOf(ann, z) = DecorationsOf(annotations, z)
          all == DecorationsOf(annotations, x)
      IN  /\ \A f \in Places(ToCloneAll(x)) : gives(CloneDecorations(x, y, f).ann, all)
          /\ \A p \in SUBSET Decs : \A f \in Places(Some(x, p)) :
               gives(Clones(State, f, y).ann, all \cap p)

=============================================================================
