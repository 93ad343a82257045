---------------------------- MODULE DefUseProofs ----------------------------
(***************************************************************************)
(* Proofs that a def-use manager kept in step with the edits of a module   *)
(* is the one a fresh analysis would build, for every number of            *)
(* instructions and ids and for every set of operands and predicates.      *)
(***************************************************************************)
EXTENDS DefUse, TLAPS

\* The users recorded are those that the uses recorded name.
UsersMatch(m) ==
  /\ m.users \subseteq Insts \X Insts
  /\ \A d, i \in Insts : <<d, i>> \in m.users <=>
       m.used[i] # Unseen /\ \E x \in Held(m.used[i]) : m.def[x] = d

DefsMatch(m) == \A x \in Ids, i \in Insts : m.def[x] = i <=> i \in live /\ id[i] = x

\* The uses recorded are those of the module, of ids that were taken; those of
\* every instruction that is not being edited are recorded.
UsedMatch(m) ==
  \A i \in Insts :
    /\ m.used[i] # Unseen =>
         i \in live /\ m.used[i] = uses[i] /\ \A x \in Held(uses[i]) : x < nextId
    /\ i \in live \ editing => m.used[i] # Unseen

Types ==
  /\ live \subseteq Insts
  /\ id \in [Insts -> Ids \cup {NoId}]
  /\ uses \in [Insts -> Seq(Ids)]
  /\ nextId \in 1..(MaxId + 1)
  /\ valid \in BOOLEAN
  /\ manager \in Manager
  /\ editing \subseteq live

\* Result ids are unique, and below the bound of the module.
IdsUnique ==
  /\ \A i \in live : id[i] # NoId => id[i] < nextId
  /\ \A i, j \in live : id[i] = id[j] /\ id[i] # NoId => i = j

Matches(m) == DefsMatch(m) /\ UsersMatch(m) /\ UsedMatch(m)
ManagerMatches == IF valid THEN Matches(manager) ELSE manager = Empty

Defined(x) == \E i \in live : id[i] = x

\* During ReplaceAllUsesWith every operand is defined, and every use of the
\* old id by an instruction of the predicate is either pending or gone.
ReplaceOK ==
  InCall =>
    /\ replace \in [before : Ids, after : Ids, predicate : Predicates,
                    prev : Insts \cup {NoInst}, pending : SUBSET (Insts \X Nat)]
    /\ valid
    /\ replace.before # replace.after
    /\ Defined(replace.after)
    /\ \A i \in live : \A x \in Held(uses[i]) : Defined(x)
    /\ \A u \in replace.pending : u[1] \in live /\ u[2] \in DOMAIN uses[u[1]]
    /\ \A i \in (live \cap replace.predicate) \ editing : \A k \in DOMAIN uses[i] :
         uses[i][k] = replace.before => <<i, k>> \in replace.pending

IInv == Types /\ IdsUnique /\ ManagerMatches /\ ReplaceOK
-----------------------------------------------------------------------------
\* What the operations of the manager do to one whose users match.

\* A sequence of ids holds ids.
LEMMA HeldIds ==
  ASSUME NEW s \in Seq(Ids)
  PROVE  Held(s) \subseteq Ids /\ Held(s) = {s[k] : k \in DOMAIN s}
  BY DefUseAssumption DEF Held, Ids

\* An instruction that was not analyzed uses nothing.
LEMMA HeldNothing == Held(Unseen) = {}
  BY DEF Held

\* EraseUseRecordsOfOperandIds forgets the uses and every record made of them.
LEMMA EraseUsesMatches ==
  ASSUME NEW m \in Manager, UsersMatch(m), NEW i \in Insts
  PROVE  /\ EraseUses(m, i) \in Manager
         /\ UsersMatch(EraseUses(m, i))
         /\ EraseUses(m, i).def = m.def
         /\ EraseUses(m, i).used = [m.used EXCEPT ![i] = Unseen]
         /\ EraseUses(m, i).users = {u \in m.users : u[2] # i}
<1> DEFINE n == EraseUses(m, i)
<1>1. n.def = m.def /\ n.used = [m.used EXCEPT ![i] = Unseen] /\ n \in Manager
  BY DefUseAssumption DEF EraseUses, Manager
<1>2. n.users = {u \in m.users : ~(u[2] = i /\ \E x \in Held(m.used[i]) : u[1] = m.def[x])}
  BY DEF EraseUses, Manager
<1>3. \A u \in m.users : u[2] = i => \E x \in Held(m.used[i]) : u[1] = m.def[x]
  BY DEF UsersMatch
<1>4. n.users = {u \in m.users : u[2] # i}
  BY <1>2, <1>3
<1>5. UsersMatch(n)
  <2> SUFFICES ASSUME NEW d \in Insts, NEW j \in Insts
               PROVE  <<d, j>> \in n.users <=>
                        n.used[j] # Unseen /\ \E x \in Held(n.used[j]) : n.def[x] = d
    BY <1>4 DEF UsersMatch
  <2>1. CASE j = i
    BY <2>1, <1>1, <1>4 DEF Manager
  <2>2. CASE j # i
    <3>1. n.used[j] = m.used[j]
      BY <2>2, <1>1 DEF Manager
    <3> QED BY <2>2, <3>1, <1>1, <1>4 DEF UsersMatch
  <2> QED BY <2>1, <2>2
<1> QED BY <1>1, <1>4, <1>5

\* AnalyzeInstUse of operands that are all defined records just them.
LEMMA AnalyzeInstUseMatches ==
  ASSUME NEW m \in Manager, UsersMatch(m), NEW i \in Insts, NEW us \in Seq(Ids),
         \A x \in Held(us) : m.def[x] # NoInst
  PROVE  /\ AnalyzeInstUse(m, i, us) \in Manager
         /\ UsersMatch(AnalyzeInstUse(m, i, us))
         /\ AnalyzeInstUse(m, i, us).def = m.def
         /\ AnalyzeInstUse(m, i, us).used = [m.used EXCEPT ![i] = us]
<1> DEFINE e == EraseUses(m, i)
           n == AnalyzeInstUse(m, i, us)
<1>1. e \in Manager /\ UsersMatch(e) /\ e.def = m.def
      /\ e.used = [m.used EXCEPT ![i] = Unseen] /\ e.users = {u \in m.users : u[2] # i}
  BY EraseUsesMatches
<1>2. Held(us) \subseteq Ids
  BY HeldIds
<1>3. \A x \in Held(us) : m.def[x] \in Insts
  BY <1>2 DEF Manager
<1>4. n = [e EXCEPT !.users = @ \cup {<<m.def[x], i>> : x \in Held(us)}, !.used[i] = us]
  BY DEF AnalyzeInstUse
<1> HIDE DEF e
<1>5. n.def = m.def /\ n.used = [e.used EXCEPT ![i] = us]
      /\ n.users = e.users \cup {<<m.def[x], i>> : x \in Held(us)}
  BY <1>1, <1>4 DEF Manager
<1>6. n \in Manager
  <2>1. n = [def |-> e.def, users |-> n.users, used |-> n.used]
    BY <1>1, <1>4 DEF Manager
  <2>2. e.def \in [Ids -> Insts \cup {NoInst}] /\ e.users \subseteq (Insts \cup {NoInst}) \X Insts
        /\ e.used \in [Insts -> Seq(Ids) \cup {Unseen}]
    BY <1>1 DEF Manager
  <2>3. n.users \subseteq (Insts \cup {NoInst}) \X Insts
    BY <1>3, <1>5, <2>2
  <2>4. n.used \in [Insts -> Seq(Ids) \cup {Unseen}]
    BY <1>5, <2>2
  <2> QED BY <2>1, <2>2, <2>3, <2>4 DEF Manager
<1> HIDE DEF n
<1>7. n.used = [m.used EXCEPT ![i] = us]
  BY <1>1, <1>5 DEF Manager
<1>8. us # Unseen
  BY DefUseAssumption
<1>9. UsersMatch(n)
  <2>1. n.users \subseteq Insts \X Insts
    BY <1>1, <1>3, <1>5 DEF UsersMatch
  <2>2. ASSUME NEW d \in Insts, NEW j \in Insts
        PROVE  <<d, j>> \in n.users <=>
                 n.used[j] # Unseen /\ \E x \in Held(n.used[j]) : n.def[x] = d
    <3>1. CASE j = i
      <4>1. n.used[j] = us
        BY <3>1, <1>7 DEF Manager
      <4>2. <<d, j>> \notin e.users
        BY <3>1, <1>1
      <4>3. <<d, j>> \in n.users <=> \E x \in Held(us) : m.def[x] = d
        BY <3>1, <4>2, <1>5
      <4> QED BY <4>1, <4>3, <1>5, <1>8
    <3>2. CASE j # i
      <4>1. n.used[j] = m.used[j]
        BY <3>2, <1>7 DEF Manager
      <4>2. <<d, j>> \in n.users <=> <<d, j>> \in m.users
        BY <3>2, <1>1, <1>5
      <4> QED BY <4>1, <4>2, <1>5 DEF UsersMatch
    <3> QED BY <3>1, <3>2
  <2> QED BY <2>1, <2>2 DEF UsersMatch
<1> QED BY <1>5, <1>6, <1>7, <1>9 DEF n

\* ClearInst of an instruction that was analyzed removes all there is of it.
LEMMA ClearInstMatches ==
  ASSUME NEW m \in Manager, UsersMatch(m), NEW i \in Insts, NEW x \in Ids \cup {NoId},
         m.used[i] # Unseen, \A y \in Ids : m.def[y] = i <=> y = x
  PROVE  /\ ClearInst(m, i, x) \in Manager
         /\ UsersMatch(ClearInst(m, i, x))
         /\ ClearInst(m, i, x).def = [y \in Ids |-> IF y = x THEN NoInst ELSE m.def[y]]
         /\ ClearInst(m, i, x).used = [m.used EXCEPT ![i] = Unseen]
<1> DEFINE e == EraseUses(m, i)
           n == ClearInst(m, i, x)
<1>1. e \in Manager /\ UsersMatch(e) /\ e.def = m.def
      /\ e.used = [m.used EXCEPT ![i] = Unseen] /\ e.users = {u \in m.users : u[2] # i}
  BY EraseUsesMatches
<1>2. CASE x = NoId
  <2>1. n = e
    BY <1>2 DEF ClearInst
  <2>2. e.def = [y \in Ids |-> IF y = x THEN NoInst ELSE m.def[y]]
    BY <1>1, <1>2, DefUseAssumption DEF Manager
  <2> QED BY <1>1, <2>1, <2>2
<1>3. CASE x # NoId
  <2>1. n = [e EXCEPT !.users = {u \in @ : u[1] # i}, !.def[x] = NoInst]
    BY <1>3 DEF ClearInst
  <2> HIDE DEF e
  <2>2. n.def = [e.def EXCEPT ![x] = NoInst] /\ n.used = e.used
        /\ n.users = {u \in e.users : u[1] # i}
    BY <1>1, <2>1 DEF Manager
  <2>3. n \in Manager
    <3>1. n = [def |-> n.def, users |-> n.users, used |-> e.used]
      BY <1>1, <2>1 DEF Manager
    <3>2. e.def \in [Ids -> Insts \cup {NoInst}] /\ e.users \subseteq (Insts \cup {NoInst}) \X Insts
          /\ e.used \in [Insts -> Seq(Ids) \cup {Unseen}]
      BY <1>1 DEF Manager
    <3>3. n.def \in [Ids -> Insts \cup {NoInst}]
      BY <2>2, <3>2
    <3>4. n.users \subseteq (Insts \cup {NoInst}) \X Insts
      BY <2>2, <3>2
    <3> QED BY <3>1, <3>2, <3>3, <3>4 DEF Manager
  <2> HIDE DEF n
  <2>4. n.def = [y \in Ids |-> IF y = x THEN NoInst ELSE m.def[y]]
    BY <1>1, <1>3, <2>2 DEF Manager
  <2>5. UsersMatch(n)
    <3>1. n.users \subseteq Insts \X Insts
      BY <1>1, <2>2 DEF UsersMatch
    <3>2. ASSUME NEW d \in Insts, NEW j \in Insts
          PROVE  <<d, j>> \in n.users <=>
                   n.used[j] # Unseen /\ \E y \in Held(n.used[j]) : n.def[y] = d
      <4>1. <<d, j>> \in n.users <=> <<d, j>> \in e.users /\ d # i
        BY <2>2
      <4>2. <<d, j>> \in e.users <=> e.used[j] # Unseen /\ \E y \in Held(e.used[j]) : e.def[y] = d
        BY <1>1 DEF UsersMatch
      <4>3. Held(e.used[j]) \subseteq Ids
        BY <1>1, HeldIds, HeldNothing DEF Manager
      <4>4. \A y \in Held(e.used[j]) : n.def[y] = d <=> e.def[y] = d /\ d # i
        BY <1>1, <1>3, <2>4, <4>3, DefUseAssumption
      <4> QED BY <2>2, <4>1, <4>2, <4>4
    <3> QED BY <3>1, <3>2 DEF UsersMatch
  <2> QED BY <1>1, <2>2, <2>3, <2>4, <2>5 DEF n
<1> QED BY <1>2, <1>3

\* Analyzing the definition of an id that nobody has used adds just that.
LEMMA AnalyzeInstDefMatches ==
  ASSUME NEW m \in Manager, UsersMatch(m), NEW i \in Insts, NEW x \in Ids,
         m.def[x] = NoInst, \A j \in Insts : x \notin Held(m.used[j])
  PROVE  /\ AnalyzeInstDef(m, i, x) \in Manager
         /\ UsersMatch(AnalyzeInstDef(m, i, x))
         /\ AnalyzeInstDef(m, i, x).def = [m.def EXCEPT ![x] = i]
         /\ AnalyzeInstDef(m, i, x).used = m.used
<1> DEFINE n == AnalyzeInstDef(m, i, x)
<1>1. n = [m EXCEPT !.def[x] = i]
  BY DefUseAssumption DEF AnalyzeInstDef
<1>2. n \in Manager /\ n.def = [m.def EXCEPT ![x] = i] /\ n.used = m.used /\ n.users = m.users
  BY <1>1 DEF Manager
<1> HIDE DEF n
<1>3. UsersMatch(n)
  <2>1. ASSUME NEW d \in Insts, NEW j \in Insts
        PROVE  (\E y \in Held(m.used[j]) : n.def[y] = d) <=> \E y \in Held(m.used[j]) : m.def[y] = d
    <3>1. Held(m.used[j]) \subseteq Ids
      BY HeldIds, HeldNothing DEF Manager
    <3> QED BY <1>2, <3>1 DEF Manager
  <2> QED BY <1>2, <2>1 DEF UsersMatch
<1> QED BY <1>2, <1>3 DEF n

\* The instruction that defines an id.
LEMMA DefIs ==
  ASSUME Types, IdsUnique, NEW x \in Ids
  PROVE  /\ Def(x) \in live \cup {NoInst}
         /\ \A i \in Insts : Def(x) = i <=> i \in live /\ id[i] = x
         /\ Def(x) # NoInst <=> Defined(x)
<1>1. x # NoId
  BY DefUseAssumption
<1>2. CASE Defined(x)
  <2>1. PICK i \in live : id[i] = x
    BY <1>2 DEF Defined
  <2>2. Def(x) \in live /\ id[Def(x)] = x
    BY <2>1 DEF Def
  <2> QED BY <1>1, <2>1, <2>2, DefUseAssumption DEF Types, IdsUnique, Defined
<1>3. CASE ~Defined(x)
  BY <1>3, DefUseAssumption DEF Def, Defined, Types
<1> QED BY <1>2, <1>3

\* A fresh analysis of a module whose operands are all defined matches it.
LEMMA AnalyzedMatches ==
  ASSUME Types, IdsUnique, WellFormed
  PROVE  Analyzed \in Manager /\ Matches(Analyzed)
<1> DEFINE n == Analyzed
<1>1. n.def = [x \in Ids |-> Def(x)]
      /\ n.users = UNION {{<<Def(x), i>> : x \in Held(uses[i])} : i \in live}
      /\ n.used = [i \in Insts |-> IF i \in live THEN uses[i] ELSE Unseen]
      /\ n = [def |-> n.def, users |-> n.users, used |-> n.used]
  BY DEF Analyzed
<1> HIDE DEF n
<1>2. \A i \in live : uses[i] \in Seq(Ids) /\ Held(uses[i]) \subseteq Ids /\ uses[i] # Unseen
  BY HeldIds, DefUseAssumption DEF Types
<1>3. \A i \in live : \A x \in Held(uses[i]) : Def(x) \in live /\ x < nextId
  <2> SUFFICES ASSUME NEW i \in live, NEW x \in Held(uses[i]) PROVE Def(x) \in live /\ x < nextId
    OBVIOUS
  <2>1. x \in Ids
    BY <1>2
  <2>2. Def(x) # NoInst
    BY DEF WellFormed, AllDefined
  <2>3. Def(x) \in live /\ id[Def(x)] = x
    BY <2>1, <2>2, DefIs DEF Types
  <2> QED BY <2>1, <2>3, DefUseAssumption DEF IdsUnique
<1>4. live \subseteq Insts
  BY DEF Types
<1>5. n \in Manager
  <2>1. n.def \in [Ids -> Insts \cup {NoInst}]
    BY <1>1, <1>4, DefIs
  <2>2. n.users \subseteq Insts \X Insts
    BY <1>1, <1>3, <1>4
  <2>3. n.used \in [Insts -> Seq(Ids) \cup {Unseen}]
    BY <1>1, <1>2
  <2> QED BY <1>1, <2>1, <2>2, <2>3 DEF Manager
<1>6. DefsMatch(n)
  <2> SUFFICES ASSUME NEW x \in Ids, NEW i \in Insts
               PROVE  n.def[x] = i <=> i \in live /\ id[i] = x
    BY DEF DefsMatch
  <2>1. n.def[x] = Def(x)
    BY <1>1
  <2> QED BY <2>1, DefIs
<1>7. UsersMatch(n)
  <2>1. n.users \subseteq Insts \X Insts
    BY <1>1, <1>3, <1>4
  <2>2. ASSUME NEW d \in Insts, NEW i \in Insts
        PROVE  <<d, i>> \in n.users <=>
                 n.used[i] # Unseen /\ \E x \in Held(n.used[i]) : n.def[x] = d
    <3>1. <<d, i>> \in n.users <=> i \in live /\ \E x \in Held(uses[i]) : Def(x) = d
      BY <1>1
    <3>2. i \in live => n.used[i] = uses[i] /\ \A x \in Held(uses[i]) : n.def[x] = Def(x)
      BY <1>1, <1>2
    <3>3. n.used[i] # Unseen <=> i \in live
      BY <1>1, <1>2
    <3> QED BY <3>1, <3>2, <3>3
  <2> QED BY <2>1, <2>2 DEF UsersMatch
<1>8. UsedMatch(n)
  BY <1>1, <1>2, <1>3 DEF UsedMatch
<1> QED BY <1>5, <1>6, <1>7, <1>8 DEF n, Matches

\* What get_def_use_mgr returns matches the module.
LEMMA CurrentMatches ==
  ASSUME IInv, ~valid => WellFormed
  PROVE  Current \in Manager /\ Matches(Current)
  BY AnalyzedMatches DEF IInv, Current, ManagerMatches, Types
-----------------------------------------------------------------------------
\* The invariant is inductive.

\* The initial state satisfies the invariant.
LEMMA InitInv == Init => IInv
<1> SUFFICES ASSUME Init PROVE IInv
  OBVIOUS
<1>1. Empty \in Manager /\ Empty.users = {} /\ \A i \in Insts : Empty.used[i] = Unseen
      /\ \A x \in Ids : Empty.def[x] = NoInst
  BY DEF Empty, Manager
<1>2. Matches(Empty)
  BY <1>1, DefUseAssumption DEF Init, Matches, DefsMatch, UsersMatch, UsedMatch, Held
<1>3. << >> \in Seq(Ids)
  OBVIOUS
<1>4. Types
  BY <1>1, <1>3, DefUseAssumption DEF Init, Types
<1> QED BY <1>2, <1>4 DEF Init, IInv, IdsUnique, ManagerMatches, ReplaceOK, InCall

\* The definition of a new instruction, with a fresh id or none.
LEMMA NewDefMatches ==
  ASSUME Types, IdsUnique, NEW m \in Manager, Matches(m), NEW i \in Insts, i \notin live,
         NEW x, x = NoId \/ (x = nextId /\ nextId <= MaxId)
  PROVE  /\ AnalyzeInstDef(m, i, x) \in Manager
         /\ UsersMatch(AnalyzeInstDef(m, i, x))
         /\ AnalyzeInstDef(m, i, x).used = m.used
         /\ \A y \in Ids, j \in Insts : AnalyzeInstDef(m, i, x).def[y] = j <=>
                                          (j = i /\ y = x) \/ (j \in live /\ id[j] = y)
<1>1. m.used[i] = Unseen
  BY DEF Matches, UsedMatch
<1>2. CASE x = NoId
  <2>1. AnalyzeInstDef(m, i, x) = m
    BY <1>1, <1>2 DEF AnalyzeInstDef, ClearInst
  <2> QED BY <1>2, <2>1, DefUseAssumption DEF Matches, DefsMatch
<1>3. CASE x = nextId /\ nextId <= MaxId
  <2>1. x \in Ids /\ x # NoId
    BY <1>3, DefUseAssumption DEF Types, Ids
  <2>2. \A j \in live : id[j] # x
    BY <1>3, <2>1, DefUseAssumption DEF IdsUnique, Types, Ids
  <2>3. m.def[x] = NoInst
    BY <2>1, <2>2 DEF Matches, DefsMatch, Manager
  <2>4. \A j \in Insts : x \notin Held(m.used[j])
    BY <1>3, HeldNothing DEF Matches, UsedMatch, Types, Ids
  <2>5. /\ AnalyzeInstDef(m, i, x) \in Manager
        /\ UsersMatch(AnalyzeInstDef(m, i, x))
        /\ AnalyzeInstDef(m, i, x).def = [m.def EXCEPT ![x] = i]
        /\ AnalyzeInstDef(m, i, x).used = m.used
    BY <2>1, <2>3, <2>4, AnalyzeInstDefMatches DEF Matches
  <2>6. ASSUME NEW y \in Ids, NEW j \in Insts
        PROVE  AnalyzeInstDef(m, i, x).def[y] = j <=> (j = i /\ y = x) \/ (j \in live /\ id[j] = y)
    BY <2>1, <2>2, <2>3, <2>5 DEF Matches, DefsMatch, Manager
  <2> QED BY <2>5, <2>6
<1> QED BY <1>2, <1>3

\* What Insert does to the types and the ids.
LEMMA InsertOK ==
  ASSUME Types, IdsUnique, NEW i \in Insts, NEW x \in Ids \cup {NoId}, NEW us \in Operands,
         Insert(i, x, us)
  PROVE  /\ live' \subseteq Insts /\ id' \in [Insts -> Ids \cup {NoId}]
         /\ uses' \in [Insts -> Seq(Ids)] /\ nextId' \in 1..(MaxId + 1)
         /\ IdsUnique'
         /\ i \notin live /\ (x = NoId \/ (x = nextId /\ nextId <= MaxId))
<1>1. us \in Seq(Ids)
  BY DefUseAssumption
<1>2. i \notin live /\ live' = live \cup {i} /\ id' = [id EXCEPT ![i] = x]
      /\ uses' = [uses EXCEPT ![i] = us]
      /\ \/ x = NoId /\ nextId' = nextId
         \/ x = nextId /\ nextId <= MaxId /\ nextId' = nextId + 1
  BY DEF Insert
<1>3. nextId' \in 1..(MaxId + 1) /\ nextId <= nextId'
  BY <1>2, DefUseAssumption DEF Types
<1>4. IdsUnique'
  <2>1. \A j \in live : id'[j] = id[j]
    BY <1>2 DEF Types
  <2>2. id'[i] = x
    BY <1>2 DEF Types
  <2>3. \A j \in live : id[j] # NoId => id[j] < nextId /\ id[j] \in Ids
    BY DEF IdsUnique, Types
  <2>4. \A j \in live' : id'[j] # NoId => id'[j] < nextId'
    BY <1>2, <1>3, <2>1, <2>2, <2>3 DEF Types, Ids
  <2>5. \A j \in live : id[j] # NoId => id[j] # nextId
    BY <2>3 DEF Types, Ids
  <2>6. \A j, k \in live' : id'[j] = id'[k] /\ id'[j] # NoId => j = k
    BY <1>2, <2>1, <2>2, <2>5 DEF IdsUnique
  <2> QED BY <2>4, <2>6 DEF IdsUnique
<1> QED BY <1>1, <1>2, <1>3, <1>4 DEF Types
\* Operands that are defined have definitions in a manager that matches.
LEMMA OperandsHaveDefs ==
  ASSUME Types, IdsUnique, NEW m \in Manager, Matches(m), NEW x \in Ids, Def(x) # NoInst
  PROVE  m.def[x] # NoInst /\ x < nextId
<1>1. Def(x) \in live /\ id[Def(x)] = x
  BY DefIs DEF Types
<1>2. m.def[x] = Def(x)
  BY <1>1 DEF Matches, DefsMatch, Types
<1> QED BY <1>1, <1>2, DefUseAssumption DEF IdsUnique

\* Adding an instruction and analyzing it keeps the invariant.
LEMMA AddInv ==
  ASSUME IInv, NEW i \in Insts, NEW x \in Ids \cup {NoId}, NEW us \in Operands, Add(i, x, us)
  PROVE  IInv'
<1> DEFINE d == AnalyzeInstDef(manager, i, x)
           n == AnalyzeInstUse(d, i, us)
<1>0. Types /\ IdsUnique /\ Insert(i, x, us) /\ us \in Seq(Ids) /\ Held(us) \subseteq Ids
  BY HeldIds, DefUseAssumption DEF IInv, Add
<1>1. /\ live' \subseteq Insts /\ id' \in [Insts -> Ids \cup {NoId}]
      /\ uses' \in [Insts -> Seq(Ids)] /\ nextId' \in 1..(MaxId + 1)
      /\ IdsUnique'
      /\ i \notin live /\ (x = NoId \/ (x = nextId /\ nextId <= MaxId))
  BY <1>0, InsertOK
<1>2. live' = live \cup {i} /\ id' = [id EXCEPT ![i] = x] /\ uses' = [uses EXCEPT ![i] = us]
      /\ (x # NoId => nextId' = x + 1) /\ nextId <= nextId' /\ valid' = valid
      /\ editing' = editing /\ replace' = replace /\ ~InCall
      /\ \A y \in Held(us) : y = x \/ Def(y) # NoInst
  BY DEF Add, Insert, IInv, Types
<1>3. ReplaceOK'
  BY <1>2 DEF ReplaceOK, InCall, Idle
<1>4. CASE ~valid
  <2>1. manager' = manager
    BY <1>4 DEF Add
  <2> QED BY <1>1, <1>2, <1>3, <1>4, <2>1 DEF IInv, Types, ManagerMatches, Empty
<1>5. CASE valid
  <2>1. manager' = n
    BY <1>5 DEF Add, AnalyzeInstDefUse
  <2>2. manager \in Manager /\ Matches(manager)
    BY <1>5 DEF IInv, Types, ManagerMatches
  <2>3. d \in Manager /\ UsersMatch(d) /\ d.used = manager.used
        /\ \A y \in Ids, j \in Insts : d.def[y] = j <=>
                                       (j = i /\ y = x) \/ (j \in live /\ id[j] = y)
    BY <1>0, <1>1, <2>2, NewDefMatches
  <2> HIDE DEF d
  <2>4. \A y \in Held(us) : d.def[y] # NoInst /\ y < nextId'
    <3> SUFFICES ASSUME NEW y \in Held(us) PROVE d.def[y] # NoInst /\ y < nextId'
      OBVIOUS
    <3>1. y \in Ids
      BY <1>0
    <3>2. CASE y = x
      BY <1>1, <1>2, <2>3, <3>1, <3>2, DefUseAssumption DEF Ids
    <3>3. CASE Def(y) # NoInst
      <4>1. manager.def[y] # NoInst /\ y < nextId
        BY <1>0, <2>2, <3>1, <3>3, OperandsHaveDefs
      <4>2. manager.def[y] \in live /\ id[manager.def[y]] = y
        BY <2>2, <3>1, <4>1 DEF Matches, DefsMatch, Manager
      <4>3. d.def[y] = manager.def[y]
        BY <2>3, <3>1, <4>2, <1>0 DEF Types
      <4> QED BY <1>1, <1>2, <4>1, <4>3, <3>1, <1>0 DEF Types, Ids
    <3> QED BY <1>2, <3>2, <3>3
  <2>5. n \in Manager /\ UsersMatch(n) /\ n.def = d.def /\ n.used = [d.used EXCEPT ![i] = us]
    BY <1>0, <2>3, <2>4, AnalyzeInstUseMatches
  <2> HIDE DEF n
  <2>6. \A y \in Ids, j \in Insts : n.def[y] = j <=> j \in live' /\ id'[j] = y
    BY <1>0, <1>1, <1>2, <2>3, <2>5 DEF Types
  <2>7. \A j \in Insts :
          /\ n.used[j] # Unseen =>
               j \in live' /\ n.used[j] = uses'[j] /\ \A y \in Held(uses'[j]) : y < nextId'
          /\ j \in live' \ editing' => n.used[j] # Unseen
    <3> SUFFICES ASSUME NEW j \in Insts
                 PROVE  /\ n.used[j] # Unseen => j \in live' /\ n.used[j] = uses'[j]
                                                 /\ \A y \in Held(uses'[j]) : y < nextId'
                        /\ j \in live' \ editing' => n.used[j] # Unseen
      OBVIOUS
    <3>1. CASE j = i
      BY <1>0, <1>2, <2>3, <2>4, <2>5, <3>1, DefUseAssumption DEF Types, Manager
    <3>2. CASE j # i
      <4>1. n.used[j] = manager.used[j] /\ uses'[j] = uses[j] /\ (j \in live' <=> j \in live)
        BY <1>0, <1>2, <2>3, <2>5, <3>2 DEF Types, Manager
      <4>2. uses[j] \in Seq(Ids)
        BY <1>0 DEF Types
      <4>3. \A y \in Held(uses[j]) : y \in Ids
        BY <4>2, HeldIds
      <4> QED BY <1>0, <1>1, <1>2, <2>2, <4>1, <4>3 DEF Matches, UsedMatch, Types, Ids
    <3> QED BY <3>1, <3>2
  <2>8. Matches(manager)'
    BY <2>1, <2>5, <2>6, <2>7 DEF Matches, DefsMatch, UsedMatch, UsersMatch
  <2>9. Types'
    BY <1>0, <1>1, <1>2, <2>1, <2>5 DEF Types
  <2> QED BY <1>1, <1>2, <1>3, <1>5, <2>8, <2>9 DEF IInv, ManagerMatches
<1> QED BY <1>0, <1>4, <1>5 DEF Types

\* Adding an instruction and analyzing its definition only keeps it.
LEMMA AddDefInv ==
  ASSUME IInv, NEW i \in Insts, NEW x \in Ids \cup {NoId}, NEW us \in Operands, AddDef(i, x, us)
  PROVE  IInv'
<1> DEFINE n == AnalyzeInstDef(Current, i, x)
<1>0. Types /\ IdsUnique /\ Insert(i, x, us) /\ Current \in Manager /\ Matches(Current)
  BY CurrentMatches DEF IInv, AddDef
<1>1. /\ live' \subseteq Insts /\ id' \in [Insts -> Ids \cup {NoId}]
      /\ uses' \in [Insts -> Seq(Ids)] /\ nextId' \in 1..(MaxId + 1)
      /\ IdsUnique'
      /\ i \notin live /\ (x = NoId \/ (x = nextId /\ nextId <= MaxId))
  BY <1>0, InsertOK
<1>2. live' = live \cup {i} /\ id' = [id EXCEPT ![i] = x] /\ uses' = [uses EXCEPT ![i] = us]
      /\ nextId <= nextId' /\ valid' = TRUE /\ manager' = n
      /\ editing' = editing \cup {i} /\ replace' = replace /\ ~InCall
  BY DEF AddDef, Insert, IInv, Types
<1>3. n \in Manager /\ UsersMatch(n) /\ n.used = Current.used
      /\ \A y \in Ids, j \in Insts : n.def[y] = j <=>
                                     (j = i /\ y = x) \/ (j \in live /\ id[j] = y)
  BY <1>0, <1>1, NewDefMatches
<1> HIDE DEF n
<1>4. \A y \in Ids, j \in Insts : n.def[y] = j <=> j \in live' /\ id'[j] = y
  BY <1>0, <1>1, <1>2, <1>3 DEF Types
<1>5. ASSUME NEW j \in Insts
      PROVE  /\ n.used[j] # Unseen =>
                  j \in live' /\ n.used[j] = uses'[j] /\ \A y \in Held(uses'[j]) : y < nextId'
             /\ j \in live' \ editing' => n.used[j] # Unseen
  <2>1. n.used[j] # Unseen => j # i
    BY <1>0, <1>1, <1>3 DEF Matches, UsedMatch
  <2>2. j # i => uses'[j] = uses[j]
    BY <1>0, <1>2 DEF Types
  <2>3. \A y \in Held(uses[j]) : y \in Ids
    BY <1>0, HeldIds DEF Types
  <2> QED BY <1>0, <1>1, <1>2, <1>3, <2>1, <2>2, <2>3 DEF Matches, UsedMatch, Types, Ids
<1>6. Matches(manager)'
  BY <1>2, <1>3, <1>4, <1>5 DEF Matches, DefsMatch, UsedMatch, UsersMatch
<1>7. Types'
  BY <1>0, <1>1, <1>2, <1>3 DEF Types
<1> QED BY <1>1, <1>2, <1>6, <1>7 DEF IInv, ManagerMatches, ReplaceOK, InCall, Idle

\* Operands of one instruction are set and analyzed, whether or not its
\* earlier uses were forgotten.
LEMMA ReanalyzedInv ==
  ASSUME IInv, valid, NEW i \in live, NEW us \in Seq(Ids), AllDefined(us),
         NEW m, m = manager \/ m = EraseUses(manager, i),
         manager' = AnalyzeInstUse(m, i, us),
         uses' = [uses EXCEPT ![i] = us],
         UNCHANGED <<live, id, nextId, valid>>,
         editing' \subseteq editing, editing \ {i} \subseteq editing'
  PROVE  Types' /\ IdsUnique' /\ ManagerMatches'
<1> DEFINE n == AnalyzeInstUse(m, i, us)
<1>1. Types /\ IdsUnique /\ manager \in Manager /\ Matches(manager) /\ i \in Insts
      /\ Held(us) \subseteq Ids
  BY HeldIds DEF IInv, Types, ManagerMatches
<1>2. m \in Manager /\ UsersMatch(m) /\ m.def = manager.def
      /\ (m.used = manager.used \/ m.used = [manager.used EXCEPT ![i] = Unseen])
  BY <1>1, EraseUsesMatches DEF Matches
<1>3. \A x \in Held(us) : m.def[x] # NoInst /\ x < nextId
  BY <1>1, <1>2, OperandsHaveDefs DEF AllDefined
<1>4. n \in Manager /\ UsersMatch(n) /\ n.def = m.def /\ n.used = [m.used EXCEPT ![i] = us]
  BY <1>1, <1>2, <1>3, AnalyzeInstUseMatches
<1> HIDE DEF n
<1>5. manager' = n
  BY DEF n
<1>6. \A y \in Ids, j \in Insts : n.def[y] = j <=> j \in live' /\ id'[j] = y
  BY <1>1, <1>2, <1>4 DEF Matches, DefsMatch
<1>7. ASSUME NEW j \in Insts
      PROVE  /\ n.used[j] # Unseen =>
                  j \in live' /\ n.used[j] = uses'[j] /\ \A y \in Held(uses'[j]) : y < nextId'
             /\ j \in live' \ editing' => n.used[j] # Unseen
  <2>1. CASE j = i
    BY <1>1, <1>2, <1>3, <1>4, <2>1, DefUseAssumption DEF Types, Manager
  <2>2. CASE j # i
    <3>1. n.used[j] = manager.used[j] /\ uses'[j] = uses[j]
      BY <1>1, <1>2, <1>4, <2>2 DEF Types, Manager
    <3> QED BY <1>1, <2>2, <3>1 DEF Matches, UsedMatch
  <2> QED BY <2>1, <2>2
<1>8. Matches(manager)'
  <2>1. DefsMatch(manager)'
    BY <1>5, <1>6 DEF DefsMatch
  <2>2. UsersMatch(manager)'
    <3>1. UsersMatch(manager')
      BY <1>4, <1>5
    <3> QED BY <3>1 DEF UsersMatch
  <2>3. UsedMatch(manager)'
    BY <1>5, <1>7 DEF UsedMatch
  <2> QED BY <2>1, <2>2, <2>3 DEF Matches
<1>9. Types'
  <2>1. uses' \in [Insts -> Seq(Ids)]
    BY <1>1 DEF Types
  <2>2. manager' \in Manager
    BY <1>4, <1>5
  <2>3. editing' \subseteq live'
    BY <1>1 DEF Types
  <2> QED BY <1>1, <2>1, <2>2, <2>3 DEF Types
<1> QED BY <1>1, <1>8, <1>9 DEF IdsUnique, ManagerMatches

\* AnalyzeUses of an instruction being edited keeps it.
LEMMA AnalyzeUsesInv ==
  ASSUME IInv, NEW i \in Insts, NEW us \in Operands, AnalyzeUses(i, us)
  PROVE  IInv'
<1>1. i \in live /\ us \in Seq(Ids) /\ AllDefined(us) /\ uses' = [uses EXCEPT ![i] = us]
      /\ UNCHANGED <<live, id, nextId, valid, replace>> /\ editing' = editing \ {i} /\ ~InCall
  BY DefUseAssumption DEF AnalyzeUses, IInv, Types
<1>2. ReplaceOK'
  BY <1>1 DEF ReplaceOK, InCall, Idle
<1>3. CASE valid
  <2>1. manager' = AnalyzeInstUse(manager, i, us)
    BY <1>3 DEF AnalyzeUses
  <2> QED BY <1>1, <1>2, <1>3, <2>1, ReanalyzedInv DEF IInv
<1>4. CASE ~valid
  <2>1. manager' = manager
    BY <1>4 DEF AnalyzeUses
  <2> QED BY <1>1, <1>2, <1>4, <2>1 DEF IInv, Types, IdsUnique, ManagerMatches, Empty
<1> QED BY <1>3, <1>4

\* UpdateDefUse keeps it.
LEMMA UpdateInv ==
  ASSUME IInv, NEW i \in Insts, NEW us \in Operands, Update(i, us)
  PROVE  IInv'
<1>1. i \in live \ editing /\ us \in Seq(Ids) /\ AllDefined(us) /\ uses' = [uses EXCEPT ![i] = us]
      /\ UNCHANGED <<live, id, nextId, valid, editing, replace>> /\ ~InCall
  BY DefUseAssumption DEF Update
<1>2. ReplaceOK'
  BY <1>1 DEF ReplaceOK, InCall, Idle
<1>3. CASE valid
  <2>1. id[i] # NoId => manager.def[id[i]] # NoInst
    BY <1>1, <1>3, DefUseAssumption DEF IInv, Types, ManagerMatches, Matches, DefsMatch
  <2>2. manager' = AnalyzeInstUse(manager, i, us)
    BY <1>3, <2>1 DEF Update, UpdateDefUse
  <2> QED BY <1>1, <1>2, <1>3, <2>2, ReanalyzedInv DEF IInv
<1>4. CASE ~valid
  <2>1. manager' = manager
    BY <1>4 DEF Update
  <2> QED BY <1>1, <1>2, <1>4, <2>1 DEF IInv, Types, IdsUnique, ManagerMatches, Empty
<1> QED BY <1>3, <1>4

\* ForgetUses keeps it: the instruction is being edited.
LEMMA ForgetUsesInv ==
  ASSUME IInv, NEW i \in Insts, ForgetUses(i)
  PROVE  IInv'
<1>1. i \in live /\ editing' = editing \cup {i} /\ UNCHANGED <<live, id, uses, nextId, valid, replace>>
      /\ ~InCall
  BY DEF ForgetUses, module
<1>2. ReplaceOK' /\ IdsUnique'
  BY <1>1 DEF ReplaceOK, InCall, Idle, IdsUnique, IInv
<1>3. CASE valid
  <2>1. manager' = EraseUses(manager, i) /\ manager \in Manager /\ Matches(manager)
    BY <1>3 DEF ForgetUses, IInv, Types, ManagerMatches
  <2>2. manager' \in Manager /\ UsersMatch(manager') /\ manager'.def = manager.def
        /\ manager'.used = [manager.used EXCEPT ![i] = Unseen]
    BY <2>1, EraseUsesMatches DEF Matches
  <2>3. UsersMatch(manager)' /\ DefsMatch(manager)'
    BY <1>1, <2>1, <2>2 DEF UsersMatch, Matches, DefsMatch
  <2>4. UsedMatch(manager)'
    BY <1>1, <2>1, <2>2 DEF Matches, UsedMatch, Manager
  <2>5. Types'
    BY <1>1, <2>2 DEF IInv, Types
  <2> QED BY <1>1, <1>2, <1>3, <2>3, <2>4, <2>5 DEF IInv, ManagerMatches, Matches
<1>4. CASE ~valid
  <2>1. manager' = manager
    BY <1>4 DEF ForgetUses
  <2> QED BY <1>1, <1>2, <1>4, <2>1 DEF IInv, Types, ManagerMatches, Empty
<1> QED BY <1>3, <1>4

\* KillInst keeps it: nothing is left about the instruction.
LEMMA KillInstInv ==
  ASSUME IInv, NEW i \in Insts, KillInst(i)
  PROVE  IInv'
<1>0. Types /\ IdsUnique /\ id[i] \in Ids \cup {NoId}
  BY DEF IInv, Types
<1>1. i \in live \ editing /\ live' = live \ {i} /\ id' = [id EXCEPT ![i] = NoId]
      /\ uses' = [uses EXCEPT ![i] = << >>] /\ UNCHANGED <<nextId, valid, editing, replace>>
      /\ ~InCall
  BY DEF KillInst
<1>2. ReplaceOK' /\ IdsUnique'
  BY <1>0, <1>1 DEF ReplaceOK, InCall, Idle, IdsUnique, Types
<1>3. ASSUME manager' \in Manager
      PROVE  Types'
  BY <1>0, <1>1, <1>3 DEF Types
<1>4. CASE valid
  <2> DEFINE n == ClearInst(manager, i, id[i])
  <2>1. manager' = n /\ manager \in Manager /\ Matches(manager)
    BY <1>4 DEF KillInst, IInv, Types, ManagerMatches
  <2>2. manager.used[i] # Unseen
    BY <1>1, <2>1 DEF Matches, UsedMatch
  <2>3. \A y \in Ids : manager.def[y] = i <=> y = id[i]
    BY <1>0, <1>1, <2>1 DEF Matches, DefsMatch, Types
  <2>4. n \in Manager /\ UsersMatch(n)
        /\ n.def = [y \in Ids |-> IF y = id[i] THEN NoInst ELSE manager.def[y]]
        /\ n.used = [manager.used EXCEPT ![i] = Unseen]
    BY <1>0, <2>1, <2>2, <2>3, ClearInstMatches DEF Matches
  <2> HIDE DEF n
  <2>5. \A y \in Ids, j \in Insts : n.def[y] = j <=> j \in live' /\ id'[j] = y
    <3> SUFFICES ASSUME NEW y \in Ids, NEW j \in Insts
                 PROVE  n.def[y] = j <=> j \in live' /\ id'[j] = y
      OBVIOUS
    <3>1. manager.def[y] = j <=> j \in live /\ id[j] = y
      BY <2>1 DEF Matches, DefsMatch
    <3>2. CASE j = i
      BY <1>1, <2>3, <2>4, <3>2, DefUseAssumption
    <3>3. CASE j # i
      <4>1. (j \in live' <=> j \in live) /\ id'[j] = id[j]
        BY <1>0, <1>1, <3>3 DEF Types
      <4>2. y = id[i] => manager.def[y] = i
        BY <2>3
      <4> QED BY <2>4, <3>1, <3>3, <4>1, <4>2, DefUseAssumption
    <3> QED BY <3>2, <3>3
  <2>6. UsedMatch(manager)'
    <3> SUFFICES ASSUME NEW j \in Insts
                 PROVE  /\ n.used[j] # Unseen => j \in live' /\ n.used[j] = uses'[j]
                                                 /\ \A y \in Held(uses'[j]) : y < nextId'
                        /\ j \in live' \ editing' => n.used[j] # Unseen
      BY <2>1 DEF UsedMatch
    <3>1. CASE j = i
      BY <1>1, <2>1, <2>4, <3>1 DEF Manager
    <3>2. CASE j # i
      <4>1. n.used[j] = manager.used[j] /\ uses'[j] = uses[j]
        BY <1>0, <1>1, <2>1, <2>4, <3>2 DEF Types, Manager
      <4> QED BY <1>1, <2>1, <3>2, <4>1 DEF Matches, UsedMatch
    <3> QED BY <3>1, <3>2
  <2>7. Matches(manager)'
    BY <2>1, <2>4, <2>5, <2>6 DEF Matches, UsersMatch, DefsMatch
  <2> QED BY <1>1, <1>2, <1>3, <1>4, <2>1, <2>4, <2>7 DEF IInv, ManagerMatches
<1>5. CASE ~valid
  <2>1. manager' = manager
    BY <1>5 DEF KillInst
  <2> QED BY <1>0, <1>1, <1>2, <1>3, <1>5, <2>1 DEF IInv, Types, ManagerMatches, Empty
<1> QED BY <1>4, <1>5

\* Invalidating the manager keeps it.
LEMMA InvalidateInv ==
  ASSUME IInv, Invalidate
  PROVE  IInv'
<1>1. Empty \in Manager
  BY DEF Empty, Manager
<1> QED BY <1>1 DEF Invalidate, module, IInv, Types, IdsUnique, ManagerMatches, Empty,
                    ReplaceOK, InCall, Idle

\* Building the manager keeps it.
LEMMA BuildInv ==
  ASSUME IInv, Build
  PROVE  IInv'
<1>1. Analyzed \in Manager /\ Matches(Analyzed)
  BY AnalyzedMatches DEF IInv, Build
<1>2. manager' = Analyzed /\ valid' = TRUE /\ UNCHANGED <<live, id, uses, nextId, editing, replace>>
      /\ ~InCall
  BY DEF Build, module
<1>3. Matches(manager)'
  BY <1>1, <1>2 DEF Matches, DefsMatch, UsersMatch, UsedMatch
<1> QED BY <1>1, <1>2, <1>3 DEF IInv, Types, IdsUnique, ManagerMatches, ReplaceOK, InCall, Idle

\* Collecting the uses to replace keeps it: all that there are become pending.
LEMMA StartReplaceInv ==
  ASSUME IInv, NEW before \in Ids, NEW after \in Ids, NEW p \in Predicates,
         StartReplace(before, after, p)
  PROVE  IInv'
<1> DEFINE pending == {u \in UsesOf(Current, before) : u[1] \in p}
<1>0. Types /\ IdsUnique /\ Current \in Manager /\ Matches(Current) /\ WellFormed
  BY CurrentMatches DEF IInv, StartReplace
<1>1. /\ UNCHANGED <<live, id, uses, nextId, editing>> /\ valid' = TRUE /\ manager' = Current
      /\ before # after /\ Def(before) # NoInst /\ Def(after) # NoInst
      /\ replace' = [before |-> before, after |-> after, predicate |-> p, prev |-> NoInst,
                     pending |-> pending]
  BY DEF StartReplace, module
<1>2. Matches(manager)' /\ Types' /\ IdsUnique'
  <2>1. Types' /\ IdsUnique'
    BY <1>0, <1>1 DEF Types, IdsUnique
  <2>2. Matches(manager)'
    BY <1>0, <1>1 DEF Matches, DefsMatch, UsersMatch, UsedMatch
  <2> QED BY <2>1, <2>2
<1>3. Def(before) \in live /\ Current.def[before] = Def(before)
  BY <1>0, <1>1, DefIs DEF Matches, DefsMatch, Types
<1>4. \A u \in pending : u \in Insts \X Nat /\ u[1] \in live /\ u[2] \in DOMAIN uses[u[1]]
  <2> SUFFICES ASSUME NEW u \in pending
               PROVE  u \in Insts \X Nat /\ u[1] \in live /\ u[2] \in DOMAIN uses[u[1]]
    OBVIOUS
  <2>1. PICK i \in {j \in Insts : <<Current.def[before], j>> \in Current.users} :
          u \in {<<i, k>> : k \in {n \in DOMAIN uses[i] : uses[i][n] = before}}
    BY DEF UsesOf
  <2>2. i \in live
    BY <1>0, <1>3, <2>1 DEF Matches, UsersMatch, UsedMatch, Types
  <2>3. uses[i] \in Seq(Ids)
    BY <1>0, <2>2 DEF Types
  <2>4. DOMAIN uses[i] \subseteq Nat
    BY <2>3
  <2> QED BY <1>0, <2>1, <2>2, <2>4 DEF Types
<1>5. ASSUME NEW i \in (live \cap p) \ editing, NEW k \in DOMAIN uses[i], uses[i][k] = before
      PROVE  <<i, k>> \in pending
  <2>1. i \in Insts /\ uses[i] \in Seq(Ids)
    BY <1>0 DEF Types
  <2>2. Current.used[i] # Unseen /\ Current.used[i] = uses[i]
    BY <1>0, <2>1 DEF Matches, UsedMatch
  <2>3. before \in Held(uses[i])
    BY <1>5, <2>1, HeldIds
  <2>4. <<Current.def[before], i>> \in Current.users
    BY <1>0, <1>3, <2>1, <2>2, <2>3 DEF Matches, UsersMatch, Types
  <2> QED BY <1>5, <2>1, <2>4 DEF UsesOf
<1> HIDE DEF pending
<1>6. Defined(after)
  BY <1>0, <1>1, DefIs
<1>7. \A i \in live : \A x \in Held(uses[i]) : Defined(x)
  <2> SUFFICES ASSUME NEW i \in live, NEW x \in Held(uses[i]) PROVE Defined(x)
    OBVIOUS
  <2>1. x \in Ids
    BY <1>0, HeldIds DEF Types
  <2>2. Def(x) # NoInst
    BY <1>0 DEF WellFormed, AllDefined
  <2> QED BY <1>0, <2>1, <2>2, DefIs
<1>8. /\ replace' \in [before : Ids, after : Ids, predicate : Predicates,
                        prev : Insts \cup {NoInst}, pending : SUBSET (Insts \X Nat)]
      /\ replace'.before = before /\ replace'.after = after /\ replace'.predicate = p
      /\ replace'.pending = pending
  <2>1. pending \subseteq Insts \X Nat
    BY <1>4
  <2> QED BY <1>1, <2>1
<1>9. ReplaceOK'
  BY <1>1, <1>4, <1>5, <1>6, <1>7, <1>8 DEF ReplaceOK, Defined
<1> QED BY <1>1, <1>2, <1>9 DEF IInv, ManagerMatches

\* Replacing one of them keeps it.
LEMMA ReplaceUseInv ==
  ASSUME IInv, InCall, NEW i, NEW k, <<i, k>> \in replace.pending, ReplaceUse(i, k)
  PROVE  IInv'
<1> DEFINE us == [uses[i] EXCEPT ![k] = replace.after]
<1>1. /\ replace \in [before : Ids, after : Ids, predicate : Predicates,
                       prev : Insts \cup {NoInst}, pending : SUBSET (Insts \X Nat)]
      /\ valid
      /\ replace.before # replace.after
      /\ Defined(replace.after)
      /\ \A j \in live : \A x \in Held(uses[j]) : Defined(x)
      /\ \A u \in replace.pending : u[1] \in live /\ u[2] \in DOMAIN uses[u[1]]
      /\ \A j \in (live \cap replace.predicate) \ editing : \A n \in DOMAIN uses[j] :
           uses[j][n] = replace.before => <<j, n>> \in replace.pending
  BY DEF IInv, ReplaceOK
<1>2. Types /\ IdsUnique /\ i \in live /\ i \in Insts /\ k \in DOMAIN uses[i]
      /\ uses[i] \in Seq(Ids) /\ uses \in [Insts -> Seq(Ids)] /\ replace.after \in Ids
  BY <1>1 DEF IInv, Types
<1>3. us \in Seq(Ids) /\ DOMAIN us = DOMAIN uses[i] /\ us[k] = replace.after
      /\ \A n \in DOMAIN us : n # k => us[n] = uses[i][n]
  BY <1>2
<1>4. \A x \in Held(us) : x \in Held(uses[i]) \cup {replace.after}
  <2> SUFFICES ASSUME NEW x \in Held(us) PROVE x \in Held(uses[i]) \cup {replace.after}
    OBVIOUS
  <2>1. PICK n \in DOMAIN us : x = us[n]
    BY <1>3, HeldIds
  <2>2. CASE n = k
    BY <1>3, <2>1, <2>2
  <2>3. CASE n # k
    BY <1>2, <1>3, <2>1, <2>3, HeldIds
  <2> QED BY <2>2, <2>3
<1>5. uses' = [uses EXCEPT ![i] = us] /\ uses'[i] = us
      /\ UNCHANGED <<live, id, nextId, valid, editing>>
      /\ replace' = [replace EXCEPT !.pending = @ \ {<<i, k>>}, !.prev = i]
  BY <1>2 DEF ReplaceUse
<1> HIDE DEF us
<1>6. AllDefined(us)
  <2> SUFFICES ASSUME NEW x \in Held(us) PROVE Def(x) # NoInst
    BY DEF AllDefined
  <2>1. Defined(x) /\ x \in Ids
    BY <1>1, <1>2, <1>3, <1>4, HeldIds
  <2> QED BY <1>2, <2>1, DefIs
<1>7. manager' = AnalyzeInstUse(IF replace.prev = i THEN manager ELSE EraseUses(manager, i), i, us)
  BY <1>5 DEF ReplaceUse
<1>8. Types' /\ IdsUnique' /\ ManagerMatches'
  BY <1>1, <1>2, <1>3, <1>5, <1>6, <1>7, ReanalyzedInv
<1>9. /\ replace' \in [before : Ids, after : Ids, predicate : Predicates,
                        prev : Insts \cup {NoInst}, pending : SUBSET (Insts \X Nat)]
      /\ replace'.before = replace.before /\ replace'.after = replace.after
      /\ replace'.predicate = replace.predicate
      /\ replace'.pending = replace.pending \ {<<i, k>>}
  BY <1>1, <1>2, <1>5
<1>10. \A j \in live : \A x \in Held(uses'[j]) : Defined(x)
  BY <1>1, <1>2, <1>4, <1>5
<1>11. \A u \in replace'.pending : u[1] \in live /\ u[2] \in DOMAIN uses'[u[1]]
  BY <1>1, <1>2, <1>3, <1>5, <1>9
<1>12. ASSUME NEW j \in (live \cap replace'.predicate) \ editing, NEW n \in DOMAIN uses'[j],
              uses'[j][n] = replace'.before
       PROVE  <<j, n>> \in replace'.pending
  <2>1. CASE j = i
    BY <1>1, <1>2, <1>3, <1>5, <1>9, <1>12, <2>1
  <2>2. CASE j # i
    BY <1>1, <1>2, <1>5, <1>9, <1>12, <2>2
  <2> QED BY <2>1, <2>2
<1>13. ReplaceOK'
  BY <1>1, <1>5, <1>9, <1>10, <1>11, <1>12 DEF ReplaceOK, Defined
<1> QED BY <1>8, <1>13 DEF IInv

\* Every step keeps the invariant.
LEMMA NextInv == IInv /\ [Next]_vars => IInv'
<1> SUFFICES ASSUME IInv, [Next]_vars PROVE IInv'
  OBVIOUS
<1>1. ASSUME NEW i \in Insts, NEW us \in Operands, NEW x \in Ids \cup {NoId},
             Add(i, x, us) \/ AddDef(i, x, us)
      PROVE  IInv'
  BY <1>1, AddInv, AddDefInv
<1>2. ASSUME NEW i \in Insts, NEW us \in Operands, AnalyzeUses(i, us) \/ Update(i, us)
      PROVE  IInv'
  BY <1>2, AnalyzeUsesInv, UpdateInv
<1>3. ASSUME NEW i \in Insts, ForgetUses(i) \/ KillInst(i)
      PROVE  IInv'
  BY <1>3, ForgetUsesInv, KillInstInv
<1>4. ASSUME Invalidate \/ Build
      PROVE  IInv'
  BY <1>4, InvalidateInv, BuildInv
<1>5. ASSUME NEW x \in Ids, NEW y \in Ids, NEW p \in Predicates, StartReplace(x, y, p)
      PROVE  IInv'
  BY <1>5, StartReplaceInv
<1>6. ASSUME InCall, NEW u \in replace.pending, ReplaceUse(u[1], u[2])
      PROVE  IInv'
  <2>1. <<u[1], u[2]>> \in replace.pending
    BY <1>6 DEF ReplaceUse
  <2> QED BY <1>6, <2>1, ReplaceUseInv
<1>7. CASE UNCHANGED <<live, id, uses, nextId, valid, manager, editing>>
            /\ (replace' = replace \/ replace' = Idle)
  <2>1. Types' /\ IdsUnique'
    BY <1>7 DEF IInv, Types, IdsUnique
  <2>2. ManagerMatches'
    <3>1. DefsMatch(manager) => DefsMatch(manager)'
      BY <1>7 DEF DefsMatch
    <3>2. UsersMatch(manager) => UsersMatch(manager)'
      BY <1>7 DEF UsersMatch
    <3>3. UsedMatch(manager) => UsedMatch(manager)'
      BY <1>7 DEF UsedMatch
    <3> QED BY <1>7, <3>1, <3>2, <3>3 DEF IInv, ManagerMatches, Matches, Empty
  <2>3. CASE replace' = replace
    <3>1. InCall' <=> InCall
      BY <2>3 DEF InCall, Idle
    <3>2. \A x : Defined(x)' <=> Defined(x)
      BY <1>7 DEF Defined
    <3>3. ReplaceOK'
      BY <1>7, <2>3, <3>1, <3>2 DEF IInv, ReplaceOK
    <3> QED BY <1>7, <2>1, <2>2, <3>3 DEF IInv
  <2>4. CASE replace' = Idle
    <3>1. ~InCall'
      BY <2>4 DEF InCall, Idle
    <3>2. ReplaceOK'
      BY <3>1 DEF ReplaceOK
    <3> QED BY <2>1, <2>2, <3>2 DEF IInv
  <2> QED BY <1>7, <2>3, <2>4
<1>8. CASE EndReplace \/ UNCHANGED vars
  BY <1>7, <1>8 DEF EndReplace, module, vars
<1> QED BY <1>1, <1>2, <1>3, <1>4, <1>5, <1>6, <1>7, <1>8 DEF Next

\* Every state a pass can reach satisfies the inductive invariant: the
\* records of the manager are those of the instructions analyzed, and each
\* use still to be replaced is on the list (def_use_manager.cpp).
THEOREM DefUseInvariant == Spec => []IInv
  BY InitInv, NextInv, PTL DEF Spec
-----------------------------------------------------------------------------
\* Types, and no record whose definition is null.
THEOREM DefUseTypeCorrect == Spec => []TypeOK
<1>1. IInv => TypeOK
  <2> SUFFICES ASSUME IInv PROVE TypeOK
    OBVIOUS
  <2>1. manager.users \subseteq Insts \X Insts
    BY DEF IInv, ManagerMatches, Matches, UsersMatch, Empty
  <2> QED BY <2>1 DEF IInv, Types, ReplaceOK, TypeOK
<1> QED BY <1>1, DefUseInvariant, PTL

\* IRContext::IsConsistent: the manager kept in step equals a fresh one.
THEOREM ManagerIsConsistent == Spec => []Consistent
<1>1. IInv => Consistent
  <2> SUFFICES ASSUME IInv, valid, editing = {}, WellFormed PROVE manager = Analyzed
    BY DEF Consistent
  <2>1. Types /\ IdsUnique /\ manager \in Manager /\ Matches(manager)
        /\ Analyzed \in Manager /\ Matches(Analyzed)
    BY AnalyzedMatches DEF IInv, Types, ManagerMatches
  <2>2. manager.def = Analyzed.def
    <3>1. ASSUME NEW x \in Ids
          PROVE  manager.def[x] = Analyzed.def[x]
      <4>1. /\ manager.def[x] \in Insts \cup {NoInst} /\ Analyzed.def[x] \in Insts \cup {NoInst}
            /\ \A i \in Insts : manager.def[x] = i <=> Analyzed.def[x] = i
        BY <2>1 DEF Matches, DefsMatch, Manager
      <4> QED BY <4>1
    <3> QED BY <2>1, <3>1 DEF Manager
  <2>3. manager.used = Analyzed.used
    <3>1. ASSUME NEW i \in Insts
          PROVE  manager.used[i] = Analyzed.used[i]
      <4>1. /\ i \in live => manager.used[i] = uses[i] /\ Analyzed.used[i] = uses[i]
            /\ i \notin live => manager.used[i] = Unseen /\ Analyzed.used[i] = Unseen
        BY <2>1 DEF Matches, UsedMatch
      <4> QED BY <4>1
    <3> QED BY <2>1, <3>1 DEF Manager
  <2>4. manager.users = Analyzed.users
    <3>1. UsersMatch(manager) /\ UsersMatch(Analyzed)
      BY <2>1 DEF Matches
    <3>2. ASSUME NEW d \in Insts, NEW i \in Insts
          PROVE  <<d, i>> \in manager.users <=> <<d, i>> \in Analyzed.users
      <4>1. <<d, i>> \in manager.users <=>
              manager.used[i] # Unseen /\ \E x \in Held(manager.used[i]) : manager.def[x] = d
        BY <3>1 DEF UsersMatch
      <4>2. <<d, i>> \in Analyzed.users <=>
              Analyzed.used[i] # Unseen /\ \E x \in Held(Analyzed.used[i]) : Analyzed.def[x] = d
        BY <3>1 DEF UsersMatch
      <4> QED BY <2>2, <2>3, <4>1, <4>2
    <3>3. manager.users \subseteq Insts \X Insts /\ Analyzed.users \subseteq Insts \X Insts
      BY <3>1 DEF UsersMatch
    <3> QED BY <3>2, <3>3
  <2> QED BY <2>1, <2>2, <2>3, <2>4 DEF Manager
<1> QED BY <1>1, DefUseInvariant, PTL

\* No record outlives the instructions it is about.
THEOREM NoRecordDangles == Spec => []NothingDangles
<1>1. IInv => NothingDangles
  <2> SUFFICES ASSUME IInv PROVE NothingDangles
    OBVIOUS
  <2>1. CASE valid
    <3>1. Types /\ manager \in Manager /\ Matches(manager)
      BY <2>1 DEF IInv, Types, ManagerMatches
    <3>2. \A x \in Ids : manager.def[x] \in live \cup {NoInst}
      BY <3>1 DEF Matches, DefsMatch, Manager
    <3>3. \A d, i \in Insts : <<d, i>> \in manager.users => d \in live /\ i \in live
      <4> SUFFICES ASSUME NEW d \in Insts, NEW i \in Insts, <<d, i>> \in manager.users
                   PROVE  d \in live /\ i \in live
        OBVIOUS
      <4>1. i \in live /\ manager.used[i] # Unseen
        BY <3>1 DEF Matches, UsersMatch, UsedMatch
      <4>2. PICK x \in Held(manager.used[i]) : manager.def[x] = d
        BY <3>1 DEF Matches, UsersMatch
      <4>3. x \in Ids
        BY <3>1, <4>1, HeldIds DEF Manager
      <4> QED BY <3>1, <4>1, <4>2, <4>3 DEF Matches, DefsMatch
    <3> QED BY <3>1, <3>2, <3>3 DEF NothingDangles, Matches, UsersMatch, UsedMatch
  <2>2. CASE ~valid
    BY <2>2 DEF IInv, ManagerMatches, Empty, NothingDangles
  <2> QED BY <2>1, <2>2 DEF IInv, Types
<1> QED BY <1>1, DefUseInvariant, PTL

\* A replacement that ends has reached every use its predicate admits.
THEOREM ReplacementIsComplete == Spec => []NoUseIsMissed
<1>1. IInv => NoUseIsMissed
  <2> SUFFICES ASSUME IInv, InCall, replace.pending = {},
                      NEW i \in (live \cap replace.predicate) \ editing,
                      replace.before \in Held(uses[i])
               PROVE  FALSE
    BY DEF NoUseIsMissed
  <2>1. uses[i] \in Seq(Ids)
    BY DEF IInv, Types
  <2>2. PICK k \in DOMAIN uses[i] : uses[i][k] = replace.before
    BY <2>1, HeldIds
  <2> QED BY <2>2 DEF IInv, ReplaceOK
<1> QED BY <1>1, DefUseInvariant, PTL
=============================================================================
