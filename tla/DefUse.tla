------------------------------- MODULE DefUse -------------------------------
(***************************************************************************)
(* The def-use manager of the optimizer (source/opt/def_use_manager.cpp)   *)
(* and the edits of a module that IRContext (ir_context.cpp, ir_context.h) *)
(* keeps it in step with. A pass adds instructions, kills them, rewrites   *)
(* their operands between ForgetUses and AnalyzeUses, replaces the uses of *)
(* an id, and may invalidate the manager, which is rebuilt when next asked *)
(* for. An instruction is represented by its address, its result id and    *)
(* the ids among its operands, in order.                                   *)
(***************************************************************************)
EXTENDS Integers, Sequences

CONSTANTS
  Insts,        \* addresses
  MaxId,        \* bound on the ids that are taken
  NoId,         \* the result id of an instruction without one
  NoInst,       \* nullptr
  Unseen,       \* no entry in inst_to_used_ids_
  Operands,     \* sequences of ids to give to an instruction
  Predicates    \* predicates of ReplaceAllUsesWithPredicate, as sets

Ids == 1..MaxId

ASSUME DefUseAssumption ==
  /\ MaxId \in Nat
  /\ NoId \notin Ids /\ NoInst \notin Insts /\ Unseen \notin Seq(Ids)
  /\ Operands \subseteq Seq(Ids)
  /\ Predicates \subseteq SUBSET Insts

VARIABLES
  live,     \* the instructions of the module
  id,       \* the result id of each
  uses,     \* the ids used by each
  nextId,   \* the id bound of the module
  valid,    \* kAnalysisDefUse is in valid_analyses_
  manager,  \* def_use_mgr_: id_to_def_, id_to_users_, inst_to_used_ids_
  editing,  \* instructions between ForgetUses, or a definition, and AnalyzeUses
  replace   \* what a call of ReplaceAllUsesWith has left to do

module == <<live, id, uses, nextId>>
vars == <<live, id, uses, nextId, valid, manager, editing, replace>>

Manager == [def : [Ids -> Insts \cup {NoInst}],
            users : SUBSET ((Insts \cup {NoInst}) \X Insts),
            used : [Insts -> Seq(Ids) \cup {Unseen}]]

\* What sequence s holds; nothing for an instruction that was not analyzed.
Held(s) == IF s = Unseen THEN {} ELSE {s[k] : k \in DOMAIN s}

Empty == [def |-> [x \in Ids |-> NoInst], users |-> {}, used |-> [i \in Insts |-> Unseen]]

-----------------------------------------------------------------------------
\* The operations of the manager, as functions of its state m.

\* EraseUseRecordsOfOperandIds, which looks definitions up as they are now.
EraseUses(m, i) ==
  [m EXCEPT !.users = {u \in @ : ~(u[2] = i /\ \E x \in Held(m.used[i]) : u[1] = m.def[x])},
            !.used[i] = Unseen]

\* Mutant: the records of those who use the result id stay.
ClearInstKeepingUsers(m, i, x) ==
  IF m.used[i] = Unseen THEN m
  ELSE IF x = NoId THEN EraseUses(m, i)
  ELSE [EraseUses(m, i) EXCEPT !.def[x] = NoInst]

\* ClearInst of an instruction with result id x: nothing, unless its uses
\* were analyzed.
ClearInst(m, i, x) ==
  IF m.used[i] = Unseen THEN m
  ELSE IF x = NoId THEN EraseUses(m, i)
  ELSE [EraseUses(m, i) EXCEPT !.users = {u \in @ : u[1] # i}, !.def[x] = NoInst]

AnalyzeInstDef(m, i, x) ==
  IF x = NoId THEN ClearInst(m, i, x)
  ELSE LET old == IF m.def[x] = NoInst THEN m ELSE ClearInst(m, m.def[x], x)
       IN  [old EXCEPT !.def[x] = i]

\* Mutant: the earlier records of the instruction stay.
AnalyzeInstUseAgain(m, i, us) ==
  [m EXCEPT !.users = @ \cup {<<m.def[x], i>> : x \in Held(us)}, !.used[i] = us]

AnalyzeInstUse(m, i, us) ==
  [EraseUses(m, i) EXCEPT !.users = @ \cup {<<m.def[x], i>> : x \in Held(us)},
                          !.used[i] = us]

AnalyzeInstDefUse(m, i, x, us) == AnalyzeInstUse(AnalyzeInstDef(m, i, x), i, us)

\* UpdateDefUse: whatever its header says, the uses are analyzed again.
UpdateDefUse(m, i, x, us) ==
  AnalyzeInstUse(IF x # NoId /\ m.def[x] = NoInst THEN AnalyzeInstDef(m, i, x) ELSE m, i, us)

\* The instruction of the module that defines x.
Def(x) == IF \E i \in live : id[i] = x THEN CHOOSE i \in live : id[i] = x ELSE NoInst

\* AnalyzeDefUse: all the definitions of the module, then all uses.
Analyzed ==
  [def   |-> [x \in Ids |-> Def(x)],
   users |-> UNION {{<<Def(x), i>> : x \in Held(uses[i])} : i \in live},
   used  |-> [i \in Insts |-> IF i \in live THEN uses[i] ELSE Unseen]]

\* What get_def_use_mgr returns.
Current == IF valid THEN manager ELSE Analyzed

-----------------------------------------------------------------------------
\* Analyzing a use asserts that the id is defined.
AllDefined(us) == \A x \in Held(us) : Def(x) # NoInst
WellFormed == \A i \in live : AllDefined(uses[i])

Idle == [before |-> NoId]
InCall == replace # Idle

Init ==
  /\ live = {} /\ id = [i \in Insts |-> NoId] /\ uses = [i \in Insts |-> << >>]
  /\ nextId = 1
  /\ valid \in BOOLEAN /\ manager = Empty
  /\ editing = {}
  /\ replace = Idle

\* A new instruction with a fresh result id (TakeNextId) or none.
Insert(i, x, us) ==
  /\ i \notin live
  /\ \/ x = NoId /\ UNCHANGED nextId
     \/ x = nextId /\ nextId <= MaxId /\ nextId' = nextId + 1
  /\ live' = live \cup {i}
  /\ id' = [id EXCEPT ![i] = x]
  /\ uses' = [uses EXCEPT ![i] = us]

\* IRContext::AnalyzeDefUse, of an instruction just added. It may use itself.
Add(i, x, us) ==
  /\ ~InCall
  /\ Insert(i, x, us)
  /\ \A y \in Held(us) : y = x \/ Def(y) # NoInst
  /\ manager' = IF valid THEN AnalyzeInstDefUse(manager, i, x, us) ELSE manager
  /\ UNCHANGED <<valid, editing, replace>>

\* A definition whose operands are to be analyzed once all those of a loop,
\* or all phis, are defined.
AddDef(i, x, us) ==
  /\ ~InCall
  /\ x # NoId
  /\ ~valid => WellFormed
  /\ Insert(i, x, us)
  /\ manager' = AnalyzeInstDef(Current, i, x)
  /\ valid' = TRUE
  /\ editing' = editing \cup {i}
  /\ UNCHANGED replace

\* IRContext::ForgetUses.
ForgetUses(i) ==
  /\ ~InCall
  /\ i \in live \ editing
  /\ manager' = IF valid THEN EraseUses(manager, i) ELSE manager
  /\ editing' = editing \cup {i}
  /\ UNCHANGED <<module, valid, replace>>

\* The operands are set, then IRContext::AnalyzeUses.
AnalyzeUses(i, us) ==
  /\ ~InCall
  /\ i \in editing
  /\ AllDefined(us)
  /\ uses' = [uses EXCEPT ![i] = us]
  /\ manager' = IF valid THEN AnalyzeInstUse(manager, i, us) ELSE manager
  /\ editing' = editing \ {i}
  /\ UNCHANGED <<live, id, nextId, valid, replace>>

\* The operands are set, then IRContext::UpdateDefUse.
Update(i, us) ==
  /\ ~InCall
  /\ i \in live \ editing
  /\ AllDefined(us)
  /\ uses' = [uses EXCEPT ![i] = us]
  /\ manager' = IF valid THEN UpdateDefUse(manager, i, id[i], us) ELSE manager
  /\ UNCHANGED <<live, id, nextId, valid, editing, replace>>

\* IRContext::KillInst. Those who use the result may be killed later.
KillInst(i) ==
  /\ ~InCall
  /\ i \in live \ editing
  /\ live' = live \ {i}
  /\ id' = [id EXCEPT ![i] = NoId]
  /\ uses' = [uses EXCEPT ![i] = << >>]
  /\ manager' = IF valid THEN ClearInst(manager, i, id[i]) ELSE manager
  /\ UNCHANGED <<nextId, valid, editing, replace>>

\* IRContext::InvalidateAnalyses.
Invalidate ==
  /\ ~InCall
  /\ valid
  /\ valid' = FALSE
  /\ manager' = Empty
  /\ UNCHANGED <<module, editing, replace>>

\* IRContext::BuildDefUseManager.
Build ==
  /\ ~InCall
  /\ ~valid
  /\ WellFormed
  /\ valid' = TRUE
  /\ manager' = Analyzed
  /\ UNCHANGED <<module, editing, replace>>

\* Mutant: only the first use of each user is collected.
UsesOfUsersOf(m, x) ==
  {<<i, CHOOSE k \in DOMAIN uses[i] : uses[i][k] = x>> :
     i \in {j \in Insts : <<m.def[x], j>> \in m.users}}

\* ForEachUse: the operands that are x, of the users recorded.
UsesOf(m, x) ==
  UNION {{<<i, k>> : k \in {n \in DOMAIN uses[i] : uses[i][n] = x}} :
           i \in {j \in Insts : <<m.def[x], j>> \in m.users}}

\* IRContext::ReplaceAllUsesWithPredicate, up to the loop over the uses.
StartReplace(before, after, predicate) ==
  /\ ~InCall
  /\ before # after
  /\ Def(before) # NoInst /\ Def(after) # NoInst
  /\ WellFormed
  /\ valid' = TRUE
  /\ manager' = Current
  /\ replace' = [before |-> before, after |-> after, predicate |-> predicate, prev |-> NoInst,
                 pending |-> {u \in UsesOf(Current, before) : u[1] \in predicate}]
  /\ UNCHANGED <<module, editing>>

\* One use is replaced. Those of a user are next to each other, and the user
\* is forgotten before the first and analyzed after each.
ReplaceUse(i, k) ==
  /\ InCall
  /\ <<i, k>> \in replace.pending
  /\ (\E u \in replace.pending : u[1] = replace.prev) => i = replace.prev
  /\ uses' = [uses EXCEPT ![i][k] = replace.after]
  /\ manager' = AnalyzeInstUse(IF replace.prev = i THEN manager ELSE EraseUses(manager, i),
                               i, uses'[i])
  /\ replace' = [replace EXCEPT !.pending = @ \ {<<i, k>>}, !.prev = i]
  /\ UNCHANGED <<live, id, nextId, valid, editing>>

EndReplace ==
  /\ InCall
  /\ replace.pending = {}
  /\ replace' = Idle
  /\ UNCHANGED <<module, valid, manager, editing>>

Next ==
  \/ \E i \in Insts, us \in Operands :
       \/ \E x \in Ids \cup {NoId} : Add(i, x, us) \/ AddDef(i, x, us)
       \/ AnalyzeUses(i, us) \/ Update(i, us)
  \/ \E i \in Insts : ForgetUses(i) \/ KillInst(i)
  \/ Invalidate \/ Build
  \/ \E x, y \in Ids, p \in Predicates : StartReplace(x, y, p)
  \/ InCall /\ \E u \in replace.pending : ReplaceUse(u[1], u[2])
  \/ EndReplace

Spec == Init /\ [][Next]_vars

\* TransformationAddTypeStruct::Apply: the type is added with AddType, which
\* analyzes it, and its definition is analyzed again.
AddTypeStruct(i, x, us) ==
  /\ ~InCall
  /\ x # NoId
  /\ WellFormed /\ AllDefined(us)
  /\ Insert(i, x, us)
  /\ manager' = LET built == IF valid THEN AnalyzeInstDefUse(manager, i, x, us) ELSE Analyzed'
                IN  AnalyzeInstDef(built, i, x)
  /\ valid' = TRUE
  /\ UNCHANGED <<editing, replace>>

FuzzNext == Next \/ \E i \in Insts, x \in Ids, us \in Operands : AddTypeStruct(i, x, us)
FuzzSpec == Init /\ [][FuzzNext]_vars
-----------------------------------------------------------------------------
\* Types. A definition in id_to_users_ is never null.
TypeOK ==
  /\ live \subseteq Insts
  /\ id \in [Insts -> Ids \cup {NoId}]
  /\ uses \in [Insts -> Seq(Ids)]
  /\ nextId \in 1..(MaxId + 1)
  /\ valid \in BOOLEAN
  /\ manager \in Manager /\ manager.users \subseteq Insts \X Insts
  /\ editing \subseteq live
  /\ InCall => replace \in [before : Ids, after : Ids, predicate : Predicates,
                            prev : Insts \cup {NoInst}, pending : SUBSET (Insts \X Nat)]

\* IRContext::IsConsistent: a manager kept in step is the one that a fresh
\* analysis of the module would build, whatever edits led to the module, and
\* also between two replacements of one call.
Consistent == valid /\ editing = {} /\ WellFormed => manager = Analyzed

\* No record is about an instruction that is gone, so that none is taken for
\* one later allocated at its address; also while instructions are edited.
NothingDangles ==
  /\ \A x \in Ids : manager.def[x] \in live \cup {NoInst}
  /\ manager.users \subseteq live \X live
  /\ \A i \in Insts : manager.used[i] # Unseen => i \in live

\* When a call of ReplaceAllUsesWith ends, no instruction that satisfies its
\* predicate uses the old id, except those still to be analyzed.
NoUseIsMissed ==
  InCall /\ replace.pending = {} =>
    \A i \in (live \cap replace.predicate) \ editing : replace.before \notin Held(uses[i])

\* ForEachUser runs on each user instruction of a definition.
UsersAreKnown ==
  valid => \A i \in live \ editing : \A x \in Held(uses[i]) :
             Def(x) # NoInst => <<Def(x), i>> \in manager.users
=============================================================================
