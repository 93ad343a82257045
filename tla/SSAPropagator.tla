--------------------------- MODULE SSAPropagator ---------------------------
(***************************************************************************)
(* The sparse propagation engine of source/opt/propagator.cpp.  It walks   *)
(* one function: blocks reached over executable control-flow edges wait in *)
(* blocks_, users of values that changed wait in ssa_edge_uses_, and every *)
(* instruction taken from them is handed to the client's visit function.   *)
(* The client (see CCP) supplies the result of the visit; this module      *)
(* holds everything the engine does with it.                               *)
(*                                                                         *)
(* A program is a record                                                   *)
(*   blocks   its labels; a label is both the block and its OpLabel        *)
(*   entry    the label of the entry block                                 *)
(*   inst     instruction id -> [op, args, labels, lits]                   *)
(*   blockOf  instruction id -> label                                      *)
(*   phis     label -> sequence of the block's OpPhi                       *)
(*   rest     label -> the other instructions, the label first and the     *)
(*            terminator last                                              *)
(*   order    all instructions, in the order of their unique ids           *)
(*   params   ids of parameters and of module values that are no constants *)
(*   imports  ids of OpExtInstImport                                       *)
(*   wide     ids of 64-bit values, and of whatever may hold one           *)
(***************************************************************************)
EXTENDS Integers, Sequences, Subsequences

CONSTANTS Programs,   \* the functions the pass may be run on
          Consts      \* ids of the constant declarations of the module

VARIABLES prog,       \* the function being processed
          blocks,     \* blocks_: FIFO of labels; the head is being simulated
          uses,       \* ssa_edge_uses_: FIFO of instructions
          simulated,  \* simulated_blocks_
          dns,        \* do_not_simulate_
          edges,      \* executable_edges_, pairs <<from, to>>
          status,     \* statuses_, "none" for an instruction without one
          todo,       \* instructions of Head(blocks) still to be simulated
          changed,    \* the result of Run so far
          pc          \* "pick" (head of Run's loop), "block", "done"

propVars == <<prog, blocks, uses, simulated, dns, edges, status, todo, changed, pc>>

\* The pseudo exit block of the CFG.
Exit == "exit"

PropStatus == {"notInteresting", "interesting", "varying"}

Insts(p) == DOMAIN p.inst
Ids(p) == Insts(p) \cup Consts \cup p.params \cup p.imports

\* Every id an instruction names: its values and its labels.
OperandIds(p, i) == Elements(p.inst[i].args) \cup Elements(p.inst[i].labels)

IsBranch(p, i) == p.inst[i].op \in {"br", "brcond", "switch"}
IsBlockTerminator(p, i) == IsBranch(p, i) \/ p.inst[i].op = "return"
HasResult(p, i) == ~IsBlockTerminator(p, i) /\ p.inst[i].op # "effect"

Terminator(p, b) == p.rest[b][Len(p.rest[b])]

\* bb_succs_ of Initialize: the target labels, in operand order and with
\* repetitions, or the pseudo exit.
Successors(p, b) ==
  IF p.inst[Terminator(p, b)].op = "return"
  THEN <<Exit>>
  ELSE p.inst[Terminator(p, b)].labels

\* DefUseManager::ForEachUser: each user once, by increasing unique id.
Users(p, id) ==
  AtPositions(p.order, {k \in DOMAIN p.order : id \in OperandIds(p, p.order[k])})

(***************************************************************************)
(* What a function handed to the pass looks like.                          *)
(***************************************************************************)
Instruction(p) == [op     : {"label", "phi", "copy", "and", "or", "not", "select",
                             "min32", "sin16", "opaque", "effect", "br", "brcond",
                             "switch", "return"},
                   args   : Seq(Ids(p)),
                   labels : Seq(p.blocks),
                   lits   : Seq(0 .. 3)]

Arity == [not |-> 1, and |-> 2, or |-> 2, select |-> 3, min32 |-> 3, sin16 |-> 2]

WellFormed(p) ==
  /\ p.blocks \subseteq Insts(p)
  /\ Exit \notin p.blocks /\ "entry" \notin p.blocks
  /\ p.entry \in p.blocks
  /\ Insts(p) \cap (Consts \cup p.params \cup p.imports) = {}
  /\ Consts \cap (p.params \cup p.imports) = {}
  /\ p.params \cap p.imports = {}
  /\ p.inst \in [Insts(p) -> Instruction(p)]
  /\ p.blockOf \in [Insts(p) -> p.blocks]
  /\ p.phis \in [p.blocks -> Seq(Insts(p))]
  /\ p.rest \in [p.blocks -> Seq(Insts(p)) \ {<< >>}]
  /\ p.order \in Seq(Insts(p))
  /\ \A b \in p.blocks : \A k \in DOMAIN p.phis[b] : p.inst[p.phis[b][k]].op = "phi"
  /\ \A i \in Insts(p) :
       /\ p.inst[i].op = "phi" => Len(p.inst[i].labels) = Len(p.inst[i].args)
       /\ p.inst[i].op \in DOMAIN Arity => Len(p.inst[i].args) = Arity[p.inst[i].op]
       /\ p.inst[i].op \in {"copy", "brcond", "switch"} => Len(p.inst[i].args) > 0
       /\ p.inst[i].op \in {"br", "switch"} => Len(p.inst[i].labels) > 0
       /\ p.inst[i].op = "brcond" => Len(p.inst[i].labels) = 2
       /\ p.inst[i].op = "switch" =>
            Len(p.inst[i].labels) = Len(p.inst[i].lits) + 1

\* The instructions of a block in the order in which a first visit takes them.
Lines(p, b) == p.phis[b] \o p.rest[b]

\* S holds the blocks that can be reached without entering a.
Avoids(p, a, S) ==
  /\ a \notin S /\ p.entry \in S \cup {a}
  /\ \A s \in S : Elements(Successors(p, s)) \subseteq S \cup {a, Exit}

Dominates(p, a, b) == a = b \/ \E S \in SUBSET p.blocks : Avoids(p, a, S) /\ b \notin S

\* Every instruction has one place, and the values it reads are computed on
\* every way to it: before it in its block or in a block that dominates; for
\* the argument of a phi, on every way to the end of the block it comes from.
InSSAForm(p) ==
  /\ \A i \in Insts(p) : i \in Elements(p.order)
  /\ \A b \in p.blocks : \A k, l \in DOMAIN Lines(p, b) :
       /\ p.blockOf[Lines(p, b)[k]] = b
       /\ Lines(p, b)[k] = Lines(p, b)[l] => k = l
  /\ \A i \in Insts(p) :
       i \in Elements(IF p.inst[i].op = "phi" THEN p.phis[p.blockOf[i]] ELSE p.rest[p.blockOf[i]])
  /\ \A i \in Insts(p) : IsBlockTerminator(p, i) <=> i = Terminator(p, p.blockOf[i])
  /\ \A b \in p.blocks : \A m \in DOMAIN Lines(p, b) :
       LET i == Lines(p, b)[m]
       IN  \A k \in DOMAIN p.inst[i].args :
             LET a == p.inst[i].args[k]
             IN  a \in Insts(p) =>
                   IF p.inst[i].op = "phi" THEN Dominates(p, p.blockOf[a], p.inst[i].labels[k])
                   ELSE IF p.blockOf[a] = b THEN \E n \in 1 .. m - 1 : Lines(p, b)[n] = a
                   ELSE Dominates(p, p.blockOf[a], b)

\* Of a valid function (source/val/validate_cfg.cpp:77, validate_adjacency.cpp:69):
\* phis have an argument for each block that goes to theirs, and the entry has no
\* phi; an operand is a value, other than the set of an extended instruction.
OperandsAreValues(p) ==
  /\ p.phis[p.entry] = << >>
  /\ \A i \in Insts(p), b \in p.blocks :
       p.inst[i].op = "phi" /\ p.blockOf[i] \in Elements(Successors(p, b)) =>
         b \in Elements(p.inst[i].labels)
  /\ \A i \in Insts(p) : \A k \in DOMAIN p.inst[i].args :
       LET a == p.inst[i].args[k]
       IN  /\ a \in Insts(p) => HasResult(p, a) /\ p.inst[a].op # "label"
           /\ a \in p.imports => k = 1 /\ p.inst[i].op \in {"min32", "sin16"}

\* Types agree in width: a 64-bit value is given, copied, merged, switched on or
\* used; the instructions that compute are of booleans and of 32 bits.
WidthsMatch(p) ==
  /\ p.wide \subseteq Ids(p) /\ {"wide"} \cap Consts \subseteq p.wide
  /\ \A i \in Insts(p) : \A k \in DOMAIN p.inst[i].args :
       p.inst[i].args[k] \in p.wide =>
         \/ p.inst[i].op \in {"phi", "copy"} /\ i \in p.wide
         \/ p.inst[i].op \in {"switch", "opaque", "effect"}

ASSUME ProgramsAssumption ==
  \A p \in Programs : WellFormed(p) /\ InSSAForm(p) /\ OperandsAreValues(p) /\ WidthsMatch(p)
-----------------------------------------------------------------------------
Init ==
  /\ prog \in Programs
  \* Initialize seeds the engine with the edge out of the pseudo entry block.
  /\ edges = {<<"entry", prog.entry>>}
  /\ blocks = <<prog.entry>>
  /\ uses = << >>
  /\ simulated = {}
  /\ dns = {}
  /\ status = [i \in Insts(prog) |-> "none"]
  /\ todo = << >>
  /\ changed = FALSE
  /\ pc = "pick"

ShouldSimulateAgain(id) == id \notin dns

IsPhiArgExecutable(i, k) == <<prog.inst[i].labels[k], prog.blockOf[i]>> \in edges

\* AddControlEdge for the targets in turn: a new edge is marked executable and
\* its block is queued; the pseudo exit and known edges are refused.
AddControlEdges(b, targets, q) ==
  LET new == {k \in DOMAIN targets :
                /\ targets[k] # Exit
                /\ <<b, targets[k]>> \notin edges
                /\ \A j \in 1..(k-1) : targets[j] # targets[k]}
  IN  /\ edges' = edges \cup {<<b, targets[k]>> : k \in new}
      /\ blocks' = q \o AtPositions(targets, new)

\* AddSSAEdges: the users to queue when the value of i changed and the
\* instructions in settled are not to be simulated again.
UsersToSimulate(i, settled) ==
  LET users == Users(prog, i)
  IN  AtPositions(users, {k \in DOMAIN users :
                            /\ prog.blockOf[users[k]] \in simulated
                            /\ users[k] \notin settled})

\* Mutant: one settled operand is enough.
HasOnlyOperandsToSimulate(i) ==
  IF prog.inst[i].op = "phi"
  THEN \E k \in DOMAIN prog.inst[i].args :
         ~IsPhiArgExecutable(i, k) \/ ShouldSimulateAgain(prog.inst[i].args[k])
  ELSE \A id \in OperandIds(prog, i) : ShouldSimulateAgain(id)

HasOperandsToSimulate(i) ==
  IF prog.inst[i].op = "phi"
  THEN \E k \in DOMAIN prog.inst[i].args :
         ~IsPhiArgExecutable(i, k) \/ ShouldSimulateAgain(prog.inst[i].args[k])
  ELSE \E id \in OperandIds(prog, i) : ShouldSimulateAgain(id)

\* SetStatus: whether s is news of i.
StatusChanges(i, s) == status[i] # s

\* Simulate(Instruction*) once the visit returned r = [status, dest]; q is
\* what is left of the queue of uses.
Simulate(i, r, q) ==
  LET varying == r.status = "varying"
      settled == IF varying THEN dns \cup {i} ELSE dns
      news == /\ StatusChanges(i, r.status)
              /\ r.status # "notInteresting"
              /\ HasResult(prog, i)
      taken == IF ~varying THEN r.dest
               ELSE IF IsBlockTerminator(prog, i) THEN Successors(prog, prog.blockOf[i])
               ELSE << >>
  IN  /\ status' = [status EXCEPT ![i] = r.status]
      /\ uses' = IF news THEN q \o UsersToSimulate(i, settled) ELSE q
      /\ AddControlEdges(prog.blockOf[i], taken, blocks)
      /\ dns' = IF HasOperandsToSimulate(i) THEN settled ELSE dns \cup {i}
      /\ changed' = (changed \/ r.status = "interesting")

\* Mutant: an instruction that is passed over stays at the head of the queue.
SkipInPlace(q) == UNCHANGED <<uses, blocks, dns, edges, status, changed>>

\* An instruction that is not to be simulated again is passed over.
Skip(q) ==
  /\ uses' = q
  /\ UNCHANGED <<blocks, dns, edges, status, changed>>
-----------------------------------------------------------------------------
\* Simulate(BasicBlock*) begins: the phis always, the rest on the first visit.
StartBlock ==
  /\ pc = "pick"
  /\ blocks # << >>
  /\ todo' = LET b == Head(blocks)
             IN  IF b \in simulated THEN prog.phis[b] ELSE prog.phis[b] \o prog.rest[b]
  /\ pc' = "block"
  /\ UNCHANGED <<prog, blocks, uses, simulated, dns, edges, status, changed>>

\* The next instruction of the block at the head of the queue.
SimulateInBlock(r) ==
  /\ pc = "block"
  /\ todo # << >>
  /\ IF ShouldSimulateAgain(Head(todo)) THEN Simulate(Head(todo), r, uses) ELSE Skip(uses)
  /\ todo' = Tail(todo)
  /\ UNCHANGED <<prog, simulated, pc>>

\* The block is done: on its first visit it is marked, and a single successor
\* is reached.  Run then pops it.
FinishBlock ==
  /\ pc = "block"
  /\ todo = << >>
  /\ LET b == Head(blocks)
         succs == Successors(prog, b)
         next == IF b \notin simulated /\ Len(succs) = 1 THEN succs ELSE << >>
     IN  /\ simulated' = simulated \cup {b}
         /\ AddControlEdges(b, next, Tail(blocks))
  /\ pc' = "pick"
  /\ UNCHANGED <<prog, uses, dns, status, todo, changed>>

\* Run takes an instruction from the queue of uses when no block waits.
SimulateUse(r) ==
  /\ pc = "pick"
  /\ blocks = << >>
  /\ uses # << >>
  /\ IF ShouldSimulateAgain(Head(uses))
     THEN Simulate(Head(uses), r, Tail(uses)) ELSE Skip(Tail(uses))
  /\ UNCHANGED <<prog, simulated, todo, pc>>

\* Both queues are empty: Run returns.
Finish ==
  /\ pc = "pick"
  /\ blocks = << >>
  /\ uses = << >>
  /\ pc' = "done"
  /\ UNCHANGED <<prog, blocks, uses, simulated, dns, edges, status, todo, changed>>
=============================================================================
