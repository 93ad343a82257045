------------------------------ MODULE Reducer ------------------------------
(***************************************************************************)
(* The reducer: source/reduce/reducer.cpp and reduction_pass.cpp.  Rounds  *)
(* of passes shrink a binary.  A pass applies a chunk of the opportunities *)
(* its finder reports, at an index that moves on when the result is not    *)
(* interesting, and with a granularity that is halved after every round.   *)
(* What the finders report and how an opportunity changes a binary are     *)
(* parameters.                                                             *)
(***************************************************************************)
EXTENDS Integers, Sequences, Subsequences

CONSTANTS
  Binaries,            \* the binaries
  Opportunities,       \* the reduction opportunities
  MainPasses,          \* passes_, a sequence of pass names
  CleanupPasses,       \* cleanup_passes_
  Available(_, _),     \* GetAvailableOpportunities of a pass in a binary
  PreconditionHolds(_, _),  \* of an opportunity in a binary
  Apply(_, _),         \* the binary an opportunity makes of a binary
  MaxUint32,           \* the initial granularity, uint32_t's maximum
  Tests,               \* [valid, interesting, failOnError] to explore
  Limits,              \* step limits to explore
  NoResult

VARIABLES
  original,     \* binary_in
  binary,       \* current_binary
  tests,        \* the validator, the interestingness test and the option
  limit,        \* options->step_limit
  granularity,  \* granularity_ of each pass
  index,        \* index_ of each pass
  list,         \* the passes RunPasses is working on: "main" or "cleanup"
  at,           \* the position in that list
  worthwhile,   \* another_round_worthwhile
  applied,      \* reductions_applied
  result,       \* the status returned
  pc            \* "start", "round", "pass", "try", "done"

vars == <<original, binary, tests, limit, granularity, index, list, at, worthwhile,
          applied, result, pc>>

Passes == Elements(MainPasses) \cup Elements(CleanupPasses)
PassList == IF list = "main" THEN MainPasses ELSE CleanupPasses

ASSUME PassesAssumption ==
  /\ MainPasses \in Seq(Passes) /\ CleanupPasses \in Seq(Passes)
  /\ \A j, k \in DOMAIN MainPasses : MainPasses[j] = MainPasses[k] => j = k
  /\ \A j, k \in DOMAIN CleanupPasses : CleanupPasses[j] = CleanupPasses[k] => j = k
  /\ Elements(MainPasses) \cap Elements(CleanupPasses) = {}

ASSUME FindersAssumption ==
  /\ \A p \in Passes, b \in Binaries : Available(p, b) \in Seq(Opportunities)
  /\ \A o \in Opportunities, b \in Binaries : Apply(o, b) \in Binaries
  /\ MaxUint32 \in Nat \ {0}

ASSUME OptionsAssumption ==
  /\ Tests \subseteq [valid : SUBSET Binaries, interesting : SUBSET Binaries,
                      failOnError : BOOLEAN]
  /\ Limits \subseteq Nat
  /\ NoResult \notin {"initialStateInvalid", "initialStateNotInteresting",
                      "reachedStepLimit", "complete", "stateInvalid"}

Larger(a, b) == IF a > b THEN a ELSE b

Valid(b) == b \in tests.valid
Interesting(b) == b \in tests.interesting
Good(b) == Valid(b) /\ Interesting(b)

ReachedStepLimit(n) == n >= limit
\* Mutant: a pass is asked to go below the granularity of one.
ReachedZeroGranularity(p) == granularity[p] < 1
ReachedMinimumGranularity(p) == granularity[p] = 1

\* TryToApply of an opportunity found in an earlier version of the binary.
TryToApply(o, b) == IF PreconditionHolds(o, b) THEN Apply(o, b) ELSE b

\* The binary b after a chunk of opportunities, tried in turn.
ApplyChunk(chunk, b) ==
  RunOver([ob \in Opportunities \X Binaries |-> TryToApply(ob[1], ob[2])], b, chunk)

Init ==
  /\ original \in Binaries
  /\ binary = original
  /\ tests \in Tests
  /\ limit \in Limits
  /\ granularity = [p \in Passes |-> MaxUint32]
  /\ index = [p \in Passes |-> 0]
  /\ list = "main"
  /\ at = 1
  /\ worthwhile = TRUE
  /\ applied = 0
  /\ result = NoResult
  /\ pc = "start"

Return(status) ==
  /\ result' = status
  /\ pc' = "done"

\* Run: the initial binary must be valid and interesting.
CheckInitialState ==
  /\ pc = "start"
  /\ \/ ~Valid(binary) /\ Return("initialStateInvalid")
     \/ Valid(binary) /\ ~Interesting(binary) /\ Return("initialStateNotInteresting")
     \/ Good(binary) /\ pc' = "round" /\ UNCHANGED result
  /\ UNCHANGED <<original, binary, tests, limit, granularity, index, list, at,
                 worthwhile, applied>>

\* RunPasses: a round begins.
StartRound ==
  /\ pc = "round"
  /\ ~ReachedStepLimit(applied)
  /\ worthwhile
  /\ worthwhile' = FALSE
  /\ at' = 1
  /\ pc' = "pass"
  /\ UNCHANGED <<original, binary, tests, limit, granularity, index, list, applied, result>>

\* RunPasses returns; Run goes on to the cleanup passes or returns.
EndPasses ==
  /\ pc = "round"
  /\ ReachedStepLimit(applied) \/ ~worthwhile
  /\ IF ReachedStepLimit(applied)
     THEN Return("reachedStepLimit") /\ UNCHANGED <<list, worthwhile>>
     ELSE IF list = "main"
     THEN list' = "cleanup" /\ worthwhile' = TRUE /\ UNCHANGED <<result, pc>>
     ELSE Return("complete") /\ UNCHANGED <<list, worthwhile>>
  /\ UNCHANGED <<original, binary, tests, limit, granularity, index, at, applied>>

\* The next pass of the round, or the end of the round.
NextPass ==
  /\ pc = "pass"
  /\ IF at <= Len(PassList)
     THEN /\ worthwhile' = (worthwhile \/ ~ReachedMinimumGranularity(PassList[at]))
          /\ pc' = "try"
     ELSE pc' = "round" /\ UNCHANGED worthwhile
  /\ UNCHANGED <<original, binary, tests, limit, granularity, index, list, at, applied, result>>

\* One iteration of the do-while loop on pass p: TryApplyReduction, the tests
\* and NotifyInteresting.
Clamped(p, opps) ==
  IF granularity[p] > Len(opps) THEN Larger(1, Len(opps)) ELSE granularity[p]

Finer(p, opps) == Larger(1, Clamped(p, opps) \div 2)

Candidate(p, opps) ==
  LET last == index[p] + Clamped(p, opps)
  IN  ApplyChunk(SubSeq(opps, index[p] + 1, IF last < Len(opps) THEN last ELSE Len(opps)),
                 binary)

\* Mutant: the next round begins where this one ended.
EndOfRoundKeepIndex(p, opps) ==
  /\ index[p] >= Len(opps)
  /\ granularity' = [granularity EXCEPT ![p] = Finer(p, opps)]
  /\ at' = at + 1
  /\ pc' = "pass"
  /\ UNCHANGED <<binary, index, worthwhile, applied, result>>

EndOfRound(p, opps) ==
  /\ index[p] >= Len(opps)
  /\ index' = [index EXCEPT ![p] = 0]
  /\ granularity' = [granularity EXCEPT ![p] = Finer(p, opps)]
  /\ at' = at + 1
  /\ pc' = "pass"
  /\ UNCHANGED <<binary, worthwhile, applied, result>>

\* Mutant: the step limit is only looked at between rounds.
LoopOn == pc' = pc /\ at' = at

\* The loop is left at the step limit, and the round goes on with the next pass.
LoopOrLeave ==
  IF ReachedStepLimit(applied + 1)
  THEN pc' = "pass" /\ at' = at + 1
  ELSE pc' = pc /\ at' = at

\* Mutant: the rejected binary replaces the one held.
StepRejectedAdopted(p, opps) ==
  /\ index[p] < Len(opps)
  /\ IF Valid(Candidate(p, opps)) THEN ~Interesting(Candidate(p, opps)) ELSE ~tests.failOnError
  /\ applied' = applied + 1
  /\ granularity' = [granularity EXCEPT ![p] = Clamped(p, opps)]
  /\ index' = [index EXCEPT ![p] = @ + Clamped(p, opps)]
  /\ binary' = Candidate(p, opps)
  /\ LoopOrLeave
  /\ UNCHANGED <<worthwhile, result>>

StepRejected(p, opps) ==
  /\ index[p] < Len(opps)
  /\ IF Valid(Candidate(p, opps)) THEN ~Interesting(Candidate(p, opps)) ELSE ~tests.failOnError
  /\ applied' = applied + 1
  /\ granularity' = [granularity EXCEPT ![p] = Clamped(p, opps)]
  /\ index' = [index EXCEPT ![p] = @ + Clamped(p, opps)]
  /\ LoopOrLeave
  /\ UNCHANGED <<binary, worthwhile, result>>

StepKept(p, opps) ==
  /\ index[p] < Len(opps)
  /\ Good(Candidate(p, opps))
  /\ applied' = applied + 1
  /\ granularity' = [granularity EXCEPT ![p] = Clamped(p, opps)]
  /\ binary' = Candidate(p, opps)
  /\ worthwhile' = TRUE
  /\ LoopOrLeave
  /\ UNCHANGED <<index, result>>

StepInvalid(p, opps) ==
  /\ index[p] < Len(opps)
  /\ ~Valid(Candidate(p, opps))
  /\ tests.failOnError
  /\ applied' = applied + 1
  /\ granularity' = [granularity EXCEPT ![p] = Clamped(p, opps)]
  /\ binary' = Candidate(p, opps)
  /\ Return("stateInvalid")
  /\ UNCHANGED <<index, at, worthwhile>>

TryPass ==
  /\ pc = "try"
  /\ LET p == PassList[at]
         opps == Available(p, binary)
     IN  \/ EndOfRound(p, opps)
         \/ StepRejected(p, opps)
         \/ StepKept(p, opps)
         \/ StepInvalid(p, opps)
  /\ UNCHANGED <<original, tests, limit, list>>

Next == CheckInitialState \/ StartRound \/ EndPasses \/ NextPass \/ TryPass

Spec == Init /\ [][Next]_vars /\ WF_vars(Next)
-----------------------------------------------------------------------------
\* Types; a granularity is never zero, and a result is there when the reducer
\* is done and only then.
TypeOK ==
  /\ original \in Binaries /\ binary \in Binaries
  /\ tests \in Tests /\ limit \in Limits
  /\ granularity \in [Passes -> Nat \ {0}]
  /\ index \in [Passes -> Nat]
  /\ list \in {"main", "cleanup"}
  /\ at \in Nat \ {0}
  /\ pc = "try" => at \in DOMAIN PassList
  /\ worthwhile \in BOOLEAN
  /\ applied \in Nat
  /\ result \in {NoResult, "initialStateInvalid", "initialStateNotInteresting",
                 "reachedStepLimit", "complete", "stateInvalid"}
  /\ pc \in {"start", "round", "pass", "try", "done"}
  /\ result = NoResult <=> pc # "done"

\* The binary handed back is valid and interesting after every ending but
\* those that say it is not: a refused input, and an invalid step in the mode
\* that asks for it.
OutputIsGood ==
  /\ result \in {"complete", "reachedStepLimit"} => Good(binary)
  /\ result = "stateInvalid" => tests.failOnError /\ ~Valid(binary)
  /\ result \in {"initialStateInvalid", "initialStateNotInteresting"} => binary = original

\* Nothing any pass of ps could still do alone would be kept.
OneMinimal(ps) ==
  \A j \in DOMAIN ps :
    LET opps == Available(ps[j], binary)
    IN  \A k \in DOMAIN opps : ~Good(TryToApply(opps[k], binary))

\* When RunPasses returns because another round is not worthwhile, every
\* opportunity of every pass has been refused alone, in this very binary:
\* granularities, indices and rounds skip none of them.
CompleteIsOneMinimal ==
  pc = "round" /\ ~worthwhile /\ ~ReachedStepLimit(applied) => OneMinimal(PassList)

\* The step limit, documented as the maximum number of steps, as implemented:
\* the round that reaches it lets every later pass make one more step.
OvershootIsBounded ==
  limit > 0 => applied < limit + Larger(1, Len(PassList))

\* Every reduction ends, whatever the passes find and the test says.
Terminates == <>(pc = "done")

\* The parts of the inductive invariant of the proofs.  The binary held is
\* good while passes run.
HeldIsGood == pc \in {"round", "pass", "try"} => Good(binary)

\* Short of the step limit, only the pass being tried is part-way through its
\* opportunities.
IndexIsReset ==
  pc # "done" /\ ~ReachedStepLimit(applied) =>
    \A p \in Passes : index[p] = 0 \/ (pc = "try" /\ p = PassList[at])

\* The opportunities of p in the binary held that were refused alone.
Refused(p, n) ==
  \A k \in DOMAIN Available(p, binary) :
    k <= n => ~Good(TryToApply(Available(p, binary)[k], binary))

\* In a round that kept nothing so far and met no pass above the minimum
\* granularity, everything behind is refused.
RefusedSoFar ==
  pc \in {"round", "pass", "try"} /\ ~worthwhile /\ ~ReachedStepLimit(applied) =>
    /\ \A j \in DOMAIN PassList :
         j < at => Refused(PassList[j], Len(Available(PassList[j], binary)))
    /\ pc = "round" => at > Len(PassList)
    /\ pc = "try" => /\ granularity[PassList[at]] = 1
                     /\ Refused(PassList[at], index[PassList[at]])

\* Past the limit, every pass of the round has made at most one step.
OvershootCounts ==
  /\ pc = "start" => applied = 0 /\ worthwhile
  /\ pc \in {"pass", "try"} => at <= Len(PassList) + 1
  /\ pc \in {"round", "pass", "try"} /\ limit > 0 /\ ReachedStepLimit(applied) =>
       applied - limit <= at - 2 /\ at <= Len(PassList) + 1

\* Before the first check the binary held is the one given.
StartsWhole == pc = "start" => binary = original

ReducerInv ==
  /\ StartsWhole
  /\ TypeOK /\ OutputIsGood /\ OvershootIsBounded
  /\ HeldIsGood /\ IndexIsReset /\ RefusedSoFar /\ OvershootCounts

Promise == INSTANCE Reduction WITH best <- binary, verdict <- result

\* Run keeps the promise of Reduction: the binary held and the status returned
\* are those of the abstract reduction.
Implements == Promise!RedSpec
=============================================================================
