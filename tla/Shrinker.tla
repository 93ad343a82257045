------------------------------ MODULE Shrinker ------------------------------
(***************************************************************************)
(* The shrinker of spirv-fuzz: source/fuzz/shrinker.cpp, with the replayer *)
(* it calls (replayer.cpp) and what it sees of the added-function reducer  *)
(* (added_function_reducer.cpp, which runs the reducer of module Reducer). *)
(* Chunks of a sequence of transformations are removed, from the end, as   *)
(* long as what is left still applies to an interesting binary; then the   *)
(* functions that were added are reduced. A binary is represented by the   *)
(* transformations that made it.                                           *)
(***************************************************************************)
EXTENDS Integers, Sequences, Subsequences

CONSTANTS
  Transformations,
  Inputs,              \* transformation_sequence_in_ to explore
  Applicable(_, _),    \* IsApplicable of a transformation after a sequence
  ValidAfter(_),       \* the module after a sequence of transformations is valid
  Tests,               \* interestingness functions to explore
  Interesting(_, _),   \* what a test says of the binary of a sequence
  StepLimits,          \* step_limit_ to explore
  Validations,         \* values of validate_during_replay_ to explore
  IsAddFunction(_),    \* the transformation adds a function
  Reducible(_),        \* the reducer accepts the module with its function
  Reduced(_),          \* what reducing its function may make of it
  Overshoot,           \* steps that the reducer makes past its limit, at most
  NoStatus

ASSUME TransformationsAssumption ==
  /\ Inputs \subseteq Seq(Transformations)
  /\ \A t \in Transformations : Reduced(t) \subseteq Transformations
  /\ StepLimits \subseteq Nat /\ Overshoot \in Nat
  /\ Validations \subseteq BOOLEAN
  /\ NoStatus \notin {"complete", "stepLimitReached"}

VARIABLES
  input,        \* transformation_sequence_in_
  test,         \* interestingness_function_
  limit,        \* step_limit_
  validate,     \* validate_during_replay_
  best,         \* current_best_transformations
  attempt,      \* attempt
  chunkSize,    \* chunk_size
  chunkIndex,   \* chunk_index
  progress,     \* progress_this_round
  at,           \* transformation_index, from one
  status,       \* the status returned
  pc            \* "start", "rounds", "chunks", "functions", "done"

given == <<input, test, limit, validate>>
vars == <<input, test, limit, validate, best, attempt, chunkSize, chunkIndex,
          progress, at, status, pc>>

Smaller(a, b) == IF a < b THEN a ELSE b
Larger(a, b) == IF a > b THEN a ELSE b

\* Replayer::Run: the transformations that apply, in order.
Replay(s) ==
  LET applied[n \in 0..Len(s)] ==
        IF n = 0 THEN << >>
        ELSE IF Applicable(s[n], applied[n-1]) THEN Append(applied[n-1], s[n])
             ELSE applied[n-1]
  IN  applied[Len(s)]

\* Replayer::Run: with validation, an invalid module after a transformation
\* that applied ends it.
ReplayFails(s) ==
  validate /\ \E n \in 1..Len(Replay(s)) : ~ValidAfter(SubSeq(Replay(s), 1, n))

\* RemoveChunk.
Lower(index, size) == index * size
Upper(s, index, size) == Smaller((index + 1) * size, Len(s))
RemoveChunk(s, index, size) ==
  SubSeq(s, 1, Lower(index, size)) \o SubSeq(s, Upper(s, index, size) + 1, Len(s))

\* Mutant: one past the last chunk of a sequence that chunks divide.
NumChunksAndOne == Len(best) \div chunkSize + 1

NumChunks == (Len(best) + chunkSize - 1) \div chunkSize

\* The chunk size halved until it is no larger than what remains.
Fitting(size, remaining) ==
  LET fit[n \in 0..size] == IF n > remaining THEN fit[n \div 2] ELSE n
  IN  fit[size]

Init ==
  /\ input \in Inputs
  /\ test \in Tests
  /\ limit \in StepLimits
  /\ validate \in Validations
  /\ best = << >>
  /\ attempt = 0
  /\ chunkSize = 0
  /\ chunkIndex = 0
  /\ progress = FALSE
  /\ at = 1
  /\ status = NoStatus
  /\ pc = "start"

Return(s) ==
  /\ status' = s
  /\ pc' = "done"

\* The checks of the initial binary and of the initial replay.
Start ==
  /\ pc = "start"
  /\ \/ ~ValidAfter(<< >>) /\ Return("initialBinaryInvalid") /\ UNCHANGED <<best, chunkSize>>
     \/ /\ ValidAfter(<< >>) /\ ReplayFails(input)
        /\ Return("replayFailed") /\ UNCHANGED <<best, chunkSize>>
     \/ /\ ValidAfter(<< >>) /\ ~ReplayFails(input)
        /\ best' = Replay(input)
        /\ IF Interesting(test, Replay(input))
           THEN /\ chunkSize' = Larger(1, Len(best') \div 2)
                /\ pc' = "rounds"
                /\ UNCHANGED status
           ELSE Return("initialBinaryNotInteresting") /\ UNCHANGED chunkSize
  /\ UNCHANGED <<input, test, limit, validate, attempt, chunkIndex, progress, at>>

MoreRounds == attempt < limit /\ best # << >> /\ chunkSize > 0

StartRound ==
  /\ pc = "rounds"
  /\ MoreRounds
  /\ progress' = FALSE
  /\ chunkIndex' = NumChunks - 1
  /\ pc' = "chunks"
  /\ UNCHANGED <<input, test, limit, validate, best, attempt, chunkSize, at, status>>

MoreChunks == attempt < limit /\ chunkIndex >= 0

\* What the round goes on with when the chunk has been tried.
NextChunk ==
  /\ attempt' = attempt + 1
  /\ chunkIndex' = chunkIndex - 1
  /\ UNCHANGED <<chunkSize, status, pc>>

\* Mutant: transformations that no longer apply are kept.
TryChunkUnreplayed ==
  /\ pc = "chunks"
  /\ MoreChunks
  /\ LET rest == RemoveChunk(best, chunkIndex, chunkSize) IN
     \/ /\ ReplayFails(rest)
        /\ Return("replayFailed")
        /\ UNCHANGED <<best, attempt, chunkSize, chunkIndex, progress>>
     \/ /\ ~ReplayFails(rest)
        /\ Interesting(test, Replay(rest))
        /\ best' = rest
        /\ progress' = TRUE
        /\ NextChunk
     \/ /\ ~ReplayFails(rest)
        /\ ~Interesting(test, Replay(rest))
        /\ NextChunk
        /\ UNCHANGED <<best, progress>>
  /\ UNCHANGED <<input, test, limit, validate, at>>

\* One chunk is removed and the rest replayed.
TryChunk ==
  /\ pc = "chunks"
  /\ MoreChunks
  /\ LET rest == RemoveChunk(best, chunkIndex, chunkSize) IN
     \/ /\ ReplayFails(rest)
        /\ Return("replayFailed")
        /\ UNCHANGED <<best, attempt, chunkSize, chunkIndex, progress>>
     \/ /\ ~ReplayFails(rest)
        /\ Interesting(test, Replay(rest))
        /\ best' = Replay(rest)
        /\ progress' = TRUE
        /\ NextChunk
     \/ /\ ~ReplayFails(rest)
        /\ ~Interesting(test, Replay(rest))
        /\ NextChunk
        /\ UNCHANGED <<best, progress>>
  /\ UNCHANGED <<input, test, limit, validate, at>>

\* Mutant: the size is halved after every round.
EndRoundHalving ==
  /\ pc = "chunks"
  /\ ~MoreChunks
  /\ chunkSize' = Fitting(chunkSize \div 2, Len(best))
  /\ pc' = "rounds"
  /\ UNCHANGED <<input, test, limit, validate, best, attempt, chunkIndex, progress,
                 at, status>>

EndRound ==
  /\ pc = "chunks"
  /\ ~MoreChunks
  /\ chunkSize' = Fitting(IF progress THEN chunkSize ELSE chunkSize \div 2, Len(best))
  /\ pc' = "rounds"
  /\ UNCHANGED <<input, test, limit, validate, best, attempt, chunkIndex, progress,
                 at, status>>

EndRounds ==
  /\ pc = "rounds"
  /\ ~MoreRounds
  /\ pc' = "functions"
  /\ UNCHANGED <<input, test, limit, validate, best, attempt, chunkSize, chunkIndex,
                 progress, at, status>>

MoreFunctions == attempt < limit /\ at <= Len(best)

\* Mutant: a transformation that adds no function is considered for ever.
SkipInPlace ==
  /\ pc = "functions"
  /\ MoreFunctions
  /\ ~IsAddFunction(best[at])
  /\ UNCHANGED vars

\* Any other transformation is skipped.
Skip ==
  /\ pc = "functions"
  /\ MoreFunctions
  /\ ~IsAddFunction(best[at])
  /\ at' = at + 1
  /\ UNCHANGED <<input, test, limit, validate, best, attempt, chunkSize, chunkIndex,
                 progress, status, pc>>

\* AddedFunctionReducer: a smaller function is only taken when all
\* transformations still apply with it and the result is interesting.
AcceptsFunction(adapted) ==
  /\ ~ReplayFails(adapted)
  /\ Replay(adapted) = adapted
  /\ Interesting(test, adapted)

\* Invocations of the interestingness function after the first: at most the
\* steps left to the reducer, and those it makes past its limit.
ReductionAttempts == 0..(limit - attempt + Overshoot)

ReduceFunction ==
  /\ pc = "functions"
  /\ MoreFunctions
  /\ IsAddFunction(best[at])
  /\ Reducible(best[at])
  /\ \E n \in ReductionAttempts, t \in Reduced(best[at]) \cup {best[at]} :
       LET adapted == [best EXCEPT ![at] = t] IN
       /\ t # best[at] => n > 0 /\ AcceptsFunction(adapted)
       /\ best' = adapted
       /\ attempt' = attempt + n
  /\ at' = at + 1
  /\ UNCHANGED <<input, test, limit, validate, chunkSize, chunkIndex, progress,
                 status, pc>>

\* The reducer refuses the module it is given.
FailToReduce ==
  /\ pc = "functions"
  /\ MoreFunctions
  /\ IsAddFunction(best[at])
  /\ ~Reducible(best[at])
  /\ Return("addedFunctionReductionFailed")
  /\ UNCHANGED <<input, test, limit, validate, best, attempt, chunkSize, chunkIndex,
                 progress, at>>

Finish ==
  /\ pc = "functions"
  /\ ~MoreFunctions
  /\ Return(IF attempt = limit THEN "stepLimitReached" ELSE "complete")
  /\ UNCHANGED <<input, test, limit, validate, best, attempt, chunkSize, chunkIndex,
                 progress, at>>

Next ==
  \/ Start
  \/ StartRound \/ TryChunk \/ EndRound \/ EndRounds
  \/ Skip \/ ReduceFunction \/ FailToReduce \/ Finish

Spec == Init /\ [][Next]_vars /\ WF_vars(Next)
-----------------------------------------------------------------------------
InUse == pc \notin {"start", "done"} \/ status \in {"complete", "stepLimitReached"}

\* Types; the size of a chunk and the index never leave the input's range.
TypeOK ==
  /\ input \in Inputs /\ test \in Tests /\ limit \in StepLimits
  /\ validate \in Validations
  /\ best \in Seq(Transformations)
  /\ Len(best) <= Len(input)
  /\ attempt \in 0..(limit + Overshoot)
  /\ chunkSize \in 0..Larger(1, Len(input))
  /\ chunkIndex \in -1..Len(input)
  /\ progress \in BOOLEAN
  /\ at \in 1..(Len(input) + 1)
  /\ pc \in {"start", "rounds", "chunks", "functions", "done"}

\* What Run and RemoveChunk assert: a round starts with chunks no larger
\* than what remains, and every chunk tried holds something, although what
\* remains shrinks, by more than the chunk removed, while the round goes on.
ChunksExist ==
  /\ pc = "rounds" /\ MoreRounds =>
       /\ chunkSize <= Len(best)
       /\ NumChunks >= 1 /\ NumChunks * chunkSize >= Len(best)
  /\ pc = "chunks" /\ MoreChunks =>
       Lower(chunkIndex, chunkSize) < Upper(best, chunkIndex, chunkSize)

\* At any time the best transformations are all applicable, in their order
\* and without those removed, and their binary is interesting: what the
\* shrinker returns is what a replay of it gives.
BestIsReproducible ==
  InUse => Replay(best) = best /\ ~ReplayFails(best) /\ Interesting(test, best)

\* Without the transformation at position k + 1, best would not be kept.
Refused(k) ==
  LET rest == RemoveChunk(best, k, 1)
  IN  ReplayFails(rest) \/ ~Interesting(test, Replay(rest))

\* When removal stops before the step limit, no single transformation is
\* left whose removal would have been kept.
BestIsOneMinimal ==
  pc = "functions" /\ at = 1 /\ attempt < limit => \A k \in 0..(Len(best) - 1) : Refused(k)

\* The chunk to try next begins inside what remains; in a round of single
\* transformations that has kept nothing, those tried were refused.
RoundInv ==
  pc = "chunks" =>
    /\ chunkSize > 0
    /\ chunkIndex >= 0 => chunkIndex * chunkSize < Len(best)
    /\ chunkSize = 1 /\ ~progress => \A k \in (chunkIndex + 1)..(Len(best) - 1) : Refused(k)

\* The size of a chunk fits, and gets to zero only after such a round.
BetweenRoundsInv ==
  pc = "rounds" =>
    /\ best # << >> => chunkSize <= Len(best)
    /\ attempt < limit /\ chunkSize = 0 => \A k \in 0..(Len(best) - 1) : Refused(k)

\* The inductive invariant of the proofs.
ShrinkerInv ==
  /\ TypeOK
  /\ pc # "done" => status = NoStatus
  /\ BestIsReproducible
  /\ RoundInv
  /\ BetweenRoundsInv
  /\ BestIsOneMinimal

\* Shrinking ends.
Terminates == <>(pc = "done")
=============================================================================
