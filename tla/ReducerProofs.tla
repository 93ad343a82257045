--------------------------- MODULE ReducerProofs ---------------------------
(***************************************************************************)
(* The reducer, for every choice of binaries, passes, finders and limits:  *)
(* the output is good, a complete reduction is one-minimal, the step limit *)
(* is overshot by less than a round, and Reduction is implemented.         *)
(***************************************************************************)
EXTENDS Reducer, SubsequencesProofs

\* The passes of either list are passes.
LEMMA PassesFacts ==
  ASSUME TypeOK
  PROVE  /\ PassList \in Seq(Passes)
         /\ Len(PassList) \in Nat
         /\ \A j \in DOMAIN PassList : PassList[j] \in Passes
         /\ \A j, k \in DOMAIN PassList : PassList[j] = PassList[k] => j = k
         /\ \A p \in Passes : Available(p, binary) \in Seq(Opportunities)
<1>1. PassList \in Seq(Passes)
  BY PassesAssumption DEF PassList
<1>2. \A j, k \in DOMAIN PassList : PassList[j] = PassList[k] => j = k
  BY PassesAssumption DEF PassList
<1>3. \A p \in Passes : Available(p, binary) \in Seq(Opportunities)
  BY FindersAssumption DEF TypeOK
<1> QED BY <1>1, <1>2, <1>3

\* A granularity in use is between one and what it was.
LEMMA ClampedFacts ==
  ASSUME TypeOK, NEW p \in Passes, NEW opps \in Seq(Opportunities)
  PROVE  /\ Clamped(p, opps) \in Nat \ {0}
         /\ Clamped(p, opps) <= granularity[p]
         /\ granularity[p] = 1 => Clamped(p, opps) = 1
         /\ Finer(p, opps) \in Nat \ {0}
         /\ Finer(p, opps) <= granularity[p]
         /\ granularity[p] = 1 => Finer(p, opps) = 1
<1>1. granularity[p] \in Nat \ {0} /\ Len(opps) \in Nat
  BY DEF TypeOK
<1>2. Clamped(p, opps) \in Nat \ {0} /\ Clamped(p, opps) <= granularity[p]
  BY <1>1 DEF Clamped, Larger
<1> QED BY <1>1, <1>2 DEF Finer, Larger

\* Every chunk yields a binary, and a chunk of one is one opportunity.
LEMMA ApplyChunkFacts ==
  ASSUME NEW chunk \in Seq(Opportunities), NEW b \in Binaries
  PROVE  /\ ApplyChunk(chunk, b) \in Binaries
         /\ Len(chunk) = 1 => ApplyChunk(chunk, b) = TryToApply(chunk[1], b)
<1> DEFINE step == [ob \in Opportunities \X Binaries |-> TryToApply(ob[1], ob[2])]
<1>1. step \in [Opportunities \X Binaries -> Binaries]
  BY FindersAssumption DEF TryToApply
<1>2. ApplyChunk(chunk, b) = RunOver(step, b, chunk)
  BY DEF ApplyChunk
<1>3. ApplyChunk(chunk, b) \in Binaries
  <2>1. \A f \in [Opportunities \X Binaries -> Binaries] : RunOver(f, b, chunk) \in Binaries
    BY RunOverType
  <2> HIDE DEF step
  <2> QED BY <1>1, <1>2, <2>1
<1>4. ASSUME Len(chunk) = 1
      PROVE  ApplyChunk(chunk, b) = TryToApply(chunk[1], b)
  <2>1. step[<<chunk[1], b>>] = TryToApply(chunk[1], b)
    <3>1. chunk[1] \in Opportunities
      BY <1>4
    <3> QED BY <3>1
  <2> HIDE DEF step
  <2> QED BY <1>2, <1>4, <2>1, RunOverOne
<1> QED BY <1>3, <1>4

\* What a step tries is a binary; at the granularity of one, it is what one
\* opportunity makes.
LEMMA CandidateFacts ==
  ASSUME TypeOK, NEW p \in Passes, NEW opps \in Seq(Opportunities), index[p] < Len(opps)
  PROVE  /\ Candidate(p, opps) \in Binaries
         /\ Clamped(p, opps) = 1 =>
              Candidate(p, opps) = TryToApply(opps[index[p] + 1], binary)
<1> DEFINE last == index[p] + Clamped(p, opps)
           end == IF last < Len(opps) THEN last ELSE Len(opps)
           chunk == SubSeq(opps, index[p] + 1, end)
<1>1. index[p] \in Nat /\ Clamped(p, opps) \in Nat \ {0} /\ binary \in Binaries
  BY ClampedFacts DEF TypeOK
<1>2. Len(opps) \in Nat /\ last \in Nat /\ end \in Nat
  BY <1>1
<1>3. chunk \in Seq(Opportunities)
  <2>1. index[p] + 1 \in Nat \ {0} /\ end \in Nat /\ end <= Len(opps)
    BY <1>1, <1>2
  <2> HIDE DEF end
  <2> QED BY <2>1, SubSeqType
<1>4. Candidate(p, opps) = ApplyChunk(chunk, binary)
  BY DEF Candidate
<1>5. ASSUME Clamped(p, opps) = 1
      PROVE  Len(chunk) = 1 /\ chunk[1] = opps[index[p] + 1]
  <2>1. end = index[p] + 1
    BY <1>1, <1>2, <1>5
  <2>2. chunk = SubSeq(opps, index[p] + 1, index[p] + 1)
    BY <2>1
  <2>3. index[p] + 1 \in Nat \ {0} /\ index[p] + 1 <= Len(opps)
    <3> HIDE DEF last, end
    <3> QED BY <1>1, <1>2
  <2> HIDE DEF chunk
  <2> QED BY <2>2, <2>3, OneElementSubSeq
<1> HIDE DEF chunk
<1> QED BY <1>1, <1>3, <1>4, <1>5, ApplyChunkFacts
-----------------------------------------------------------------------------
\* The initial state satisfies the invariant.
LEMMA InitReducerInv == Init => ReducerInv
<1> SUFFICES ASSUME Init PROVE ReducerInv
  OBVIOUS
<1>1. TypeOK
  <2>1. granularity \in [Passes -> Nat \ {0}] /\ index \in [Passes -> Nat]
    BY FindersAssumption DEF Init
  <2>2. result = NoResult /\ pc = "start"
    BY DEF Init
  <2> QED BY <2>1, <2>2, OptionsAssumption DEF Init, TypeOK
<1>2. Len(PassList) \in Nat /\ limit \in Nat
  BY <1>1, PassesFacts, OptionsAssumption DEF TypeOK
<1>3. pc = "start" /\ result = NoResult /\ applied = 0 /\ worthwhile = TRUE
  BY DEF Init
<1>4. OutputIsGood
  BY <1>3, OptionsAssumption DEF OutputIsGood
<1>5. \A p \in Passes : index[p] = 0
  BY DEF Init
<1> QED
  BY <1>1, <1>2, <1>3, <1>4, <1>5
     DEF Init, StartsWhole, ReducerInv, OvershootIsBounded, HeldIsGood, IndexIsReset, RefusedSoFar,
         OvershootCounts, Larger

\* What every step can use.
LEMMA Current ==
  ASSUME ReducerInv
  PROVE  /\ TypeOK /\ OutputIsGood /\ OvershootIsBounded /\ HeldIsGood /\ IndexIsReset
         /\ RefusedSoFar /\ OvershootCounts
         /\ limit \in Nat /\ applied \in Nat /\ at \in Nat \ {0}
         /\ Len(PassList) \in Nat
<1>1. TypeOK
  BY DEF ReducerInv
<1>2. limit \in Nat /\ applied \in Nat /\ at \in Nat \ {0} /\ Len(PassList) \in Nat
  BY <1>1, PassesFacts, OptionsAssumption DEF TypeOK
<1> QED BY <1>1, <1>2 DEF ReducerInv

\* The actions outside the do-while loop.
LEMMA CheckStep == ReducerInv /\ CheckInitialState => ReducerInv'
<1> SUFFICES ASSUME ReducerInv, CheckInitialState PROVE ReducerInv'
  OBVIOUS
<1> USE Current
<1>1. PassList' = PassList /\ pc = "start"
  BY DEF CheckInitialState, PassList
<1>2. TypeOK'
  BY OptionsAssumption DEF CheckInitialState, TypeOK, Return
<1>3. applied = 0 /\ worthwhile
  BY <1>1 DEF OvershootCounts
<1>4. pc' \in {"done", "round"} /\ applied' = 0 /\ limit' = limit /\ worthwhile'
      /\ index' = index /\ at' = at
  BY <1>3 DEF CheckInitialState, Return
<1>5. OutputIsGood' /\ HeldIsGood'
  <2>1. binary = original
    BY <1>1 DEF StartsWhole, ReducerInv
  <2>2. Valid(binary)' = Valid(binary) /\ Interesting(binary)' = Interesting(binary)
        /\ binary' = original'
    BY <2>1 DEF CheckInitialState, Valid, Interesting
  <2>3. CASE ~Good(binary)
    BY <1>1, <2>2, <2>3, OptionsAssumption
       DEF CheckInitialState, OutputIsGood, HeldIsGood, Good, Return
  <2>4. CASE Good(binary)
    <3>1. pc' = "round" /\ result' = result /\ Good(binary)'
      BY <2>2, <2>4 DEF CheckInitialState, Good, Return
    <3>2. result = NoResult
      BY <1>1 DEF TypeOK
    <3> QED BY <3>1, <3>2, OptionsAssumption DEF OutputIsGood, HeldIsGood
  <2> QED BY <2>3, <2>4
<1>6. OvershootIsBounded' /\ OvershootCounts'
  BY <1>1, <1>4 DEF OvershootIsBounded, OvershootCounts, ReachedStepLimit, Larger
<1>7. IndexIsReset'
  BY <1>1, <1>3, <1>4 DEF IndexIsReset, ReachedStepLimit
<1>8. RefusedSoFar'
  BY <1>4 DEF RefusedSoFar
<1>9. StartsWhole'
  BY <1>4 DEF StartsWhole
<1> QED BY <1>2, <1>5, <1>6, <1>7, <1>8, <1>9 DEF ReducerInv

\* The start of a round keeps the invariant: nothing is refused yet.
LEMMA StartRoundStep == ReducerInv /\ StartRound => ReducerInv'
<1> SUFFICES ASSUME ReducerInv, StartRound PROVE ReducerInv'
  OBVIOUS
<1> USE Current
<1>1. /\ PassList' = PassList /\ pc = "round" /\ pc' = "pass" /\ at' = 1 /\ worthwhile' = FALSE
      /\ applied' = applied /\ limit' = limit /\ binary' = binary /\ index' = index
      /\ result' = result /\ result = NoResult
      /\ ~ReachedStepLimit(applied) /\ ~ReachedStepLimit(applied)'
  BY DEF StartRound, PassList, ReachedStepLimit, TypeOK
<1>2. TypeOK'
  <2>1. /\ original' = original /\ tests' = tests /\ granularity' = granularity /\ list' = list
    BY DEF StartRound
  <2>2. at' \in Nat \ {0}
    BY <1>1
  <2>3. worthwhile' \in BOOLEAN
    BY <1>1, Zenon
  <2> QED BY <1>1, <2>1, <2>2, <2>3 DEF TypeOK
<1>3. OutputIsGood' /\ HeldIsGood' /\ StartsWhole'
  BY <1>1, OptionsAssumption
     DEF StartRound, OutputIsGood, HeldIsGood, StartsWhole, Good, Valid, Interesting
<1>4. OvershootIsBounded' /\ OvershootCounts'
  BY <1>1 DEF OvershootIsBounded, OvershootCounts, ReachedStepLimit
<1>5. IndexIsReset'
  BY <1>1 DEF IndexIsReset
<1>6. RefusedSoFar'
  BY <1>1 DEF RefusedSoFar
<1> QED BY <1>2, <1>3, <1>4, <1>5, <1>6 DEF ReducerInv

\* The end of RunPasses keeps it.
LEMMA EndPassesStep == ReducerInv /\ EndPasses => ReducerInv'
<1> SUFFICES ASSUME ReducerInv, EndPasses PROVE ReducerInv'
  OBVIOUS
<1> USE Current
<1>1. /\ pc = "round" /\ applied' = applied /\ limit' = limit /\ binary' = binary
      /\ tests' = tests /\ original' = original /\ index' = index /\ at' = at
      /\ result = NoResult /\ Good(binary)
  BY DEF EndPasses, TypeOK, HeldIsGood
<1>2. Good(binary)'
  BY <1>1 DEF Good, Valid, Interesting
<1>3. CASE ReachedStepLimit(applied) \/ list # "main"
  <2>1. /\ pc' = "done" /\ result' \in {"reachedStepLimit", "complete"} /\ list' = list
        /\ PassList' = PassList
    BY <1>3 DEF EndPasses, Return, PassList
  <2>2. TypeOK'
    BY <1>1, <2>1, OptionsAssumption DEF EndPasses, TypeOK
  <2>3. OutputIsGood' /\ HeldIsGood' /\ StartsWhole' /\ RefusedSoFar' /\ IndexIsReset'
        /\ OvershootCounts' /\ OvershootIsBounded'
    BY <1>1, <1>2, <2>1 DEF OutputIsGood, HeldIsGood, StartsWhole, RefusedSoFar, IndexIsReset,
                            OvershootCounts, OvershootIsBounded
  <2> QED BY <2>2, <2>3 DEF ReducerInv
<1>4. CASE ~ReachedStepLimit(applied) /\ list = "main"
  <2>1. pc' = "round" /\ result' = result /\ list' = "cleanup" /\ worthwhile' = TRUE
        /\ ~ReachedStepLimit(applied)'
    BY <1>1, <1>4 DEF EndPasses, ReachedStepLimit
  <2>2. TypeOK'
    BY <1>1, <2>1 DEF EndPasses, TypeOK
  <2>3. Len(PassList)' \in Nat
    <3>1. (TypeOK => Len(PassList) \in Nat)'
      <4>1. TypeOK => Len(PassList) \in Nat
        BY PassesFacts
      <4> QED BY PassesFacts, PTL
    <3> QED BY <2>2, <3>1
  <2>4. OvershootIsBounded' /\ OvershootCounts'
    BY <1>1, <1>4, <2>1, <2>3 DEF OvershootIsBounded, OvershootCounts, ReachedStepLimit, Larger
  <2>5. OutputIsGood' /\ HeldIsGood' /\ StartsWhole' /\ RefusedSoFar' /\ IndexIsReset'
    BY <1>1, <1>2, <1>4, <2>1, OptionsAssumption
       DEF OutputIsGood, HeldIsGood, StartsWhole, RefusedSoFar, IndexIsReset
  <2> QED BY <2>2, <2>4, <2>5 DEF ReducerInv
<1> QED BY <1>3, <1>4

\* Moving on to the next pass of a round keeps it.
LEMMA NextPassStep == ReducerInv /\ NextPass => ReducerInv'
<1> SUFFICES ASSUME ReducerInv, NextPass PROVE ReducerInv'
  OBVIOUS
<1> USE Current
<1>1. /\ pc = "pass" /\ applied' = applied /\ limit' = limit /\ binary' = binary
      /\ tests' = tests /\ original' = original /\ index' = index /\ at' = at
      /\ granularity' = granularity /\ list' = list /\ result' = result /\ result = NoResult
      /\ PassList' = PassList /\ Good(binary)
  BY DEF NextPass, TypeOK, HeldIsGood, PassList
<1>2. Good(binary)' /\ ReachedStepLimit(applied)' = ReachedStepLimit(applied)
  BY <1>1 DEF Good, Valid, Interesting, ReachedStepLimit
<1>3. \/ at <= Len(PassList) /\ pc' = "try"
         /\ worthwhile' = (worthwhile \/ ~ReachedMinimumGranularity(PassList[at]))
      \/ at > Len(PassList) /\ pc' = "round" /\ worthwhile' = worthwhile
  BY DEF NextPass
<1>4. TypeOK'
  <2>1. worthwhile' \in BOOLEAN
    BY <1>3 DEF TypeOK, ReachedMinimumGranularity
  <2>2. pc' = "try" => at \in DOMAIN PassList
    <3>1. DOMAIN PassList = 1..Len(PassList)
      BY PassesFacts
    <3> QED BY <1>3, <3>1
  <2> QED BY <1>1, <1>3, <2>1, <2>2 DEF TypeOK
<1>5. OutputIsGood' /\ HeldIsGood' /\ StartsWhole'
  BY <1>1, <1>2, <1>3, OptionsAssumption DEF OutputIsGood, HeldIsGood, StartsWhole
<1>6. OvershootIsBounded' /\ OvershootCounts'
  BY <1>1, <1>2, <1>3 DEF OvershootIsBounded, OvershootCounts
<1>7. IndexIsReset'
  BY <1>1, <1>2 DEF IndexIsReset
<1>8. RefusedSoFar'
  <2> SUFFICES ASSUME ~worthwhile', ~ReachedStepLimit(applied)'
               PROVE  /\ \A j \in DOMAIN PassList' :
                           j < at' => Refused(PassList[j], Len(Available(PassList[j], binary)))'
                      /\ pc' = "round" => at' > Len(PassList)'
                      /\ pc' = "try" => /\ granularity'[PassList'[at']] = 1
                                        /\ Refused(PassList[at], index[PassList[at]])'
    BY DEF RefusedSoFar
  <2>1. ~worthwhile /\ ~ReachedStepLimit(applied)
    BY <1>2, <1>3 DEF TypeOK
  <2>2. \A j \in DOMAIN PassList :
          j < at => Refused(PassList[j], Len(Available(PassList[j], binary)))
    BY <1>1, <2>1 DEF RefusedSoFar
  <2>3. \A j \in DOMAIN PassList' :
          j < at' => Refused(PassList[j], Len(Available(PassList[j], binary)))'
    BY <1>1, <1>2, <2>2 DEF Refused, Good, Valid, Interesting
  <2>4. ASSUME pc' = "try"
        PROVE  granularity'[PassList'[at']] = 1 /\ Refused(PassList[at], index[PassList[at]])'
    <3>1. at \in DOMAIN PassList /\ ReachedMinimumGranularity(PassList[at])
      BY <1>3, <1>4, <1>1, <2>4 DEF TypeOK
    <3>2. index'[PassList'[at']] = 0
      BY <1>1, <2>1, <3>1, PassesFacts DEF IndexIsReset
    <3>3. \A k \in DOMAIN Available(PassList[at], binary) : k > 0
      BY <3>1, PassesFacts
    <3> QED BY <1>1, <3>1, <3>2, <3>3 DEF ReachedMinimumGranularity, Refused
  <2> QED BY <1>1, <1>3, <2>3, <2>4
<1> QED BY <1>4, <1>5, <1>6, <1>7, <1>8 DEF ReducerInv
-----------------------------------------------------------------------------
\* The do-while loop.  The pass being tried, and its opportunities.
LEMMA TryFacts ==
  ASSUME ReducerInv, pc = "try"
  PROVE  /\ at \in DOMAIN PassList /\ DOMAIN PassList = 1..Len(PassList)
         /\ PassList[at] \in Passes
         /\ Available(PassList[at], binary) \in Seq(Opportunities)
         /\ Len(Available(PassList[at], binary)) \in Nat
         /\ index[PassList[at]] \in Nat
         /\ result = NoResult /\ Good(binary)
<1>1. at \in DOMAIN PassList /\ PassList \in Seq(Passes)
  BY Current, PassesFacts DEF TypeOK
<1>2. PassList[at] \in Passes /\ DOMAIN PassList = 1..Len(PassList)
  BY <1>1
<1>3. Available(PassList[at], binary) \in Seq(Opportunities)
  BY <1>2, Current, PassesFacts
<1>4. Len(Available(PassList[at], binary)) \in Nat
  BY <1>3
<1> QED BY <1>1, <1>2, <1>3, <1>4, Current DEF TypeOK, HeldIsGood

\* What holds of the loop's actions alike.
LEMMA LoopFrame ==
  ASSUME ReducerInv, pc = "try", UNCHANGED <<original, tests, limit, list>>
  PROVE  /\ PassList' = PassList
         /\ \A b : Good(b)' = Good(b) 
BY DEF PassList, Good, Valid, Interesting

\* The end of the list of opportunities keeps it: all of them were refused.
LEMMA EndOfRoundStep ==
  ASSUME ReducerInv, pc = "try", UNCHANGED <<original, tests, limit, list>>,
         EndOfRound(PassList[at], Available(PassList[at], binary))
  PROVE  ReducerInv'
<1> DEFINE p == PassList[at]
           opps == Available(p, binary)
<1> USE Current, TryFacts
<1>1. /\ index[p] >= Len(opps) /\ index' = [index EXCEPT ![p] = 0]
      /\ granularity' = [granularity EXCEPT ![p] = Finer(p, opps)]
      /\ at' = at + 1 /\ pc' = "pass" /\ binary' = binary /\ worthwhile' = worthwhile
      /\ applied' = applied /\ result' = result
  BY DEF EndOfRound
<1>2. PassList' = PassList /\ Good(binary)' = Good(binary)
      /\ ReachedStepLimit(applied)' = ReachedStepLimit(applied)
  BY <1>1 DEF PassList, Good, Valid, Interesting, ReachedStepLimit
<1>3. TypeOK'
  <2>1. Finer(p, opps) \in Nat \ {0}
    BY ClampedFacts
  <2>2. granularity' \in [Passes -> Nat \ {0}] /\ index' \in [Passes -> Nat]
    BY <1>1, <2>1 DEF TypeOK
  <2> QED BY <1>1, <2>2 DEF TypeOK
<1>4. OutputIsGood' /\ HeldIsGood' /\ StartsWhole'
  BY <1>1, <1>2, OptionsAssumption DEF OutputIsGood, HeldIsGood, StartsWhole
<1>5. OvershootIsBounded' /\ OvershootCounts'
  BY <1>1, <1>2 DEF OvershootIsBounded, OvershootCounts
<1>6. IndexIsReset'
  BY <1>1, <1>2 DEF IndexIsReset, TypeOK
<1>7. RefusedSoFar'
  <2> SUFFICES ASSUME ~worthwhile', ~ReachedStepLimit(applied)'
               PROVE  \A j \in DOMAIN PassList :
                        j < at + 1 => Refused(PassList[j], Len(Available(PassList[j], binary)))'
    BY <1>1, <1>2 DEF RefusedSoFar
  <2>1. ~worthwhile /\ ~ReachedStepLimit(applied)
    BY <1>1, <1>2
  <2>2. /\ Refused(p, index[p])
        /\ \A j \in DOMAIN PassList :
             j < at => Refused(PassList[j], Len(Available(PassList[j], binary)))
    BY <2>1 DEF RefusedSoFar
  <2>3. Refused(p, Len(opps))
    BY <1>1, <2>2 DEF Refused
  <2>4. \A j \in DOMAIN PassList :
          j < at + 1 => Refused(PassList[j], Len(Available(PassList[j], binary)))
    BY <2>2, <2>3
  <2> QED BY <1>1, <1>2, <2>4 DEF Refused, Good, Valid, Interesting
<1> QED BY <1>3, <1>4, <1>5, <1>6, <1>7 DEF ReducerInv

\* A step that is not kept keeps it: one more opportunity is refused.
LEMMA StepRejectedStep ==
  ASSUME ReducerInv, pc = "try", UNCHANGED <<original, tests, limit, list>>,
         StepRejected(PassList[at], Available(PassList[at], binary))
  PROVE  ReducerInv'
<1> DEFINE p == PassList[at]
           opps == Available(p, binary)
           c == Clamped(p, opps)
<1> USE Current, TryFacts
<1>1. /\ index[p] < Len(opps) /\ ~Good(Candidate(p, opps))
      /\ applied' = applied + 1 /\ granularity' = [granularity EXCEPT ![p] = c]
      /\ index' = [index EXCEPT ![p] = @ + c]
      /\ binary' = binary /\ worthwhile' = worthwhile /\ result' = result
  BY DEF StepRejected, Good
<1>2. \/ ReachedStepLimit(applied + 1) /\ pc' = "pass" /\ at' = at + 1
      \/ ~ReachedStepLimit(applied + 1) /\ pc' = "try" /\ at' = at
  BY DEF StepRejected, LoopOrLeave
<1>3. PassList' = PassList /\ Good(binary)' = Good(binary)
      /\ ReachedStepLimit(applied)' = ReachedStepLimit(applied + 1)
  BY <1>1 DEF PassList, Good, Valid, Interesting, ReachedStepLimit
<1>4. c \in Nat \ {0}
  BY ClampedFacts
<1>5. TypeOK'
  <2>1. granularity' \in [Passes -> Nat \ {0}] /\ index' \in [Passes -> Nat]
    BY <1>1, <1>4 DEF TypeOK
  <2>2. applied' \in Nat /\ at' \in Nat \ {0}
    BY <1>1, <1>2 DEF TypeOK
  <2>3. pc' \in {"pass", "try"} /\ (pc' = "try" => at' \in DOMAIN PassList')
    BY <1>2, <1>3
  <2>4. result' = NoResult
    BY <1>1
  <2>5. TypeOK
    BY DEF ReducerInv
  <2> QED BY ONLY UNCHANGED <<original, tests, limit, list>>, <1>1, <2>1, <2>2, <2>3, <2>4, <2>5 DEF TypeOK
<1>6. OutputIsGood' /\ HeldIsGood' /\ StartsWhole'
  BY <1>1, <1>2, <1>3, OptionsAssumption DEF OutputIsGood, HeldIsGood, StartsWhole
<1>7. OvershootCounts'
  BY <1>1, <1>2, <1>3 DEF OvershootCounts, ReachedStepLimit
<1>8. OvershootIsBounded'
  BY <1>1, <1>3 DEF OvershootCounts, OvershootIsBounded, ReachedStepLimit, Larger
<1>9. IndexIsReset'
  BY <1>1, <1>2, <1>3 DEF IndexIsReset, TypeOK, ReachedStepLimit
<1>10. RefusedSoFar'
  <2> SUFFICES ASSUME ~worthwhile', ~ReachedStepLimit(applied)' PROVE RefusedSoFar'
    BY DEF RefusedSoFar
  <2>1. ~worthwhile /\ ~ReachedStepLimit(applied) /\ pc' = "try" /\ at' = at
    BY <1>1, <1>2, <1>3 DEF ReachedStepLimit
  <2>2. /\ \A j \in DOMAIN PassList :
             j < at => Refused(PassList[j], Len(Available(PassList[j], binary)))
        /\ granularity[p] = 1 /\ Refused(p, index[p])
    BY <2>1 DEF RefusedSoFar
  <2>3. c = 1 /\ Candidate(p, opps) = TryToApply(opps[index[p] + 1], binary)
    BY <1>1, <2>2, ClampedFacts, CandidateFacts
  <2>4. granularity'[p] = 1 /\ index'[p] = index[p] + 1
    BY <1>1, <2>3 DEF TypeOK
  <2>5. Refused(p, index[p] + 1)
    BY <1>1, <2>2, <2>3 DEF Refused
  <2>6. PICK n : n = index[p] + 1
    OBVIOUS
  <2>7. Refused(p, n)'
    BY <1>1, <1>3, <2>1, <2>5, <2>6 DEF Refused, Good, Valid, Interesting
  <2> QED BY <1>1, <1>3, <2>1, <2>2, <2>4, <2>6, <2>7 DEF RefusedSoFar, Refused, Good, Valid, Interesting
<1> QED BY <1>5, <1>6, <1>7, <1>8, <1>9, <1>10 DEF ReducerInv

\* A step that is kept keeps it: the round is worthwhile.
LEMMA StepKeptStep ==
  ASSUME ReducerInv, pc = "try", UNCHANGED <<original, tests, limit, list>>,
         StepKept(PassList[at], Available(PassList[at], binary))
  PROVE  ReducerInv'
<1> DEFINE p == PassList[at]
           opps == Available(p, binary)
           c == Clamped(p, opps)
<1> USE Current, TryFacts
<1>1. /\ index[p] < Len(opps) /\ Good(Candidate(p, opps))
      /\ applied' = applied + 1 /\ granularity' = [granularity EXCEPT ![p] = c]
      /\ index' = index /\ binary' = Candidate(p, opps) /\ worthwhile' = TRUE
      /\ result' = result
  BY DEF StepKept, Good
<1>2. \/ ReachedStepLimit(applied + 1) /\ pc' = "pass" /\ at' = at + 1
      \/ ~ReachedStepLimit(applied + 1) /\ pc' = "try" /\ at' = at
  BY DEF StepKept, LoopOrLeave
<1>3. PassList' = PassList /\ Good(binary)'
      /\ ReachedStepLimit(applied)' = ReachedStepLimit(applied + 1)
  BY <1>1 DEF PassList, Good, Valid, Interesting, ReachedStepLimit
<1>4. c \in Nat \ {0} /\ Candidate(p, opps) \in Binaries
  BY <1>1, ClampedFacts, CandidateFacts
<1>5. TypeOK'
  <2>1. granularity' \in [Passes -> Nat \ {0}] /\ binary' \in Binaries
    BY <1>1, <1>4 DEF TypeOK
  <2>2. worthwhile' \in BOOLEAN
    BY <1>1
  <2> QED BY <1>1, <1>2, <1>3, <2>1, <2>2 DEF TypeOK
<1>6. OutputIsGood' /\ HeldIsGood' /\ StartsWhole'
  BY <1>1, <1>2, <1>3, OptionsAssumption DEF OutputIsGood, HeldIsGood, StartsWhole
<1>7. OvershootCounts'
  BY <1>1, <1>2, <1>3 DEF OvershootCounts, ReachedStepLimit
<1>8. OvershootIsBounded'
  BY <1>1, <1>3 DEF OvershootCounts, OvershootIsBounded, ReachedStepLimit, Larger
<1>9. IndexIsReset'
  BY <1>1, <1>2, <1>3 DEF IndexIsReset, TypeOK, ReachedStepLimit
<1>10. RefusedSoFar'
  BY <1>1 DEF RefusedSoFar
<1> QED BY <1>5, <1>6, <1>7, <1>8, <1>9, <1>10 DEF ReducerInv

\* A step that ends the reduction keeps it.
LEMMA StepInvalidStep ==
  ASSUME ReducerInv, pc = "try", UNCHANGED <<original, tests, limit, list>>,
         StepInvalid(PassList[at], Available(PassList[at], binary))
  PROVE  ReducerInv'
<1> DEFINE p == PassList[at]
           opps == Available(p, binary)
           c == Clamped(p, opps)
<1> USE Current, TryFacts
<1>1. /\ index[p] < Len(opps) /\ ~Valid(Candidate(p, opps)) /\ tests.failOnError
      /\ applied' = applied + 1 /\ granularity' = [granularity EXCEPT ![p] = c]
      /\ index' = index /\ binary' = Candidate(p, opps)
      /\ result' = "stateInvalid" /\ pc' = "done"
  BY DEF StepInvalid, Return
<1>2. PassList' = PassList /\ ~Valid(binary)' /\ tests'.failOnError
  BY <1>1 DEF PassList, Valid
<1>3. c \in Nat \ {0} /\ Candidate(p, opps) \in Binaries
  BY <1>1, ClampedFacts, CandidateFacts
<1>4. TypeOK'
  <2>1. granularity' \in [Passes -> Nat \ {0}] /\ binary' \in Binaries
    BY <1>1, <1>3 DEF TypeOK
  <2>2. worthwhile' = worthwhile /\ at' = at
    BY DEF StepInvalid
  <2> QED BY <1>1, <1>2, <2>1, <2>2, OptionsAssumption DEF TypeOK
<1>5. OutputIsGood'
  BY <1>1, <1>2, OptionsAssumption DEF OutputIsGood
<1>6. OvershootIsBounded'
  BY <1>1, <1>2 DEF OvershootCounts, OvershootIsBounded, ReachedStepLimit, Larger
<1>7. HeldIsGood' /\ StartsWhole' /\ OvershootCounts' /\ IndexIsReset' /\ RefusedSoFar'
  BY <1>1 DEF HeldIsGood, StartsWhole, OvershootCounts, IndexIsReset, RefusedSoFar
<1> QED BY <1>4, <1>5, <1>6, <1>7 DEF ReducerInv

\* An iteration of the loop on a pass keeps it.
LEMMA TryPassStep == ReducerInv /\ TryPass => ReducerInv'
BY EndOfRoundStep, StepRejectedStep, StepKeptStep, StepInvalidStep DEF TryPass

\* Stuttering keeps it.
LEMMA StutterStep == ReducerInv /\ UNCHANGED vars => ReducerInv'
<1> SUFFICES ASSUME ReducerInv, UNCHANGED vars PROVE ReducerInv'
  OBVIOUS
<1> QED BY DEF vars, ReducerInv, TypeOK, OutputIsGood, OvershootIsBounded, HeldIsGood, StartsWhole,
               IndexIsReset, RefusedSoFar, Refused, OvershootCounts, PassList, Good, Valid,
               Interesting, ReachedStepLimit
-----------------------------------------------------------------------------
\* The inductive invariant: what is known of the binary held, of the indices,
\* of everything refused so far and of the steps beyond the limit.
THEOREM ReducerInvariant == Spec => []ReducerInv
<1>1. Init => ReducerInv
  BY InitReducerInv
<1>2. ReducerInv /\ [Next]_vars => ReducerInv'
  BY CheckStep, StartRoundStep, EndPassesStep, NextPassStep, TryPassStep, StutterStep DEF Next
<1> QED BY <1>1, <1>2, PTL DEF Spec

\* reducer.cpp only returns kComplete or kReachedStepLimit with a binary that
\* validates and is interesting, whatever the passes do.
THEOREM OutputsAreGood == Spec => [](TypeOK /\ OutputIsGood)
<1>1. ReducerInv => TypeOK /\ OutputIsGood
  BY DEF ReducerInv
<1> QED BY <1>1, ReducerInvariant, PTL

\* The number of reductions applied exceeds the step limit by less than the
\* number of passes in a round.
THEOREM StepsAreBounded == Spec => []OvershootIsBounded
<1>1. ReducerInv => OvershootIsBounded
  BY DEF ReducerInv
<1> QED BY <1>1, ReducerInvariant, PTL

\* When RunPasses stops for want of a worthwhile round, no opportunity of any
\* of its passes, taken alone, would have been kept.
THEOREM CompleteReductionsAreMinimal == Spec => []CompleteIsOneMinimal
<1>1. ASSUME ReducerInv, pc = "round", ~worthwhile, ~ReachedStepLimit(applied)
      PROVE  OneMinimal(PassList)
  <2>1. DOMAIN PassList = 1..Len(PassList) /\ Len(PassList) \in Nat /\ at \in Nat
    BY <1>1, Current, PassesFacts
  <2>2. at > Len(PassList)
        /\ \A j \in DOMAIN PassList :
             j < at => Refused(PassList[j], Len(Available(PassList[j], binary)))
    BY <1>1 DEF ReducerInv, RefusedSoFar
  <2>3. ASSUME NEW j \in DOMAIN PassList
        PROVE  \A k \in DOMAIN Available(PassList[j], binary) :
                 ~Good(TryToApply(Available(PassList[j], binary)[k], binary))
    <3>1. Refused(PassList[j], Len(Available(PassList[j], binary)))
      BY <2>1, <2>2, <2>3
    <3>2. Available(PassList[j], binary) \in Seq(Opportunities)
      BY <1>1, <2>3, Current, PassesFacts
    <3> QED BY <3>1, <3>2 DEF Refused
  <2> QED BY <2>3 DEF OneMinimal
<1>2. ReducerInv => CompleteIsOneMinimal
  BY <1>1 DEF CompleteIsOneMinimal
<1> QED BY <1>2, ReducerInvariant, PTL

-----------------------------------------------------------------------------
\* A binary is good for Reduction when it is for Reducer.
LEMMA PromiseGood ==
  /\ \A b : Promise!Good(b) = Good(b)
  /\ (\A b : Promise!Good(b) = Good(b))'
<1>1. \A b : Promise!Good(b) = Good(b)
  BY DEF Promise!Good, Good, Valid, Interesting
<1> QED BY <1>1, PTL

\* An initial state of Reducer is one of Reduction.
LEMMA PromiseInit == Init => Promise!RedInit
BY OptionsAssumption DEF Init, Promise!RedInit

\* A step of Reducer is one of Reduction, or changes nothing there.
LEMMA PromiseStep == ReducerInv /\ [Next]_vars => [Promise!RedNext]_(Promise!redVars)
<1> SUFFICES ASSUME ReducerInv, [Next]_vars PROVE Promise!RedNext \/ UNCHANGED Promise!redVars
  OBVIOUS
<1> USE Current, PromiseGood
<1>1. CASE UNCHANGED <<original, tests, binary, result>>
  BY <1>1 DEF Promise!redVars
<1>2. CASE CheckInitialState
  <2>1. binary = original /\ result = NoResult
    BY <1>2 DEF CheckInitialState, ReducerInv, StartsWhole, TypeOK
  <2>2. CASE Good(binary)
    BY <1>1, <1>2, <2>2 DEF CheckInitialState, Good
  <2>3. CASE ~Good(binary)
    <3>1. Promise!Refuse
      BY <1>2, <2>1, <2>3
         DEF CheckInitialState, Promise!Refuse, Return, Good, Valid, Interesting
    <3> QED BY <3>1 DEF Promise!RedNext
  <2> QED BY <2>2, <2>3
<1>3. CASE EndPasses
  <2>1. Good(binary) /\ result = NoResult
    BY <1>3 DEF EndPasses, HeldIsGood, TypeOK
  <2>2. Promise!Return \/ UNCHANGED <<original, tests, binary, result>>
    BY <1>3, <2>1 DEF EndPasses, Return, Promise!Return
  <2> QED BY <1>1, <2>2 DEF Promise!RedNext
<1>4. CASE TryPass
  <2> DEFINE p == PassList[at]
             opps == Available(p, binary)
  <2>1. result = NoResult /\ Good(binary) /\ UNCHANGED <<original, tests>>
    BY <1>4, TryFacts DEF TryPass
  <2>2. index[p] < Len(opps) => Candidate(p, opps) \in Binaries
    BY <1>4, TryFacts, CandidateFacts DEF TryPass
  <2>3. CASE StepKept(p, opps)
    <3>1. binary' = Candidate(p, opps) /\ Good(Candidate(p, opps)) /\ result' = result
          /\ index[p] < Len(opps)
      BY <2>3 DEF StepKept
    <3>2. Good(binary)'
      BY <2>1, <3>1 DEF Good, Valid, Interesting
    <3>3. Promise!Improve
      BY <2>1, <2>2, <3>1, <3>2 DEF Promise!Improve
    <3> QED BY <3>3 DEF Promise!RedNext
  <2>4. CASE StepInvalid(p, opps)
    <3>1. Promise!GiveUp
      BY <2>1, <2>2, <2>4 DEF StepInvalid, Return, Promise!GiveUp, Valid
    <3> QED BY <3>1 DEF Promise!RedNext
  <2>5. CASE EndOfRound(p, opps) \/ StepRejected(p, opps)
    BY <1>1, <2>1, <2>5 DEF EndOfRound, StepRejected
  <2> QED BY <1>4, <2>3, <2>4, <2>5 DEF TryPass
<1>5. CASE StartRound \/ NextPass \/ UNCHANGED vars
  BY <1>1, <1>5 DEF StartRound, NextPass, vars
<1> QED BY <1>2, <1>3, <1>4, <1>5 DEF Next

\* Reducer::Run keeps the promise of Reduction: it only ever replaces the
\* binary it holds by a good one, and ends with the status that says so.
THEOREM KeepsThePromise == Spec => Implements
<1> QED BY PromiseInit, PromiseStep, ReducerInvariant, PTL DEF Spec, Promise!RedSpec, Implements
=============================================================================
