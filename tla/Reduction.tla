----------------------------- MODULE Reduction -----------------------------
(***************************************************************************)
(* What the reducer promises its caller, whatever passes it runs and in    *)
(* whatever order it tries things: it holds a binary, it only gives it up  *)
(* for one that is valid and still interesting, and it ends with a status. *)
(* The one exception is the mode that stops at the first invalid binary    *)
(* and returns that one for debugging.                                     *)
(***************************************************************************)
CONSTANTS Binaries,     \* the binaries
          NoResult      \* the status before the reduction ends

VARIABLES original,     \* the binary given
          best,         \* the binary held
          verdict,      \* the status returned
          tests         \* [valid, interesting: sets of binaries, failOnError]

redVars == <<original, best, verdict, tests>>

Good(b) == b \in tests.valid /\ b \in tests.interesting

RedInit ==
  /\ tests \in [valid : SUBSET Binaries, interesting : SUBSET Binaries,
                failOnError : BOOLEAN]
  /\ original \in Binaries
  /\ best = original
  /\ verdict = NoResult

\* The input is not one to start from.
Refuse ==
  /\ verdict = NoResult
  /\ ~Good(best)
  /\ verdict' = IF best \in tests.valid THEN "initialStateNotInteresting"
                ELSE "initialStateInvalid"
  /\ UNCHANGED <<original, best, tests>>

\* A smaller binary replaces the one held.
Improve ==
  /\ verdict = NoResult
  /\ Good(best)
  /\ best' \in Binaries
  /\ Good(best)'
  /\ UNCHANGED <<original, verdict, tests>>

\* The reduction stops at a binary that does not validate.
GiveUp ==
  /\ verdict = NoResult
  /\ Good(best)
  /\ tests.failOnError
  /\ best' \in Binaries \ tests.valid
  /\ verdict' = "stateInvalid"
  /\ UNCHANGED <<original, tests>>

Return ==
  /\ verdict = NoResult
  /\ Good(best)
  /\ verdict' \in {"complete", "reachedStepLimit"}
  /\ UNCHANGED <<original, best, tests>>

RedNext == Refuse \/ Improve \/ GiveUp \/ Return

RedSpec == RedInit /\ [][RedNext]_redVars
=============================================================================
