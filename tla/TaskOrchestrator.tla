-------------------------- MODULE TaskOrchestrator --------------------------
(***************************************************************************)
(* packages/orchestrator/task_orchestrator.py: one call of execute, from   *)
(* the accepted contract to the TaskResult. The provider may answer with   *)
(* any payload after any time, raise, or not answer before the timeout.    *)
(* Time is counted in milliseconds and passes in the provider calls and in *)
(* the pauses between them.                                                *)
(***************************************************************************)
EXTENDS Validation, QualityEngine

CONSTANTS
  Contracts,   \* the contracts an execution may be given
  Answers,     \* payloads a provider may generate for a schema
  Texts,       \* values it may generate as text
  Durations    \* how long a provider call may take, in milliseconds

(* What RetryPolicy and the JSON of a request admit: 1 to 20 attempts, no   *)
(* negative time, and lists and objects of finitely many fields.           *)
WellFormed(c) ==
  /\ c.max_attempts \in 1 .. 20
  /\ {c.backoff, c.timeout} \subseteq Nat
  /\ {c.exponential, c.abstain_allowed} \subseteq BOOLEAN
  /\ \A S \in {c.output_schema.required,
               DOMAIN c.output_schema.properties,
               c.constraints.required_non_empty,
               DOMAIN c.constraints.forbidden_values,
               DOMAIN c.constraints.min_length,
               DOMAIN c.constraints.max_length,
               DOMAIN c.constraints.numeric_ranges,
               c.constraints.quality_required_fields,
               c.constraints.mutually_exclusive} : IsFiniteSet(S)

ASSUME ContractsAreWellFormed == \A c \in Contracts : WellFormed(c)

ASSUME AnswersAreFinite == \A a \in Answers : IsFiniteSet(DOMAIN a)

ASSUME DurationsAreTimes == Durations \subseteq Nat

VARIABLES
  contract,
  phase,         \* the step execute is at
  attempt,       \* loop variable of _run_with_retry
  elapsed,       \* perf_counter() - started
  answer,        \* what the provider generated
  output_payload,
  repair_count,
  validation,
  score,
  verdict        \* TaskResult.status

vars == <<contract, phase, attempt, elapsed, answer, output_payload,
          repair_count, validation, score, verdict>>

NoFields == [f \in {} |-> Null]
NoReport == [decision |-> "pass", hard |-> 0, soft |-> 0]

-----------------------------------------------------------------------------
(* _run_with_retry                                                         *)

(* _choose_strategy and _inference: text when there is no schema.          *)
Generated ==
  IF contract.output_schema.given
  THEN Answers
  ELSE {[f \in {"text"} |-> text] : text \in Texts}

InferenceReturns(duration, payload) ==
  /\ phase = "inference"
  /\ duration < contract.timeout
  /\ elapsed' = elapsed + duration
  /\ answer' = payload
  /\ phase' = "repair"
  /\ UNCHANGED <<contract, attempt, output_payload, repair_count, validation,
                 score, verdict>>

(* The provider raises, or wait_for does after the timeout.                *)
InferenceFails(duration) ==
  /\ phase = "inference"
  /\ elapsed' = elapsed + AtMost(contract.timeout, duration)
  /\ phase' = IF attempt >= contract.max_attempts THEN "error" ELSE "backoff"
  /\ UNCHANGED <<contract, attempt, answer, output_payload, repair_count,
                 validation, score, verdict>>

(* Mutant of Delay: the exponent is the number of the attempt that failed. *)
DelayDoubled(n) ==
  IF contract.exponential THEN contract.backoff * 2 ^ n ELSE contract.backoff

Delay(n) ==
  IF contract.exponential
  THEN contract.backoff * 2 ^ (n - 1)
  ELSE contract.backoff

Backoff ==
  /\ phase = "backoff"
  /\ elapsed' = elapsed + Delay(attempt)
  /\ attempt' = attempt + 1
  /\ phase' = "inference"
  /\ UNCHANGED <<contract, answer, output_payload, repair_count, validation,
                 score, verdict>>

(* _error_result: a failed result instead of the exception.                *)
ErrorResult ==
  /\ phase = "error"
  /\ validation' = [decision |-> "validation_error", hard |-> 0, soft |-> 0]
  /\ score' = ErrorScore(elapsed)
  /\ verdict' = "failed"
  /\ phase' = "done"
  /\ UNCHANGED <<contract, attempt, elapsed, answer, output_payload,
                 repair_count>>

-----------------------------------------------------------------------------
(* The rest of execute.                                                    *)

Missing == contract.output_schema.required \ DOMAIN answer

(* _repair fills every required field that is missing with None.           *)
Repair ==
  /\ phase = "repair"
  /\ repair_count' = Cardinality(Missing)
  /\ output_payload' = [f \in DOMAIN answer \cup Missing |-> Get(answer, f)]
  /\ phase' = "validate"
  /\ UNCHANGED <<contract, attempt, elapsed, answer, validation, score,
                 verdict>>

ValidateOutput ==
  /\ phase = "validate"
  /\ validation' = Validate(contract, output_payload)
  /\ phase' = "score"
  /\ UNCHANGED <<contract, attempt, elapsed, answer, output_payload,
                 repair_count, score, verdict>>

expected_fields ==
  IF contract.output_schema.required # {}
  THEN Cardinality(contract.output_schema.required)
  ELSE Cardinality(DOMAIN output_payload)

filled_fields ==
  Cardinality({f \in DOMAIN output_payload : ~Unfilled(output_payload[f])})

ScoreOutput ==
  /\ phase = "score"
  /\ score' = Score(validation, elapsed, repair_count, expected_fields,
                    filled_fields)
  /\ phase' = "outcome"
  /\ UNCHANGED <<contract, attempt, elapsed, answer, output_payload,
                 repair_count, validation, verdict>>

(* _outcome, as a function of the decision and the recommendation.         *)
OutcomeOf(decision, recommendation) ==
  CASE decision = "pass" /\ recommendation = "success" -> "succeeded"
    [] decision = "abstain" \/ (recommendation = "abstain") -> "abstained"
    [] OTHER -> "failed"

Outcome ==
  /\ phase = "outcome"
  /\ verdict' = OutcomeOf(validation.decision, Recommendation(score))
  /\ phase' = "done"
  /\ UNCHANGED <<contract, attempt, elapsed, answer, output_payload,
                 repair_count, validation, score>>

Init ==
  /\ contract \in Contracts
  /\ phase = "inference"
  /\ attempt = 1
  /\ elapsed = 0
  /\ answer = NoFields
  /\ output_payload = NoFields
  /\ repair_count = 0
  /\ validation = NoReport
  /\ score = 0
  /\ verdict = "none"

Next ==
  \/ \E duration \in Durations, payload \in Generated :
       InferenceReturns(duration, payload)
  \/ \E duration \in Durations : InferenceFails(duration)
  \/ Backoff
  \/ ErrorResult
  \/ Repair
  \/ ValidateOutput
  \/ ScoreOutput
  \/ Outcome

Spec == Init /\ [][Next]_vars

-----------------------------------------------------------------------------

TypeOK ==
  /\ contract \in Contracts
  /\ phase \in {"inference", "backoff", "error", "repair", "validate", "score",
                "outcome", "done"}
  /\ attempt \in 1 .. contract.max_attempts
  /\ elapsed \in Nat
  /\ repair_count \in Nat
  /\ validation \in Report
  /\ score \in 0 .. 10000
  /\ verdict \in {"none", "succeeded", "abstained", "failed"}
  /\ verdict = "none" <=> phase # "done"

Before(n) ==
  IF contract.exponential
  THEN contract.backoff * (2 ^ (n - 1) - 1)
  ELSE contract.backoff * (n - 1)

(* The retry policy bounds the time an execution takes: its calls by the   *)
(* timeout each, its pauses by the sum of the delays.                      *)
ElapsedBounded ==
  elapsed <= attempt * contract.timeout + Before(attempt)

(* A success is a cheap one: the penalties leave room for two repairs of a *)
(* fast answer, one of a medium one, none of a slow one.                   *)
SuccessIsCheap ==
  verdict = "succeeded" =>
    /\ repair_count <= 2
    /\ repair_count = 1 => elapsed <= 8000
    /\ repair_count = 2 => elapsed <= 1500

(* Filling in missing fields never makes up for content: in a success the  *)
(* provider itself gave every field the constraints want non-empty.        *)
SuccessHasContent ==
  verdict = "succeeded" =>
    \A f \in contract.constraints.required_non_empty
              \cup contract.constraints.quality_required_fields :
      f \in DOMAIN answer /\ answer[f].kind \notin {"null", "blank"}

(* An invalid answer is passed off as an abstention only when it is a near *)
(* miss: one hard issue alone, or one or two soft ones that may not be     *)
(* abstained on, and the slower the fewer.                                 *)
InvalidAbstainsOnlyNearMiss ==
  verdict = "abstained" /\ validation.decision = "validation_error" =>
    \/ validation.hard = 1 /\ validation.soft = 0 /\ elapsed <= 4000
    \/ validation.hard = 0 /\ validation.soft = 1 /\ elapsed <= 8000
    \/ validation.hard = 0 /\ validation.soft = 2 /\ elapsed <= 4000

(* An answer that is valid as the provider gave it is never a failure,     *)
(* however slow it was and however few of its fields are filled.           *)
CleanAnswerStands ==
  phase = "done" /\ validation.decision = "pass" /\ repair_count = 0 =>
    verdict # "failed"
=============================================================================
