--------------------------- MODULE QualityEngine ---------------------------
(***************************************************************************)
(* packages/scoring/quality_engine.py: the score of an answer and the      *)
(* outcome it recommends. One unit is 1/10000: the weights, penalties and  *)
(* thresholds are all whole numbers of units, and so is every term except  *)
(* completeness, which is rounded down. Rounding down one term of a sum of *)
(* whole numbers never moves the sum across a whole threshold, so the      *)
(* recommendation is the exact one.                                        *)
(***************************************************************************)
EXTENDS Integers, FiniteSets

(* ValidationReport, reduced to what the score reads.                      *)
Decision == {"pass", "abstain", "validation_error"}
Report == [decision : Decision, hard : Nat, soft : Nat]

issues(report) == report.hard + report.soft
passed(report) == report.decision = "pass"

success_min == 8000
abstain_min == 5500

AtLeast(low, x) == IF x < low THEN low ELSE x
AtMost(high, x) == IF x > high THEN high ELSE x
Clamp(x) == AtLeast(0, AtMost(10000, x))

-----------------------------------------------------------------------------

(* Weight 0.30: 0.5 lost for a hard issue, 0.15 for a soft one.            *)
StructuralValidity(report) ==
  IF passed(report) THEN 3000
  ELSE AtLeast(0, 3000 - 1500 * report.hard - 450 * report.soft)

(* Weight 0.25, of the 1.0, 0.65 or 0.25 the orchestrator passes in.       *)
SemanticValidity(decision) ==
  CASE decision = "pass" -> 2500
    [] decision = "abstain" -> 1625
    [] OTHER -> 625

(* Weight 0.20.                                                            *)
Completeness(expected, filled) ==
  IF expected <= 0 THEN 2000 ELSE AtMost(2000, (2000 * filled) \div expected)

(* Mutant of Confidence: the issues do not lower it.                       *)
ConfidenceFull(report) == 2500

(* Weight 0.25: the orchestrator takes 0.2 off for every issue.            *)
Confidence(report) == AtLeast(0, 2500 - 500 * issues(report))

LatencyPenalty(latency_ms) ==
  CASE latency_ms <= 1500 -> 0
    [] latency_ms > 1500 /\ latency_ms <= 4000 -> 500
    [] latency_ms > 4000 /\ latency_ms <= 8000 -> 1000
    [] OTHER -> 2000

(* Mutant of RepairPenalty: a repair costs half of what it does.           *)
RepairPenaltyHalved(repairs) == AtMost(3000, 400 * repairs)

RepairPenalty(repairs) == AtMost(3000, 800 * repairs)

(* Mutant of Score: the final score is not clamped.                        *)
ScoreUnclamped(report, latency_ms, repairs, expected, filled) ==
  StructuralValidity(report) + SemanticValidity(report.decision)
  + Completeness(expected, filled) + Confidence(report)
  - LatencyPenalty(latency_ms) - RepairPenalty(repairs)

Score(report, latency_ms, repairs, expected, filled) ==
  Clamp(StructuralValidity(report) + SemanticValidity(report.decision)
        + Completeness(expected, filled) + Confidence(report)
        - LatencyPenalty(latency_ms) - RepairPenalty(repairs))

(* The score of an execution whose provider never answered: nothing is     *)
(* filled, trusted or meant, and there is no issue to lose structure for.  *)
ErrorScore(latency_ms) == Clamp(3000 - LatencyPenalty(latency_ms))

(* Mutant of Recommendation: a higher abstain threshold.                   *)
RecommendationStrict(score) ==
  CASE score >= success_min -> "success"
    [] score >= 6500 /\ score < success_min -> "abstain"
    [] OTHER -> "error"

Recommendation(score) ==
  CASE score >= success_min -> "success"
    [] score >= abstain_min /\ score < success_min -> "abstain"
    [] OTHER -> "error"
=============================================================================
