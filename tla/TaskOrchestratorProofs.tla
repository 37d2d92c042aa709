---------------------- MODULE TaskOrchestratorProofs ----------------------
(* What holds of one execution for every contract, every answer and every   *)
(* latency: the bound of the retry policy on the time it takes, and what    *)
(* the score and the decision together let through.                         *)
EXTENDS TaskOrchestrator, FiniteSetTheorems, TLAPS

-----------------------------------------------------------------------------
(* The quality engine: how large each term of the score is.                 *)

LEMMA PenaltyTyped ==
  ASSUME NEW time \in Nat, NEW repairs \in Nat
  PROVE  /\ LatencyPenalty(time) \in Nat
         /\ LatencyPenalty(time) <= 2000
         /\ RepairPenalty(repairs) \in Nat
         /\ RepairPenalty(repairs) <= 3000
BY DEF LatencyPenalty, RepairPenalty, AtMost

LEMMA CompletenessTyped ==
  ASSUME NEW expected \in Nat, NEW filled \in Nat
  PROVE  /\ Completeness(expected, filled) \in Nat
         /\ Completeness(expected, filled) <= 2000
BY DEF Completeness, AtMost

(* The sum of the terms, before it is clamped.                              *)
Total(report, time, repairs, complete) ==
  StructuralValidity(report) + SemanticValidity(report.decision) + complete
  + Confidence(report) - LatencyPenalty(time) - RepairPenalty(repairs)

LEMMA ClampTyped ==
  ASSUME NEW x \in Int
  PROVE  Clamp(x) \in Nat /\ Clamp(x) <= 10000
BY DEF Clamp, AtLeast, AtMost

(* What the thresholds say of the sum.                                      *)
LEMMA Recommended ==
  ASSUME NEW x \in Int
  PROVE  /\ Recommendation(Clamp(x)) = "success" <=> x >= 8000
         /\ Recommendation(Clamp(x)) = "error" <=> x < 5500
BY DEF Recommendation, Clamp, AtLeast, AtMost, success_min, abstain_min

LEMMA TermsTyped ==
  ASSUME NEW report \in Report
  PROVE  /\ StructuralValidity(report) \in Nat
         /\ StructuralValidity(report) <= 3000
         /\ SemanticValidity(report.decision) \in Nat
         /\ SemanticValidity(report.decision) <= 2500
         /\ Confidence(report) \in Nat
         /\ Confidence(report) <= 2500
<1>1. StructuralValidity(report) \in Nat /\ StructuralValidity(report) <= 3000
  BY DEF Report, StructuralValidity, AtLeast
<1>2. /\ SemanticValidity(report.decision) \in Nat
      /\ SemanticValidity(report.decision) <= 2500
  BY DEF Report, Decision, SemanticValidity
<1>3. Confidence(report) \in Nat /\ Confidence(report) <= 2500
  BY DEF Report, Confidence, issues, AtLeast
<1>4. QED
  BY <1>1, <1>2, <1>3

LEMMA TotalTyped ==
  ASSUME NEW report \in Report, NEW time \in Nat, NEW repairs \in Nat,
         NEW complete \in Nat, complete <= 2000
  PROVE  /\ Total(report, time, repairs, complete) \in Int
         /\ Total(report, time, repairs, complete) + LatencyPenalty(time)
              + RepairPenalty(repairs) <= 10000
<1> DEFINE structure == StructuralValidity(report)
           meaning == SemanticValidity(report.decision)
           trust == Confidence(report)
           late == LatencyPenalty(time)
           repaired == RepairPenalty(repairs)
<1>1. /\ structure \in Nat /\ structure <= 3000
      /\ meaning \in Nat /\ meaning <= 2500
      /\ trust \in Nat /\ trust <= 2500
  BY TermsTyped
<1>2. late \in Nat /\ repaired \in Nat
  BY PenaltyTyped
<1>3. Total(report, time, repairs, complete)
        = structure + meaning + complete + trust - late - repaired
  BY DEF Total
<1> HIDE DEF structure, meaning, trust, late, repaired
<1>4. /\ Total(report, time, repairs, complete) \in Int
      /\ Total(report, time, repairs, complete) + late + repaired <= 10000
  BY <1>1, <1>2, <1>3
<1>5. QED
  BY <1>4 DEF late, repaired

LEMMA ErrorScoreTyped ==
  ASSUME NEW time \in Nat
  PROVE  /\ ErrorScore(time) \in Nat
         /\ ErrorScore(time) <= 10000
         /\ Recommendation(ErrorScore(time)) = "error"
<1>1. LatencyPenalty(time) \in Nat
  BY PenaltyTyped
<1>2. 3000 - LatencyPenalty(time) \in Int /\ 3000 - LatencyPenalty(time) < 5500
  BY <1>1
<1>3. QED
  BY <1>2, ClampTyped, Recommended DEF ErrorScore

(* A recommended success has lost at most 2000 units to the penalties.      *)
LEMMA SuccessScore ==
  ASSUME NEW report \in Report, NEW time \in Nat, NEW repairs \in Nat,
         NEW complete \in Nat, complete <= 2000,
         Recommendation(Clamp(Total(report, time, repairs, complete)))
           = "success"
  PROVE  /\ repairs <= 2
         /\ repairs = 1 => time <= 8000
         /\ repairs = 2 => time <= 1500
<1> DEFINE total == Total(report, time, repairs, complete)
<1>1. /\ total \in Int
      /\ total + LatencyPenalty(time) + RepairPenalty(repairs) <= 10000
  BY TotalTyped
<1>2. total >= 8000
  BY <1>1, Recommended
<1>3. /\ LatencyPenalty(time) \in Nat
      /\ RepairPenalty(repairs) \in Nat
  BY PenaltyTyped
<1>4. LatencyPenalty(time) + RepairPenalty(repairs) <= 2000
  BY <1>1, <1>2, <1>3
<1>5. repairs <= 2
  BY <1>3, <1>4 DEF RepairPenalty, AtMost
<1>6. ASSUME repairs = 1 PROVE time <= 8000
  <2>1. LatencyPenalty(time) <= 1200
    BY <1>3, <1>4, <1>6 DEF RepairPenalty, AtMost
  <2>2. QED
    BY <2>1 DEF LatencyPenalty
<1>7. ASSUME repairs = 2 PROVE time <= 1500
  <2>1. LatencyPenalty(time) <= 400
    BY <1>3, <1>4, <1>7 DEF RepairPenalty, AtMost
  <2>2. QED
    BY <2>1 DEF LatencyPenalty
<1>8. QED
  BY <1>5, <1>6, <1>7

(* A report that is not even an abstention keeps 5500 units only with one   *)
(* hard issue or with up to two soft ones, if it was fast enough.           *)
LEMMA NearMissScore ==
  ASSUME NEW report \in Report, NEW time \in Nat, NEW repairs \in Nat,
         NEW complete \in Nat, complete <= 2000,
         report.decision = "validation_error",
         report.hard > 0 \/ report.soft > 0,
         Recommendation(Clamp(Total(report, time, repairs, complete)))
           # "error"
  PROVE  \/ report.hard = 1 /\ report.soft = 0 /\ time <= 4000
         \/ report.hard = 0 /\ report.soft = 1 /\ time <= 8000
         \/ report.hard = 0 /\ report.soft = 2 /\ time <= 4000
<1> DEFINE total == Total(report, time, repairs, complete)
<1>1. total \in Int /\ total >= 5500
  <2>1. total \in Int
    BY TotalTyped
  <2>2. QED
    BY <2>1, Recommended
<1>2. /\ report.hard \in Nat /\ report.soft \in Nat
      /\ SemanticValidity(report.decision) = 625
  BY DEF Report, SemanticValidity
<1>3. LatencyPenalty(time) \in Nat /\ RepairPenalty(repairs) \in Nat
  BY PenaltyTyped
<1> DEFINE structure == StructuralValidity(report)
           trust == Confidence(report)
<1>4. /\ structure = AtLeast(0, 3000 - 1500 * report.hard - 450 * report.soft)
      /\ trust = AtLeast(0, 2500 - 500 * (report.hard + report.soft))
  BY DEF StructuralValidity, Confidence, passed, issues
<1>5. structure \in Nat /\ trust \in Nat
  BY <1>2, <1>4 DEF AtLeast
<1>6. structure + trust - LatencyPenalty(time) >= 2875
  BY <1>1, <1>2, <1>3, <1>5 DEF Total
<1>7. CASE report.hard = 0
  <2>1. report.soft = 1 \/ report.soft = 2
    BY <1>2, <1>3, <1>4, <1>6, <1>7 DEF AtLeast
  <2>2. /\ report.soft = 1 => LatencyPenalty(time) <= 1675
        /\ report.soft = 2 => LatencyPenalty(time) <= 725
    BY <1>3, <1>4, <1>6, <1>7 DEF AtLeast
  <2>3. /\ report.soft = 1 => time <= 8000
        /\ report.soft = 2 => time <= 4000
    BY <2>2 DEF LatencyPenalty
  <2>4. QED
    BY <1>7, <2>1, <2>3
<1>8. CASE report.hard = 1
  <2>1. report.soft = 0
    BY <1>2, <1>3, <1>4, <1>6, <1>8 DEF AtLeast
  <2>2. LatencyPenalty(time) <= 625
    BY <1>3, <1>4, <1>6, <1>8, <2>1 DEF AtLeast
  <2>3. time <= 4000
    BY <2>2 DEF LatencyPenalty
  <2>4. QED
    BY <1>8, <2>1, <2>3
<1>9. CASE report.hard >= 2
  BY <1>2, <1>3, <1>4, <1>6, <1>9 DEF AtLeast
<1>10. QED
  BY <1>2, <1>7, <1>8, <1>9

(* A report without issues keeps 6000 units when nothing was repaired.      *)
LEMMA CleanScore ==
  ASSUME NEW report \in Report, NEW time \in Nat,
         NEW complete \in Nat, complete <= 2000,
         report.decision = "pass", report.hard = 0, report.soft = 0
  PROVE  Recommendation(Clamp(Total(report, time, 0, complete))) # "error"
<1>1. /\ StructuralValidity(report) = 3000
      /\ SemanticValidity(report.decision) = 2500
      /\ Confidence(report) = 2500
      /\ RepairPenalty(0) = 0
  BY DEF StructuralValidity, SemanticValidity, Confidence, RepairPenalty,
         passed, issues, AtLeast, AtMost
<1>2. LatencyPenalty(time) \in Nat /\ LatencyPenalty(time) <= 2000
  BY PenaltyTyped
<1>3. /\ Total(report, time, 0, complete) \in Int
      /\ Total(report, time, 0, complete) >= 6000
  BY <1>1, <1>2 DEF Total
<1>4. QED
  BY <1>3, Recommended

-----------------------------------------------------------------------------
(* The validators: finitely many issues, and what a pass rules out.         *)

LEMMA IssuesFinite ==
  ASSUME NEW code, NEW S, IsFiniteSet(S)
  PROVE  IsFiniteSet({Issue(code, f) : f \in S})
<1> DEFINE T == {Issue(code, f) : f \in S}
           g == [f \in S |-> Issue(code, f)]
<1>1. g \in Surjection(S, T)
  <2>1. g \in [S -> T] /\ \A i \in T : \E f \in S : g[f] = i
    OBVIOUS
  <2>2. QED
    BY <2>1 DEF Surjection
<1>2. QED
  BY <1>1, FS_Surjection

LEMMA FiniteUnion ==
  ASSUME NEW A, NEW B, NEW C,
         IsFiniteSet(A), IsFiniteSet(B), IsFiniteSet(C)
  PROVE  IsFiniteSet(A \cup B \cup C)
<1>1. IsFiniteSet(A \cup B)
  BY FS_Union
<1>2. QED
  BY <1>1, FS_Union

(* A rule finds issues among finitely many fields.                          *)
LEMMA RuleFinite ==
  ASSUME NEW code, NEW S, IsFiniteSet(S), NEW T \in SUBSET S
  PROVE  IsFiniteSet({Issue(code, f) : f \in T})
BY FS_Subset, IssuesFinite

LEMMA SchemaFinite ==
  ASSUME NEW schema, NEW payload,
         IsFiniteSet(schema.required), IsFiniteSet(DOMAIN payload)
  PROVE  IsFiniteSet(SchemaIssues(schema, payload))
<1> DEFINE absent == schema.required \ DOMAIN payload
           mistyped == {g \in DOMAIN schema.properties \cap DOMAIN payload :
                          /\ schema.properties[g] # {}
                          /\ \A type \in schema.properties[g] :
                               ~HasType(payload[g], type)}
           extra == {g \in DOMAIN payload :
                       /\ schema.closed
                       /\ DOMAIN schema.properties # {}
                       /\ g \notin DOMAIN schema.properties}
<1>1. IsFiniteSet({Issue("missing_required_field", f) : f \in absent})
  <2>1. absent \in SUBSET schema.required
    OBVIOUS
  <2>2. QED
    BY <2>1, RuleFinite
<1>2. IsFiniteSet({Issue("type_mismatch", f) : f \in mistyped})
  <2>1. mistyped \in SUBSET DOMAIN payload
    OBVIOUS
  <2>2. QED
    BY <2>1, RuleFinite
<1>3. IsFiniteSet({Issue("additional_property_not_allowed", f) : f \in extra})
  <2>1. extra \in SUBSET DOMAIN payload
    OBVIOUS
  <2>2. QED
    BY <2>1, RuleFinite
<1>4. SchemaIssues(schema, payload) =
        {Issue("missing_required_field", f) : f \in absent}
          \cup {Issue("type_mismatch", f) : f \in mistyped}
          \cup {Issue("additional_property_not_allowed", f) : f \in extra}
  BY DEF SchemaIssues
<1> HIDE DEF absent, mistyped, extra
<1>5. QED
  BY <1>1, <1>2, <1>3, <1>4, FiniteUnion

LEMMA ConstraintsFinite ==
  ASSUME NEW c \in Contracts, NEW payload
  PROVE  IsFiniteSet(ConstraintIssues(c.constraints, payload))
<1> DEFINE k == c.constraints
           hollow == {g \in k.required_non_empty : NoContent(Get(payload, g))}
           banned == {g \in DOMAIN k.forbidden_values :
                        Get(payload, g) \in k.forbidden_values[g]}
           short == {g \in DOMAIN k.min_length :
                       /\ is_str(Get(payload, g))
                       /\ Get(payload, g).size < k.min_length[g]}
           long == {g \in DOMAIN k.max_length :
                      /\ is_str(Get(payload, g))
                      /\ Get(payload, g).size > k.max_length[g]}
           below == {g \in DOMAIN k.numeric_ranges \cap DOMAIN payload :
                       /\ is_number(payload[g])
                       /\ payload[g].size < k.numeric_ranges[g].min}
           above == {g \in DOMAIN k.numeric_ranges \cap DOMAIN payload :
                       /\ is_number(payload[g])
                       /\ payload[g].size > k.numeric_ranges[g].max}
<1>1. /\ IsFiniteSet(k.required_non_empty)
      /\ IsFiniteSet(DOMAIN k.forbidden_values)
      /\ IsFiniteSet(DOMAIN k.min_length)
      /\ IsFiniteSet(DOMAIN k.max_length)
      /\ IsFiniteSet(DOMAIN k.numeric_ranges)
  BY ContractsAreWellFormed DEF WellFormed
<1>2. /\ hollow \in SUBSET k.required_non_empty
      /\ banned \in SUBSET DOMAIN k.forbidden_values
      /\ short \in SUBSET DOMAIN k.min_length
      /\ long \in SUBSET DOMAIN k.max_length
      /\ below \in SUBSET DOMAIN k.numeric_ranges
      /\ above \in SUBSET DOMAIN k.numeric_ranges
  OBVIOUS
<1> DEFINE content == {Issue("required_non_empty", f) : f \in hollow}
                        \cup {Issue("forbidden_value", f) : f \in banned}
                        \cup {Issue("min_length", f) : f \in short}
           size == {Issue("max_length", f) : f \in long}
                     \cup {Issue("below_minimum", f) : f \in below}
                     \cup {Issue("above_maximum", f) : f \in above}
<1>3. ConstraintIssues(k, payload) = content \cup size
  BY DEF ConstraintIssues
<1> HIDE DEF k, hollow, banned, short, long, below, above
<1>4. /\ IsFiniteSet({Issue("required_non_empty", f) : f \in hollow})
      /\ IsFiniteSet({Issue("forbidden_value", f) : f \in banned})
      /\ IsFiniteSet({Issue("min_length", f) : f \in short})
      /\ IsFiniteSet({Issue("max_length", f) : f \in long})
      /\ IsFiniteSet({Issue("below_minimum", f) : f \in below})
      /\ IsFiniteSet({Issue("above_maximum", f) : f \in above})
  BY <1>1, <1>2, RuleFinite
<1>5. IsFiniteSet(content) /\ IsFiniteSet(size)
  BY <1>4, FiniteUnion
<1> HIDE DEF content, size
<1>6. IsFiniteSet(ConstraintIssues(k, payload))
  BY <1>3, <1>5, FS_Union
<1>7. QED
  BY <1>6 DEF k

LEMMA ConsistencyFinite ==
  ASSUME NEW c \in Contracts, NEW payload
  PROVE  IsFiniteSet(ConsistencyIssues(c.constraints, payload))
<1> DEFINE k == c.constraints
           poor == {g \in k.quality_required_fields :
                      NoContent(Get(payload, g))}
           both == {p \in k.mutually_exclusive :
                      /\ Get(payload, p[1]).kind # "null"
                      /\ Get(payload, p[2]).kind # "null"}
<1>1. /\ IsFiniteSet(k.quality_required_fields)
      /\ IsFiniteSet(k.mutually_exclusive)
  BY ContractsAreWellFormed DEF WellFormed
<1>2. /\ poor \in SUBSET k.quality_required_fields
      /\ both \in SUBSET k.mutually_exclusive
  OBVIOUS
<1>3. ConsistencyIssues(k, payload) =
        {Issue("low_quality_missing_content", f) : f \in poor}
          \cup {Issue("inconsistent_mutually_exclusive", p) : p \in both}
  BY DEF ConsistencyIssues
<1> HIDE DEF k, poor, both
<1>4. /\ IsFiniteSet({Issue("low_quality_missing_content", f) : f \in poor})
      /\ IsFiniteSet({Issue("inconsistent_mutually_exclusive", p) : p \in both})
  BY <1>1, <1>2, RuleFinite
<1>5. IsFiniteSet(ConsistencyIssues(k, payload))
  BY <1>3, <1>4, FS_Union
<1>6. QED
  BY <1>5 DEF k

LEMMA Decided ==
  ASSUME NEW hard \in Nat, NEW soft \in Nat, NEW abstain \in BOOLEAN
  PROVE  /\ Decide(hard, soft, abstain) \in Decision
         /\ Decide(hard, soft, abstain) = "pass" => hard = 0 /\ soft = 0
BY DEF Decide, Decision

(* The report of an answer, and the content that a pass vouches for.        *)
LEMMA ReportTyped ==
  ASSUME NEW c \in Contracts, NEW payload, IsFiniteSet(DOMAIN payload)
  PROVE  /\ Validate(c, payload) \in Report
         /\ Validate(c, payload).decision = "pass" =>
              /\ Validate(c, payload).hard = 0
              /\ Validate(c, payload).soft = 0
              /\ \A f \in c.constraints.required_non_empty
                            \cup c.constraints.quality_required_fields :
                   ~NoContent(Get(payload, f))
<1> DEFINE wrong == Cardinality(SchemaIssues(c.output_schema, payload))
           broken == Cardinality(ConstraintIssues(c.constraints, payload))
           weak == Cardinality(ConsistencyIssues(c.constraints, payload))
<1>1. wrong \in Nat /\ broken \in Nat /\ weak \in Nat
  <2>1. IsFiniteSet(c.output_schema.required)
    BY ContractsAreWellFormed DEF WellFormed
  <2>2. QED
    BY <2>1, SchemaFinite, ConstraintsFinite, ConsistencyFinite,
       FS_CardinalityType
<1>2. c.abstain_allowed \in BOOLEAN
  BY ContractsAreWellFormed DEF WellFormed
<1>3. /\ Validate(c, payload).decision =
           Decide(wrong + broken, weak, c.abstain_allowed)
      /\ Validate(c, payload).hard = wrong + broken
      /\ Validate(c, payload).soft = weak
      /\ Validate(c, payload) =
           [decision |-> Decide(wrong + broken, weak, c.abstain_allowed),
            hard |-> wrong + broken, soft |-> weak]
  BY DEF Validate
<1>4. broken = 0 => ConstraintIssues(c.constraints, payload) = {}
  BY ConstraintsFinite, FS_EmptySet
<1>5. weak = 0 => ConsistencyIssues(c.constraints, payload) = {}
  BY ConsistencyFinite, FS_EmptySet
<1> HIDE DEF wrong, broken, weak
<1>6. wrong + broken \in Nat
  BY <1>1
<1>7. Validate(c, payload) \in Report
  BY <1>1, <1>2, <1>3, <1>6, Decided DEF Report
<1>8. ASSUME Validate(c, payload).decision = "pass"
      PROVE  broken = 0 /\ weak = 0 /\ wrong + broken = 0
  <2>1. wrong + broken = 0 /\ weak = 0
    BY <1>1, <1>2, <1>3, <1>6, <1>8, Decided
  <2>2. QED
    BY <1>1, <2>1
<1>9. ASSUME Validate(c, payload).decision = "pass",
             NEW f \in c.constraints.required_non_empty
                         \cup c.constraints.quality_required_fields,
             NoContent(Get(payload, f))
      PROVE  FALSE
  <2>1. CASE f \in c.constraints.required_non_empty
    <3>1. Issue("required_non_empty", f)
            \in ConstraintIssues(c.constraints, payload)
      BY <1>9, <2>1 DEF ConstraintIssues
    <3>2. QED
      BY <1>4, <1>8, <1>9, <3>1
  <2>2. CASE f \in c.constraints.quality_required_fields
    <3>1. Issue("low_quality_missing_content", f)
            \in ConsistencyIssues(c.constraints, payload)
      BY <1>9, <2>2 DEF ConsistencyIssues
    <3>2. QED
      BY <1>5, <1>8, <1>9, <3>1
  <2>3. QED
    BY <1>9, <2>1, <2>2
<1>10. QED
  BY <1>3, <1>7, <1>8, <1>9

-----------------------------------------------------------------------------
(* The retry policy.                                                        *)

(* A contract allows 20 attempts at most, so this is a matter of cases: the *)
(* provers know powers of numbers, not of variables.                        *)
LEMMA Doubling ==
  ASSUME NEW n \in 1 .. 20
  PROVE  2 ^ (n - 1) \in Nat \ {0} /\ 2 ^ n = 2 * 2 ^ (n - 1)
<1>1. CASE n = 1
  BY <1>1, SMT
<1>2. CASE n = 2
  BY <1>2, SMT
<1>3. CASE n = 3
  BY <1>3, SMT
<1>4. CASE n = 4
  BY <1>4, SMT
<1>5. CASE n = 5
  BY <1>5, SMT
<1>6. CASE n = 6
  BY <1>6, SMT
<1>7. CASE n = 7
  BY <1>7, SMT
<1>8. CASE n = 8
  BY <1>8, SMT
<1>9. CASE n = 9
  BY <1>9, SMT
<1>10. CASE n = 10
  BY <1>10, SMT
<1>11. CASE n = 11
  BY <1>11, SMT
<1>12. CASE n = 12
  BY <1>12, SMT
<1>13. CASE n = 13
  BY <1>13, SMT
<1>14. CASE n = 14
  BY <1>14, SMT
<1>15. CASE n = 15
  BY <1>15, SMT
<1>16. CASE n = 16
  BY <1>16, SMT
<1>17. CASE n = 17
  BY <1>17, SMT
<1>18. CASE n = 18
  BY <1>18, SMT
<1>19. CASE n = 19
  BY <1>19, SMT
<1>20. CASE n = 20
  BY <1>20, SMT
<1>21. QED
  BY <1>1, <1>2, <1>3, <1>4, <1>5, <1>6, <1>7, <1>8, <1>9, <1>10,
     <1>11, <1>12, <1>13, <1>14, <1>15, <1>16, <1>17, <1>18, <1>19, <1>20

LEMMA Products ==
  ASSUME NEW a \in Nat, NEW b \in Nat
  PROVE  a * b \in Nat /\ (a - 1) * b = a * b - b
OBVIOUS

(* The pauses before an attempt add up to Before.                           *)
LEMMA Pauses ==
  ASSUME contract \in Contracts, NEW n \in 1 .. 20
  PROVE  /\ Delay(n) \in Nat
         /\ Before(n) \in Nat
         /\ Before(1) = 0
         /\ Before(n + 1) = Before(n) + Delay(n)
<1> DEFINE b == contract.backoff
           p == 2 ^ (n - 1)
<1>1. b \in Nat /\ contract.exponential \in BOOLEAN
  BY ContractsAreWellFormed DEF WellFormed
<1>2. p \in Nat \ {0} /\ 2 ^ n = 2 * p
  BY Doubling
<1>3. 2 ^ 0 = 1
  BY SMT
<1>4. (n + 1) - 1 = n /\ 1 - 1 = 0
  OBVIOUS
<1>5. CASE contract.exponential
  <2>1. /\ Delay(n) = b * p
        /\ Before(n) = b * (p - 1)
        /\ Before(1) = b * (1 - 1)
        /\ Before(n + 1) = b * (2 * p - 1)
    BY <1>2, <1>3, <1>4, <1>5 DEF Delay, Before
  <2> HIDE DEF b, p
  <2>2. b * (2 * p - 1) = b * (p - 1) + b * p
    BY <1>1, <1>2
  <2>3. b * p \in Nat /\ b * (p - 1) \in Nat /\ b * (1 - 1) = 0
    BY <1>1, <1>2
  <2>4. QED
    BY <2>1, <2>2, <2>3
<1>6. CASE ~contract.exponential
  <2>1. /\ Delay(n) = b
        /\ Before(n) = b * (n - 1)
        /\ Before(1) = b * (1 - 1)
        /\ Before(n + 1) = b * n
    BY <1>4, <1>6 DEF Delay, Before
  <2> HIDE DEF b
  <2>2. b * n = b * (n - 1) + b
    BY <1>1
  <2>3. b * (n - 1) \in Nat /\ b * (1 - 1) = 0
    BY <1>1
  <2>4. QED
    BY <1>1, <2>1, <2>2, <2>3
<1>7. QED
  BY <1>5, <1>6

-----------------------------------------------------------------------------
(* The inductive invariant: each stage has left what the stages after it    *)
(* rely on, so that at the end the verdict can be traced back to the answer *)
(* of the provider.                                                         *)

(* The answer has been scored: everything but an execution that ended       *)
(* because the provider never answered.                                     *)
Assessed ==
  \/ phase = "outcome"
  \/ phase = "done" /\ (verdict # "failed"
                          \/ validation.decision # "validation_error")

AnswerIsFinite == IsFiniteSet(DOMAIN answer)

PauseIsInside == phase = "backoff" => attempt < contract.max_attempts

(* A call that has not been made yet costs nothing yet.                     *)
TimeIsAccounted ==
  elapsed <= (IF phase = "inference" THEN attempt - 1 ELSE attempt)
               * contract.timeout + Before(attempt)

PayloadIsRepaired ==
  phase \in {"validate", "score"} \/ Assessed =>
    output_payload = [f \in DOMAIN answer \cup Missing |-> Get(answer, f)]

ReportIsOfPayload ==
  phase = "score" \/ Assessed =>
    validation = Validate(contract, output_payload)

ScoreIsTotal ==
  Assessed =>
    \E complete \in Nat :
      /\ complete <= 2000
      /\ score = Clamp(Total(validation, elapsed, repair_count, complete))

VerdictIsOutcome ==
  phase = "done" =>
    verdict = OutcomeOf(validation.decision, Recommendation(score))

ExecutionInv ==
  /\ TypeOK
  /\ AnswerIsFinite
  /\ PauseIsInside
  /\ TimeIsAccounted
  /\ PayloadIsRepaired
  /\ ReportIsOfPayload
  /\ ScoreIsTotal
  /\ VerdictIsOutcome

LEMMA InitExecution == Init => ExecutionInv
<1> SUFFICES ASSUME Init PROVE ExecutionInv
  OBVIOUS
<1>1. /\ contract \in Contracts
      /\ contract.max_attempts \in 1 .. 20
      /\ contract.timeout \in Nat
  BY ContractsAreWellFormed DEF Init, WellFormed
<1>2. 1 \in 1 .. contract.max_attempts
  BY <1>1
<1>3. TypeOK
  BY <1>1, <1>2 DEF Init, TypeOK, NoReport, Report, Decision
<1>4. AnswerIsFinite
  <2>1. DOMAIN answer = {}
    BY DEF Init, NoFields
  <2>2. QED
    BY <2>1, FS_EmptySet DEF AnswerIsFinite
<1>5. TimeIsAccounted
  <2>1. Before(1) = 0
    <3>1. 1 \in 1 .. 20
      OBVIOUS
    <3>2. QED
      BY <1>1, <3>1, Pauses
  <2>2. (1 - 1) * contract.timeout = 0
    BY <1>1
  <2>3. QED
    BY <2>1, <2>2 DEF Init, TimeIsAccounted
<1>6. QED
  BY <1>3, <1>4, <1>5
     DEF Init, ExecutionInv, PauseIsInside, PayloadIsRepaired,
         ReportIsOfPayload, ScoreIsTotal, VerdictIsOutcome, Assessed

(* What the types of a state say of its contract.                           *)
LEMMA ContractTyped ==
  ASSUME TypeOK
  PROVE  /\ contract \in Contracts
         /\ contract.max_attempts \in 1 .. 20
         /\ contract.timeout \in Nat
         /\ attempt \in 1 .. 20
         /\ attempt <= contract.max_attempts
         /\ Before(attempt) \in Nat
<1>1. /\ contract \in Contracts
      /\ contract.max_attempts \in 1 .. 20
      /\ contract.timeout \in Nat
  BY ContractsAreWellFormed DEF TypeOK, WellFormed
<1>2. attempt \in 1 .. 20 /\ attempt <= contract.max_attempts
  BY <1>1 DEF TypeOK
<1>3. Before(attempt) \in Nat
  BY <1>1, <1>2, Pauses
<1>4. QED
  BY <1>1, <1>2, <1>3

(* The payload after the repair, and its report.                            *)
LEMMA RepairedFinite ==
  ASSUME TypeOK, AnswerIsFinite
  PROVE  /\ IsFiniteSet(Missing)
         /\ IsFiniteSet(DOMAIN answer \cup Missing)
<1>1. IsFiniteSet(contract.output_schema.required)
  BY ContractsAreWellFormed DEF TypeOK, WellFormed
<1>2. IsFiniteSet(Missing)
  BY <1>1, FS_Difference DEF Missing
<1>3. QED
  BY <1>2, FS_Union DEF AnswerIsFinite

LEMMA CallReturns ==
  ASSUME ExecutionInv, NEW duration \in Durations, NEW payload \in Generated,
         InferenceReturns(duration, payload)
  PROVE  ExecutionInv'
<1>1. /\ contract' = contract /\ attempt' = attempt
      /\ phase = "inference" /\ phase' = "repair"
      /\ elapsed' = elapsed + duration
      /\ answer' = payload
      /\ UNCHANGED <<repair_count, validation, score, verdict>>
      /\ duration < contract.timeout
  BY DEF InferenceReturns
<1>2. /\ elapsed \in Nat /\ duration \in Nat
      /\ contract.timeout \in Nat /\ attempt \in Nat
      /\ Before(attempt) \in Nat
  BY ContractTyped, DurationsAreTimes DEF ExecutionInv, TypeOK
<1>3. TypeOK'
  BY <1>1, <1>2 DEF ExecutionInv, TypeOK
<1>4. AnswerIsFinite'
  <2>1. CASE payload \in Answers
    BY <1>1, <2>1, AnswersAreFinite DEF AnswerIsFinite
  <2>2. CASE payload \notin Answers
    <3>1. DOMAIN payload = {"text"}
      BY <2>2 DEF Generated
    <3>2. QED
      BY <1>1, <3>1, FS_Singleton DEF AnswerIsFinite
  <2>3. QED
    BY <2>1, <2>2
<1>5. TimeIsAccounted'
  <2>1. Before(attempt)' = Before(attempt)
    BY <1>1 DEF Before
  <2>2. elapsed <= (attempt - 1) * contract.timeout + Before(attempt)
    BY <1>1 DEF ExecutionInv, TimeIsAccounted
  <2>3. (attempt - 1) * contract.timeout
          = attempt * contract.timeout - contract.timeout
    BY <1>2, Products
  <2>4. attempt * contract.timeout \in Nat
    BY <1>2, Products
  <2>5. elapsed + duration <= attempt * contract.timeout + Before(attempt)
    BY <1>1, <1>2, <2>2, <2>3, <2>4
  <2>6. QED
    BY <1>1, <2>1, <2>5 DEF TimeIsAccounted
<1>6. QED
  BY <1>1, <1>3, <1>4, <1>5
     DEF ExecutionInv, PauseIsInside, PayloadIsRepaired, ReportIsOfPayload,
         ScoreIsTotal, VerdictIsOutcome, Assessed

LEMMA CallFails ==
  ASSUME ExecutionInv, NEW duration \in Durations, InferenceFails(duration)
  PROVE  ExecutionInv'
<1> DEFINE spent == AtMost(contract.timeout, duration)
<1>1. /\ contract' = contract /\ attempt' = attempt /\ answer' = answer
      /\ phase = "inference" /\ phase' \in {"error", "backoff"}
      /\ phase' = "backoff" => ~(attempt >= contract.max_attempts)
      /\ elapsed' = elapsed + spent
      /\ UNCHANGED <<repair_count, validation, score, verdict>>
  BY DEF InferenceFails
<1>2. /\ elapsed \in Nat /\ duration \in Nat
      /\ contract.timeout \in Nat /\ attempt \in Nat
      /\ contract.max_attempts \in Nat
      /\ Before(attempt) \in Nat
  BY ContractTyped, DurationsAreTimes DEF ExecutionInv, TypeOK
<1>3. spent \in Nat /\ spent <= contract.timeout
  BY <1>2 DEF AtMost
<1> HIDE DEF spent
<1>4. TypeOK'
  BY <1>1, <1>2, <1>3 DEF ExecutionInv, TypeOK
<1>5. TimeIsAccounted'
  <2>1. Before(attempt)' = Before(attempt)
    BY <1>1 DEF Before
  <2>2. elapsed <= (attempt - 1) * contract.timeout + Before(attempt)
    BY <1>1 DEF ExecutionInv, TimeIsAccounted
  <2>3. (attempt - 1) * contract.timeout
          = attempt * contract.timeout - contract.timeout
    BY <1>2, Products
  <2>4. attempt * contract.timeout \in Nat
    BY <1>2, Products
  <2>5. elapsed + spent <= attempt * contract.timeout + Before(attempt)
    BY <1>2, <1>3, <2>2, <2>3, <2>4
  <2>6. QED
    BY <1>1, <2>1, <2>5 DEF TimeIsAccounted
<1>6. PauseIsInside'
  BY <1>1, <1>2 DEF PauseIsInside
<1>7. QED
  BY <1>1, <1>4, <1>5, <1>6
     DEF ExecutionInv, AnswerIsFinite, PayloadIsRepaired, ReportIsOfPayload,
         ScoreIsTotal, VerdictIsOutcome, Assessed

LEMMA Pause == ExecutionInv /\ Backoff => ExecutionInv'
<1> SUFFICES ASSUME ExecutionInv, Backoff PROVE ExecutionInv'
  OBVIOUS
<1>1. /\ contract' = contract /\ attempt' = attempt + 1 /\ answer' = answer
      /\ phase = "backoff" /\ phase' = "inference"
      /\ elapsed' = elapsed + Delay(attempt)
      /\ UNCHANGED <<repair_count, validation, score, verdict>>
  BY DEF Backoff
<1>2. /\ elapsed \in Nat /\ contract.timeout \in Nat
      /\ contract \in Contracts
      /\ contract.max_attempts \in Nat
      /\ attempt \in 1 .. 20 /\ attempt < contract.max_attempts
  BY <1>1, ContractTyped DEF ExecutionInv, TypeOK, PauseIsInside
<1>3. /\ Delay(attempt) \in Nat /\ Before(attempt) \in Nat
      /\ Before(attempt + 1) = Before(attempt) + Delay(attempt)
  BY <1>2, Pauses
<1>4. TypeOK'
  <2>1. attempt + 1 \in 1 .. contract.max_attempts
    BY <1>2
  <2>2. elapsed + Delay(attempt) \in Nat
    BY <1>2, <1>3
  <2>3. QED
    BY <1>1, <2>1, <2>2 DEF ExecutionInv, TypeOK
<1>5. TimeIsAccounted'
  <2>1. Before(attempt)' = Before(attempt + 1)
    BY <1>1 DEF Before
  <2>2. elapsed <= attempt * contract.timeout + Before(attempt)
    BY <1>1 DEF ExecutionInv, TimeIsAccounted
  <2>3. attempt \in Nat
    BY <1>2
  <2>4. attempt * contract.timeout \in Nat /\ (attempt + 1) - 1 = attempt
    BY <1>2, <2>3, Products
  <2>5. elapsed + Delay(attempt)
          <= attempt * contract.timeout + Before(attempt + 1)
    BY <1>2, <1>3, <2>2, <2>4
  <2>6. QED
    BY <1>1, <2>1, <2>4, <2>5 DEF TimeIsAccounted
<1>6. QED
  BY <1>1, <1>4, <1>5
     DEF ExecutionInv, AnswerIsFinite, PauseIsInside, PayloadIsRepaired,
         ReportIsOfPayload, ScoreIsTotal, VerdictIsOutcome, Assessed

LEMMA GivesUp == ExecutionInv /\ ErrorResult => ExecutionInv'
<1> SUFFICES ASSUME ExecutionInv, ErrorResult PROVE ExecutionInv'
  OBVIOUS
<1>1. /\ UNCHANGED <<contract, attempt, elapsed, answer, output_payload,
                     repair_count>>
      /\ phase = "error" /\ phase' = "done" /\ verdict' = "failed"
      /\ validation' = [decision |-> "validation_error",
                        hard |-> 0, soft |-> 0]
      /\ score' = ErrorScore(elapsed)
  BY DEF ErrorResult
<1>2. /\ ErrorScore(elapsed) \in Nat /\ ErrorScore(elapsed) <= 10000
      /\ Recommendation(ErrorScore(elapsed)) = "error"
  BY ErrorScoreTyped DEF ExecutionInv, TypeOK
<1>3. score' \in 0 .. 10000
  <2>1. score' \in Nat /\ score' <= 10000
    BY <1>1, <1>2
  <2>2. QED
    BY <2>1
<1>4. validation' \in Report
  BY <1>1 DEF Report, Decision
<1>5. TypeOK'
  <2>1. /\ contract' \in Contracts
        /\ attempt' \in 1 .. contract'.max_attempts
        /\ elapsed' \in Nat
        /\ repair_count' \in Nat
    BY <1>1 DEF ExecutionInv, TypeOK
  <2>2. validation' \in Report
    BY <1>4
  <2>3. /\ phase' \in {"inference", "backoff", "error", "repair", "validate",
                      "score", "outcome", "done"}
        /\ verdict' \in {"none", "succeeded", "abstained", "failed"}
        /\ verdict' = "none" <=> phase' # "done"
    BY <1>1 DEF ExecutionInv, TypeOK
  <2>4. QED
    BY <1>3, <2>1, <2>2, <2>3 DEF TypeOK
<1>6. VerdictIsOutcome'
  BY <1>1, <1>2 DEF VerdictIsOutcome, OutcomeOf
<1>7. Before(attempt)' = Before(attempt)
  BY <1>1 DEF Before
<1>8. QED
  BY <1>1, <1>5, <1>6, <1>7
     DEF ExecutionInv, AnswerIsFinite, PauseIsInside, TimeIsAccounted,
         PayloadIsRepaired, ReportIsOfPayload, ScoreIsTotal, Assessed

LEMMA Repairs == ExecutionInv /\ Repair => ExecutionInv'
<1> SUFFICES ASSUME ExecutionInv, Repair PROVE ExecutionInv'
  OBVIOUS
<1>1. /\ UNCHANGED <<contract, attempt, elapsed, answer, validation, score,
                     verdict>>
      /\ phase = "repair" /\ phase' = "validate"
      /\ repair_count' = Cardinality(Missing)
      /\ output_payload' = [f \in DOMAIN answer \cup Missing |-> Get(answer, f)]
  BY DEF Repair
<1>2. repair_count' \in Nat
  BY <1>1, RepairedFinite, FS_CardinalityType DEF ExecutionInv
<1>3. TypeOK'
  BY <1>1, <1>2 DEF ExecutionInv, TypeOK
<1>4. Before(attempt)' = Before(attempt) /\ Missing' = Missing
  BY <1>1 DEF Before, Missing
<1>5. QED
  BY <1>1, <1>3, <1>4
     DEF ExecutionInv, AnswerIsFinite, PauseIsInside, TimeIsAccounted,
         PayloadIsRepaired, ReportIsOfPayload, ScoreIsTotal, VerdictIsOutcome,
         Assessed

LEMMA Validates == ExecutionInv /\ ValidateOutput => ExecutionInv'
<1> SUFFICES ASSUME ExecutionInv, ValidateOutput PROVE ExecutionInv'
  OBVIOUS
<1>1. /\ UNCHANGED <<contract, attempt, elapsed, answer, output_payload,
                     repair_count, score, verdict>>
      /\ phase = "validate" /\ phase' = "score"
      /\ validation' = Validate(contract, output_payload)
  BY DEF ValidateOutput
<1>2. validation' \in Report
  <2>1. DOMAIN output_payload = DOMAIN answer \cup Missing
    BY <1>1 DEF ExecutionInv, PayloadIsRepaired
  <2>2. QED
    BY <1>1, <2>1, RepairedFinite, ReportTyped DEF ExecutionInv, TypeOK
<1>3. TypeOK'
  BY <1>1, <1>2 DEF ExecutionInv, TypeOK
<1>4. Before(attempt)' = Before(attempt) /\ Missing' = Missing
  BY <1>1 DEF Before, Missing
<1>5. PayloadIsRepaired'
  BY <1>1, <1>4 DEF ExecutionInv, PayloadIsRepaired
<1>6. ReportIsOfPayload'
  BY <1>1 DEF ReportIsOfPayload
<1>7. QED
  BY <1>1, <1>3, <1>4, <1>5, <1>6
     DEF ExecutionInv, AnswerIsFinite, PauseIsInside, TimeIsAccounted,
         ScoreIsTotal, VerdictIsOutcome, Assessed

LEMMA Scores == ExecutionInv /\ ScoreOutput => ExecutionInv'
<1> SUFFICES ASSUME ExecutionInv, ScoreOutput PROVE ExecutionInv'
  OBVIOUS
<1> DEFINE complete == Completeness(expected_fields, filled_fields)
<1>1. /\ UNCHANGED <<contract, attempt, elapsed, answer, output_payload,
                     repair_count, validation, verdict>>
      /\ phase = "score" /\ phase' = "outcome"
      /\ score' = Score(validation, elapsed, repair_count, expected_fields,
                        filled_fields)
  BY DEF ScoreOutput
<1>2. expected_fields \in Nat /\ filled_fields \in Nat
  <2>1. DOMAIN output_payload = DOMAIN answer \cup Missing
    BY <1>1 DEF ExecutionInv, PayloadIsRepaired
  <2>2. IsFiniteSet(DOMAIN output_payload)
    BY <2>1, RepairedFinite DEF ExecutionInv
  <2>3. IsFiniteSet(contract.output_schema.required)
    BY ContractsAreWellFormed DEF ExecutionInv, TypeOK, WellFormed
  <2>4. IsFiniteSet({f \in DOMAIN output_payload :
                       ~Unfilled(output_payload[f])})
    BY <2>2, FS_Subset
  <2>5. QED
    BY <2>2, <2>3, <2>4, FS_CardinalityType
       DEF expected_fields, filled_fields
<1>3. complete \in Nat /\ complete <= 2000
  BY <1>2, CompletenessTyped
<1>4. score' = Clamp(Total(validation, elapsed, repair_count, complete))
  BY <1>1 DEF Score, Total
<1> HIDE DEF complete
<1>5. score' \in 0 .. 10000
  <2>1. Total(validation, elapsed, repair_count, complete) \in Int
    BY <1>3, TotalTyped DEF ExecutionInv, TypeOK
  <2>2. score' \in Nat /\ score' <= 10000
    BY <1>4, <2>1, ClampTyped
  <2>3. QED
    BY <2>2
<1>6. TypeOK'
  <2>1. /\ contract' \in Contracts
        /\ attempt' \in 1 .. contract'.max_attempts
        /\ elapsed' \in Nat
        /\ repair_count' \in Nat
    BY <1>1 DEF ExecutionInv, TypeOK
  <2>2. validation' \in Report
    BY <1>1 DEF ExecutionInv, TypeOK
  <2>3. /\ phase' \in {"inference", "backoff", "error", "repair", "validate",
                      "score", "outcome", "done"}
        /\ verdict' \in {"none", "succeeded", "abstained", "failed"}
        /\ verdict' = "none" <=> phase' # "done"
    BY <1>1 DEF ExecutionInv, TypeOK
  <2>4. QED
    BY <1>5, <2>1, <2>2, <2>3 DEF TypeOK
<1>7. Before(attempt)' = Before(attempt) /\ Missing' = Missing
  BY <1>1 DEF Before, Missing
<1>8. PayloadIsRepaired' /\ ReportIsOfPayload'
  BY <1>1, <1>7 DEF ExecutionInv, PayloadIsRepaired, ReportIsOfPayload
<1>9. ScoreIsTotal'
  BY <1>1, <1>3, <1>4 DEF ScoreIsTotal, Total
<1>10. QED
  BY <1>1, <1>6, <1>7, <1>8, <1>9
     DEF ExecutionInv, AnswerIsFinite, PauseIsInside, TimeIsAccounted,
         VerdictIsOutcome

LEMMA Concludes == ExecutionInv /\ Outcome => ExecutionInv'
<1> SUFFICES ASSUME ExecutionInv, Outcome PROVE ExecutionInv'
  OBVIOUS
<1>1. /\ UNCHANGED <<contract, attempt, elapsed, answer, output_payload,
                     repair_count, validation, score>>
      /\ phase = "outcome" /\ phase' = "done"
      /\ verdict' = OutcomeOf(validation.decision, Recommendation(score))
  BY DEF Outcome
<1>2. verdict' \in {"succeeded", "abstained", "failed"}
  BY <1>1 DEF OutcomeOf
<1>3. TypeOK'
  BY <1>1, <1>2 DEF ExecutionInv, TypeOK
<1>4. Before(attempt)' = Before(attempt) /\ Missing' = Missing
  BY <1>1 DEF Before, Missing
<1>5. PayloadIsRepaired' /\ ReportIsOfPayload'
  BY <1>1, <1>4
     DEF ExecutionInv, PayloadIsRepaired, ReportIsOfPayload, Assessed
<1>6. ScoreIsTotal'
  <2>1. Assessed
    BY <1>1 DEF Assessed
  <2>2. QED
    BY <1>1, <2>1 DEF ExecutionInv, ScoreIsTotal
<1>7. QED
  BY <1>1, <1>3, <1>4, <1>5, <1>6
     DEF ExecutionInv, AnswerIsFinite, PauseIsInside, TimeIsAccounted,
         VerdictIsOutcome

LEMMA NextExecution == ExecutionInv /\ [Next]_vars => ExecutionInv'
<1>1. ExecutionInv /\ UNCHANGED vars => ExecutionInv'
  BY DEF vars, ExecutionInv, TypeOK, AnswerIsFinite, PauseIsInside,
         TimeIsAccounted, PayloadIsRepaired, ReportIsOfPayload, ScoreIsTotal,
         VerdictIsOutcome, Assessed, Before, Missing
<1>2. QED
  BY <1>1, CallReturns, CallFails, Pause, GivesUp, Repairs, Validates, Scores,
     Concludes DEF Next

LEMMA ExecutionKept == Spec => []ExecutionInv
BY InitExecution, NextExecution, PTL DEF Spec

(* Every variable keeps its type: the attempt stays within the policy, the  *)
(* score between 0 and 10000, and there is a verdict exactly at the end.    *)
THEOREM ExecutionTyped == Spec => []TypeOK
<1>1. ExecutionInv => TypeOK
  BY DEF ExecutionInv
<1>2. QED
  BY <1>1, ExecutionKept, PTL

(* An execution takes no longer than its calls may and its pauses do.       *)
THEOREM TimeIsBounded == Spec => []ElapsedBounded
<1>1. ExecutionInv => ElapsedBounded
  <2> SUFFICES ASSUME ExecutionInv PROVE ElapsedBounded
    OBVIOUS
  <2>1. /\ attempt \in Nat /\ contract.timeout \in Nat /\ elapsed \in Nat
        /\ Before(attempt) \in Nat
    BY ContractTyped DEF ExecutionInv, TypeOK
  <2>2. /\ attempt * contract.timeout \in Nat
        /\ (attempt - 1) * contract.timeout
             = attempt * contract.timeout - contract.timeout
    BY <2>1, Products
  <2>3. \/ elapsed <= attempt * contract.timeout + Before(attempt)
        \/ elapsed <= (attempt - 1) * contract.timeout + Before(attempt)
    BY DEF ExecutionInv, TimeIsAccounted
  <2>4. QED
    BY <2>1, <2>2, <2>3 DEF ElapsedBounded
<1>2. QED
  BY <1>1, ExecutionKept, PTL

(* What a verdict says of the score and the decision behind it.             *)
LEMMA VerdictTraced ==
  ASSUME ExecutionInv, verdict # "none"
  PROVE  /\ phase = "done"
         /\ verdict = OutcomeOf(validation.decision, Recommendation(score))
         /\ verdict # "failed" \/ validation.decision # "validation_error"
              => Assessed
BY DEF ExecutionInv, TypeOK, VerdictIsOutcome, Assessed

LEMMA ScoreTraced ==
  ASSUME ExecutionInv, Assessed
  PROVE  /\ validation \in Report /\ elapsed \in Nat /\ repair_count \in Nat
         /\ \E complete \in Nat :
              /\ complete <= 2000
              /\ score = Clamp(Total(validation, elapsed, repair_count,
                                     complete))
BY DEF ExecutionInv, TypeOK, ScoreIsTotal

(* Whatever the answer, a success had at most two fields filled in for it,  *)
(* and the fewer the slower it was.                                         *)
THEOREM SuccessCostsLittle == Spec => []SuccessIsCheap
<1>1. ExecutionInv => SuccessIsCheap
  <2> SUFFICES ASSUME ExecutionInv, verdict = "succeeded"
               PROVE  /\ repair_count <= 2
                      /\ repair_count = 1 => elapsed <= 8000
                      /\ repair_count = 2 => elapsed <= 1500
    BY DEF SuccessIsCheap
  <2>1. Assessed /\ Recommendation(score) = "success"
    BY VerdictTraced DEF OutcomeOf
  <2>2. QED
    BY <2>1, ScoreTraced, SuccessScore
<1>2. QED
  BY <1>1, ExecutionKept, PTL

(* The report of a pass, traced back to the answer before it was repaired.  *)
LEMMA PassTraced ==
  ASSUME ExecutionInv, Assessed, validation.decision = "pass"
  PROVE  /\ validation.hard = 0 /\ validation.soft = 0
         /\ \A f \in contract.constraints.required_non_empty
                       \cup contract.constraints.quality_required_fields :
              f \in DOMAIN answer /\ ~NoContent(answer[f])
<1>1. /\ contract \in Contracts
      /\ validation = Validate(contract, output_payload)
      /\ output_payload = [f \in DOMAIN answer \cup Missing |-> Get(answer, f)]
  BY DEF ExecutionInv, TypeOK, ReportIsOfPayload, PayloadIsRepaired
<1>2. IsFiniteSet(DOMAIN output_payload)
  BY <1>1, RepairedFinite DEF ExecutionInv
<1>3. \A f : Get(output_payload, f) = Get(answer, f)
  BY <1>1 DEF Get
<1>4. NoContent(Null)
  BY DEF NoContent, Null
<1>5. /\ validation.hard = 0 /\ validation.soft = 0
      /\ \A f \in contract.constraints.required_non_empty
                    \cup contract.constraints.quality_required_fields :
           ~NoContent(Get(output_payload, f))
  BY <1>1, <1>2, ReportTyped
<1>6. QED
  BY <1>3, <1>4, <1>5 DEF Get

(* No repair stands in for content that the constraints ask for.            *)
THEOREM SuccessIsTheProviders == Spec => []SuccessHasContent
<1>1. ExecutionInv => SuccessHasContent
  <2> SUFFICES ASSUME ExecutionInv, verdict = "succeeded"
               PROVE
        \A f \in contract.constraints.required_non_empty
                  \cup contract.constraints.quality_required_fields :
          f \in DOMAIN answer /\ answer[f].kind \notin {"null", "blank"}
    BY DEF SuccessHasContent
  <2>1. Assessed /\ validation.decision = "pass"
    BY VerdictTraced DEF OutcomeOf
  <2>2. QED
    BY <2>1, PassTraced DEF NoContent
<1>2. QED
  BY <1>1, ExecutionKept, PTL

(* A validation error has an issue.                                         *)
LEMMA ErrorTraced ==
  ASSUME ExecutionInv, Assessed, validation.decision = "validation_error"
  PROVE  validation.hard > 0 \/ validation.soft > 0
<1>1. validation.hard \in Nat /\ validation.soft \in Nat
  BY DEF ExecutionInv, TypeOK, Assessed, Report
<1>2. validation = Validate(contract, output_payload)
  BY DEF ExecutionInv, ReportIsOfPayload
<1>3. validation.decision = Decide(validation.hard, validation.soft,
                                   contract.abstain_allowed)
  BY <1>2 DEF Validate
<1>4. QED
  BY <1>1, <1>3 DEF Decide

(* An invalid answer that ends as an abstention was a near miss.            *)
THEOREM AbstentionIsNearMiss == Spec => []InvalidAbstainsOnlyNearMiss
<1>1. ExecutionInv => InvalidAbstainsOnlyNearMiss
  <2> SUFFICES ASSUME ExecutionInv, verdict = "abstained",
                      validation.decision = "validation_error"
               PROVE
        \/ validation.hard = 1 /\ validation.soft = 0 /\ elapsed <= 4000
        \/ validation.hard = 0 /\ validation.soft = 1 /\ elapsed <= 8000
        \/ validation.hard = 0 /\ validation.soft = 2 /\ elapsed <= 4000
    BY DEF InvalidAbstainsOnlyNearMiss
  <2>1. Assessed /\ Recommendation(score) # "error"
    BY VerdictTraced DEF OutcomeOf
  <2>2. QED
    BY <2>1, ScoreTraced, ErrorTraced, NearMissScore
<1>2. QED
  BY <1>1, ExecutionKept, PTL

(* A clean answer is a success or an abstention, whatever it cost.          *)
THEOREM CleanAnswerIsNoFailure == Spec => []CleanAnswerStands
<1>1. ExecutionInv => CleanAnswerStands
  <2> SUFFICES ASSUME ExecutionInv, phase = "done", repair_count = 0,
                      validation.decision = "pass"
               PROVE  verdict # "failed"
    BY DEF CleanAnswerStands
  <2>1. verdict # "none" /\ Assessed
    BY DEF ExecutionInv, TypeOK, Assessed
  <2>2. validation.hard = 0 /\ validation.soft = 0
    BY <2>1, PassTraced
  <2>3. Recommendation(score) # "error"
    BY <2>1, <2>2, ScoreTraced, CleanScore
  <2>4. Recommendation(score) \in {"success", "abstain"}
    BY <2>3 DEF Recommendation
  <2>5. QED
    BY <2>1, <2>4, VerdictTraced DEF OutcomeOf
<1>2. QED
  BY <1>1, ExecutionKept, PTL
=============================================================================
