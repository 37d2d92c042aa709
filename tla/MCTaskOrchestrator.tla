------------------------- MODULE MCTaskOrchestrator -------------------------
(* Contracts and answers for TLC. The contracts combine a schema, a set of  *)
(* constraints and an execution policy; the answers are every payload over  *)
(* two fields and a few values that the validators and the score tell       *)
(* apart, and some with fields that no schema names. A call takes as long   *)
(* as each latency class has it, or longer than the timeout.                *)
EXTENDS TaskOrchestrator, TLC

Text == [kind |-> "string", size |-> 4]
Empty == [kind |-> "blank", size |-> 0]
Whole == [kind |-> "integer", size |-> 7]
Flag == [kind |-> "boolean", size |-> 1]

NoLimits == [f \in {} |-> 0]
NoTypes == [f \in {} |-> {}]

NoSchema == [given |-> FALSE, required |-> {}, properties |-> NoTypes,
             closed |-> FALSE]
Required == [NoSchema EXCEPT !.given = TRUE, !.required = {"a", "b", "c"}]
Typed == [given |-> TRUE, required |-> {"a", "b"},
          properties |-> [f \in {"a", "b"} |->
                            IF f = "a" THEN {"string"} ELSE {"number", "null"}],
          closed |-> TRUE]

NoConstraints ==
  [required_non_empty |-> {}, forbidden_values |-> NoTypes,
   min_length |-> NoLimits, max_length |-> NoLimits,
   numeric_ranges |-> NoTypes, quality_required_fields |-> {},
   mutually_exclusive |-> {}]
Quality ==
  [NoConstraints EXCEPT !.quality_required_fields = {"a", "text"},
                        !.mutually_exclusive = {<<"a", "b">>}]
Hard ==
  [required_non_empty |-> {"a"}, forbidden_values |-> [f \in {"b"} |-> {Null}],
   min_length |-> [f \in {"a"} |-> 3], max_length |-> [f \in {"b"} |-> 3],
   numeric_ranges |-> [f \in {"b"} |-> [min |-> 8, max |-> 9]],
   quality_required_fields |-> {"b"}, mutually_exclusive |-> {}]

(* Up to three attempts, pauses of one second or doubling.                  *)
Policies ==
  {[max_attempts |-> 1, backoff |-> 0, exponential |-> TRUE],
   [max_attempts |-> 2, backoff |-> 1000, exponential |-> FALSE],
   [max_attempts |-> 3, backoff |-> 1000, exponential |-> TRUE]}

MCContracts ==
  {[output_schema |-> schema, constraints |-> constraints,
    abstain_allowed |-> abstain, max_attempts |-> policy.max_attempts,
    backoff |-> policy.backoff, exponential |-> policy.exponential,
    timeout |-> 10000] :
     schema \in {NoSchema, Required, Typed},
     constraints \in {NoConstraints, Quality, Hard},
     abstain \in BOOLEAN, policy \in Policies}

Values == {Null, Empty, Text, Whole, Flag}
MCAnswers ==
  UNION {[fields -> Values] : fields \in SUBSET {"a", "b"}}
    \cup {[f \in fields |-> Text] :
             fields \in {{"a", "d"}, {"a", "b", "d"}, {"a", "d", "e"},
                         {"d", "e", "f"}}}
MCTexts == {Text, Empty}
MCDurations == {500, 1501, 6000, 9000, 12000}
=============================================================================
