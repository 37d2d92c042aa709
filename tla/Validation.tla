----------------------------- MODULE Validation -----------------------------
(***************************************************************************)
(* packages/validators: the three validators and the composite decision,   *)
(* as operators on a contract and a payload.                               *)
(*                                                                         *)
(* A payload is a function from the fields it has to values. A value is a  *)
(* record of its kind and its size: the length of a string, the magnitude  *)
(* of a number, the number of members of a container. A string of white    *)
(* space only has the kind "blank"; the empty string is blank of size 0.   *)
(*                                                                         *)
(* A contract is well formed: the lists of fields hold no duplicates, the  *)
(* pairs are pairs and the limits numbers. What a malformed one does is to *)
(* raise, which the callers model.                                         *)
(***************************************************************************)
EXTENDS Integers, FiniteSets

Kind == {"null", "blank", "string", "integer", "float", "boolean", "array",
         "object"}
Null == [kind |-> "null", size |-> 0]

is_str(value) == value.kind \in {"blank", "string"}
is_number(value) == value.kind \in {"integer", "float"}

(* output_payload.get(field)                                               *)
Get(payload, field) ==
  IF field \in DOMAIN payload THEN payload[field] ELSE Null

(* Mutant of NoContent: only strings are looked at.                        *)
NoContentString(value) == value.kind = "blank"

(* None, or a string that strip() leaves empty.                            *)
NoContent(value) == value.kind \in {"null", "blank"}

(* value in (None, "", [], {})                                             *)
Unfilled(value) ==
  \/ value.kind = "null"
  \/ value.kind \in {"blank", "array", "object"} /\ value.size = 0

(* _TYPE_MAP: bool is a subclass of int, and only "integer" excludes it.   *)
HasType(value, type) ==
  CASE type = "string" -> is_str(value)
    [] type = "number" -> value.kind \in {"integer", "float", "boolean"}
    [] type = "integer" -> value.kind = "integer"
    [] type \in {"boolean", "object", "array", "null"} -> value.kind = type
    [] OTHER -> FALSE

Issue(code, at) == [code |-> code, at |-> at]

-----------------------------------------------------------------------------

(* schema.properties maps a field to its set of types, the empty set when  *)
(* the property names none.                                                *)
SchemaIssues(schema, payload) ==
  {Issue("missing_required_field", f) : f \in schema.required \ DOMAIN payload}
  \cup
  {Issue("type_mismatch", f) : f \in
     {g \in DOMAIN schema.properties \cap DOMAIN payload :
        /\ schema.properties[g] # {}
        /\ \A type \in schema.properties[g] : ~HasType(payload[g], type)}}
  \cup
  {Issue("additional_property_not_allowed", f) : f \in
     {g \in DOMAIN payload : /\ schema.closed
                             /\ DOMAIN schema.properties # {}
                             /\ g \notin DOMAIN schema.properties}}

(* required_non_empty, forbidden_values, min_length, max_length,           *)
(* numeric_ranges: the last four map a field to its limit.                 *)
ConstraintIssues(constraints, payload) ==
  {Issue("required_non_empty", f) : f \in
     {g \in constraints.required_non_empty : NoContent(Get(payload, g))}}
  \cup
  {Issue("forbidden_value", f) : f \in
     {g \in DOMAIN constraints.forbidden_values :
        Get(payload, g) \in constraints.forbidden_values[g]}}
  \cup
  {Issue("min_length", f) : f \in
     {g \in DOMAIN constraints.min_length :
        /\ is_str(Get(payload, g))
        /\ Get(payload, g).size < constraints.min_length[g]}}
  \cup
  {Issue("max_length", f) : f \in
     {g \in DOMAIN constraints.max_length :
        /\ is_str(Get(payload, g))
        /\ Get(payload, g).size > constraints.max_length[g]}}
  \cup
  {Issue("below_minimum", f) : f \in
     {g \in DOMAIN constraints.numeric_ranges \cap DOMAIN payload :
        /\ is_number(payload[g])
        /\ payload[g].size < constraints.numeric_ranges[g].min}}
  \cup
  {Issue("above_maximum", f) : f \in
     {g \in DOMAIN constraints.numeric_ranges \cap DOMAIN payload :
        /\ is_number(payload[g])
        /\ payload[g].size > constraints.numeric_ranges[g].max}}

(* The rules of quality: the only issues that are not hard.                *)
ConsistencyIssues(constraints, payload) ==
  {Issue("low_quality_missing_content", f) : f \in
     {g \in constraints.quality_required_fields : NoContent(Get(payload, g))}}
  \cup
  {Issue("inconsistent_mutually_exclusive", pair) : pair \in
     {p \in constraints.mutually_exclusive :
        /\ Get(payload, p[1]).kind # "null"
        /\ Get(payload, p[2]).kind # "null"}}

Decide(hard, soft, abstain_allowed) ==
  CASE hard > 0 -> "validation_error"
    [] hard = 0 /\ soft > 0 ->
         IF abstain_allowed THEN "abstain" ELSE "validation_error"
    [] OTHER -> "pass"

(* CompositeValidator.validate, as the report the score reads.             *)
Validate(contract, payload) ==
  LET hard == Cardinality(SchemaIssues(contract.output_schema, payload))
              + Cardinality(ConstraintIssues(contract.constraints, payload))
      soft == Cardinality(ConsistencyIssues(contract.constraints, payload))
  IN [decision |-> Decide(hard, soft, contract.abstain_allowed),
      hard |-> hard, soft |-> soft]
=============================================================================
