--------------------------- MODULE MCGuardrailsCheck ---------------------------
(* Texts on either side of every threshold, and rules of every kind in the  *)
(* order of guardrails/default_policies.yaml.                               *)
EXTENDS GuardrailsCheck

MCTexts == {
  [RoBERTa |-> 55, BERT |-> 49, keyword |-> 0, pii |-> {"SIN", "email"}],
  [RoBERTa |-> 70, BERT |-> 92, keyword |-> 65, pii |-> {}]}

PolicyRule(type, category, severity, action, patterns) ==
  [type |-> type, category |-> category, enabled |-> TRUE, severity |-> severity,
   action |-> action, patterns |-> patterns]

MCPolicies == <<
  PolicyRule("toxicity", "hate_speech", "medium", "block", FALSE),
  PolicyRule("toxicity", "profanity", "high", "flag", FALSE),
  PolicyRule("pii", "SIN", "medium", "mask", TRUE),
  PolicyRule("pii", "credit_card", "medium", "block", TRUE),
  PolicyRule("pii", "email", "medium", "mask", TRUE)>>
===============================================================================
