------------------------- MODULE GdevAdapterProofs -------------------------
(***************************************************************************)
(* What the gdev adapter makes of any answer, against what the answer is   *)
(* worth.                                                                  *)
(***************************************************************************)
EXTENDS GdevAdapter, TLAPS

\* The fields of an answer have the values the adapter tells apart.
LEMMA ResponseFields ==
  ASSUME NEW r \in Responses
  PROVE  /\ r.failed \in BOOLEAN /\ r.structured \in BOOLEAN
         /\ r.reason \in {"guard", "plain"}
         /\ r.status \in GDEV_STATUSES \cup {"unknown", "absent"}
         /\ r.classification \in {"none", "valid", "invalid", "absent"}
         /\ r.category \in Values /\ r.confidence \in Values
         /\ r.requires_human \in {"true", "false", "invalid", "absent"}
  BY DEF Responses

\* A field taken from the top or from the classification is accepted exactly if
\* one of the two states it.
LEMMA FieldStated ==
  ASSUME NEW r \in Responses, NEW top \in Values
  PROVE  FieldOf(r, top) = "valid" <=> Stated(r, top)
  BY ResponseFields DEF FieldOf, Stated, Values

\* requires_human is given, or can be derived from a classified answer with a
\* status, whatever it then is.
LEMMA HumanStated ==
  ASSUME NEW r \in Responses, r.status \in GDEV_STATUSES
  PROVE  requires_human(r) \in {"true", "false"} <=>
           \/ r.requires_human \in {"true", "false"}
           \/ r.requires_human = "absent" /\ r.classification # "none"
<1>1. r.status # "absent"
  BY DEF GDEV_STATUSES
<1> QED
  BY <1>1, ResponseFields DEF requires_human

\* _normalize_live_response and _quality_status: a live case passes exactly if
\* the agent's answer can be used, for every combination of missing, null,
\* malformed and misplaced fields.
THEOREM QualityIsUsability ==
  \A r \in Responses :
    quality_status(normalize_live_response(r)) = "pass" <=> Usable(r)
<1> SUFFICES ASSUME NEW r \in Responses
             PROVE  quality_status(normalize_live_response(r)) = "pass" <=> Usable(r)
  OBVIOUS
<1> DEFINE Passes == quality_status(normalize_live_response(r)) = "pass"
<1>1. CASE ~r.structured
  <2>1. ~Passes
    BY <1>1 DEF normalize_live_response, invalid_live_output, Outcome, quality_status
  <2> QED
    BY <1>1, <2>1 DEF Usable
<1>2. CASE r.structured /\ r.failed
  <2>1. CASE r.reason = "guard"
    <3>1. Passes
      BY <1>2, <2>1 DEF normalize_live_response, adapter_error_fields, Outcome,
                        quality_status
    <3> QED
      BY <1>2, <2>1, <3>1 DEF Usable
  <2>2. CASE r.reason # "guard"
    <3>1. ~Passes
      BY <1>2, <2>2 DEF normalize_live_response, adapter_error_fields, Outcome,
                        quality_status
    <3> QED
      BY <1>2, <2>2, <3>1 DEF Usable
  <2> QED
    BY <2>1, <2>2
<1>3. CASE r.structured /\ ~r.failed
  <2>1. Passes <=> RequiredFieldsHold(r) /\ r.status # "error"
    <3>1. CASE RequiredFieldsHold(r)
      BY <1>3, <3>1 DEF normalize_live_response, accepted_fields, Outcome,
                        quality_status
    <3>2. CASE ~RequiredFieldsHold(r)
      BY <1>3, <3>2 DEF normalize_live_response, invalid_live_output, Outcome,
                        quality_status
    <3> QED
      BY <3>1, <3>2
  <2>2. RequiredFieldsHold(r) /\ r.status # "error" <=> Usable(r)
    <3>1. r.category \in Values /\ r.confidence \in Values
      BY ResponseFields
    <3>2. /\ FieldOf(r, r.category) = "valid" <=> Stated(r, r.category)
          /\ FieldOf(r, r.confidence) = "valid" <=> Stated(r, r.confidence)
      BY <3>1, FieldStated
    <3> QED
      BY <1>3, <3>2, HumanStated DEF RequiredFieldsHold, Usable
  <2> QED
    BY <2>1, <2>2
<1> QED
  BY <1>1, <1>2, <1>3, ResponseFields

\* The adapter never makes up that no human is needed: it says so only of a
\* structured answer that was accepted, and then the agent said so itself or
\* executed the case without a pending or risky action.
THEOREM NoHumanOnlyIfSaid ==
  \A r \in Responses :
    ~normalize_live_response(r).requires_human =>
      /\ r.structured /\ ~r.failed
      /\ \/ r.requires_human = "false"
         \/ /\ r.requires_human = "absent"
            /\ r.status = "executed" /\ ~r.pending /\ ~r.risky
<1> SUFFICES ASSUME NEW r \in Responses, ~normalize_live_response(r).requires_human
             PROVE  /\ r.structured /\ ~r.failed
                    /\ \/ r.requires_human = "false"
                       \/ /\ r.requires_human = "absent"
                          /\ r.status = "executed" /\ ~r.pending /\ ~r.risky
  OBVIOUS
<1>1. /\ invalid_live_output.requires_human
      /\ adapter_error_fields(r).requires_human
  BY DEF invalid_live_output, adapter_error_fields, Outcome
<1>2. r.structured /\ ~r.failed /\ RequiredFieldsHold(r)
  BY <1>1 DEF normalize_live_response
<1>3. requires_human(r) # "true"
  BY <1>2 DEF normalize_live_response, accepted_fields, Outcome
<1>4. requires_human(r) = "false" /\ r.status \in GDEV_STATUSES
  BY <1>2, <1>3 DEF RequiredFieldsHold
<1>5. CASE r.requires_human # "absent"
  BY <1>2, <1>4, <1>5 DEF requires_human
<1>6. CASE r.requires_human = "absent"
  <2>1. ~derive_requires_human(r)
    BY <1>4, <1>6 DEF requires_human
  <2> QED
    BY <1>2, <1>4, <1>6, <2>1 DEF derive_requires_human, GDEV_STATUSES
<1> QED
  BY <1>5, <1>6

=============================================================================
