---------------------------- MODULE GdevAdapter ----------------------------
(***************************************************************************)
(* jobs/gdev_agent.py: what a gdev_webhook_eval job makes of the answer of *)
(* a local gdev-agent, and the quality status it derives from it.  A value *)
(* is kept as far as the code looks at it: whether it is there, has the    *)
(* right type and range, or is one of the words that decide.               *)
(***************************************************************************)

GDEV_STATUSES == {"executed", "pending", "blocked", "error"}

\* body.get(field): an accepted value, one of the wrong type or range, null, or
\* no such key.
Values == {"valid", "invalid", "null", "absent"}

\* failed: the HTTP status is 400 or more (599 when there was no answer).
\* classification: "none" if it is not an object, else what is in its fields.
\* reason: whether an error's reason names a guard or an injection.
\* status "unknown": a value outside GDEV_STATUSES; "absent" also stands for null.
\* requires_human "invalid": any value that is not a boolean, null included.
Responses ==
  [failed : BOOLEAN,
   structured : BOOLEAN,
   reason : {"guard", "plain"},
   status : GDEV_STATUSES \cup {"unknown", "absent"},
   classification : {"none", "valid", "invalid", "absent"},
   category : Values,
   confidence : Values,
   requires_human : {"true", "false", "invalid", "absent"},
   pending : BOOLEAN,
   risky : BOOLEAN,
   guard_blocked : {"true", "false", "absent"}]

Outcome(answer, human, blocked, invalid, error) ==
  [status |-> answer, requires_human |-> human, guard_blocked |-> blocked,
   invalid_structured_output |-> invalid, adapter_error |-> error]

-----------------------------------------------------------------------------
(* Extraction *)

\* body.get(field, classification.get(field)): a null on top is not replaced.
FieldOf(r, top) ==
  IF top = "absent" /\ r.classification # "none" THEN r.classification ELSE top

\* A status of another kind than the four is refused later on.
derive_requires_human(r) ==
  \/ r.status \in {"blocked", "error", "pending"}
  \/ r.pending
  \/ r.risky

\* required["requires_human"], "absent" if the key is missing
requires_human(r) ==
  IF r.requires_human # "absent" THEN r.requires_human
  ELSE IF r.classification = "none" \/ r.status = "absent" THEN "absent"
  ELSE IF derive_requires_human(r) THEN "true" ELSE "false"

\* Missing and malformed fields end alike, only the reported reason differs.
RequiredFieldsHold(r) ==
  /\ r.status \in GDEV_STATUSES
  /\ FieldOf(r, r.category) = "valid"
  /\ FieldOf(r, r.confidence) = "valid"
  /\ requires_human(r) \in {"true", "false"}

-----------------------------------------------------------------------------
(* Normalisation *)

invalid_live_output == Outcome("error", TRUE, FALSE, TRUE, FALSE)

adapter_error_fields(r) ==
  IF r.reason = "guard"
  THEN Outcome("blocked", TRUE, TRUE, FALSE, FALSE)
  ELSE Outcome("error", TRUE, FALSE, FALSE, TRUE)

accepted_fields(r) ==
  Outcome(r.status,
          requires_human(r) = "true",
          IF r.guard_blocked = "absent" THEN r.status = "blocked"
                                        ELSE r.guard_blocked = "true",
          FALSE,
          r.status = "error")

normalize_live_response(r) ==
  IF ~r.structured THEN invalid_live_output
  ELSE IF r.failed THEN adapter_error_fields(r)
  ELSE IF ~RequiredFieldsHold(r) THEN invalid_live_output
  ELSE accepted_fields(r)

\* Mutant: only errors of the adapter fail a case.
quality_status_lax(fields) == IF fields.adapter_error THEN "fail" ELSE "pass"

quality_status(fields) ==
  IF fields.adapter_error \/ fields.invalid_structured_output
  THEN "fail" ELSE "pass"

-----------------------------------------------------------------------------
(* What an answer is worth, without the pipeline that computes it *)

\* Accepted at the top, or accepted in a classification it leaves the field to.
Stated(r, top) ==
  \/ top = "valid"
  \/ top = "absent" /\ r.classification = "valid"

\* The agent answered, decided the case or had a guard stop it, and said what it
\* is and whether a human must look.
Usable(r) ==
  /\ r.structured
  /\ r.failed => r.reason = "guard"
  /\ ~r.failed =>
       /\ r.status \in GDEV_STATUSES \ {"error"}
       /\ Stated(r, r.category) /\ Stated(r, r.confidence)
       /\ \/ r.requires_human \in {"true", "false"}
          \/ r.requires_human = "absent" /\ r.classification # "none"

\* Every quality status a local case can get, with what its answer was worth.
LiveVerdicts ==
  {[quality |-> quality_status(normalize_live_response(r)), usable |-> Usable(r)] :
     r \in Responses}

\* _normalize_request: the answer of the stub is well formed whatever the request.
StubVerdicts == {[quality |-> "pass", usable |-> TRUE]}

=============================================================================
