------------------------------- MODULE MCProof -------------------------------
(***************************************************************************)
(* A smoke run of three jobs and two workers, reliability proofs with one  *)
(* failure of each planned mode and a job without one, or with too few     *)
(* failures for the evidence they have to show, and full-stack proofs of up*)
(* to two cases.                                                           *)
(***************************************************************************)
EXTENDS ProofCommands, TLC

CONSTANTS s1, s2, s3, j1, j2, j3, j4, j5, c1, c2, w1, w2, w3

ModesOfJobs ==
  j1 :> PlannedMode(TRUE, 0) @@ j2 :> PlannedMode(TRUE, 1) @@
  j3 :> PlannedMode(TRUE, 2) @@ j4 :> PlannedMode(TRUE, 3) @@ j5 :> "none"

FullPlan ==
  [jobs |-> {j1, j2, j3, j4, j5}, failure_rate |-> 80, failure_count |-> 4,
   include_timeouts |-> TRUE, repeat_idempotency_submissions |-> TRUE]

\* Options that ask for a replay, or a retry, that no failing job is left for
NoReplayPlan ==
  [jobs |-> {j1, j2, j5}, failure_rate |-> 67, failure_count |-> 2,
   include_timeouts |-> FALSE, repeat_idempotency_submissions |-> TRUE]

NoRetryPlan ==
  [jobs |-> {j5}, failure_rate |-> 99, failure_count |-> 0,
   include_timeouts |-> FALSE, repeat_idempotency_submissions |-> FALSE]

SomePlans == {FullPlan, NoReplayPlan, NoRetryPlan}

BatchSpec ==
  [j \in Jobs |-> IF j \in SmokeJobs THEN SmokeSubmission
                  ELSE IF j \in CaseIds THEN CaseSubmission
                  ELSE ReliabilitySubmission(ModeOf[j])]

Pools == [c \in Commands |-> IF c = "reliability" THEN Workers ELSE {w1, w2}]

Case(id, request, text) == [id |-> id, request |-> request, text |-> text]

One == <<Case(c1, 1, TRUE)>>
Two == <<Case(c1, 1, TRUE), Case(c2, 1, TRUE)>>
Repeated == <<Case(c1, 1, TRUE), Case(c1, 1, TRUE)>>
Conflict == <<Case(c1, 1, TRUE), Case(c1, 2, TRUE)>>
Nameless == <<Case(c1, 1, TRUE), Case(NoId, 1, TRUE)>>
Textless == <<Case(c1, 1, FALSE)>>

Call(dataset, live, clean_state, other) ==
  [dataset |-> dataset, live |-> live, secret |-> TRUE,
   clean_state |-> clean_state, rival |-> other]

SomeCalls ==
  {Call(One, live, clean_state, other) :
     live, clean_state \in BOOLEAN, other \in {"shares", "resets"}}
  \cup {Call(Two, FALSE, clean_state, "resets") : clean_state \in BOOLEAN}
  \cup {Call(d, TRUE, FALSE, "none") : d \in {Two, Repeated}}
  \cup {Call(d, FALSE, FALSE, "resets") : d \in {Repeated, Conflict, Nameless}}
  \cup {Call(<<>>, FALSE, TRUE, "none"), Call(Textless, TRUE, FALSE, "resets")}
  \cup {[Call(One, TRUE, FALSE, "none") EXCEPT !.secret = FALSE]}

=============================================================================
