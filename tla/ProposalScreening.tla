--------------------------- MODULE ProposalScreening ---------------------------
(***************************************************************************)
(* The screening of an update proposal (evaluation/, gates/): what the     *)
(* evaluators, the aggregator and the learning gate make of its content.   *)
(*                                                                         *)
(* Scores are left out: below 0.7 the aggregate is a review instead of a   *)
(* pass, and the gate answers both alike.                                  *)
(***************************************************************************)

EvaluationDecision == {"pass", "fail", "need_more_evidence", "conflict", "review"}

\* What the evaluators read of a proposal: whether rationale and confidence
\* will do, whether its type needs evidence, whether it names evidence,
\* declares conflicts, and what observations it carries.
Content == [sound : BOOLEAN, highRisk : BOOLEAN, evidence : BOOLEAN,
            conflicts : BOOLEAN, observed : {"none", "passed", "failed"}]

RuleEngine(content) == IF content.sound THEN "pass" ELSE "fail"

\* accepted: LLM-KG resolves every evidence id to an accepted, immutable quote.
EvidenceChecker(content, accepted) ==
  IF \/ content.highRisk /\ ~content.evidence
     \/ content.evidence /\ ~accepted
  THEN "need_more_evidence" ELSE "pass"

ConflictChecker(content) == IF content.conflicts THEN "conflict" ELSE "pass"

BehaviorSignalEvaluator(content) ==
  CASE content.observed = "none"   -> "review"
    [] content.observed = "passed" -> "pass"
    [] content.observed = "failed" -> "fail"

\* The decisions of an enabled judge: a model may say anything, everything that
\* goes wrong is a review.
LLMJudge == EvaluationDecision

\* The decisions of one evaluation, with the verdict of a judge.
Screen(content, accepted, verdict) ==
  {RuleEngine(content), EvidenceChecker(content, accepted), ConflictChecker(content),
   BehaviorSignalEvaluator(content), verdict}

Recommendation(decisions) ==
  CASE "fail" \in decisions -> "fail"
    [] "fail" \notin decisions /\ "need_more_evidence" \in decisions -> "need_more_evidence"
    [] decisions \cap {"fail", "need_more_evidence"} = {} /\ "conflict" \in decisions -> "conflict"
    [] OTHER -> "review"

\* Fault: what every evaluator passes is applied without a review.
GateAutoApplies(decisions) ==
  CASE decisions = {"pass"} -> "approved"
    [] OTHER -> "pending_review"

\* The gate's decision as the status it gives the proposal.
LearningGate(decisions) ==
  CASE Recommendation(decisions) = "fail" -> "rejected"
    [] Recommendation(decisions) = "conflict" -> "conflict_review"
    [] Recommendation(decisions) = "need_more_evidence" -> "need_more_evidence"
    [] OTHER -> "pending_review"
=============================================================================
