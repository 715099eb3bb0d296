------------------------ MODULE MCExperienceLifecycle ------------------------
(* Small instances of ExperienceLifecycle.                                   *)
EXTENDS ExperienceLifecycle, TLC

CONSTANTS h1, h2, t1, t2, o1, o2, k1

Says(t, o, causal) == [topic |-> t, outcome |-> o, kind |-> k1, causal |-> causal]

\* h1 concludes two conflicting claims, h2 the first of them once more.
ChainedAndEquivalent ==
  h1 :> <<Says(t1, o1, FALSE), Says(t1, o2, FALSE)>>
    @@ h2 :> <<Says(t1, o1, FALSE)>>

\* h1 chains a causal claim behind an association; h2 cannot be distilled.
ChainedAndCausal ==
  h1 :> <<Says(t1, o1, FALSE), Says(t1, o2, TRUE)>>
    @@ h2 :> <<Says(t2, o1, FALSE)>>
=============================================================================
