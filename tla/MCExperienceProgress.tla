----------------------- MODULE MCExperienceProgress -----------------------
(* A small instance of ExperienceProgress.                                *)
EXTENDS ExperienceProgress, TLC

CONSTANTS h1, h2, t1, o1, o2, k1

Says(o, causal) == [topic |-> t1, outcome |-> o, kind |-> k1, causal |-> causal]

\* Two handoffs that conclude rival outcomes.
RivalHandoffs == h1 :> <<Says(o1, FALSE)>> @@ h2 :> <<Says(o2, FALSE)>>
=============================================================================
