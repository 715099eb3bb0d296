--------------------------- MODULE IdempotentCommand ---------------------------
(***************************************************************************)
(* What an idempotency key promises, without servers, locks or retries:    *)
(* work may be begun in vain, but once one piece of work is the response,  *)
(* nothing more is made, and whoever is answered gets that response and    *)
(* had asked for the input it is bound to.                                 *)
(***************************************************************************)
CONSTANTS Request, InputOf, Nobody

VARIABLES
  receipt,     \* the response, once there is one
  made,        \* the requests that left something behind
  answer       \* what each caller was answered

Init ==
  /\ receipt = {}
  /\ made = {}
  /\ answer = [r \in Request |-> Nobody]

Make(r) ==
  /\ receipt = {}
  /\ made' = made \cup {r}
  /\ UNCHANGED <<receipt, answer>>

Settle(r) ==
  /\ receipt = {}
  /\ r \in made
  /\ receipt' = {[input |-> InputOf[r], output |-> r]}
  /\ UNCHANGED <<made, answer>>

Answer(r) ==
  /\ answer[r] = Nobody
  /\ \E response \in receipt :
       /\ response.input = InputOf[r]
       /\ answer' = [answer EXCEPT ![r] = response.output]
  /\ UNCHANGED <<receipt, made>>

Next == \E r \in Request : Make(r) \/ Settle(r) \/ Answer(r)

Spec == Init /\ [][Next]_<<receipt, made, answer>>
=============================================================================
