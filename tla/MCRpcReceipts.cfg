SPECIFICATION Spec
CONSTANTS
  q1 = q1
  q2 = q2
  q3 = q3
  q4 = q4
  i1 = i1
  i2 = i2
  Nobody = Nobody
  Request = {q1, q2, q3, q4}
  Input = {i1, i2}
  InputOf <- OneOtherInput
INVARIANTS
  RpcInv
  AnswersAgree
PROPERTIES
  ImplementsIdempotentCommand
CHECK_DEADLOCK FALSE
