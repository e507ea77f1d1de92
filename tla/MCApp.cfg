CONSTANTS
  Methods = {m1}
  Options = {o1}
  Values = {v1, v2}
  Invocations = {i1, i2}
  Users = {u1}
SPECIFICATION Spec
CHECK_DEADLOCK FALSE
INVARIANTS
  
  
  
  AwaitedIsPending
