SPECIFICATION Spec
CONSTANTS
  u1 = u1
  u2 = u2
  t1 = t1
  t2 = t2
  t3 = t3
  h1 = h1
  h2 = h2
  NoUser = NoUser
  NoToken = NoToken
  Users <- OneUser
  Registered <- OneUser
  Tokens <- Hash3
  Handlers <- Two
  MaxSessions = 2
  MaxFaults = 0
INVARIANTS
  LogoutEndsSession
\* Clients may stop sending requests, and the tokens of the model run out.
CHECK_DEADLOCK FALSE
