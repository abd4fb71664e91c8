\* Three calls on two names, emails and passwords and a password that is too long,
\* one replica.
SPECIFICATION Spec
CONSTANTS
  r1 = r1  r2 = r2  r3 = r3
  n1 = n1  n2 = n2  e1 = e1  e2 = e2  w1 = w1  w2 = w2  w3 = w3  x = x  y = y
  Requests = {r1, r2, r3}
  Names = {n1, n2}
  Emails = {e1, e2}
  Passwords = {w1, w2, w3}
  TooLong = {w3}
  Texts = {x, y}
  MaxFollows = 1
  Faults = {"db", "lag"}
SYMMETRY AnyName
INVARIANTS
  TypeOK
  CountersKept
  OneOwner
  ProfileWhole
  UpdatesKept
  ErrorsJustified
\* A request is one call: the system stops when all are answered.
CHECK_DEADLOCK FALSE
