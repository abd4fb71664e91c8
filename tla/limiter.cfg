\* Three requests of two clients, of which one a minute is let through.  A tick
\* is half a minute, one pipeline of each request is sent again.
SPECIFICATION Spec
CONSTANTS
  a = a  b = b
  r1 = r1  r2 = r2  r3 = r3
  Requests = {r1, r2, r3}
  Ips = {a, b}
  Rpm = 1
  Minute = 2
  Slack = 0
  MaxTime = 3
  MaxResends = 1
  Faults = {"break", "loss"}
SYMMETRY AnyRequest
INVARIANTS
  TypeOK
  AtMostRpm
  RefusedJustified
  KeysAutoClean
\* The requests and the ticks are used up.
CHECK_DEADLOCK FALSE
