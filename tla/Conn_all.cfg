SPECIFICATION Spec
CONSTANTS
  Conns = {c1, c2, c3}
  Workers = 2
  AcceptLoops = 1
  MaxClients = 1
  Talkers = {c1, c2}
  Pushed = {c2}
  MaxOob = 1
INVARIANTS AdmissionOvershoot OwedRepliesSent
PROPERTY AskedToCloseCloses
CHECK_DEADLOCK FALSE
