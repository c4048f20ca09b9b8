SPECIFICATION Spec
CONSTANTS
  Protocols = {"vanilla", "r1q2", "q2pro", "q2repro", "extdemo", "kex", "kexdemo"}
  Entities = {1, 2}
  LaterKinds = {"print"}
  MaxItems = 3
  Nests = FALSE
INVARIANTS
  NeverConfused
  AllHanded
  SolidAgree
  SessionInv
