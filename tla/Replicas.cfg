CONSTANTS
  Messages = {m1}
  Consumers = {c1, c2}
  MaxFaults = 2
  KeyIds = {k1, k2}
  admin = admin
  demo = demo
  Accounts = {admin, demo}
  After <- InOrder
  First = admin
  MaxCrashes = 2
  NULL = NULL
SPECIFICATION ReplicasSpec
INVARIANTS AckedWasTried TokensVerify BootstrapComplete
PROPERTIES EveryReplicaServes SomeoneConsumes
CHECK_DEADLOCK FALSE
