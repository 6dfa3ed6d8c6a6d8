\* Elections in a network of three, elections and exchanges in pairs; nodes
\* lose power, statuses and packets are lost, repeated or late.
SPECIFICATION Spec
CONSTANTS
  t1 = t1
  t2 = t2
  a = a
  Nodes = {t1, t2, a}
  Tags = {t1, t2}
  Networks <- MCNetworks
  NodeIds <- MCNodeIds
  MaxFaults <- MCMaxFaults
  Measuring <- MCMeasuring
  NotSeen = NotSeen
  NoSession = NoSession
  NoMaster = NoMaster
  Nothing = Nothing
  SampleCount = 2
  MaxSessions = 5
INVARIANTS
  ElectionInv
  TwoMastersAreStrangers
  SynchronizedClocksAgree
PROPERTIES
  ElectionConverges
  SynchronizationConverges
CHECK_DEADLOCK FALSE
