SPECIFICATION RendezvousFairSpec
CONSTANTS
  t1 = t1
  t2 = t2
  t3 = t3
  t4 = t4
  r1 = r1
  r2 = r2
  Nobody = Nobody
  Callers <- MCThreads
  Cores <- MCCores
  Rendezvouses <- MCRendezvouses
  CoreOf <- MCCoreOf
  Masks <- MCMasks
INVARIANTS RendezvousTypeOK NobodySleepsWhenMet SignalHasNoWaiter
PROPERTIES NobodyLeavesEarly EverybodyLeaves
CHECK_DEADLOCK FALSE
