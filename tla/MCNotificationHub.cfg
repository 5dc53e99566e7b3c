SPECIFICATION Spec
CONSTANTS
  s1 = s1
  t1 = t1
  t2 = t2
  Subjects <- MCSubjects
  Threads <- MCThreads
  u1 = u1
  u2 = u2
  Uids <- MCUids
  Earlier = {0}
  MaxAtoms = 2
  MaxCrashes = 1
  Capacity = 2
  QueueCap = 1
  MaxBatch = 2
  g = g
  x = x
  ClientIds <- MCClientIds
  Guids <- MCGuids
  NoCorr = NoCorr
  NoIncident = NoIncident
SYMMETRY HubSymmetry
INVARIANTS TypeOK RingBounded AtomsAccounted
PROPERTIES OpenNotReplaced EndedStaysEnded
CHECK_DEADLOCK FALSE
