SPECIFICATION Spec
CONSTANTS
  m1 = m1
  m2 = m2
  e1 = e1
  p1 = p1
  p2 = p2
  Messages <- MCOneMessage
  Events <- MCOneEvent
  TestEvents <- MCNoTestEvents
  Procs <- MCProcs
  BatchSize = 2
  MaxReceives = 2
  Hash <- TypedHash
PROPERTY ProcessedIsRecognised
