CONSTANTS
  t1 = t1  t2 = t2  t3 = t3  p1 = p1  p2 = p2
  Threads <- ThreadsC
  Processes <- ProcessesC
  ProcessOf <- ProcessOfC
  Models <- ModelsC
  Types <- TypesC
  Words = {"w", "s"}
  Surrogates = {"s"}
  MaxFloat = 100
  MaxInteger = 20
  MaxDepth = 5
  Classes <- ClassesC
  Bodies <- BodiesC
  Raced <- RacedC
  Values <- ValuesC
  Encode <- EncodeP
  Decode <- DecodeP
  Writable <- WritableP
  Readable <- ReadableP
  MaxOps = 5
SYMMETRY MCSymmetry
SPECIFICATION ApiSpec
INVARIANTS DocumentedIsAccepted CoercedConforms ConformingKept LoadedAsSaved RowIdentity ConflictIsForeign
CHECK_DEADLOCK FALSE
