SPECIFICATION Spec
CONSTANTS
 d1 = d1
 d2 = d2
 Docs = {d1, d2}
 NoDoc = noDoc
 Supported = {d1, d2}
 Workspace = {d1, d2}
 Addable = {}
 Encoded = {}
 Queries = {"code_action"}
 Registers = TRUE
 Progress = FALSE
 Concurrency = 2
 MaxMessages = 6
 MaxTimeouts = 1
SYMMETRY Interchangeable
INVARIANTS
 TypeOK
 NoBlockPanic
 NoMissingDocument
 TextFaithful
 AnalysisFresh
 SettledInSync
 ClosedForgotten
 ReadsOwnWrites
 OrderInv
PROPERTIES
 StoreSpec
CHECK_DEADLOCK FALSE
