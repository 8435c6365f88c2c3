SPECIFICATION LiveSpec
CONSTANTS
 d1 = d1
 d2 = d2
 Docs = {d1, d2}
 NoDoc = noDoc
 Supported = {d1}
 Workspace = {}
 Addable = {d1}
 Encoded = {}
 Queries = {"goto_definition", "references", "completion"}
 Registers = FALSE
 Progress = TRUE
 Concurrency = 2
 MaxMessages = 4
 MaxTimeouts = 4
INVARIANTS
 GateInv
 RootExclusive
PROPERTIES
 EveryMessageHandled
 RootReleased
CHECK_DEADLOCK FALSE
