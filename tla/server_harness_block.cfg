SPECIFICATION Spec
CONSTANTS
 d1 = d1
 d2 = d2
 Docs = {d1, d2}
 NoDoc = noDoc
 Supported = {d1, d2}
 Workspace = {d1, d2}
 Addable = {}
 Encoded = {}
 Queries = {}
 Registers = TRUE
 Progress = FALSE
 Concurrency = 4
 MaxMessages = 4
 MaxTimeouts = 0
INVARIANTS
 NoBlockPanic
CHECK_DEADLOCK FALSE
