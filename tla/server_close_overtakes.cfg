SPECIFICATION Spec
CONSTANTS
 d1 = d1
 Docs = {d1}
 NoDoc = noDoc
 Supported = {d1}
 Workspace = {}
 Addable = {d1}
 Encoded = {}
 Queries = {}
 Registers = TRUE
 Progress = FALSE
 Concurrency = 2
 MaxMessages = 4
 MaxTimeouts = 0
INVARIANTS
 OpenFindsDocument
CHECK_DEADLOCK FALSE
