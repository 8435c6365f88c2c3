SPECIFICATION Spec
CONSTANTS
 d1 = d1
 Docs = {d1}
 NoDoc = noDoc
 Supported = {d1}
 Workspace = {d1}
 Addable = {}
 Encoded = {d1}
 Queries = {}
 Registers = TRUE
 Progress = FALSE
 Concurrency = 2
 MaxMessages = 4
 MaxTimeouts = 0
INVARIANTS
 AnalysisFresh
CHECK_DEADLOCK FALSE
