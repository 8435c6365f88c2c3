SPECIFICATION Spec
CONSTANTS
 Roots <- OneRoot
 Modules <- Odoo
 Base = "base"
 Provides <- OdooProvides
 Declared <- OdooDeclared
 AutoInstall <- OdooAuto
 Rank <- Iterated
 FilesPerModule = 1
 Unreadable <- NoFile
 MaxCalls = 2
 Concurrency = 2
 MaxCancels = 1
 MaxRemovals = 0
INVARIANTS
 DependentsIndexed
CHECK_DEADLOCK FALSE
