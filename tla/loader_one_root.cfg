SPECIFICATION FairSpec
CONSTANTS
 Roots <- OneRoot
 Modules <- Odoo
 Base = "base"
 Provides <- OdooProvides
 Declared <- OdooDeclared
 AutoInstall <- OdooAuto
 Rank <- Iterated
 FilesPerModule = 1
 Unreadable <- OneFails
 MaxCalls = 2
 Concurrency = 2
 MaxCancels = 0
 MaxRemovals = 0
INVARIANTS
 NothingStranded
 DependentsIndexed
 AutoInstallComplete
PROPERTIES
 CallsReturn
CHECK_DEADLOCK FALSE
