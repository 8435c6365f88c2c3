SPECIFICATION Spec
CONSTANTS
 Roots <- TwoRoots
 Modules <- Names
 Base = "base"
 Provides <- SplitProvides
 Declared <- SplitMissing
 AutoInstall <- OdooAuto
 Rank <- Iterated
 FilesPerModule = 1
 Unreadable <- NoFile
 MaxCalls = 2
 Concurrency = 2
 MaxCancels = 1
 MaxRemovals = 1
INVARIANTS
 TypeOK
 ReadOnce
 CacheCurrent
 MissingNoted
 NothingStranded
CHECK_DEADLOCK FALSE
