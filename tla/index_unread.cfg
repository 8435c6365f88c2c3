SPECIFICATION Spec
CONSTANTS
 Models <- TwoModels
 Fields <- TwoFields
 Methods <- OneMethod
 Files <- TwoFiles
 Classes <- TheClasses
 Contents <- InFiles
 RootOf <- Root
 Hashed <- Order
 MaxSaves = 0
 MaxRemovals = 0
 Shardings <- OneOrTwo
 NoModel = "none"
INVARIANTS
 PopulatesAll
CHECK_DEADLOCK FALSE
