SPECIFICATION Spec
CONSTANTS
 Models <- TwoModels
 Fields <- TwoFields
 Methods <- OneMethod
 Files <- TwoFiles
 Classes <- TheClasses
 Contents <- InFiles
 RootOf <- Root
 Hashed <- Order
 MaxSaves = 2
 MaxRemovals = 1
 Shardings <- OneOrTwo
 NoModel = "none"
INVARIANTS
 TypeOK
 PlacesDistinct
 CrashOnlyOnCircle
PROPERTIES
 QueryComplete
 SaveReflected
CHECK_DEADLOCK FALSE
