SPECIFICATION Spec
CONSTANTS
 Dotted <- TheDotted
 XmlElements <- TheElements
 MaxElements = 2
 Contents <- TheContents
 MaxContent = 2
 ModuleNames = {"base", "sale", "stock"}
 MaxRoots = 2
 MaxModules = 3
 Statements <- TheStatements
 MaxStatements = 2
 Writes <- TheWrites
 MaxWrites = 3
 Atoms <- TheAtoms
 MaxDepth = 3
 World <- TheWorld
 Values <- TheValues
 Documents <- TheDocuments
 Kinds = {"fine", "xmlid", "model"}
 Modes = {"push", "large", "pull"}
 MaxEdits = 2
 MaxChanges = 2
INVARIANTS
 RecordsRead
 KeptWhileTyping
 CursorFound
 SearchesAgree
 BlocksScoped
 DictRemembered
 TypeSound
 NothingLeftPending
 NoReentry
 AnswersRight
 DiagnosticsCurrent
 OnceEach
CHECK_DEADLOCK FALSE
