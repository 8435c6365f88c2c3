---------------------------- MODULE ModuleGraph -----------------------------
(***************************************************************************)
(* The addons modules of the roots the index has, and what depends on what *)
(* (src/src/index.rs, src/src/index/module.rs).  A root is a directory of  *)
(* modules; two roots may have a module of the same name, and a module may *)
(* depend on one that no root has.                                         *)
(***************************************************************************)
EXTENDS Naturals, FiniteSets

CONSTANTS
  Roots,        \* the directories that can be added
  Modules,      \* the names of modules, those that no root has included
  Base,         \* the name `base'
  Provides,     \* the modules of each root
  Declared,     \* what each manifest lists under `depends'
  AutoInstall,  \* the modules whose manifest says auto_install
  Rank          \* the order in which the roots are iterated over

ASSUME GraphAssumption ==
  /\ Base \in Modules /\ AutoInstall \subseteq Modules
  /\ Provides \in [Roots -> SUBSET Modules]
  /\ Declared \in [Roots -> [Modules -> SUBSET Modules]]
  /\ \A r \in Roots : Provides[r] # {}  \* without a module, a root is never entered
  /\ Rank \in [Roots -> Nat] /\ \A r, s \in Roots : Rank[r] = Rank[s] => r = s

\* A module of a root: a ModuleEntry.
Entries == {e \in Roots \X Modules : e[2] \in Provides[e[1]]}
EntriesOf(R) == {e \in Entries : e[1] \in R}

\* get_all_available_modules
Available(R) == UNION {Provides[r] : r \in R}

\* The first root that has m: every lookup by name stops there.
Home(R, m) ==
  CHOOSE r \in R : m \in Provides[r] /\ \A s \in R : m \in Provides[s] => Rank[r] <= Rank[s]
EntryOf(R, m) == <<Home(R, m), m>>

\* What a manifest declares, and `base' where the root has it.
Dependencies(e) ==
  Declared[e[1]][e[2]] \cup (IF Base \in Provides[e[1]] /\ e[2] # Base THEN {Base} ELSE {})

\* What a lookup of m by name says it depends on; nothing where no root has it.
DependenciesOf(R, m) == IF m \in Available(R) THEN Dependencies(EntryOf(R, m)) ELSE {}

\* No module depends on itself; discover_dependents_of recurses without end if
\* one does.
Acyclic ==
  \E depth \in [Modules -> 1..Cardinality(Modules)] :
    \A e \in Entries : \A d \in Dependencies(e) : depth[d] < depth[e[2]]

\* m and all it depends on, directly or not: the least such set.  (TLC
\* computes the relations DependsOn and NeededBy once.)
Closed(R, S) == \A m \in S : DependenciesOf(R, m) \subseteq S
LeastClosed(R, m) == {d \in Modules : \A S \in SUBSET Modules : m \in S /\ Closed(R, S) => d \in S}
DependsOn ==
  UNION {{<<R, m, d>> : d \in LeastClosed(R, m)} : R \in SUBSET Roots, m \in Modules}
Closure(R, m) == {d \in Modules : <<R, m, d>> \in DependsOn}

\* The modules of R that depend on m, in any of their entries.
Extends(R, S) == \A e \in EntriesOf(R) : Dependencies(e) \cap S # {} => e[2] \in S
LeastExtended(R, m) ==
  {d \in Available(R) : \A S \in SUBSET Modules : m \in S /\ Extends(R, S) => d \in S} \ {m}
NeededBy ==
  UNION {{<<R, m, d>> : d \in LeastExtended(R, m)} : R \in SUBSET Roots, m \in Modules}
Dependents(R, m) == {d \in Modules : <<R, m, d>> \in NeededBy}

=============================================================================
