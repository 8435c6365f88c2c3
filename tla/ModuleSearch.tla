----------------------------- MODULE ModuleSearch ----------------------------
(***************************************************************************)
(* The searches of the module graph (src/src/index.rs) as the code runs    *)
(* them: stacks, memos and paths, where ModuleGraph says what they are to  *)
(* find.  `roots' is the sequence of roots in the order of iteration, each *)
(* a function from its modules to the sequence of what they depend on.     *)
(***************************************************************************)
EXTENDS Naturals, SequencesExt, FiniteSets

\* What a lookup by name finds: the entry of the first root that has one.
Having(roots, m) == {i \in DOMAIN roots : m \in DOMAIN roots[i]}
Listed(roots, m) == IF Having(roots, m) = {} THEN <<>> ELSE roots[Min(Having(roots, m))][m]

\* resolve_transitive_dependencies, past its cache.
RECURSIVE Popping(_, _, _)
Popping(roots, stack, found) ==
  IF stack = <<>> THEN found
  ELSE LET m == Last(stack)
           new == SelectSeq(Listed(roots, m), LAMBDA d : d \notin found \cup {m})
       IN  IF m \in found THEN Popping(roots, Front(stack), found)
           ELSE Popping(roots, Front(stack) \o new, found \cup {m})
TransitiveDependencies(roots, m) == Popping(roots, <<m>>, {})

\* find_dependency_chain: a path from source to target, or none.
RECURSIVE Chaining(_, _, _, _)
Chaining(roots, target, stack, visited) ==
  IF stack = <<>> THEN <<>>
  ELSE LET path == Last(stack)
           m == Last(path)
           new == SelectSeq(Listed(roots, m), LAMBDA d : d \notin visited \cup {m})
       IN  IF m = target THEN path
           ELSE IF m \in visited THEN Chaining(roots, target, Front(stack), visited)
           ELSE Chaining(roots, target,
                         Front(stack) \o [i \in DOMAIN new |-> Append(path, new[i])],
                         visited \cup {m})
DependencyChain(roots, source, target) == Chaining(roots, target, << <<source>> >>, {})

\* discover_dependents_of.  An entry is a node, and what leads to a module of
\* two roots leads to the last entry that it has.
AllModules(roots) == FlattenSeq([i \in DOMAIN roots |-> SetToSeq(DOMAIN roots[i])])
\* Mutant: a module that two roots have is looked up by its name.
DirectDependentsListed(roots, m) ==
  {d \in UNION {DOMAIN roots[i] : i \in DOMAIN roots} : m \in ToSet(Listed(roots, d))}
DirectDependents(roots, m) ==
  {d \in UNION {DOMAIN roots[i] : i \in DOMAIN roots} :
     \E i \in Having(roots, d) : m \in ToSet(roots[i][d])}
Edges(roots, all, i) ==
  {Max({j \in DOMAIN all : all[j] = d}) : d \in DirectDependents(roots, all[i])}

\* The depth-first search, its result and its memo.  Nothing says which nodes it
\* is at work on (`path'): on a circle it goes on until the stack overflows.
RECURSIVE Dfs(_, _, _, _)
Dfs(graph, i, memo, path) ==
  LET Follow(r, j) ==
        LET sub == Dfs(graph, j, r.memo, path \cup {i})
        IN  IF r.overflow THEN r
            ELSE [found |-> r.found \cup {j} \cup sub.found, memo |-> sub.memo,
                  overflow |-> sub.overflow]
      all == FoldLeft(Follow, [found |-> {}, memo |-> memo, overflow |-> FALSE],
                      SetToSeq(graph[i] \ {i}))
  IN  CASE i \in DOMAIN memo -> [found |-> memo[i], memo |-> memo, overflow |-> FALSE]
        [] i \notin DOMAIN memo /\ i \in path -> [found |-> {}, memo |-> memo, overflow |-> TRUE]
        [] OTHER -> [all EXCEPT !.memo = [j \in DOMAIN @ \cup {i} |->
                                            IF j = i THEN all.found ELSE @[j]]]
DiscoverDependents(roots, m) ==
  LET all == AllModules(roots)
      graph == [i \in DOMAIN all |-> Edges(roots, all, i)]
      r == Dfs(graph, Min({i \in DOMAIN all : all[i] = m}), <<>>, {})
  IN  [modules |-> {all[i] : i \in r.found}, overflow |-> r.overflow]

=============================================================================
