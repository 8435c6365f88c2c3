------------------------- MODULE ModuleLoaderProofs -------------------------
(* Theorems about ModuleLoader, for every value of its constants.          *)
EXTENDS ModuleLoader, SequenceTheorems, WellFoundedInduction, TLAPS

-----------------------------------------------------------------------------
(* The graph.                                                              *)

\* A lookup finds an entry of one of the roots wherever one of them has it.
LEMMA HomeFound ==
  ASSUME NEW R \in SUBSET Roots, NEW m \in Available(R)
  PROVE  /\ Home(R, m) \in R /\ m \in Provides[Home(R, m)]
         /\ EntryOf(R, m) \in EntriesOf(R) /\ m \in Modules
<1> DEFINE T == {Rank[r] : r \in {s \in R : m \in Provides[s]}}
<1>1. T \subseteq Nat /\ T # {}
  <2>1. PICK r \in R : m \in Provides[r]
    BY DEF Available
  <2>2. Rank[r] \in T
    BY <2>1
  <2>3. \A s \in R : Rank[s] \in Nat
    BY GraphAssumption
  <2> QED BY <2>2, <2>3
<1> DEFINE Less == {p \in Nat \X Nat : p[1] < p[2]}
<1>2. IsWellFoundedOn(Less, Nat)
  BY NatLessThanWellFounded, Zenon DEF OpToRel
<1>3. PICK x \in T : \A y \in T : x <= y
  <2>1. PICK x \in T : \A y \in T : ~(<<y, x>> \in Less)
    BY <1>1, <1>2, WFMin
  <2>2. \A y \in T : ~(y < x) /\ x \in Nat /\ y \in Nat
    BY <1>1, <2>1
  <2> QED BY <2>2
<1>4. PICK r \in R : m \in Provides[r] /\ Rank[r] = x
  BY DEF Available
<1>5. \A s \in R : m \in Provides[s] => Rank[r] <= Rank[s]
  BY <1>3, <1>4
<1>6. Home(R, m) \in R /\ m \in Provides[Home(R, m)]
  BY <1>4, <1>5 DEF Home
<1>7. m \in Modules
  BY <1>6, GraphAssumption
<1> QED BY <1>6, <1>7 DEF EntryOf, EntriesOf, Entries

\* A module is among those it depends on, which are names of modules.
LEMMA ClosureFacts ==
  ASSUME NEW R \in SUBSET Roots, NEW m \in Modules
  PROVE  m \in Closure(R, m) /\ Closure(R, m) \subseteq Modules
<1>1. m \in LeastClosed(R, m)
  BY DEF LeastClosed
<1> DEFINE Of(Q, k) == {<<Q, k, d>> : d \in LeastClosed(Q, k)}
<1>2. <<R, m, m>> \in Of(R, m)
  BY <1>1
<1> HIDE DEF Of
<1>3. <<R, m, m>> \in UNION {Of(Q, k) : Q \in SUBSET Roots, k \in Modules}
  BY <1>2
<1> USE DEF Of
<1>4. <<R, m, m>> \in DependsOn
  BY <1>3 DEF DependsOn
<1> QED BY <1>4 DEF Closure

LEMMA ClaimedFacts ==
  ASSUME roots \subseteq Roots, NEW m \in Modules
  PROVE  /\ Claimed(m) \subseteq EntriesOf(roots) \ loaded
         /\ Loads(m) => EntryOf(roots, m) \in Claimed(m)
<1>1. \A d \in Available(roots) : EntryOf(roots, d) \in EntriesOf(roots)
  BY HomeFound
<1> QED BY <1>1, ClosureFacts DEF Claimed, Loads

-----------------------------------------------------------------------------
(* Types.  An activation that has joined its tasks has none left, and a    *)
(* branch that is still to be started has no activation.                   *)

Frame == [module : Modules, tasks : SUBSET Files, autos : SUBSET Modules, joining : BOOLEAN]
CallRecord ==
  [kind : {"open", "dependents"}, entry : Entries \cup {<<>>}, pending : SUBSET Modules,
   state : {"idle", "running", "done", "dropped"}]

Graphed ==
  /\ workspaces \subseteq Roots /\ roots \subseteq Roots
  /\ loaded \subseteq EntriesOf(roots) /\ complete \subseteq EntriesOf(roots)
  /\ cache \in [Modules -> SUBSET Modules] /\ unloaded \in [Modules -> SUBSET Modules]
  /\ indexed \subseteq Files
  /\ cancels \in 0..MaxCancels /\ removals \in 0..MaxRemovals
Called ==
  /\ call \in [Calls -> CallRecord]
  /\ stack \in [Branches -> Seq(Frame)]
  /\ \A b \in Active : b[1] \in InFlight
  /\ polled \in Active \cup {NoBranch}
Joined ==
  \A b \in Branches : \A i \in 1..Len(stack[b]) : stack[b][i].joining \/ stack[b][i].tasks = {}
Unstarted == \A c \in Calls : \A m \in call[c].pending : stack[<<c, m>>] = <<>>
TypeInv == Graphed /\ Called /\ Joined /\ Unstarted

LEMMA BranchNames == \A b \in Branches : b[1] \in Calls /\ b[2] \in Modules /\ b = <<b[1], b[2]>>
  BY DEF Branches

LEMMA TopFacts ==
  ASSUME stack \in [Branches -> Seq(Frame)], NEW b \in Active
  PROVE  /\ b \in Branches /\ Len(stack[b]) \in Nat \ {0} /\ Top(b) \in Frame
         /\ Len(stack[b]) \in 1..Len(stack[b]) /\ Top(b) = stack[b][Len(stack[b])]
<1>1. b \in Branches /\ stack[b] \in Seq(Frame) /\ stack[b] # <<>>
  BY DEF Active
<1>2. Len(stack[b]) \in Nat \ {0}
  BY <1>1, EmptySeq
<1>3. stack[b][Len(stack[b])] \in Frame
  BY <1>1, <1>2, ElementOfSeq
<1> QED BY <1>1, <1>2, <1>3 DEF Top

LEMMA ReplaceFacts ==
  ASSUME stack \in [Branches -> Seq(Frame)], NEW b \in Active, NEW frame \in Frame
  PROVE  /\ Replace(b, frame) \in [Branches -> Seq(Frame)]
         /\ \A d \in Branches : d # b => Replace(b, frame)[d] = stack[d]
         /\ Len(Replace(b, frame)[b]) = Len(stack[b]) /\ Replace(b, frame)[b] # <<>>
         /\ \A i \in 1..Len(stack[b]) :
              Replace(b, frame)[b][i] = IF i = Len(stack[b]) THEN frame ELSE stack[b][i]
<1> DEFINE q == [stack[b] EXCEPT ![Len(stack[b])] = frame]
<1>1. b \in Branches /\ stack[b] \in Seq(Frame) /\ Len(stack[b]) \in 1..Len(stack[b])
  BY TopFacts
<1>2. /\ q \in Seq(Frame) /\ Len(q) = Len(stack[b])
      /\ \A i \in 1..Len(stack[b]) : q[i] = IF i = Len(stack[b]) THEN frame ELSE stack[b][i]
  BY <1>1, ExceptSeq
<1>3. q # <<>>
  BY <1>1, <1>2, EmptySeq, TopFacts
<1>4. Replace(b, frame) = [stack EXCEPT ![b] = q]
  BY <1>1 DEF Replace
<1> HIDE DEF q
<1> QED BY <1>1, <1>2, <1>3, <1>4

\* What load_module leaves: the activations below, and one of its own where it
\* has something to load.
LEMMA LoadFacts ==
  ASSUME stack \in [Branches -> Seq(Frame)], roots \subseteq Roots, NEW b \in Branches,
         NEW m \in Modules, NEW below \in Seq(Frame), Load(b, m, below)
  PROVE  /\ stack' \in [Branches -> Seq(Frame)]
         /\ \A d \in Branches : d # b => stack'[d] = stack[d]
         /\ \A i \in 1..Len(below) : i \in 1..Len(stack'[b]) /\ stack'[b][i] = below[i]
         /\ Loads(m) => /\ Len(stack'[b]) = Len(below) + 1 /\ polled' = NoBranch
                        /\ stack'[b][Len(below) + 1] = Activation(m)
                        /\ loaded' = loaded \cup Claimed(m) /\ stack'[b] # <<>>
         /\ ~Loads(m) => /\ stack'[b] = below /\ loaded' = loaded
                         /\ polled' = IF below = <<>> THEN NoBranch ELSE b
<1>1. Activation(m) \in Frame
  BY DEF Activation, Frame, FilesOf
<1>2. /\ Append(below, Activation(m)) \in Seq(Frame) /\ Append(below, Activation(m)) # <<>>
      /\ Len(Append(below, Activation(m))) = Len(below) + 1 /\ Len(below) \in Nat
      /\ \A i \in 1..Len(below) : Append(below, Activation(m))[i] = below[i]
      /\ Append(below, Activation(m))[Len(below) + 1] = Activation(m)
  BY <1>1, AppendProperties, LenProperties
<1>3. CASE Loads(m)
  <2>1. stack' = [stack EXCEPT ![b] = Append(below, Activation(m))]
        /\ loaded' = loaded \cup Claimed(m) /\ polled' = NoBranch
    BY <1>3 DEF Load
  <2>2. \A i \in 1..Len(below) : i \in 1..Len(below) + 1
    BY <1>2
  <2> QED BY <1>2, <1>3, <2>1, <2>2
<1>4. CASE ~Loads(m)
  <2>1. stack' = [stack EXCEPT ![b] = below] /\ loaded' = loaded
        /\ polled' = IF below = <<>> THEN NoBranch ELSE b
    BY <1>4 DEF Load
  <2> QED BY <1>4, <2>1
<1> QED BY <1>3, <1>4

LEMMA ReturnFacts ==
  ASSUME stack \in [Branches -> Seq(Frame)], NEW b \in Active,
         NEW below, below = SubSeq(stack[b], 1, Len(stack[b]) - 1)
  PROVE  /\ below \in Seq(Frame) /\ Len(below) = Len(stack[b]) - 1
         /\ \A i \in 1..Len(below) : below[i] = stack[b][i]
<1>1. stack[b] \in Seq(Frame) /\ Len(stack[b]) \in Nat \ {0}
  BY TopFacts
<1>2. \A i \in 1..Len(stack[b]) - 1 : stack[b][i] \in Frame
  BY <1>1, ElementOfSeq
<1>3. /\ below \in Seq(Frame)
      /\ Len(below) = IF 1 <= Len(stack[b]) - 1 THEN Len(stack[b]) - 1 - 1 + 1 ELSE 0
      /\ \A i \in 1..Len(below) : below[i] = stack[b][1 + i - 1]
  BY <1>1, <1>2, SubSeqProperties
<1> QED BY <1>1, <1>3

LEMMA FindTypes ==
  ASSUME NEW R \in SUBSET Roots, NEW known \in [Modules -> SUBSET Modules], NEW names,
         unloaded \in [Modules -> SUBSET Modules], FindAutoInstall(R, known, names)
  PROVE  cache' \in [Modules -> SUBSET Modules] /\ unloaded' \in [Modules -> SUBSET Modules]
<1>1. \A m \in Modules : Resolve(R, known, m) \subseteq Modules
  BY ClosureFacts DEF Resolve
<1>2. \A m \in Modules : Missing(R, known, m) \subseteq Modules
  BY <1>1 DEF Missing
<1> QED BY <1>1, <1>2 DEF FindAutoInstall

LEMMA UncachedType == Uncached \in [Modules -> SUBSET Modules]
  BY DEF Uncached

\* No branch is woken while a handler could be polled.
LEMMA AwaitingFacts == Awaiting => polled = NoBranch
  BY DEF Awaiting

LEMMA AddRootTypes ==
  ASSUME TypeInv, NEW r \in Roots, AddRoot(r)
  PROVE  TypeInv'
<1>1. roots' = roots \cup {r} /\ roots' \in SUBSET Roots /\ EntriesOf(roots) \subseteq EntriesOf(roots')
  BY DEF AddRoot, TypeInv, Graphed, EntriesOf
<1>2. cache' \in [Modules -> SUBSET Modules] /\ unloaded' \in [Modules -> SUBSET Modules]
  BY <1>1, FindTypes, UncachedType DEF AddRoot, TypeInv, Graphed
<1>3. Graphed'
  BY <1>1, <1>2 DEF AddRoot, TypeInv, Graphed, flags
<1>4. Called' /\ Joined' /\ Unstarted'
  BY DEF AddRoot, TypeInv, Called, Joined, Unstarted, Active, InFlight
<1> QED BY <1>3, <1>4 DEF TypeInv

LEMMA ConfigurationTypes ==
  ASSUME TypeInv, NEW added \in SUBSET Roots, ChangeConfiguration(added)
  PROVE  TypeInv'
<1> DEFINE asked == workspaces \cup added
           kept == roots \cap asked
           new == asked \ roots
<1>1. roots' = kept \cup new /\ roots' \in SUBSET Roots /\ workspaces' \subseteq Roots
      /\ EntriesOf(kept) \subseteq EntriesOf(roots')
  BY DEF ChangeConfiguration, TypeInv, Graphed, EntriesOf
<1>2. cache' \in [Modules -> SUBSET Modules] /\ unloaded' \in [Modules -> SUBSET Modules]
  <2>1. CASE new = {}
    BY <2>1 DEF ChangeConfiguration, TypeInv, Graphed
  <2>2. CASE new # {}
    BY <2>2, <1>1, FindTypes, UncachedType DEF ChangeConfiguration, TypeInv, Graphed
  <2> QED BY <2>1, <2>2
<1>3. removals' \in 0..MaxRemovals
  <2>1. removals' = removals \/ (removals < MaxRemovals /\ removals' = removals + 1)
    BY DEF ChangeConfiguration
  <2> QED BY <2>1, LoaderAssumption DEF TypeInv, Graphed
<1>4. /\ loaded' = loaded \cap EntriesOf(kept) /\ complete' = complete \cap EntriesOf(kept)
      /\ indexed' \subseteq indexed /\ cancels' = cancels
  BY DEF ChangeConfiguration
<1>5. Graphed'
  BY <1>1, <1>2, <1>3, <1>4 DEF TypeInv, Graphed
<1>6. Called' /\ Joined' /\ Unstarted'
  BY DEF ChangeConfiguration, TypeInv, Called, Joined, Unstarted, Active, InFlight
<1> QED BY <1>5, <1>6 DEF TypeInv

\* A step of an active branch starts none.
LEMMA StillUnstarted ==
  ASSUME TypeInv, NEW b \in Active, call' = call,
         \A d \in Branches : d # b => stack'[d] = stack[d]
  PROVE  Unstarted'
<1> SUFFICES ASSUME NEW c \in Calls, NEW m \in call[c].pending
             PROVE  stack'[<<c, m>>] = <<>>
  BY DEF Unstarted
<1>1. <<c, m>> \in Branches
  BY DEF TypeInv, Called, CallRecord, Branches
<1>2. stack[<<c, m>>] = <<>>
  BY DEF TypeInv, Unstarted
<1>3. <<c, m>> # b
  BY <1>2 DEF Active
<1> QED BY <1>1, <1>2, <1>3

LEMMA JoinNextTypes ==
  ASSUME TypeInv, NEW b \in Active, NEW f \in Top(b).tasks, JoinNext(b, f)
  PROVE  TypeInv'
<1> DEFINE frame == [Top(b) EXCEPT !.tasks = @ \ {f}]
<1>1. frame \in Frame /\ f \in Files /\ frame.joining
  BY TopFacts DEF TypeInv, Called, Frame, JoinNext, Joins
<1>2. stack' = Replace(b, frame) /\ polled' \in {b, NoBranch} /\ UNCHANGED call
  BY DEF JoinNext
<1> HIDE DEF frame
<1>3. /\ stack' \in [Branches -> Seq(Frame)] /\ stack'[b] # <<>> /\ Len(stack'[b]) = Len(stack[b])
      /\ \A d \in Branches : d # b => stack'[d] = stack[d]
      /\ \A i \in 1..Len(stack[b]) : stack'[b][i] = IF i = Len(stack[b]) THEN frame ELSE stack[b][i]
  BY <1>1, <1>2, ReplaceFacts DEF TypeInv, Called
<1>4. Active' = Active /\ InFlight' = InFlight
  BY <1>2, <1>3 DEF Active, InFlight
<1>5. Called'
  BY <1>2, <1>3, <1>4 DEF TypeInv, Called
<1>6. Joined'
  BY <1>1, <1>3 DEF TypeInv, Joined
<1>7. Unstarted'
  BY <1>2, <1>3, StillUnstarted
<1>8. Graphed'
  BY <1>1 DEF JoinNext, TypeInv, Graphed, config, flags
<1> QED BY <1>5, <1>6, <1>7, <1>8 DEF TypeInv

LEMMA JoinedAllTypes ==
  ASSUME TypeInv, NEW b \in Active, JoinedAll(b)
  PROVE  TypeInv'
<1> DEFINE frame == [Top(b) EXCEPT !.joining = FALSE, !.autos = Installable(roots, cache, LoadedNames)]
<1>0. stack \in [Branches -> Seq(Frame)]
  BY DEF TypeInv, Called
<1>1. Installable(roots, cache, LoadedNames) \subseteq Modules
  BY GraphAssumption DEF Installable, Considered
<1>2. frame \in Frame /\ frame.tasks = {}
  BY <1>1, TopFacts DEF TypeInv, Called, Frame, JoinedAll
<1>3. stack' = Replace(b, frame) /\ UNCHANGED <<call, polled>>
  BY DEF JoinedAll
<1> HIDE DEF frame
<1>4. /\ stack' \in [Branches -> Seq(Frame)] /\ stack'[b] # <<>> /\ Len(stack'[b]) = Len(stack[b])
      /\ \A d \in Branches : d # b => stack'[d] = stack[d]
      /\ \A i \in 1..Len(stack[b]) : stack'[b][i] = IF i = Len(stack[b]) THEN frame ELSE stack[b][i]
  BY <1>0, <1>2, <1>3, ReplaceFacts
<1>5. Active' = Active /\ InFlight' = InFlight
  BY <1>3, <1>4 DEF Active, InFlight
<1>6. Called'
  BY <1>3, <1>4, <1>5 DEF TypeInv, Called
<1>7. Joined'
  BY <1>2, <1>4 DEF TypeInv, Joined
<1>8. Unstarted'
  BY <1>3, <1>4, StillUnstarted
<1>9. Graphed'
  <2>1. cache' \in [Modules -> SUBSET Modules] /\ unloaded' \in [Modules -> SUBSET Modules]
    BY FindTypes DEF JoinedAll, TypeInv, Graphed
  <2> QED BY <2>1 DEF JoinedAll, TypeInv, Graphed, config, flags
<1> QED BY <1>6, <1>7, <1>8, <1>9 DEF TypeInv

\* A branch that load_module is called in, by an activation or by the call.
LEMMA LoadTypes ==
  ASSUME TypeInv, NEW b \in Branches, b[1] \in InFlight, NEW m \in Modules,
         NEW below \in Seq(Frame), Load(b, m, below),
         \A i \in 1..Len(below) : below[i].joining \/ below[i].tasks = {},
         call' = call \/ call' = [call EXCEPT ![b[1]].pending = @ \ {b[2]}],
         b[2] \notin call'[b[1]].pending, roots' = roots
  PROVE  Called' /\ Joined' /\ Unstarted' /\ loaded' \subseteq EntriesOf(roots')
<1>1. /\ stack' \in [Branches -> Seq(Frame)]
      /\ \A d \in Branches : d # b => stack'[d] = stack[d]
      /\ \A i \in 1..Len(below) : i \in 1..Len(stack'[b]) /\ stack'[b][i] = below[i]
      /\ Loads(m) => /\ Len(stack'[b]) = Len(below) + 1 /\ polled' = NoBranch
                     /\ stack'[b][Len(below) + 1] = Activation(m)
                     /\ loaded' = loaded \cup Claimed(m) /\ stack'[b] # <<>>
      /\ ~Loads(m) => /\ stack'[b] = below /\ loaded' = loaded
                      /\ polled' = IF below = <<>> THEN NoBranch ELSE b
  BY LoadFacts DEF TypeInv, Called, Graphed
<1>2. /\ call' \in [Calls -> CallRecord] /\ \A c \in Calls : call'[c].state = call[c].state
      /\ \A c \in Calls : call'[c].pending \subseteq call[c].pending
  <2>1. CASE call' = call
    BY <2>1 DEF TypeInv, Called
  <2>2. CASE call' = [call EXCEPT ![b[1]].pending = @ \ {b[2]}]
    <3>1. b[1] \in Calls /\ call \in [Calls -> CallRecord] /\ call[b[1]] \in CallRecord
      BY BranchNames DEF TypeInv, Called
    <3>2. [call[b[1]] EXCEPT !.pending = @ \ {b[2]}] \in CallRecord
      BY <3>1 DEF CallRecord
    <3>3. call' = [call EXCEPT ![b[1]] = [call[b[1]] EXCEPT !.pending = @ \ {b[2]}]]
      BY <2>2
    <3>4. /\ [call[b[1]] EXCEPT !.pending = @ \ {b[2]}].pending = call[b[1]].pending \ {b[2]}
          /\ [call[b[1]] EXCEPT !.pending = @ \ {b[2]}].state = call[b[1]].state
      BY <3>1 DEF CallRecord
    <3> QED BY <3>1, <3>2, <3>3, <3>4
  <2> QED BY <2>1, <2>2
<1>3. InFlight' = InFlight
  BY <1>2 DEF InFlight
<1>4. Active' \subseteq Active \cup {b} /\ \A d \in Active' : d[1] \in InFlight'
  BY <1>1, <1>3 DEF Active, TypeInv, Called
<1>5. polled' \in Active' \cup {NoBranch}
  BY <1>1 DEF Active
<1>6. Joined'
  <2> SUFFICES ASSUME NEW d \in Branches, NEW i \in 1..Len(stack'[d])
               PROVE  stack'[d][i].joining \/ stack'[d][i].tasks = {}
    BY DEF Joined
  <2>1. CASE d # b
    BY <2>1, <1>1 DEF TypeInv, Joined
  <2>2. CASE d = b /\ ~Loads(m)
    BY <2>2, <1>1
  <2>3. CASE d = b /\ Loads(m)
    <3>1. i \in 1..Len(below) \/ i = Len(below) + 1
      BY <2>3, <1>1, LenProperties
    <3> QED BY <3>1, <2>3, <1>1 DEF Activation
  <2> QED BY <2>1, <2>2, <2>3
<1>7. Unstarted'
  <2> SUFFICES ASSUME NEW c \in Calls, NEW n \in call'[c].pending
               PROVE  stack'[<<c, n>>] = <<>>
    BY DEF Unstarted
  <2>1. n \in call[c].pending /\ n \in Modules /\ <<c, n>> \in Branches
    BY <1>2 DEF TypeInv, Called, CallRecord, Branches
  <2>2. <<c, n>> # b
    OBVIOUS
  <2> QED BY <2>1, <2>2, <1>1 DEF TypeInv, Unstarted
<1>8. loaded' \subseteq EntriesOf(roots')
  BY <1>1, ClaimedFacts DEF TypeInv, Graphed
<1> QED BY <1>1, <1>2, <1>4, <1>5, <1>6, <1>7, <1>8 DEF Called

LEMMA AutoLoadTypes ==
  ASSUME TypeInv, NEW b \in Active, NEW m \in Top(b).autos, AutoLoad(b, m)
  PROVE  TypeInv'
<1> DEFINE frame == [Top(b) EXCEPT !.autos = @ \ {m}]
           below == Replace(b, frame)[b]
<1>1. frame \in Frame /\ frame.tasks = Top(b).tasks /\ frame.joining = Top(b).joining /\ m \in Modules
  BY TopFacts DEF TypeInv, Called, Frame
<1>2. Load(b, m, below) /\ roots' = roots /\ call' = call
  BY DEF AutoLoad, config
<1> HIDE DEF frame
<1>3. /\ b \in Branches /\ below \in Seq(Frame) /\ Len(below) = Len(stack[b])
      /\ \A i \in 1..Len(stack[b]) : below[i] = IF i = Len(stack[b]) THEN frame ELSE stack[b][i]
  BY <1>1, ReplaceFacts DEF TypeInv, Called, Active
<1>4. \A i \in 1..Len(below) : below[i].joining \/ below[i].tasks = {}
  BY <1>1, <1>3, TopFacts DEF TypeInv, Called, Joined
<1>5. b[1] \in InFlight /\ b[2] \notin call'[b[1]].pending
  BY <1>2, BranchNames DEF TypeInv, Called, Unstarted, Active
<1> HIDE DEF below
<1>6. Called' /\ Joined' /\ Unstarted' /\ loaded' \subseteq EntriesOf(roots')
  BY <1>1, <1>2, <1>3, <1>4, <1>5, LoadTypes
<1>7. Graphed'
  <2>1. unloaded' \in [Modules -> SUBSET Modules]
    BY DEF AutoLoad, TypeInv, Graphed
  <2> QED BY <1>6, <2>1 DEF AutoLoad, TypeInv, Graphed, config
<1> QED BY <1>6, <1>7 DEF TypeInv

LEMMA ReturnTypes ==
  ASSUME TypeInv, NEW b \in Active, Return(b)
  PROVE  TypeInv'
<1> DEFINE below == SubSeq(stack[b], 1, Len(stack[b]) - 1)
<1>1. stack' = [stack EXCEPT ![b] = below] /\ polled' = IF below = <<>> THEN NoBranch ELSE b
  BY DEF Return
<1>2. /\ b \in Branches /\ Len(stack[b]) \in Nat
      /\ below \in Seq(Frame) /\ Len(below) = Len(stack[b]) - 1
      /\ \A i \in 1..Len(below) : below[i] = stack[b][i]
  BY ReturnFacts, TopFacts DEF TypeInv, Called
<1>3. UNCHANGED <<call, config, flags, cache, unloaded, indexed, cancels>>
  BY DEF Return
<1> HIDE DEF below
<1>4. /\ stack' \in [Branches -> Seq(Frame)] /\ stack'[b] = below
      /\ \A d \in Branches : d # b => stack'[d] = stack[d]
  BY <1>1, <1>2 DEF TypeInv, Called
<1>5. Called'
  BY <1>1, <1>3, <1>4 DEF TypeInv, Called, Active, InFlight
<1>6. Joined'
  BY <1>2, <1>4 DEF TypeInv, Joined
<1>7. Unstarted'
  BY <1>3, <1>4, StillUnstarted
<1>8. Graphed'
  BY <1>3 DEF TypeInv, Graphed, config, flags
<1> QED BY <1>5, <1>6, <1>7, <1>8 DEF TypeInv

LEMMA StartsTypes ==
  ASSUME TypeInv, NEW c \in Calls, NEW m \in Available(roots), MayCall(c),
         NEW kind \in {"open", "dependents"}, NEW pending \in SUBSET Modules,
         Starts(c, kind, m, pending),
         UNCHANGED <<config, flags, cache, unloaded, indexed, stack, polled, cancels>>
  PROVE  TypeInv'
<1> DEFINE rec == [kind |-> kind, entry |-> EntryOf(roots, m), pending |-> pending, state |-> "running"]
<1>1. EntryOf(roots, m) \in Entries
  BY HomeFound DEF TypeInv, Graphed, EntriesOf
<1>2. rec \in CallRecord /\ rec.pending = pending /\ rec.state = "running"
  BY <1>1 DEF CallRecord
<1>3. call' = [call EXCEPT ![c] = rec] /\ call[c].state = "idle"
  BY DEF Starts, MayCall, Idle
<1> HIDE DEF rec
<1>4. call' \in [Calls -> CallRecord] /\ call'[c] = rec /\ \A d \in Calls : d # c => call'[d] = call[d]
  BY <1>2, <1>3 DEF TypeInv, Called
<1>5. InFlight \subseteq InFlight' /\ Active' = Active
  BY <1>2, <1>3, <1>4 DEF InFlight, Active
<1>6. Called'
  BY <1>4, <1>5 DEF TypeInv, Called
<1>7. Unstarted'
  <2>1. \A n \in pending : stack[<<c, n>>] = <<>>
    <3> SUFFICES ASSUME NEW n \in pending, stack[<<c, n>>] # <<>>
                 PROVE  FALSE
      OBVIOUS
    <3>1. <<c, n>> \in Active
      BY DEF Active, Branches
    <3>2. c \in InFlight
      BY <3>1 DEF TypeInv, Called
    <3> QED BY <3>2, <1>3 DEF InFlight
  <2> QED BY <2>1, <1>2, <1>4 DEF TypeInv, Unstarted
<1>8. Graphed' /\ Joined'
  BY DEF TypeInv, Graphed, Joined, config, flags
<1> QED BY <1>6, <1>7, <1>8 DEF TypeInv

LEMMA StartBranchTypes ==
  ASSUME TypeInv, NEW c \in InFlight, NEW m \in call[c].pending, StartBranch(c, m)
  PROVE  TypeInv'
<1>1. /\ <<c, m>> \in Branches /\ m \in Modules /\ c \in Calls
      /\ call' = [call EXCEPT ![<<c, m>>[1]].pending = @ \ {<<c, m>>[2]}]
      /\ Load(<<c, m>>, m, <<>>) /\ roots' = roots
  BY DEF TypeInv, Called, CallRecord, InFlight, Branches, StartBranch, config
<1>2. <<>> \in Seq(Frame) /\ \A i \in 1..Len(<<>>) : FALSE
  BY EmptySeq
<1>3. <<c, m>>[2] \notin call'[<<c, m>>[1]].pending
  BY <1>1 DEF TypeInv, Called, CallRecord
<1>4. <<c, m>>[1] \in InFlight
  OBVIOUS
<1>5. Called' /\ Joined' /\ Unstarted' /\ loaded' \subseteq EntriesOf(roots')
  BY <1>1, <1>2, <1>3, <1>4, LoadTypes
<1>6. Graphed'
  BY <1>5 DEF StartBranch, TypeInv, Graphed, config
<1> QED BY <1>5, <1>6 DEF TypeInv

LEMMA FinishTypes ==
  ASSUME TypeInv, NEW c \in InFlight, Finish(c)
  PROVE  TypeInv'
<1>1. c \in Calls /\ call' = [call EXCEPT ![c].state = "done"]
  BY DEF Finish, InFlight
<1>2. stack' = stack /\ polled' = polled
  BY DEF Finish
<1>3. \A m \in Modules : stack[<<c, m>>] = <<>>
  BY DEF Finish, Ended
<1>4. /\ call' \in [Calls -> CallRecord] /\ \A d \in Calls : call'[d].pending = call[d].pending
      /\ \A d \in Calls : d # c => call'[d].state = call[d].state
  BY <1>1 DEF TypeInv, Called, CallRecord
<1>5. Active' = Active
  BY <1>2 DEF Active
<1>6. \A b \in Active : b[1] \in InFlight'
  <2> SUFFICES ASSUME NEW b \in Active
               PROVE  b[1] \in InFlight'
    OBVIOUS
  <2>1. b[1] \in Calls /\ b[2] \in Modules /\ b = <<b[1], b[2]>> /\ stack[b] # <<>>
    BY BranchNames DEF Active
  <2>2. b[1] # c
    BY <2>1, <1>3
  <2>3. b[1] \in InFlight
    BY DEF TypeInv, Called
  <2> QED BY <2>1, <2>2, <2>3, <1>4 DEF InFlight
<1>7. Called'
  BY <1>2, <1>4, <1>5, <1>6 DEF TypeInv, Called
<1>8. Joined'
  BY <1>2 DEF TypeInv, Joined
<1>9. Unstarted'
  BY <1>2, <1>4 DEF TypeInv, Unstarted
<1>10. Graphed'
  BY DEF Finish, TypeInv, Graphed, config
<1> QED BY <1>7, <1>8, <1>9, <1>10 DEF TypeInv

LEMMA CancelTypes ==
  ASSUME TypeInv, NEW c \in InFlight, Cancel(c)
  PROVE  TypeInv'
<1>1. /\ c \in Calls /\ call' = [call EXCEPT ![c].state = "dropped"]
      /\ polled = NoBranch /\ polled' = polled
      /\ stack' = [b \in Branches |-> IF b[1] = c THEN <<>> ELSE stack[b]]
  BY AwaitingFacts DEF Cancel, InFlight
<1>2. /\ call' \in [Calls -> CallRecord] /\ \A d \in Calls : call'[d].pending = call[d].pending
      /\ \A d \in Calls : d # c => call'[d].state = call[d].state
  BY <1>1 DEF TypeInv, Called, CallRecord
<1>3. stack' \in [Branches -> Seq(Frame)] /\ \A b \in Branches : stack'[b] = <<>> \/ stack'[b] = stack[b]
  BY <1>1, EmptySeq DEF TypeInv, Called
<1>4. \A b \in Active' : b[1] \in InFlight'
  <2> SUFFICES ASSUME NEW b \in Branches, stack'[b] # <<>>
               PROVE  b[1] \in InFlight'
    BY DEF Active
  <2>1. b[1] # c /\ stack[b] # <<>> /\ b[1] \in Calls
    BY <1>1, BranchNames
  <2>2. b[1] \in InFlight
    BY <2>1 DEF TypeInv, Called, Active
  <2> QED BY <2>1, <2>2, <1>2 DEF InFlight
<1>5. Called'
  BY <1>1, <1>2, <1>3, <1>4 DEF TypeInv, Called
<1>6. Joined'
  <2>1. \A i \in 1..Len(<<>>) : FALSE
    BY EmptySeq
  <2> QED BY <1>3, <2>1 DEF TypeInv, Joined
<1>7. Unstarted'
  <2> SUFFICES ASSUME NEW d \in Calls, NEW m \in call[d].pending
               PROVE  stack'[<<d, m>>] = <<>>
    BY <1>2 DEF Unstarted
  <2>1. <<d, m>> \in Branches /\ stack[<<d, m>>] = <<>>
    BY DEF TypeInv, Called, CallRecord, Branches, Unstarted
  <2> QED BY <2>1, <1>3
<1>8. Graphed'
  <2>1. cancels' \in 0..MaxCancels
    BY LoaderAssumption DEF Cancel, TypeInv, Graphed
  <2> QED BY <2>1 DEF Cancel, TypeInv, Graphed, config, flags
<1> QED BY <1>5, <1>6, <1>7, <1>8 DEF TypeInv

LEMMA TypeInit == Init => TypeInv
<1> SUFFICES ASSUME Init
             PROVE  TypeInv
  OBVIOUS
<1>1. Graphed
  BY LoaderAssumption, UncachedType DEF Init, Graphed
<1>2. stack \in [Branches -> Seq(Frame)] /\ \A b \in Branches : stack[b] = <<>>
  BY EmptySeq DEF Init
<1>3. call \in [Calls -> CallRecord] /\ \A c \in Calls : call[c].pending = {}
  BY DEF Init, CallRecord
<1>4. Called /\ Unstarted
  BY <1>2, <1>3 DEF Called, Unstarted, Active, Init
<1>5. Joined
  <2>1. \A i \in 1..Len(<<>>) : FALSE
    BY EmptySeq
  <2> QED BY <1>2, <2>1 DEF Joined
<1> QED BY <1>1, <1>4, <1>5 DEF TypeInv

LEMMA TypeStep == TypeInv /\ [Next]_vars => TypeInv'
<1> SUFFICES ASSUME TypeInv, [Next]_vars
             PROVE  TypeInv'
  OBVIOUS
<1>1. ASSUME NEW b \in Active, NEW f \in Top(b).tasks, JoinNext(b, f)
      PROVE  TypeInv'
  BY <1>1, JoinNextTypes
<1>2. ASSUME NEW b \in Active, JoinedAll(b)
      PROVE  TypeInv'
  BY <1>2, JoinedAllTypes
<1>3. ASSUME NEW b \in Active, NEW m \in Top(b).autos, AutoLoad(b, m)
      PROVE  TypeInv'
  BY <1>3, AutoLoadTypes
<1>4. ASSUME NEW b \in Active, Return(b)
      PROVE  TypeInv'
  BY <1>4, ReturnTypes
<1>5. ASSUME NEW c \in InFlight, Finish(c)
      PROVE  TypeInv'
  BY <1>5, FinishTypes
<1>6. ASSUME NEW c \in InFlight, NEW m \in call[c].pending, StartBranch(c, m)
      PROVE  TypeInv'
  BY <1>6, StartBranchTypes
<1>7. ASSUME NEW r \in Roots, AddRoot(r)
      PROVE  TypeInv'
  BY <1>7, AddRootTypes
<1>8. ASSUME NEW added \in {{}} \cup {{r} : r \in Roots}, ChangeConfiguration(added)
      PROVE  TypeInv'
  <2>1. added \in SUBSET Roots
    OBVIOUS
  <2> QED BY <1>8, <2>1, ConfigurationTypes
<1>9. ASSUME NEW c \in Calls, NEW m \in Modules, LoadForDocument(c, m)
      PROVE  TypeInv'
  BY <1>9, StartsTypes DEF LoadForDocument
<1>10. ASSUME NEW c \in Calls, NEW m \in Modules, LoadDependents(c, m)
       PROVE  TypeInv'
  <2>1. Dependents(roots, m) \in SUBSET Modules
    BY DEF Dependents
  <2> QED BY <1>10, <2>1, StartsTypes DEF LoadDependents
<1>11. ASSUME NEW c \in InFlight, Cancel(c)
       PROVE  TypeInv'
  BY <1>11, CancelTypes
<1>12. CASE UNCHANGED vars
  BY <1>12 DEF vars, TypeInv, Graphed, Called, Joined, Unstarted, Active, InFlight
<1> QED BY <1>1, <1>2, <1>3, <1>4, <1>5, <1>6, <1>7, <1>8, <1>9, <1>10, <1>11, <1>12
        DEF Next, Progress

LEMMA TypeInvariant == Spec => []TypeInv
  BY TypeInit, TypeStep, PTL DEF Spec

\* Whatever handlers load, are dropped or wait for while roots come and go,
\* the state of the loader has its types, no branch outlives the call it is of
\* and only an active branch is polled.
THEOREM TypesCorrect == Spec => []TypeOK
<1>1. TypeInv => TypeOK
  <2> SUFFICES ASSUME TypeInv
               PROVE  TypeOK
    OBVIOUS
  <2>1. \A b \in Branches : \A i \in 1..Len(stack[b]) : stack[b][i] \in Frame
    BY ElementOfSeq DEF TypeInv, Called
  <2>2. \A c \in Calls : call[c] \in CallRecord
    BY DEF TypeInv, Called
  <2> QED BY <2>1, <2>2 DEF TypeInv, Graphed, Called, TypeOK, Frame, CallRecord
<1> QED BY <1>1, TypeInvariant, PTL

-----------------------------------------------------------------------------
(* What a step does to the tasks that are in progress, to the files that   *)
(* are in the index and to the marks: nothing, or a task ends, or some are *)
(* spawned, or some are aborted, or the roots change.                      *)

\* The i-th activation of branch b waits for the task of f.
At(st, b, i, f) == b \in Branches /\ i \in 1..Len(st[b]) /\ f \in st[b][i].tasks

Unmoved == \A b, i, f : At(stack', b, i, f) <=> At(stack, b, i, f)
Quiet == Unmoved /\ loaded' = loaded /\ indexed' = indexed /\ removals' = removals /\ cancels' = cancels
Reads(b, i, f) ==
  /\ At(stack, b, i, f)
  /\ \A d, j, g : At(stack', d, j, g) <=> At(stack, d, j, g) /\ ~(d = b /\ j = i /\ g = f)
  /\ loaded' = loaded /\ removals' = removals /\ cancels' = cancels
  /\ indexed' = indexed \cup ({f} \ Unreadable)
Spawns(b, i, m) ==
  /\ \A f : ~At(stack, b, i, f)
  /\ \A d, j, g : At(stack', d, j, g) <=>
       At(stack, d, j, g) \/ (d = b /\ j = i /\ g \in FilesOf(Claimed(m)))
  /\ m \in Modules /\ loaded' = loaded \cup Claimed(m)
  /\ indexed' = indexed /\ removals' = removals /\ cancels' = cancels
Aborts ==
  /\ \A b, i, f : At(stack', b, i, f) => At(stack, b, i, f)
  /\ loaded' = loaded /\ indexed' = indexed /\ removals' = removals /\ cancels' # 0
Moves(kept, new) ==
  /\ Unmoved /\ kept \subseteq roots /\ new \cap roots = {}
  /\ loaded' = loaded \cap EntriesOf(kept) /\ indexed' = indexed \ FilesUnder(new)
  /\ removals' = 0 => removals = 0 /\ kept = roots
  /\ cancels' = cancels

LEMMA JoinNextEffect ==
  ASSUME TypeInv, NEW b \in Active, NEW f \in Top(b).tasks, JoinNext(b, f)
  PROVE  Reads(b, Len(stack[b]), f)
<1> DEFINE frame == [Top(b) EXCEPT !.tasks = @ \ {f}]
<1>1. /\ b \in Branches /\ Len(stack[b]) \in 1..Len(stack[b]) /\ Top(b) \in Frame
      /\ Top(b) = stack[b][Len(stack[b])]
  BY TopFacts DEF TypeInv, Called
<1>2. frame \in Frame /\ frame.tasks = Top(b).tasks \ {f}
  BY <1>1 DEF Frame
<1>3. stack' = Replace(b, frame)
  BY DEF JoinNext
<1> HIDE DEF frame
<1>4. /\ stack' \in [Branches -> Seq(Frame)] /\ stack'[b] # <<>> /\ Len(stack'[b]) = Len(stack[b])
      /\ \A d \in Branches : d # b => stack'[d] = stack[d]
      /\ \A i \in 1..Len(stack[b]) : stack'[b][i] = IF i = Len(stack[b]) THEN frame ELSE stack[b][i]
  BY <1>2, <1>3, ReplaceFacts DEF TypeInv, Called
<1>5. At(stack, b, Len(stack[b]), f)
  BY <1>1 DEF At
<1>6. ASSUME NEW d, NEW j, NEW g
      PROVE  At(stack', d, j, g) <=> At(stack, d, j, g) /\ ~(d = b /\ j = Len(stack[b]) /\ g = f)
  <2>1. CASE d = b
    BY <2>1, <1>1, <1>2, <1>4 DEF At
  <2>2. CASE d # b
    BY <2>2, <1>4 DEF At
  <2> QED BY <2>1, <2>2
<1>7. /\ loaded' = loaded /\ removals' = removals /\ cancels' = cancels
      /\ indexed' = indexed \cup ({f} \ Unreadable)
  BY DEF JoinNext, config, flags
<1> QED BY <1>5, <1>6, <1>7 DEF Reads

LEMMA JoinedAllEffect ==
  ASSUME TypeInv, NEW b \in Active, JoinedAll(b)
  PROVE  Quiet
<1> DEFINE frame == [Top(b) EXCEPT !.joining = FALSE, !.autos = Installable(roots, cache, LoadedNames)]
<1>0. stack \in [Branches -> Seq(Frame)]
  BY DEF TypeInv, Called
<1>1. /\ b \in Branches /\ Len(stack[b]) \in 1..Len(stack[b]) /\ Top(b) \in Frame
      /\ Top(b) = stack[b][Len(stack[b])]
  BY TopFacts DEF TypeInv, Called
<1>2. Installable(roots, cache, LoadedNames) \subseteq Modules
  BY GraphAssumption DEF Installable, Considered
<1>3. frame \in Frame /\ frame.tasks = Top(b).tasks
  BY <1>1, <1>2 DEF Frame
<1>4. stack' = Replace(b, frame)
  BY DEF JoinedAll
<1> HIDE DEF frame
<1>5. /\ stack' \in [Branches -> Seq(Frame)] /\ stack'[b] # <<>> /\ Len(stack'[b]) = Len(stack[b])
      /\ \A d \in Branches : d # b => stack'[d] = stack[d]
      /\ \A i \in 1..Len(stack[b]) : stack'[b][i] = IF i = Len(stack[b]) THEN frame ELSE stack[b][i]
  BY <1>0, <1>3, <1>4, ReplaceFacts
<1>6. ASSUME NEW d, NEW j, NEW g
      PROVE  At(stack', d, j, g) <=> At(stack, d, j, g)
  <2>1. CASE d = b
    BY <2>1, <1>1, <1>3, <1>5 DEF At
  <2>2. CASE d # b
    BY <2>2, <1>5 DEF At
  <2> QED BY <2>1, <2>2
<1> QED BY <1>6 DEF Quiet, Unmoved, JoinedAll, config, flags

LEMMA ReturnEffect ==
  ASSUME TypeInv, NEW b \in Active, Return(b)
  PROVE  Quiet
<1> DEFINE below == SubSeq(stack[b], 1, Len(stack[b]) - 1)
<1>1. /\ b \in Branches /\ Len(stack[b]) \in 1..Len(stack[b]) /\ Len(stack[b]) \in Nat \ {0}
      /\ Top(b) = stack[b][Len(stack[b])] /\ stack \in [Branches -> Seq(Frame)]
  BY TopFacts DEF TypeInv, Called
<1>2. Len(below) = Len(stack[b]) - 1 /\ \A i \in 1..Len(below) : below[i] = stack[b][i]
  BY <1>1, ReturnFacts
<1>3. stack' = [stack EXCEPT ![b] = below]
  BY DEF Return
<1>4. stack[b][Len(stack[b])].tasks = {}
  BY <1>1 DEF Return, TypeInv, Joined
<1> HIDE DEF below
<1>5. ASSUME NEW d, NEW j, NEW g
      PROVE  At(stack', d, j, g) <=> At(stack, d, j, g)
  <2>1. CASE d = b
    <3>1. stack'[d] = below
      BY <2>1, <1>1, <1>3
    <3>2. CASE j \in 1..Len(below)
      BY <3>1, <3>2, <2>1, <1>1, <1>2 DEF At
    <3>3. CASE j \notin 1..Len(below)
      <4>1. j \in 1..Len(stack[b]) => j = Len(stack[b])
        BY <3>3, <1>1, <1>2
      <4> QED BY <4>1, <3>1, <3>3, <2>1, <1>4 DEF At
    <3> QED BY <3>2, <3>3
  <2>2. CASE d # b
    BY <2>2, <1>1, <1>3 DEF At
  <2> QED BY <2>1, <2>2
<1> QED BY <1>5 DEF Quiet, Unmoved, Return, config, flags

\* load_module with nothing to load does nothing; else it spawns its tasks.
LEMMA LoadEffect ==
  ASSUME TypeInv, NEW b \in Branches, NEW m \in Modules, NEW below \in Seq(Frame),
         Load(b, m, below),
         \A i, f : (i \in 1..Len(below) /\ f \in below[i].tasks) <=> At(stack, b, i, f),
         indexed' = indexed, removals' = removals, cancels' = cancels
  PROVE  Quiet \/ Spawns(b, Len(below) + 1, m)
<1>1. /\ \A d \in Branches : d # b => stack'[d] = stack[d]
      /\ \A i \in 1..Len(below) : i \in 1..Len(stack'[b]) /\ stack'[b][i] = below[i]
      /\ Loads(m) => /\ Len(stack'[b]) = Len(below) + 1
                     /\ stack'[b][Len(below) + 1] = Activation(m)
                     /\ loaded' = loaded \cup Claimed(m)
      /\ ~Loads(m) => stack'[b] = below /\ loaded' = loaded
  BY LoadFacts DEF TypeInv, Called, Graphed
<1>2. CASE ~Loads(m)
  <2>1. ASSUME NEW d, NEW j, NEW g
        PROVE  At(stack', d, j, g) <=> At(stack, d, j, g)
    <3>1. CASE d = b
      BY <3>1, <1>1, <1>2 DEF At
    <3>2. CASE d # b
      BY <3>2, <1>1 DEF At
    <3> QED BY <3>1, <3>2
  <2> QED BY <2>1, <1>1, <1>2 DEF Quiet, Unmoved
<1>3. CASE Loads(m)
  <2>1. Len(below) \in Nat /\ Activation(m).tasks = FilesOf(Claimed(m))
    BY LenProperties DEF Activation
  <2>2. \A f : ~At(stack, b, Len(below) + 1, f)
    BY <2>1
  <2>3. ASSUME NEW d, NEW j, NEW g
        PROVE  At(stack', d, j, g) <=>
                 At(stack, d, j, g) \/ (d = b /\ j = Len(below) + 1 /\ g \in FilesOf(Claimed(m)))
    <3>1. CASE d = b /\ j = Len(below) + 1
      BY <3>1, <2>1, <2>2, <1>1, <1>3 DEF At
    <3>2. CASE d = b /\ j # Len(below) + 1
      <4>1. j \in 1..Len(stack'[b]) <=> j \in 1..Len(below)
        BY <3>2, <2>1, <1>1, <1>3
      <4> QED BY <4>1, <3>2, <1>1 DEF At
    <3>3. CASE d # b
      BY <3>3, <1>1 DEF At
    <3> QED BY <3>1, <3>2, <3>3
  <2> QED BY <2>2, <2>3, <1>1, <1>3 DEF Spawns
<1> QED BY <1>2, <1>3

LEMMA AutoLoadEffect ==
  ASSUME TypeInv, NEW b \in Active, NEW m \in Top(b).autos, AutoLoad(b, m)
  PROVE  Quiet \/ \E i : Spawns(b, i, m)
<1> DEFINE frame == [Top(b) EXCEPT !.autos = @ \ {m}]
           below == Replace(b, frame)[b]
<1>0. stack \in [Branches -> Seq(Frame)]
  BY DEF TypeInv, Called
<1>1. /\ b \in Branches /\ Len(stack[b]) \in 1..Len(stack[b]) /\ Top(b) \in Frame
      /\ Top(b) = stack[b][Len(stack[b])]
  BY TopFacts DEF TypeInv, Called
<1>2. frame \in Frame /\ frame.tasks = Top(b).tasks /\ m \in Modules
  BY <1>1 DEF Frame
<1>3. Load(b, m, below)
  BY DEF AutoLoad
<1> HIDE DEF frame
<1>4. /\ b \in Branches /\ below \in Seq(Frame) /\ Len(below) = Len(stack[b])
      /\ \A i \in 1..Len(stack[b]) : below[i] = IF i = Len(stack[b]) THEN frame ELSE stack[b][i]
  BY <1>0, <1>2, ReplaceFacts DEF Active
<1> HIDE DEF below
<1>5. \A i, f : (i \in 1..Len(below) /\ f \in below[i].tasks) <=> At(stack, b, i, f)
  BY <1>1, <1>2, <1>4 DEF At
<1>6. indexed' = indexed /\ removals' = removals /\ cancels' = cancels
  BY DEF AutoLoad, config
<1>7. Quiet \/ Spawns(b, Len(below) + 1, m)
  BY <1>1, <1>2, <1>3, <1>4, <1>5, <1>6, LoadEffect
<1> QED BY <1>7

LEMMA StartBranchEffect ==
  ASSUME TypeInv, NEW c \in InFlight, NEW m \in call[c].pending, StartBranch(c, m)
  PROVE  Quiet \/ \E i : Spawns(<<c, m>>, i, m)
<1>1. <<c, m>> \in Branches /\ m \in Modules /\ stack[<<c, m>>] = <<>>
  BY DEF TypeInv, Called, CallRecord, InFlight, Branches, Unstarted
<1>2. <<>> \in Seq(Frame) /\ \A i : i \notin 1..Len(<<>>)
  BY EmptySeq
<1>3. \A i, f : (i \in 1..Len(<<>>) /\ f \in <<>>[i].tasks) <=> At(stack, <<c, m>>, i, f)
  BY <1>1, <1>2 DEF At
<1>4. /\ Load(<<c, m>>, m, <<>>)
      /\ indexed' = indexed /\ removals' = removals /\ cancels' = cancels
  BY DEF StartBranch, config
<1>5. Quiet \/ Spawns(<<c, m>>, Len(<<>>) + 1, m)
  BY <1>1, <1>2, <1>3, <1>4, LoadEffect
<1> QED BY <1>5

LEMMA CancelEffect ==
  ASSUME TypeInv, NEW c \in InFlight, Cancel(c)
  PROVE  Aborts
<1>1. \A b \in Branches : stack'[b] = <<>> \/ stack'[b] = stack[b]
  BY DEF Cancel
<1>2. \A i : i \notin 1..Len(<<>>)
  BY EmptySeq
<1>3. \A b, i, f : At(stack', b, i, f) => At(stack, b, i, f)
  BY <1>1, <1>2 DEF At
<1>4. cancels' # 0
  BY DEF Cancel, TypeInv, Graphed
<1> QED BY <1>3, <1>4 DEF Aborts, Cancel, config, flags

LEMMA AddRootEffect ==
  ASSUME TypeInv, NEW r \in Roots, AddRoot(r)
  PROVE  Moves(roots, {r})
<1>1. Unmoved
  BY DEF Unmoved, AddRoot
<1>2. loaded' = loaded \cap EntriesOf(roots)
  BY DEF AddRoot, flags, TypeInv, Graphed
<1> QED BY <1>1, <1>2 DEF Moves, AddRoot

LEMMA ConfigurationEffect ==
  ASSUME TypeInv, NEW added, ChangeConfiguration(added)
  PROVE  Moves(roots \cap (workspaces \cup added), (workspaces \cup added) \ roots)
<1> DEFINE kept == roots \cap (workspaces \cup added)
<1>1. Unmoved /\ cancels' = cancels
  BY DEF Unmoved, ChangeConfiguration
<1>2. removals' = 0 => removals = 0 /\ kept = roots
  <2>1. removals' = IF kept = roots THEN removals ELSE removals + 1
    BY DEF ChangeConfiguration
  <2> QED BY <2>1 DEF TypeInv, Graphed
<1> QED BY <1>1, <1>2 DEF Moves, ChangeConfiguration

LEMMA Effects ==
  ASSUME TypeInv, [Next]_vars
  PROVE  \/ Quiet \/ Aborts
         \/ \E b, i, f : Reads(b, i, f)
         \/ \E b, i, m : Spawns(b, i, m)
         \/ \E kept, new : Moves(kept, new)
<1>1. ASSUME NEW b \in Active, NEW f \in Top(b).tasks, JoinNext(b, f)
      PROVE  \E d, i, g : Reads(d, i, g)
  BY <1>1, JoinNextEffect
<1>2. ASSUME NEW b \in Active, JoinedAll(b)
      PROVE  Quiet
  BY <1>2, JoinedAllEffect
<1>3. ASSUME NEW b \in Active, NEW m \in Top(b).autos, AutoLoad(b, m)
      PROVE  Quiet \/ \E d, i, n : Spawns(d, i, n)
  BY <1>3, AutoLoadEffect
<1>4. ASSUME NEW b \in Active, Return(b)
      PROVE  Quiet
  BY <1>4, ReturnEffect
<1>5. ASSUME NEW c \in InFlight, Finish(c)
      PROVE  Quiet
  BY <1>5 DEF Quiet, Unmoved, Finish, config
<1>6. ASSUME NEW c \in InFlight, NEW m \in call[c].pending, StartBranch(c, m)
      PROVE  Quiet \/ \E d, i, n : Spawns(d, i, n)
  BY <1>6, StartBranchEffect
<1>7. ASSUME NEW r \in Roots, AddRoot(r)
      PROVE  \E kept, new : Moves(kept, new)
  BY <1>7, AddRootEffect
<1>8. ASSUME NEW added \in {{}} \cup {{r} : r \in Roots}, ChangeConfiguration(added)
      PROVE  \E kept, new : Moves(kept, new)
  BY <1>8, ConfigurationEffect
<1>9. ASSUME NEW c \in Calls, NEW m \in Modules, LoadForDocument(c, m) \/ LoadDependents(c, m)
      PROVE  Quiet
  BY <1>9 DEF Quiet, Unmoved, LoadForDocument, LoadDependents, config, flags
<1>10. ASSUME NEW c \in InFlight, Cancel(c)
       PROVE  Aborts
  BY <1>10, CancelEffect
<1>11. CASE UNCHANGED vars
  BY <1>11 DEF Quiet, Unmoved, vars
<1> QED BY <1>1, <1>2, <1>3, <1>4, <1>5, <1>6, <1>7, <1>8, <1>9, <1>10, <1>11 DEF Next, Progress

-----------------------------------------------------------------------------
(* Each file is read once, and no file is left out.                        *)

\* While no root has been removed: the files that are being read are marked,
\* are not in the index and are each read by one task; what is in the index is
\* marked.  (The marks are what keeps load_module from reading a file again.)
ReadInv ==
  removals = 0 =>
    /\ \A b, i, d, j, f : At(stack, b, i, f) /\ At(stack, d, j, f) => b = d /\ i = j
    /\ \A b, i, f : At(stack, b, i, f) => f \in FilesOf(loaded) /\ f \notin indexed
    /\ indexed \subseteq FilesOf(loaded)

\* While no call was dropped: a marked file is read or being read, or cannot be.
StrandInv ==
  cancels = 0 =>
    \A f \in FilesOf(loaded) : f \in indexed \cup Unreadable \/ \E b, i : At(stack, b, i, f)

\* The files of what is marked are apart from those of what is not.
LEMMA FilesApart ==
  ASSUME NEW D, NEW E, D \cap E = {}
  PROVE  FilesOf(D) \cap FilesOf(E) = {} /\ FilesOf(D \cup E) = FilesOf(D) \cup FilesOf(E)
  BY DEF FilesOf

LEMMA ReadStep ==
  ASSUME TypeInv, ReadInv, [Next]_vars
  PROVE  ReadInv'
<1>1. CASE Quiet
  BY <1>1 DEF Quiet, Unmoved, ReadInv
<1>2. CASE Aborts
  BY <1>2 DEF Aborts, ReadInv
<1>3. ASSUME NEW b, NEW i, NEW f, Reads(b, i, f)
      PROVE  ReadInv'
  BY <1>3 DEF Reads, ReadInv
<1>4. ASSUME NEW b, NEW i, NEW m, Spawns(b, i, m)
      PROVE  ReadInv'
  <2> SUFFICES ASSUME removals = 0
               PROVE  ReadInv'
    BY <1>4 DEF Spawns, ReadInv
  <2>1. Claimed(m) \cap loaded = {}
    BY <1>4, ClaimedFacts DEF Spawns, TypeInv, Graphed
  <2>2. /\ FilesOf(Claimed(m)) \cap FilesOf(loaded) = {}
        /\ FilesOf(loaded') = FilesOf(loaded) \cup FilesOf(Claimed(m))
    BY <2>1, <1>4, FilesApart DEF Spawns
  <2> QED BY <2>2, <1>4 DEF Spawns, ReadInv
<1>5. ASSUME NEW kept, NEW new, Moves(kept, new)
      PROVE  ReadInv'
  <2> SUFFICES ASSUME removals' = 0
               PROVE  ReadInv'
    BY DEF ReadInv
  <2>1. loaded' = loaded /\ indexed' \subseteq indexed /\ removals = 0
    BY <1>5 DEF Moves, TypeInv, Graphed
  <2> QED BY <2>1, <1>5 DEF Moves, Unmoved, ReadInv
<1> QED BY <1>1, <1>2, <1>3, <1>4, <1>5, Effects

LEMMA StrandStep ==
  ASSUME TypeInv, StrandInv, [Next]_vars
  PROVE  StrandInv'
<1>1. CASE Quiet
  BY <1>1 DEF Quiet, Unmoved, StrandInv
<1>2. CASE Aborts
  BY <1>2 DEF Aborts, StrandInv
<1>3. ASSUME NEW b, NEW i, NEW f, Reads(b, i, f)
      PROVE  StrandInv'
  <2> SUFFICES ASSUME cancels = 0, NEW g \in FilesOf(loaded)
               PROVE  g \in indexed' \cup Unreadable \/ \E d, j : At(stack', d, j, g)
    BY <1>3 DEF Reads, StrandInv
  <2>1. CASE g = f
    BY <2>1, <1>3 DEF Reads
  <2>2. CASE g # f
    BY <2>2, <1>3 DEF Reads, StrandInv
  <2> QED BY <2>1, <2>2
<1>4. ASSUME NEW b, NEW i, NEW m, Spawns(b, i, m)
      PROVE  StrandInv'
  <2> SUFFICES ASSUME cancels = 0, NEW g \in FilesOf(loaded')
               PROVE  g \in indexed' \cup Unreadable \/ \E d, j : At(stack', d, j, g)
    BY <1>4 DEF Spawns, StrandInv
  <2>1. g \in FilesOf(loaded) \/ g \in FilesOf(Claimed(m))
    BY <1>4 DEF Spawns, FilesOf
  <2>2. CASE g \in FilesOf(Claimed(m))
    BY <2>2, <1>4 DEF Spawns
  <2>3. CASE g \in FilesOf(loaded)
    BY <2>3, <1>4 DEF Spawns, StrandInv
  <2> QED BY <2>1, <2>2, <2>3
<1>5. ASSUME NEW kept, NEW new, Moves(kept, new)
      PROVE  StrandInv'
  <2> SUFFICES ASSUME cancels = 0, NEW g \in FilesOf(loaded')
               PROVE  g \in indexed' \cup Unreadable \/ \E d, j : At(stack', d, j, g)
    BY <1>5 DEF Moves, StrandInv
  <2>1. g \in FilesOf(loaded) /\ g \notin FilesUnder(new)
    BY <1>5 DEF Moves, FilesOf, FilesUnder, EntriesOf, TypeInv, Graphed
  <2> QED BY <2>1, <1>5 DEF Moves, Unmoved, StrandInv
<1> QED BY <1>1, <1>2, <1>3, <1>4, <1>5, Effects

LEMMA NothingAtFirst == Init => ReadInv /\ StrandInv
<1> SUFFICES ASSUME Init
             PROVE  ReadInv /\ StrandInv
  OBVIOUS
<1>1. \A b, i, f : ~At(stack, b, i, f)
  <2>1. \A i : i \notin 1..Len(<<>>)
    BY EmptySeq
  <2> QED BY <2>1 DEF At, Init
<1>2. FilesOf(loaded) = {} /\ indexed = {}
  BY DEF FilesOf, Init
<1> QED BY <1>1, <1>2 DEF ReadInv, StrandInv

LEMMA ActivationAt ==
  ASSUME NEW x \in Activations
  PROVE  /\ x = <<x[1], x[2]>>
         /\ \A f : f \in Tasks(x) => At(stack, x[1], x[2], f)
<1>1. PICK b \in Branches : x \in {<<b, i>> : i \in 1..Len(stack[b])}
  BY DEF Activations
<1>2. PICK i \in 1..Len(stack[b]) : x = <<b, i>>
  BY <1>1
<1> QED BY <1>2 DEF Tasks, At

LEMMA InProgressAt == \A f : f \in InProgress <=> \E b, i : At(stack, b, i, f)
<1>1. ASSUME NEW f \in InProgress
      PROVE  \E b, i : At(stack, b, i, f)
  <2>1. PICK x \in Activations : f \in Tasks(x)
    BY DEF InProgress
  <2> QED BY <2>1, ActivationAt
<1>2. ASSUME NEW f, NEW b, NEW i, At(stack, b, i, f)
      PROVE  f \in InProgress
  <2>1. b \in Branches /\ i \in 1..Len(stack[b]) /\ f \in stack[b][i].tasks
    BY <1>2 DEF At
  <2>2. <<b, i>> \in {<<b, j>> : j \in 1..Len(stack[b])}
    BY <2>1
  <2>3. <<b, i>> \in Activations
    BY <2>1, <2>2 DEF Activations
  <2>4. f \in Tasks(<<b, i>>)
    BY <2>1 DEF Tasks
  <2> QED BY <2>3, <2>4 DEF InProgress
<1> QED BY <1>1, <1>2

\* No file is read by two tasks, or again once it is in the index, whatever
\* handlers load at the same time, are dropped or add roots: load_module marks
\* what it claims before it awaits, and a mark is never taken back while no root
\* is removed.
THEOREM FilesReadOnce == Spec => []ReadOnce
<1>1. TypeInv /\ ReadInv => ReadOnce
  <2> SUFFICES ASSUME ReadInv, removals = 0
               PROVE  /\ \A x, y \in Activations : x # y => Tasks(x) \cap Tasks(y) = {}
                      /\ InProgress \cap indexed = {}
    BY DEF ReadOnce
  <2>1. ASSUME NEW x \in Activations, NEW y \in Activations, NEW f \in Tasks(x) \cap Tasks(y)
        PROVE  x = y
    <3>1. At(stack, x[1], x[2], f) /\ At(stack, y[1], y[2], f)
      BY ActivationAt
    <3>2. x = <<x[1], x[2]>> /\ y = <<y[1], y[2]>>
      BY ActivationAt
    <3> QED BY <3>1, <3>2 DEF ReadInv
  <2>2. InProgress \cap indexed = {}
    BY InProgressAt DEF ReadInv
  <2> QED BY <2>1, <2>2
<1>2. TypeInv /\ ReadInv /\ [Next]_vars => ReadInv'
  BY ReadStep
<1> QED BY <1>1, <1>2, NothingAtFirst, TypeInvariant, PTL DEF Spec

\* Whatever fails to be read, whichever handler marked it and however roots come
\* and go: a file of what is marked as loaded is in the index or being read, for
\* as long as no call was dropped.
THEOREM NothingLeftOut == Spec => []NothingStranded
<1>1. StrandInv => NothingStranded
  BY InProgressAt DEF StrandInv, NothingStranded
<1>2. TypeInv /\ StrandInv /\ [Next]_vars => StrandInv'
  BY StrandStep
<1> QED BY <1>1, <1>2, NothingAtFirst, TypeInvariant, PTL DEF Spec

-----------------------------------------------------------------------------
(* The cache of dependencies, and the modules noted as missing some.       *)

CacheInv == removals = 0 => \A m \in Modules : cache[m] = {} \/ cache[m] = Closure(roots, m)
NotedInv ==
  removals = 0 => \A m \in (AutoInstall \cap Available(roots)) \ LoadedNames :
    (Closure(roots, m) \ {m}) \ Available(roots) # {} =>
      unloaded[m] = (Closure(roots, m) \ {m}) \ Available(roots)

\* What was known of the dependencies among the roots was right: then so is what
\* is known afterwards, and what every module that was looked at misses is noted.
LEMMA FindFacts ==
  ASSUME NEW R \in SUBSET Roots, NEW known, NEW names, FindAutoInstall(R, known, names),
         \A m \in Modules : known[m] = {} \/ known[m] = Closure(R, m)
  PROVE  /\ \A m \in Modules : cache'[m] = {} \/ cache'[m] = Closure(R, m)
         /\ \A m \in (AutoInstall \cap Available(R)) \ names :
              (Closure(R, m) \ {m}) \ Available(R) # {} =>
                unloaded'[m] = (Closure(R, m) \ {m}) \ Available(R)
<1>1. \A m \in Modules : Resolve(R, known, m) = Closure(R, m)
  BY DEF Resolve
<1>2. \A m \in Modules : Missing(R, known, m) = (Closure(R, m) \ {m}) \ Available(R)
  BY <1>1 DEF Missing
<1>3. \A m \in Modules : cache'[m] = {} \/ cache'[m] = Closure(R, m)
  BY <1>1 DEF FindAutoInstall
<1>4. \A m \in (AutoInstall \cap Available(R)) \ names : m \in Modules /\ m \in Considered(R, names)
  BY GraphAssumption DEF Considered
<1>5. \A m \in (AutoInstall \cap Available(R)) \ names :
        Missing(R, known, m) # {} => unloaded'[m] = Missing(R, known, m)
  BY <1>4 DEF FindAutoInstall
<1> QED BY <1>2, <1>3, <1>4, <1>5

\* A step that leaves the roots, the cache and the notes alone, and takes no mark.
LEMMA NothingFound ==
  ASSUME CacheInv, NotedInv, roots' = roots, cache' = cache, unloaded' = unloaded,
         removals' = removals, loaded \subseteq loaded'
  PROVE  CacheInv' /\ NotedInv'
<1>1. LoadedNames \subseteq LoadedNames'
  BY DEF LoadedNames
<1> QED BY <1>1 DEF CacheInv, NotedInv

\* When roots are added, everything is found anew.
LEMMA FoundAnew ==
  ASSUME roots' \in SUBSET Roots, FindAutoInstall(roots', Uncached, {})
  PROVE  CacheInv' /\ NotedInv'
<1>1. \A m \in Modules : Uncached[m] = {}
  BY DEF Uncached
<1> QED BY <1>1, FindFacts DEF CacheInv, NotedInv

LEMMA AddRootFinds ==
  ASSUME TypeInv, NEW r \in Roots, AddRoot(r)
  PROVE  CacheInv' /\ NotedInv'
<1>1. roots' \in SUBSET Roots /\ FindAutoInstall(roots', Uncached, {})
  BY DEF AddRoot, TypeInv, Graphed
<1> QED BY <1>1, FoundAnew

LEMMA ConfigurationFinds ==
  ASSUME TypeInv, CacheInv, NotedInv, NEW added \in SUBSET Roots, ChangeConfiguration(added)
  PROVE  CacheInv' /\ NotedInv'
<1> SUFFICES ASSUME removals' = 0
             PROVE  CacheInv' /\ NotedInv'
  BY DEF CacheInv, NotedInv
<1> DEFINE new == (workspaces \cup added) \ roots
<1>1. removals' = removals /\ roots \cap (workspaces \cup added) = roots
  BY DEF ChangeConfiguration, TypeInv, Graphed
<1>2. roots' = roots \cup new /\ loaded' = loaded /\ roots' \in SUBSET Roots
  BY <1>1 DEF ChangeConfiguration, TypeInv, Graphed
<1>3. CASE new = {}
  <2>1. cache' = cache /\ unloaded' = unloaded
    BY <1>3 DEF ChangeConfiguration
  <2> QED BY <1>1, <1>2, <1>3, <2>1, NothingFound
<1>4. CASE new # {}
  <2>1. FindAutoInstall(roots', Uncached, {})
    BY <1>4 DEF ChangeConfiguration
  <2> QED BY <1>2, <2>1, FoundAnew
<1> QED BY <1>3, <1>4

LEMMA JoinedAllFinds ==
  ASSUME TypeInv, CacheInv, NEW b \in Active, JoinedAll(b)
  PROVE  CacheInv' /\ NotedInv'
<1>1. /\ FindAutoInstall(roots, cache, LoadedNames) /\ roots \in SUBSET Roots
      /\ roots' = roots /\ removals' = removals /\ loaded' = loaded
  BY DEF JoinedAll, config, flags, TypeInv, Graphed
<1>2. LoadedNames' = LoadedNames
  BY <1>1 DEF LoadedNames
<1> QED BY <1>1, <1>2, FindFacts DEF CacheInv, NotedInv

\* The note of a module is forgotten as it is marked.
LEMMA AutoLoadFinds ==
  ASSUME TypeInv, CacheInv, NotedInv, NEW b \in Active, NEW m \in Top(b).autos, AutoLoad(b, m)
  PROVE  CacheInv' /\ NotedInv'
<1>1. /\ roots' = roots /\ cache' = cache /\ removals' = removals
      /\ unloaded' = [unloaded EXCEPT ![m] = {}]
  BY DEF AutoLoad, config
<1>2. m \in Modules
  BY TopFacts DEF TypeInv, Called, Frame
<1>3. loaded \subseteq loaded' /\ (m \in Available(roots) => EntryOf(roots, m) \in loaded')
  <2>1. CASE Loads(m)
    <3>1. loaded' = loaded \cup Claimed(m)
      BY <2>1 DEF AutoLoad, Load
    <3> QED BY <3>1, <2>1, <1>2, ClaimedFacts DEF TypeInv, Graphed
  <2>2. CASE ~Loads(m)
    <3>1. loaded' = loaded
      BY <2>2 DEF AutoLoad, Load
    <3> QED BY <3>1, <2>2 DEF Loads
  <2> QED BY <2>1, <2>2
<1>4. LoadedNames \subseteq LoadedNames' /\ (m \in Available(roots) => m \in LoadedNames')
  BY <1>3 DEF LoadedNames, EntryOf
<1>5. \A n \in Modules : n # m => unloaded'[n] = unloaded[n]
  BY <1>1 DEF TypeInv, Graphed
<1>6. AutoInstall \subseteq Modules
  BY GraphAssumption
<1> QED BY <1>1, <1>4, <1>5, <1>6 DEF CacheInv, NotedInv

LEMMA StartBranchFinds ==
  ASSUME CacheInv, NotedInv, NEW c \in InFlight, NEW m \in call[c].pending, StartBranch(c, m)
  PROVE  CacheInv' /\ NotedInv'
<1>1. roots' = roots /\ cache' = cache /\ unloaded' = unloaded /\ removals' = removals
  BY DEF StartBranch, config
<1>2. loaded \subseteq loaded'
  BY DEF StartBranch, Load
<1> QED BY <1>1, <1>2, NothingFound

LEMMA FindStep == TypeInv /\ CacheInv /\ NotedInv /\ [Next]_vars => CacheInv' /\ NotedInv'
<1> SUFFICES ASSUME TypeInv, CacheInv, NotedInv, [Next]_vars
             PROVE  CacheInv' /\ NotedInv'
  OBVIOUS
<1>1. ASSUME NEW b \in Active, NEW f \in Top(b).tasks, JoinNext(b, f)
      PROVE  CacheInv' /\ NotedInv'
  BY <1>1, NothingFound DEF JoinNext, config, flags
<1>2. ASSUME NEW b \in Active, JoinedAll(b)
      PROVE  CacheInv' /\ NotedInv'
  BY <1>2, JoinedAllFinds
<1>3. ASSUME NEW b \in Active, NEW m \in Top(b).autos, AutoLoad(b, m)
      PROVE  CacheInv' /\ NotedInv'
  BY <1>3, AutoLoadFinds
<1>4. ASSUME NEW b \in Active, Return(b)
      PROVE  CacheInv' /\ NotedInv'
  BY <1>4, NothingFound DEF Return, config, flags
<1>5. ASSUME NEW c \in InFlight, Finish(c)
      PROVE  CacheInv' /\ NotedInv'
  BY <1>5, NothingFound DEF Finish, config
<1>6. ASSUME NEW c \in InFlight, NEW m \in call[c].pending, StartBranch(c, m)
      PROVE  CacheInv' /\ NotedInv'
  BY <1>6, StartBranchFinds
<1>7. ASSUME NEW r \in Roots, AddRoot(r)
      PROVE  CacheInv' /\ NotedInv'
  BY <1>7, AddRootFinds
<1>8. ASSUME NEW added \in {{}} \cup {{r} : r \in Roots}, ChangeConfiguration(added)
      PROVE  CacheInv' /\ NotedInv'
  <2>1. added \in SUBSET Roots
    OBVIOUS
  <2> QED BY <1>8, <2>1, ConfigurationFinds
<1>9. ASSUME NEW c \in Calls, NEW m \in Modules, LoadForDocument(c, m) \/ LoadDependents(c, m)
      PROVE  CacheInv' /\ NotedInv'
  BY <1>9, NothingFound DEF LoadForDocument, LoadDependents, config, flags
<1>10. ASSUME NEW c \in InFlight, Cancel(c)
       PROVE  CacheInv' /\ NotedInv'
  BY <1>10, NothingFound DEF Cancel, config, flags
<1>11. CASE UNCHANGED vars
  BY <1>11, NothingFound DEF vars
<1> QED BY <1>1, <1>2, <1>3, <1>4, <1>5, <1>6, <1>7, <1>8, <1>9, <1>10, <1>11 DEF Next, Progress

LEMMA NothingKnownAtFirst == Init => CacheInv /\ NotedInv
  BY DEF Init, CacheInv, NotedInv, Uncached, Available

LEMMA FindInvariant == Spec => [](CacheInv /\ NotedInv)
  BY NothingKnownAtFirst, FindStep, TypeInvariant, PTL DEF Spec

\* What find_auto_install_modules remembers of a module's dependencies is what
\* they are among the roots there are, whichever handler filled the cache and
\* whatever was added since, while no root has been removed.
THEOREM CacheIsCurrent == Spec => []CacheCurrent
<1>1. CacheInv => CacheCurrent
  BY DEF CacheInv, CacheCurrent
<1> QED BY <1>1, FindInvariant, PTL

\* An auto_install module that cannot be loaded yet is noted with exactly what it
\* misses, whatever is loaded meanwhile, while no root has been removed.
THEOREM MissingIsNoted == Spec => []MissingNoted
<1>1. NotedInv => MissingNoted
  BY DEF NotedInv, MissingNoted
<1> QED BY <1>1, FindInvariant, PTL

-----------------------------------------------------------------------------
(* What a completed search for dependents, and a completed load, leave      *)
(* unloaded: nothing, where no root is added once handlers load.            *)

\* Either every root is a workspace folder, or there is one root: then the
\* roots are complete before root_setup lets a handler load.
RootsGiven == workspaces = Roots \/ \A r, s \in Roots : r = s
RootsComplete == removals = 0 /\ (InFlight # {} \/ loaded # {} \/ complete # {}) => roots = Roots
GivenInv == RootsGiven /\ RootsComplete

\* A call for the dependents of a module has marked each or is about to.
SearchInv ==
  removals = 0 =>
    /\ \A c \in InFlight : call[c].kind = "dependents" =>
         \A d \in Dependents(Roots, call[c].entry[2]) : d \in call[c].pending \/ EntryOf(Roots, d) \in loaded
    /\ \A e \in complete : \A d \in Dependents(Roots, e[2]) : EntryOf(Roots, d) \in loaded

\* An auto_install module that could be loaded is the next of an activation, or
\* will be looked for by one that still joins its tasks.
Awaits(st, m) == \E b \in Branches : \E i \in 1..Len(st[b]) : st[b][i].joining \/ m \in st[b][i].autos
AutoInv ==
  removals = 0 /\ cancels = 0 /\ loaded # {} =>
    \A m \in AutoInstall \cap Available(Roots) :
      Closure(Roots, m) \ {m} \subseteq LoadedNames /\ m \notin LoadedNames => Awaits(stack, m)

\* The steps that leave the roots as they are, and the others.
LEMMA RootsStep ==
  ASSUME TypeInv, [Next]_vars
  PROVE  \/ UNCHANGED config
         \/ \E r \in Roots : AddRoot(r)
         \/ \E added \in SUBSET Roots : ChangeConfiguration(added)
<1>1. ASSUME NEW b \in Active, NEW f \in Top(b).tasks, JoinNext(b, f)
      PROVE  UNCHANGED config
  BY <1>1 DEF JoinNext
<1>2. ASSUME NEW b \in Active, JoinedAll(b) \/ Return(b)
      PROVE  UNCHANGED config
  BY <1>2 DEF JoinedAll, Return
<1>3. ASSUME NEW b \in Active, NEW m \in Top(b).autos, AutoLoad(b, m)
      PROVE  UNCHANGED config
  BY <1>3 DEF AutoLoad
<1>4. ASSUME NEW c \in InFlight, Finish(c) \/ Cancel(c)
      PROVE  UNCHANGED config
  BY <1>4 DEF Finish, Cancel
<1>5. ASSUME NEW c \in InFlight, NEW m \in call[c].pending, StartBranch(c, m)
      PROVE  UNCHANGED config
  BY <1>5 DEF StartBranch
<1>6. ASSUME NEW c \in Calls, NEW m \in Modules, LoadForDocument(c, m) \/ LoadDependents(c, m)
      PROVE  UNCHANGED config
  BY <1>6 DEF LoadForDocument, LoadDependents
<1>7. ASSUME NEW added \in {{}} \cup {{r} : r \in Roots}, ChangeConfiguration(added)
      PROVE  \E d \in SUBSET Roots : ChangeConfiguration(d)
  <2>1. added \in SUBSET Roots
    OBVIOUS
  <2> QED BY <1>7, <2>1
<1>8. CASE UNCHANGED vars
  BY <1>8 DEF vars, config
<1> QED BY <1>1, <1>2, <1>3, <1>4, <1>5, <1>6, <1>7, <1>8 DEF Next, Progress

\* While no root is removed, roots and marks only grow.
LEMMA Grows ==
  ASSUME TypeInv, TypeInv', [Next]_vars, removals' = 0
  PROVE  /\ removals = 0 /\ roots \subseteq roots' /\ roots' \subseteq Roots /\ workspaces \subseteq workspaces'
         /\ workspaces' \subseteq Roots /\ loaded \subseteq loaded' /\ LoadedNames \subseteq LoadedNames'
         /\ cancels' = 0 => cancels = 0
<1>1. roots' \subseteq Roots /\ workspaces' \subseteq Roots
  BY DEF TypeInv, Graphed
<1>2. removals = 0 /\ roots \subseteq roots' /\ workspaces \subseteq workspaces'
  <2>1. CASE UNCHANGED config
    BY <2>1 DEF config
  <2>2. ASSUME NEW r \in Roots, AddRoot(r)
        PROVE  removals = 0 /\ roots \subseteq roots' /\ workspaces \subseteq workspaces'
    BY <2>2 DEF AddRoot
  <2>3. ASSUME NEW added \in SUBSET Roots, ChangeConfiguration(added)
        PROVE  removals = 0 /\ roots \subseteq roots' /\ workspaces \subseteq workspaces'
    <3>1. removals = 0 /\ roots \cap (workspaces \cup added) = roots
      BY <2>3, ConfigurationEffect DEF Moves
    <3> QED BY <2>3, <3>1 DEF ChangeConfiguration
  <2> QED BY <2>1, <2>2, <2>3, RootsStep
<1>3. loaded \subseteq loaded' /\ (cancels' = 0 => cancels = 0)
  <2>1. ASSUME NEW kept, NEW new, Moves(kept, new)
        PROVE  loaded \subseteq loaded' /\ (cancels' = 0 => cancels = 0)
    BY <2>1 DEF Moves, TypeInv, Graphed
  <2>2. CASE Aborts
    <3>1. cancels' # 0
      BY <2>2 DEF Aborts
    <3> QED BY <2>2, <3>1 DEF Aborts
  <2> QED BY <2>1, <2>2, Effects DEF Quiet, Reads, Spawns
<1>4. LoadedNames \subseteq LoadedNames'
  BY <1>3 DEF LoadedNames
<1> QED BY <1>1, <1>2, <1>3, <1>4

\* A step adds a call in flight, or a mark, only for a call that root_setup let
\* through or that is in flight already.
LEMMA LoadsInFlight ==
  ASSUME TypeInv, [Next]_vars, removals' = 0,
         InFlight' # {} \/ loaded' # {} \/ complete' # {}
  PROVE  InFlight # {} \/ loaded # {} \/ complete # {} \/ (SetUp /\ Available(roots) # {})
<1>1. ASSUME NEW b \in Active PROVE InFlight # {}
  BY DEF TypeInv, Called
<1>2. ASSUME NEW c \in Calls, NEW m \in Modules, LoadForDocument(c, m) \/ LoadDependents(c, m)
      PROVE  SetUp /\ Available(roots) # {}
  BY <1>2 DEF LoadForDocument, LoadDependents, MayCall
<1>3. ASSUME NEW r \in Roots, AddRoot(r)
      PROVE  InFlight' = InFlight /\ loaded' = loaded /\ complete' = complete
  BY <1>3 DEF AddRoot, flags, InFlight
<1>4. ASSUME NEW added, ChangeConfiguration(added)
      PROVE  InFlight' = InFlight /\ loaded' \subseteq loaded /\ complete' \subseteq complete
  BY <1>4 DEF ChangeConfiguration, InFlight
<1>5. CASE UNCHANGED vars
  BY <1>5 DEF vars, InFlight
<1> QED BY <1>1, <1>2, <1>3, <1>4, <1>5 DEF Next, Progress

LEMMA GivenStep ==
  ASSUME TypeInv, TypeInv', GivenInv, [Next]_vars
  PROVE  GivenInv'
<1>1. RootsGiven'
  <2>1. workspaces \subseteq workspaces' /\ workspaces' \subseteq Roots
    <3>1. CASE UNCHANGED config
      BY <3>1 DEF config, TypeInv, Graphed
    <3>2. ASSUME NEW r \in Roots, AddRoot(r) PROVE workspaces' = workspaces
      BY <3>2 DEF AddRoot
    <3>3. ASSUME NEW added \in SUBSET Roots, ChangeConfiguration(added) PROVE workspaces \subseteq workspaces'
      BY <3>3 DEF ChangeConfiguration
    <3> QED BY <3>1, <3>2, <3>3, RootsStep DEF TypeInv, Graphed
  <2> QED BY <2>1 DEF GivenInv, RootsGiven
<1>2. RootsComplete'
  <2> SUFFICES ASSUME removals' = 0, InFlight' # {} \/ loaded' # {} \/ complete' # {} PROVE roots' = Roots
    BY DEF RootsComplete
  <2>1. removals = 0 /\ roots \subseteq roots' /\ roots' \subseteq Roots
    BY Grows
  <2>2. roots = Roots
    <3>1. CASE InFlight # {} \/ loaded # {} \/ complete # {}
      BY <2>1, <3>1 DEF GivenInv, RootsComplete
    <3>2. CASE SetUp /\ Available(roots) # {}
      <4>1. roots # {} /\ roots \subseteq Roots /\ workspaces \subseteq roots
        BY <3>2 DEF Available, SetUp, TypeInv, Graphed
      <4> QED BY <4>1 DEF GivenInv, RootsGiven
    <3> QED BY <3>1, <3>2, LoadsInFlight
  <2> QED BY <2>1, <2>2
<1> QED BY <1>1, <1>2 DEF GivenInv

LEMMA DependentsFacts ==
  ASSUME NEW R, NEW m, NEW d \in Dependents(R, m)
  PROVE  d \in Available(R)
<1>1. PICK Q \in SUBSET Roots, k \in Modules : <<R, m, d>> \in {<<Q, k, x>> : x \in LeastExtended(Q, k)}
  BY DEF Dependents, NeededBy
<1> QED BY <1>1 DEF LeastExtended

\* load_module leaves m marked, where some root has it.
LEMMA LoadMarks ==
  ASSUME TypeInv, NEW b, NEW m \in Modules, NEW below, Load(b, m, below), m \in Available(roots)
  PROVE  EntryOf(roots, m) \in loaded'
<1>1. CASE Loads(m)
  BY <1>1, ClaimedFacts DEF Load, TypeInv, Graphed
<1>2. CASE ~Loads(m)
  BY <1>2 DEF Load, Loads
<1> QED BY <1>1, <1>2

\* A step that starts no call, takes nothing from one and completes no search.
LEMMA SearchKept ==
  ASSUME SearchInv, removals = 0, loaded \subseteq loaded', complete' \subseteq complete,
         \A c \in InFlight' : c \in InFlight /\ call'[c] = call[c]
  PROVE  SearchInv'
<1>1. ASSUME NEW c \in InFlight', call'[c].kind = "dependents", NEW d \in Dependents(Roots, call'[c].entry[2])
      PROVE  d \in call'[c].pending \/ EntryOf(Roots, d) \in loaded'
  BY <1>1 DEF SearchInv
<1>2. ASSUME NEW e \in complete', NEW d \in Dependents(Roots, e[2])
      PROVE  EntryOf(Roots, d) \in loaded'
  BY <1>2 DEF SearchInv
<1> QED BY <1>1, <1>2 DEF SearchInv

LEMMA SearchStarts ==
  ASSUME TypeInv, GivenInv', SearchInv, removals = 0, removals' = 0, loaded' = loaded, complete' = complete, roots' = roots,
         NEW c \in Calls, NEW m \in Modules, LoadForDocument(c, m) \/ LoadDependents(c, m)
  PROVE  SearchInv'
<1>1. PICK kind \in {"open", "dependents"}, pending \in SUBSET Modules :
        /\ Starts(c, kind, m, pending)
        /\ kind = "dependents" => pending = Dependents(roots, m)
  BY DEF LoadForDocument, LoadDependents, Dependents
<1>2. call' = [call EXCEPT ![c] = [kind |-> kind, entry |-> EntryOf(roots, m), pending |-> pending, state |-> "running"]]
  BY <1>1 DEF Starts
<1>3. /\ call'[c].kind = kind /\ call'[c].entry = <<Home(roots, m), m>> /\ call'[c].pending = pending
      /\ call'[c].state = "running"
      /\ \A d \in Calls : d # c => call'[d] = call[d]
  BY <1>2 DEF TypeInv, Called, EntryOf
<1>4. roots = Roots
  BY <1>3 DEF GivenInv, RootsComplete, InFlight
<1>5. ASSUME NEW x \in InFlight', call'[x].kind = "dependents", NEW d \in Dependents(Roots, call'[x].entry[2])
      PROVE  d \in call'[x].pending \/ EntryOf(Roots, d) \in loaded'
  <2>1. CASE x = c
    BY <1>1, <1>3, <1>4, <1>5, <2>1
  <2>2. CASE x # c
    BY <1>3, <1>5, <2>2 DEF SearchInv, InFlight
  <2> QED BY <2>1, <2>2
<1> QED BY <1>5 DEF SearchInv

LEMMA SearchBranch ==
  ASSUME TypeInv, GivenInv, SearchInv, removals = 0, removals' = 0, loaded \subseteq loaded',
         NEW c \in InFlight, NEW m \in call[c].pending, StartBranch(c, m)
  PROVE  SearchInv'
<1>1. roots = Roots /\ m \in Modules /\ c \in Calls
  BY DEF GivenInv, RootsComplete, InFlight, TypeInv, Called, CallRecord
<1>2. call' = [call EXCEPT ![c].pending = @ \ {m}] /\ complete' = complete
  BY DEF StartBranch
<1>3. /\ call'[c].pending = call[c].pending \ {m} /\ call'[c].kind = call[c].kind /\ call'[c].entry = call[c].entry
      /\ call'[c].state = call[c].state
      /\ \A d \in Calls : d # c => call'[d] = call[d]
  BY <1>1, <1>2 DEF TypeInv, Called, CallRecord
<1>4. InFlight' = InFlight
  BY <1>3 DEF InFlight
<1>5. m \in Available(Roots) => EntryOf(Roots, m) \in loaded'
  BY <1>1, LoadMarks DEF StartBranch
<1>6. ASSUME NEW x \in InFlight', call'[x].kind = "dependents", NEW d \in Dependents(Roots, call'[x].entry[2])
      PROVE  d \in call'[x].pending \/ EntryOf(Roots, d) \in loaded'
  <2>1. CASE x = c /\ d # m
    BY <1>3, <1>4, <1>6, <2>1 DEF SearchInv
  <2>2. CASE x = c /\ d = m
    BY <1>5, <1>6, <2>2, DependentsFacts
  <2>3. CASE x # c
    BY <1>3, <1>4, <1>6, <2>3 DEF SearchInv, InFlight
  <2> QED BY <2>1, <2>2, <2>3
<1> QED BY <1>2, <1>6 DEF SearchInv

LEMMA SearchFinish ==
  ASSUME TypeInv, SearchInv, removals = 0, NEW c \in InFlight, Finish(c)
  PROVE  SearchInv'
<1>1. c \in Calls /\ call' = [call EXCEPT ![c].state = "done"] /\ loaded' = loaded /\ call[c].pending = {}
  BY DEF Finish, InFlight, Ended
<1>2. \A x \in InFlight' : x \in InFlight /\ call'[x] = call[x]
  BY <1>1 DEF InFlight, TypeInv, Called, CallRecord
<1>3. ASSUME NEW x \in InFlight', call'[x].kind = "dependents", NEW d \in Dependents(Roots, call'[x].entry[2])
      PROVE  d \in call'[x].pending \/ EntryOf(Roots, d) \in loaded'
  BY <1>1, <1>2, <1>3 DEF SearchInv
<1>4. ASSUME NEW e \in complete', NEW d \in Dependents(Roots, e[2])
      PROVE  EntryOf(Roots, d) \in loaded'
  <2>1. CASE e \in complete
    BY <1>1, <1>4, <2>1 DEF SearchInv
  <2>2. CASE e \notin complete
    <3>1. e = call[c].entry /\ call[c].kind = "dependents"
      BY <2>2 DEF Finish
    <3> QED BY <1>1, <1>4, <3>1 DEF SearchInv
  <2> QED BY <2>1, <2>2
<1> QED BY <1>3, <1>4 DEF SearchInv

LEMMA SearchStep ==
  ASSUME TypeInv, TypeInv', GivenInv, GivenInv', SearchInv, [Next]_vars
  PROVE  SearchInv'
<1> SUFFICES ASSUME removals' = 0 PROVE SearchInv'
  BY DEF SearchInv
<1>0. removals = 0 /\ loaded \subseteq loaded'
  BY Grows
<1>1. ASSUME NEW b \in Active, NEW f \in Top(b).tasks, JoinNext(b, f)
      PROVE  SearchInv'
  BY <1>0, <1>1, SearchKept DEF JoinNext, flags, InFlight
<1>2. ASSUME NEW b \in Active, JoinedAll(b) \/ Return(b)
      PROVE  SearchInv'
  BY <1>0, <1>2, SearchKept DEF JoinedAll, Return, flags, InFlight
<1>3. ASSUME NEW b \in Active, NEW m \in Top(b).autos, AutoLoad(b, m)
      PROVE  SearchInv'
  BY <1>0, <1>3, SearchKept DEF AutoLoad, InFlight
<1>4. ASSUME NEW c \in InFlight, Cancel(c)
      PROVE  SearchInv'
  <2>1. call' = [call EXCEPT ![c].state = "dropped"] /\ complete' = complete /\ c \in Calls
    BY <1>4 DEF Cancel, flags, InFlight
  <2>2. \A x \in InFlight' : x \in InFlight /\ call'[x] = call[x]
    BY <2>1 DEF InFlight, TypeInv, Called, CallRecord
  <2> QED BY <1>0, <2>1, <2>2, SearchKept
<1>5. ASSUME NEW c \in InFlight, Finish(c)
      PROVE  SearchInv'
  BY <1>0, <1>5, SearchFinish
<1>6. ASSUME NEW c \in InFlight, NEW m \in call[c].pending, StartBranch(c, m)
      PROVE  SearchInv'
  BY <1>0, <1>6, SearchBranch
<1>7. ASSUME NEW c \in Calls, NEW m \in Modules, LoadForDocument(c, m) \/ LoadDependents(c, m)
      PROVE  SearchInv'
  BY <1>0, <1>7, SearchStarts DEF LoadForDocument, LoadDependents, flags, config
<1>8. ASSUME NEW r \in Roots, AddRoot(r)
      PROVE  SearchInv'
  BY <1>0, <1>8, SearchKept DEF AddRoot, flags, InFlight
<1>9. ASSUME NEW added \in {{}} \cup {{r} : r \in Roots}, ChangeConfiguration(added)
      PROVE  SearchInv'
  BY <1>0, <1>9, SearchKept DEF ChangeConfiguration, InFlight
<1>10. CASE UNCHANGED vars
  BY <1>0, <1>10, SearchKept DEF vars, InFlight
<1> QED BY <1>1, <1>2, <1>3, <1>4, <1>5, <1>6, <1>7, <1>8, <1>9, <1>10 DEF Next, Progress

\* Where every root is a workspace folder, or there is one root, references and
\* completion are answered from all modules that depend on theirs, loaded or on
\* their way: no early return of load_modules_dependent_on leaves one out while
\* no request was dropped and no root removed.
THEOREM DependentsAreIndexed ==
  Spec /\ RootsGiven => [](removals = 0 /\ cancels = 0 => DependentsIndexed)
<1>1. Init /\ RootsGiven => GivenInv /\ SearchInv
  BY DEF Init, GivenInv, RootsComplete, SearchInv, InFlight
<1>2. TypeInv /\ TypeInv' /\ GivenInv /\ SearchInv /\ [Next]_vars => GivenInv' /\ SearchInv'
  BY GivenStep, SearchStep
<1>3. TypeInv /\ GivenInv /\ SearchInv /\ NothingStranded => (removals = 0 /\ cancels = 0 => DependentsIndexed)
  <2> SUFFICES ASSUME GivenInv, SearchInv, NothingStranded, removals = 0, cancels = 0,
                      NEW e \in complete
               PROVE  FilesOf({EntryOf(roots, d) : d \in Dependents(roots, e[2])})
                        \subseteq indexed \cup InProgress \cup Unreadable
    BY DEF DependentsIndexed
  <2>1. roots = Roots
    BY DEF GivenInv, RootsComplete
  <2>2. {EntryOf(roots, d) : d \in Dependents(roots, e[2])} \subseteq loaded
    BY <2>1 DEF SearchInv
  <2>3. FilesOf({EntryOf(roots, d) : d \in Dependents(roots, e[2])}) \subseteq FilesOf(loaded)
    BY <2>2 DEF FilesOf
  <2> QED BY <2>3 DEF NothingStranded
<1> QED BY <1>1, <1>2, <1>3, TypeInvariant, NothingLeftOut, PTL DEF Spec

\* An activation that stays, with what it awaits.
LEMMA AwaitsKept ==
  ASSUME NEW m, NEW b \in Branches, NEW i \in 1..Len(stack'[b]),
         stack'[b][i].joining \/ m \in stack'[b][i].autos
  PROVE  Awaits(stack', m)
BY DEF Awaits

LEMMA MarkedName ==
  ASSUME NEW m \in Available(roots), ~Loads(m)
  PROVE  m \in LoadedNames
<1>1. EntryOf(roots, m) \in loaded
  BY DEF Loads
<1>2. EntryOf(roots, m)[2] = m
  BY DEF EntryOf
<1> QED BY <1>1, <1>2 DEF LoadedNames

\* A load_module that claims something will look for auto_install modules when
\* its tasks have ended.
LEMMA ClaimsLook ==
  ASSUME TypeInv, NEW b \in Branches, NEW k \in Modules, NEW below \in Seq(Frame), Load(b, k, below), Loads(k), NEW m
  PROVE  Awaits(stack', m)
<1>1. Len(stack'[b]) = Len(below) + 1 /\ stack'[b][Len(below) + 1] = Activation(k) /\ Len(below) \in Nat
  BY LoadFacts, LenProperties DEF TypeInv, Called, Graphed
<1>2. Len(below) + 1 \in 1..Len(stack'[b]) /\ stack'[b][Len(below) + 1].joining
  BY <1>1 DEF Activation
<1> QED BY <1>2, AwaitsKept

LEMMA JoinNextAwaits ==
  ASSUME TypeInv, NEW b \in Active, NEW f \in Top(b).tasks, JoinNext(b, f), NEW m, Awaits(stack, m)
  PROVE  Awaits(stack', m)
<1> DEFINE frame == [Top(b) EXCEPT !.tasks = @ \ {f}]
<1>1. stack \in [Branches -> Seq(Frame)] /\ stack' = Replace(b, frame)
  BY DEF TypeInv, Called, JoinNext
<1>2. Top(b) \in Frame /\ Top(b) = stack[b][Len(stack[b])] /\ b \in Branches
  BY <1>1, TopFacts
<1>3. frame \in Frame /\ frame.joining = Top(b).joining /\ frame.autos = Top(b).autos
  BY <1>2 DEF Frame
<1> HIDE DEF frame
<1>4. PICK d \in Branches : \E i \in 1..Len(stack[d]) : stack[d][i].joining \/ m \in stack[d][i].autos
  BY DEF Awaits
<1>5. PICK i \in 1..Len(stack[d]) : stack[d][i].joining \/ m \in stack[d][i].autos
  BY <1>4
<1>6. CASE d = b
  <2>1. /\ Len(stack'[b]) = Len(stack[b])
        /\ \A j \in 1..Len(stack[b]) : stack'[b][j] = IF j = Len(stack[b]) THEN frame ELSE stack[b][j]
    BY <1>1, <1>3, ReplaceFacts
  <2>2. i \in 1..Len(stack'[b]) /\ (stack'[b][i].joining \/ m \in stack'[b][i].autos)
    BY <1>2, <1>3, <1>5, <1>6, <2>1
  <2> QED BY <1>2, <2>2, AwaitsKept
<1>7. CASE d # b
  <2>1. stack'[d] = stack[d]
    BY <1>1, <1>3, <1>7, ReplaceFacts
  <2> QED BY <1>5, <2>1, AwaitsKept
<1> QED BY <1>6, <1>7

\* find_auto_install_modules finds every module that can be loaded.
LEMMA JoinedAllAwaits ==
  ASSUME TypeInv, CacheInv, removals = 0, NEW b \in Active, JoinedAll(b),
         NEW m \in AutoInstall \cap Available(roots), Closure(roots, m) \ {m} \subseteq LoadedNames, m \notin LoadedNames
  PROVE  Awaits(stack', m)
<1> DEFINE frame == [Top(b) EXCEPT !.joining = FALSE, !.autos = Installable(roots, cache, LoadedNames)]
<1>1. m \in Modules /\ Resolve(roots, cache, m) = Closure(roots, m)
  BY GraphAssumption DEF Resolve, CacheInv
<1>2. LoadedNames \subseteq Available(roots)
  BY DEF LoadedNames, TypeInv, Graphed, EntriesOf, Entries, Available
<1>3. m \in Installable(roots, cache, LoadedNames)
  BY <1>1, <1>2 DEF Installable, Considered, Missing
<1>4. stack \in [Branches -> Seq(Frame)] /\ stack' = Replace(b, frame)
  BY DEF TypeInv, Called, JoinedAll
<1>5. Top(b) \in Frame /\ b \in Branches /\ Len(stack[b]) \in 1..Len(stack[b])
  BY <1>4, TopFacts
<1>6. Installable(roots, cache, LoadedNames) \in SUBSET Modules
  BY GraphAssumption DEF Installable, Considered
<1>7. frame \in Frame /\ m \in frame.autos
  BY <1>3, <1>5, <1>6 DEF Frame
<1> HIDE DEF frame
<1>8. Len(stack[b]) \in 1..Len(stack'[b]) /\ stack'[b][Len(stack[b])] = frame
  BY <1>4, <1>5, <1>7, ReplaceFacts
<1> QED BY <1>5, <1>7, <1>8, AwaitsKept

LEMMA AutoLoadAwaits ==
  ASSUME TypeInv, NEW b \in Active, NEW k \in Top(b).autos, AutoLoad(b, k),
         NEW m \in Available(roots), m \notin LoadedNames, loaded' = loaded => Awaits(stack, m)
  PROVE  Awaits(stack', m)
<1> DEFINE frame == [Top(b) EXCEPT !.autos = @ \ {k}]
           below == Replace(b, frame)[b]
<1>0. stack \in [Branches -> Seq(Frame)] /\ roots \subseteq Roots
  BY DEF TypeInv, Called, Graphed
<1>1. Top(b) \in Frame /\ Top(b) = stack[b][Len(stack[b])] /\ b \in Branches
  BY <1>0, TopFacts
<1>2. frame \in Frame /\ frame.joining = Top(b).joining /\ frame.autos = Top(b).autos \ {k} /\ k \in Modules
  BY <1>1 DEF Frame
<1>3. Load(b, k, below)
  BY DEF AutoLoad
<1> HIDE DEF frame
<1>4. /\ below \in Seq(Frame) /\ Len(below) = Len(stack[b])
      /\ \A i \in 1..Len(stack[b]) : below[i] = IF i = Len(stack[b]) THEN frame ELSE stack[b][i]
  <2>1. /\ Replace(b, frame) \in [Branches -> Seq(Frame)] /\ Len(Replace(b, frame)[b]) = Len(stack[b])
        /\ \A i \in 1..Len(stack[b]) :
             Replace(b, frame)[b][i] = IF i = Len(stack[b]) THEN frame ELSE stack[b][i]
    BY <1>0, <1>2, ReplaceFacts
  <2> QED BY <1>1, <2>1
<1> HIDE DEF below
<1>5. CASE Loads(k)
  BY <1>1, <1>2, <1>3, <1>4, <1>5, ClaimsLook
<1>6. CASE ~Loads(k)
  <2>1. stack'[b] = below /\ loaded' = loaded /\ \A d \in Branches : d # b => stack'[d] = stack[d]
    BY <1>0, <1>1, <1>2, <1>3, <1>4, <1>6, LoadFacts
  <2>2. k # m
    BY <1>6, MarkedName
  <2>3. PICK d \in Branches : \E i \in 1..Len(stack[d]) : stack[d][i].joining \/ m \in stack[d][i].autos
    BY <2>1 DEF Awaits
  <2>4. PICK i \in 1..Len(stack[d]) : stack[d][i].joining \/ m \in stack[d][i].autos
    BY <2>3
  <2>5. CASE d = b
    <3>1. i \in 1..Len(stack'[b]) /\ (stack'[b][i].joining \/ m \in stack'[b][i].autos)
      BY <1>1, <1>2, <1>4, <2>1, <2>2, <2>4, <2>5
    <3> QED BY <1>1, <3>1, AwaitsKept
  <2>6. CASE d # b
    <3>1. stack'[d] = stack[d]
      BY <2>1, <2>6
    <3> QED BY <2>4, <3>1, AwaitsKept
  <2> QED BY <2>5, <2>6
<1> QED BY <1>5, <1>6

\* An activation returns when it has nothing left to load.
LEMMA ReturnAwaits ==
  ASSUME TypeInv, NEW b \in Active, Return(b), NEW m, Awaits(stack, m)
  PROVE  Awaits(stack', m)
<1>1. /\ stack \in [Branches -> Seq(Frame)] /\ b \in Branches /\ Len(stack[b]) \in Nat \ {0}
      /\ Top(b) = stack[b][Len(stack[b])]
  BY TopFacts DEF TypeInv, Called
<1>2. PICK below : below = SubSeq(stack[b], 1, Len(stack[b]) - 1)
  OBVIOUS
<1>3. /\ Len(below) = Len(stack[b]) - 1
      /\ \A i \in 1..Len(below) : below[i] = stack[b][i]
  BY <1>1, <1>2, ReturnFacts
<1>4. ~Top(b).joining /\ Top(b).autos = {} /\ stack' = [stack EXCEPT ![b] = below]
  BY <1>2 DEF Return
<1>5. PICK d \in Branches : \E i \in 1..Len(stack[d]) : stack[d][i].joining \/ m \in stack[d][i].autos
  BY DEF Awaits
<1>6. PICK i \in 1..Len(stack[d]) : stack[d][i].joining \/ m \in stack[d][i].autos
  BY <1>5
<1>7. CASE d = b
  <2>1. i # Len(stack[b]) /\ i \in 1..Len(below) /\ stack'[b] = below
    BY <1>1, <1>3, <1>4, <1>6, <1>7
  <2>2. i \in 1..Len(stack'[b]) /\ (stack'[b][i].joining \/ m \in stack'[b][i].autos)
    BY <1>3, <1>6, <1>7, <2>1
  <2> QED BY <1>1, <2>2, AwaitsKept
<1>8. CASE d # b
  <2>1. stack'[d] = stack[d]
    BY <1>1, <1>4, <1>8
  <2> QED BY <1>6, <2>1, AwaitsKept
<1> QED BY <1>7, <1>8

LEMMA AutoStep ==
  ASSUME TypeInv, TypeInv', GivenInv, GivenInv', CacheInv, AutoInv, [Next]_vars
  PROVE  AutoInv'
<1> SUFFICES ASSUME removals' = 0, cancels' = 0, loaded' # {},
                    NEW m \in AutoInstall \cap Available(Roots),
                    Closure(Roots, m) \ {m} \subseteq LoadedNames', m \notin LoadedNames'
             PROVE  Awaits(stack', m)
  BY DEF AutoInv
<1>0. /\ removals = 0 /\ cancels = 0 /\ m \notin LoadedNames
      /\ loaded' = loaded => Awaits(stack, m) /\ LoadedNames' = LoadedNames
  <2>1. removals = 0 /\ cancels = 0 /\ LoadedNames \subseteq LoadedNames'
    BY Grows
  <2>2. loaded' = loaded => LoadedNames' = LoadedNames
    BY DEF LoadedNames
  <2> QED BY <2>1, <2>2 DEF AutoInv
<1>1. ASSUME NEW b \in Active, NEW f \in Top(b).tasks, JoinNext(b, f)
      PROVE  Awaits(stack', m)
  BY <1>0, <1>1, JoinNextAwaits DEF JoinNext, flags
<1>2. ASSUME NEW b \in Active, JoinedAll(b)
      PROVE  Awaits(stack', m)
  <2>1. roots = Roots /\ loaded' = loaded
    BY <1>0, <1>2 DEF JoinedAll, flags, GivenInv, RootsComplete
  <2> QED BY <1>0, <1>2, <2>1, JoinedAllAwaits
<1>3. ASSUME NEW b \in Active, NEW k \in Top(b).autos, AutoLoad(b, k)
      PROVE  Awaits(stack', m)
  <2>1. roots = Roots
    BY <1>0 DEF TypeInv, Called, GivenInv, RootsComplete
  <2> QED BY <1>0, <1>3, <2>1, AutoLoadAwaits
<1>4. ASSUME NEW b \in Active, Return(b)
      PROVE  Awaits(stack', m)
  BY <1>0, <1>4, ReturnAwaits DEF Return, flags
<1>5. ASSUME NEW c \in InFlight, NEW k \in call[c].pending, StartBranch(c, k)
      PROVE  Awaits(stack', m)
  <2>1. /\ <<c, k>> \in Branches /\ k \in Modules /\ stack[<<c, k>>] = <<>> /\ <<>> \in Seq(Frame)
        /\ stack \in [Branches -> Seq(Frame)] /\ roots \subseteq Roots
    BY EmptySeq DEF TypeInv, Called, Graphed, CallRecord, InFlight, Branches, Unstarted
  <2>2. Load(<<c, k>>, k, <<>>)
    BY <1>5 DEF StartBranch
  <2>3. CASE Loads(k)
    BY <2>1, <2>2, <2>3, ClaimsLook
  <2>4. CASE ~Loads(k)
    <3>1. stack' = stack /\ loaded' = loaded
      BY <2>1, <2>2, <2>4 DEF Load
    <3> QED BY <1>0, <3>1
  <2> QED BY <2>3, <2>4
<1>6. ASSUME NEW c \in InFlight, Finish(c)
      PROVE  Awaits(stack', m)
  BY <1>0, <1>6 DEF Finish
<1>7. ASSUME NEW c \in Calls, NEW k \in Modules, LoadForDocument(c, k) \/ LoadDependents(c, k)
      PROVE  Awaits(stack', m)
  BY <1>0, <1>7 DEF LoadForDocument, LoadDependents, flags
<1>8. ASSUME NEW c \in InFlight, Cancel(c)
      PROVE  Awaits(stack', m)
  BY <1>8, CancelEffect DEF Aborts
<1>9. ASSUME NEW r \in Roots, AddRoot(r)
      PROVE  Awaits(stack', m)
  BY <1>0, <1>9 DEF AddRoot, flags
<1>10. ASSUME NEW added \in {{}} \cup {{r} : r \in Roots}, ChangeConfiguration(added)
       PROVE  Awaits(stack', m)
  <2>1. stack' = stack
    BY <1>10 DEF ChangeConfiguration
  <2>2. loaded' \subseteq loaded /\ loaded \subseteq loaded'
    BY <1>10, Grows DEF ChangeConfiguration
  <2> QED BY <1>0, <2>1, <2>2
<1>11. CASE UNCHANGED vars
  BY <1>0, <1>11 DEF vars
<1> QED BY <1>1, <1>2, <1>3, <1>4, <1>5, <1>6, <1>7, <1>8, <1>9, <1>10, <1>11 DEF Next, Progress

\* Where every root is a workspace folder, or there is one root: whichever
\* handlers loaded its dependencies, and however their loading interleaved, no
\* auto_install module that can be loaded is left out when all of them are done,
\* unless one was dropped.
THEOREM AutoInstallIsComplete ==
  Spec /\ RootsGiven => [](removals = 0 => AutoInstallComplete)
<1>1. Init /\ RootsGiven => GivenInv /\ AutoInv
  BY DEF Init, GivenInv, RootsComplete, AutoInv, InFlight
<1>2. TypeInv /\ TypeInv' /\ CacheInv /\ GivenInv /\ AutoInv /\ [Next]_vars => GivenInv' /\ AutoInv'
  BY GivenStep, AutoStep
<1>3. TypeInv /\ GivenInv /\ AutoInv => (removals = 0 => AutoInstallComplete)
  <2> SUFFICES ASSUME TypeInv, GivenInv, AutoInv, removals = 0, InFlight = {}, cancels = 0, loaded # {},
                      NEW m \in AutoInstall \cap Available(roots),
                      Closure(roots, m) \ {m} \subseteq LoadedNames, m \notin LoadedNames
               PROVE  FALSE
    BY DEF AutoInstallComplete
  <2>1. Awaits(stack, m)
    BY DEF GivenInv, RootsComplete, AutoInv
  <2>2. PICK b \in Branches : \E i \in 1..Len(stack[b]) : TRUE
    BY <2>1 DEF Awaits
  <2>3. stack[b] # <<>>
    BY <2>2, EmptySeq
  <2> QED BY <2>3 DEF Active, TypeInv, Called
<1> QED BY <1>1, <1>2, <1>3, TypeInvariant, FindInvariant, PTL DEF Spec

=============================================================================
