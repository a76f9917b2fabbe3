---------------------------- MODULE ExperienceProofs ----------------------------
(***************************************************************************)
(* Proofs about Experience and the search it plays, for any tensors,       *)
(* actions and limits: types and table, the buffer's rows, the walks and   *)
(* visits of the search, and the episodes and returns in the buffer.       *)
(***************************************************************************)
EXTENDS Experience, SumTheorems, SequenceTheorems

NodeRecords == [visits : Nat, expanded : BOOLEAN]
EdgeRecords == [visits : Nat, child : Keys \cup {NoChild}]

(* The inductive invariant of a search: its table is finite besides.       *)
SearchInv == SearchTypeOK /\ IsFiniteSet(DOMAIN nodes) /\ TableIsExact

(* A child of a node with moves left is a key again.                       *)
LEMMA KeysAreClosed ==
  ASSUME NEW k \in Keys, k.remaining > 0, NEW a \in Actions
  PROVE  Child(k, a) \in Keys
<1>1. a \in Tensors
  BY SearchConstants
<1>2. Subtract(k.residual, a) \in Tensors
  BY <1>1 DEF Keys, Tensors, Subtract
<1>3. k.remaining - 1 \in Nat
  BY DEF Keys
<1> QED BY <1>2, <1>3 DEF Child, Keys

(* A search that is built has a table of its root alone.                   *)
LEMMA FreshTable ==
  ASSUME NEW r \in Keys
  PROVE  /\ [k \in {r} |-> Unvisited] \in [{r} -> NodeRecords]
         /\ IsFiniteSet({r}) /\ Cardinality({r}) <= NodeLimit
         /\ [e \in {} |-> Untaken] \in [{} -> EdgeRecords]
<1>1. Unvisited \in NodeRecords
  BY DEF Unvisited, NodeRecords
<1>2. NodeLimit \in Nat \ {0}
  BY SearchConstants
<1>3. IsFiniteSet({r}) /\ Cardinality({r}) = 1
  BY FS_Singleton
<1>4. Cardinality({r}) <= NodeLimit
  BY <1>2, <1>3
<1> QED BY <1>1, <1>3, <1>4

(* The search an episode begins with satisfies SearchInv.                  *)
LEMMA SearchStarts ==
  ASSUME NEW t \in Tensors, NEW m \in Nat \ {0}, SearchInit(t, m)
  PROVE  SearchInv
<1>1. Root \in Keys
  BY DEF SearchInit, Root, Keys
<1>2. DOMAIN nodes = {Root} /\ DOMAIN edges = {} /\ nodes = [k \in {Root} |-> Unvisited]
  BY DEF SearchInit
<1>3. nodes \in [DOMAIN nodes -> NodeRecords] /\ edges \in [DOMAIN edges -> EdgeRecords]
  BY <1>1, <1>2, FreshTable DEF SearchInit
<1>4. TableIsExact /\ IsFiniteSet(DOMAIN nodes)
  BY <1>1, <1>2, FreshTable DEF TableIsExact
<1>5. runs \in 0 .. Simulations
  BY SearchConstants DEF SearchInit
<1>6. path \in Seq(DOMAIN edges)
  BY EmptySeq DEF SearchInit
<1> QED
  BY <1>1, <1>2, <1>3, <1>4, <1>5, <1>6 DEF SearchInit, SearchInv, SearchTypeOK, NodeRecords, EdgeRecords

(* So does every search that is built later.                               *)
LEMMA SearchRestarts ==
  ASSUME NEW t \in Tensors, NEW m \in Nat \ {0}, Search(t, m)
  PROVE  SearchInv'
<1>1. Root' \in Keys
  BY DEF Search, Root, Keys
<1>2. DOMAIN nodes' = {Root'} /\ DOMAIN edges' = {} /\ nodes' = [k \in {Root'} |-> Unvisited]
  BY DEF Search
<1>3. nodes' \in [DOMAIN nodes' -> NodeRecords] /\ edges' \in [DOMAIN edges' -> EdgeRecords]
  BY <1>1, <1>2, FreshTable DEF Search
<1>4. TableIsExact' /\ IsFiniteSet(DOMAIN nodes')
  BY <1>1, <1>2, FreshTable DEF TableIsExact
<1>5. runs' \in 0 .. Simulations
  BY SearchConstants DEF Search
<1>6. path' \in Seq(DOMAIN edges')
  BY EmptySeq DEF Search
<1> QED
  BY <1>1, <1>2, <1>3, <1>4, <1>5, <1>6 DEF Search, SearchInv, SearchTypeOK, NodeRecords, EdgeRecords
-----------------------------------------------------------------------------
(* What the step of a walk to a child does to it.                          *)
LEMMA WalkAdvances ==
  ASSUME NEW D, NEW E, path \in Seq(E), at \in D, search \in {"ready", "walk", "backup", "done"},
         NEW e \in E, NEW c \in D, Advance(e, c)
  PROVE  path' \in Seq(E) /\ at' \in D /\ search' \in {"ready", "walk", "backup", "done"}
BY AppendProperties DEF Advance

(* No step of a search breaks SearchInv.                                   *)
LEMMA SearchStepKeeps == ASSUME SearchInv, SearchStep PROVE SearchInv'
<1> USE DEF table, walk, flags
<1>1. /\ nodes \in [DOMAIN nodes -> NodeRecords] /\ edges \in [DOMAIN edges -> EdgeRecords]
      /\ DOMAIN nodes \subseteq Keys /\ at \in DOMAIN nodes /\ path \in Seq(DOMAIN edges)
      /\ DOMAIN edges \subseteq [from : DOMAIN nodes, action : Actions]
      /\ search \in {"ready", "walk", "backup", "done"} /\ runs \in 0 .. Simulations
      /\ target \in Tensors /\ moves \in Nat \ {0} /\ Root \in DOMAIN nodes
      /\ solution \in Seq(Actions) \cup {NoSolution}
  BY DEF SearchInv, SearchTypeOK, NodeRecords, EdgeRecords
<1>2. \A e \in DOMAIN edges : edges[e].child # NoChild =>
        edges[e].child = Child(e.from, e.action) /\ edges[e].child \in DOMAIN nodes
  BY DEF SearchInv, TableIsExact
<1>3. IsFiniteSet(DOMAIN nodes) /\ Cardinality(DOMAIN nodes) <= NodeLimit
  BY DEF SearchInv, TableIsExact
<1>4. target' = target /\ moves' = moves /\ Root' = Root
  BY DEF SearchStep, StartSimulation, TimeOut, SimulationsSpent, Expand, StopAtLeaf, Backup, Follow,
         Link, HitLimit, Root
<1>5. CASE StartSimulation
  <2>1. runs' \in 0 .. Simulations
    BY <1>1, <1>5, SearchConstants DEF StartSimulation
  <2>2. path' \in Seq(DOMAIN edges)
    BY <1>5, EmptySeq DEF StartSimulation
  <2> QED BY <1>1, <1>4, <1>5, <2>1, <2>2 DEF StartSimulation, SearchInv, SearchTypeOK, TableIsExact
<1>6. CASE TimeOut \/ SimulationsSpent \/ StopAtLeaf \/ \E a \in Actions : HitLimit(a)
  BY <1>1, <1>4, <1>6
  DEF TimeOut, SimulationsSpent, StopAtLeaf, HitLimit, SearchInv, SearchTypeOK, TableIsExact
<1>7. ASSUME NEW a \in Actions, Follow(a) PROVE SearchInv'
  <2>1. Edge(at, a) \in DOMAIN edges /\ edges[Edge(at, a)].child \in DOMAIN nodes
    BY <1>2, <1>7 DEF Follow, Support
  <2>2. UNCHANGED <<target, moves, nodes, edges, runs, limited, timedOut, solution>>
    BY <1>7 DEF Follow
  <2>3. /\ path' \in Seq(DOMAIN edges) /\ at' \in DOMAIN nodes
        /\ search' \in {"ready", "walk", "backup", "done"}
    BY <1>1, <1>7, <2>1, WalkAdvances DEF Follow
  <2> QED BY <1>4, <2>2, <2>3 DEF SearchInv, SearchTypeOK, TableIsExact
<1>8. CASE Expand
  <2>1. PICK P \in SUBSET Actions :
          edges' = [e \in DOMAIN edges \cup {Edge(at, a) : a \in P} |->
                      IF e \in DOMAIN edges THEN edges[e] ELSE Untaken]
    BY <1>8 DEF Expand
  <2>2. /\ nodes' = [nodes EXCEPT ![at].expanded = TRUE] /\ search' = "backup"
        /\ UNCHANGED <<at, path, runs, limited, timedOut, solution>>
    BY <1>8 DEF Expand
  <2>3. DOMAIN nodes' = DOMAIN nodes /\ nodes' \in [DOMAIN nodes -> NodeRecords]
    BY <1>1, <2>2 DEF NodeRecords
  <2>4. Untaken \in EdgeRecords /\ Untaken.child = NoChild
    BY DEF Untaken, EdgeRecords
  <2>5. DOMAIN edges' \subseteq [from : DOMAIN nodes, action : Actions]
    BY <1>1, <2>1 DEF Edge
  <2>6. edges' \in [DOMAIN edges' -> EdgeRecords]
    BY <1>1, <2>1, <2>4
  <2>7. path' \in Seq(DOMAIN edges')
    <3>1. DOMAIN edges \subseteq DOMAIN edges'
      BY <2>1
    <3> QED BY <1>1, <2>2, <3>1, SeqMonotonic
  <2>8. TableIsExact'
    BY <1>2, <1>3, <2>1, <2>3, <2>4 DEF TableIsExact
  <2>9. /\ target' \in Tensors /\ moves' \in Nat \ {0} /\ limited' \in BOOLEAN /\ timedOut' \in BOOLEAN
    BY <1>4, <2>2 DEF SearchInv, SearchTypeOK
  <2> QED BY <1>1, <1>3, <1>4, <2>2, <2>3, <2>5, <2>6, <2>7, <2>8, <2>9
          DEF SearchInv, SearchTypeOK, NodeRecords, EdgeRecords
<1>9. ASSUME NEW a \in Actions, Link(a) PROVE SearchInv'
  <2> DEFINE e == Edge(at, a)
             child == Child(at, a)
  <2>1. /\ Walking /\ a \in Support(at) /\ edges[e].child = NoChild /\ Room(child)
        /\ nodes' = [k \in DOMAIN nodes \cup {child} |-> IF k \in DOMAIN nodes THEN nodes[k] ELSE Unvisited]
        /\ edges' = [edges EXCEPT ![e].child = child] /\ Advance(e, child)
        /\ UNCHANGED <<runs, limited, timedOut, solution>>
    BY <1>9 DEF Link
  <2>2. e \in DOMAIN edges /\ e.from = at /\ e.action = a
    BY <2>1 DEF Support, Edge
  <2>3. child \in Keys
    BY <1>1, <2>1, KeysAreClosed DEF Walking
  <2>4. child = Child(e.from, e.action)
    BY <2>2
  <2> HIDE DEF e, child
  <2>5. Unvisited \in NodeRecords
    BY DEF Unvisited, NodeRecords
  <2>6. DOMAIN nodes' = DOMAIN nodes \cup {child} /\ nodes' \in [DOMAIN nodes' -> NodeRecords]
    BY <1>1, <2>1, <2>5
  <2>7. DOMAIN edges' = DOMAIN edges /\ edges' \in [DOMAIN edges -> EdgeRecords]
    BY <1>1, <2>1, <2>3 DEF EdgeRecords
  <2>8. DOMAIN edges' \subseteq [from : DOMAIN nodes', action : Actions]
    BY <1>1, <2>6, <2>7
  <2>9. IsFiniteSet(DOMAIN nodes') /\ Cardinality(DOMAIN nodes') <= NodeLimit
    <3>1. CASE child \in DOMAIN nodes
      <4>1. DOMAIN nodes' = DOMAIN nodes
        BY <2>6, <3>1
      <4> QED BY <1>3, <4>1
    <3>2. CASE child \notin DOMAIN nodes
      <4>1. Cardinality(DOMAIN nodes) < NodeLimit
        BY <2>1, <3>2 DEF Room
      <4>2. /\ IsFiniteSet(DOMAIN nodes \cup {child})
            /\ Cardinality(DOMAIN nodes \cup {child}) = Cardinality(DOMAIN nodes) + 1
        BY <1>3, <3>2, FS_AddElement
      <4>3. Cardinality(DOMAIN nodes) \in Nat /\ NodeLimit \in Nat
        BY <1>3, FS_CardinalityType, SearchConstants
      <4>4. Cardinality(DOMAIN nodes) + 1 <= NodeLimit
        BY <4>1, <4>3
      <4> QED BY <2>6, <4>2, <4>4
    <3> QED BY <3>1, <3>2
  <2>10. ASSUME NEW f \in DOMAIN edges', edges'[f].child # NoChild
         PROVE  edges'[f].child = Child(f.from, f.action) /\ edges'[f].child \in DOMAIN nodes'
    <3>1. CASE f = e
      <4>1. edges'[e].child = child
        BY <1>1, <2>1, <2>2 DEF EdgeRecords
      <4> QED BY <2>4, <2>6, <3>1, <4>1
    <3>2. CASE f # e
      BY <1>2, <2>1, <2>6, <2>7, <2>10, <3>2
    <3> QED BY <3>1, <3>2
  <2>11. /\ path' \in Seq(DOMAIN edges) /\ at' \in DOMAIN nodes'
         /\ search' \in {"ready", "walk", "backup", "done"}
    <3>1. at \in DOMAIN nodes' /\ child \in DOMAIN nodes'
      BY <1>1, <2>6
    <3> QED BY <1>1, <2>1, <2>2, <3>1, WalkAdvances
  <2>12. /\ target' \in Tensors /\ moves' \in Nat \ {0} /\ limited' \in BOOLEAN /\ timedOut' \in BOOLEAN
    BY <1>4, <2>1 DEF SearchInv, SearchTypeOK
  <2>13. DOMAIN nodes' \subseteq Keys /\ Root' \in DOMAIN nodes'
    BY <1>1, <1>4, <2>3, <2>6
  <2>14. runs' \in 0 .. Simulations /\ solution' \in Seq(Actions) \cup {NoSolution}
    BY <1>1, <2>1
  <2>15. TableIsExact'
    BY <2>9, <2>10 DEF TableIsExact
  <2> QED BY <2>6, <2>7, <2>8, <2>9, <2>11, <2>12, <2>13, <2>14, <2>15
          DEF SearchInv, SearchTypeOK, NodeRecords, EdgeRecords
<1>10. CASE Backup
  <2>1. /\ nodes' = [k \in DOMAIN nodes |->
                      IF k \in Seen THEN [nodes[k] EXCEPT !.visits = @ + 1] ELSE nodes[k]]
        /\ edges' = [e \in DOMAIN edges |->
                      IF e \in Range(path) THEN [edges[e] EXCEPT !.visits = @ + 1] ELSE edges[e]]
        /\ search' = "ready" /\ UNCHANGED <<at, path, runs, limited, timedOut>>
        /\ solution' \in {Trajectory, solution}
    BY <1>10 DEF Backup
  <2>2. \A k \in DOMAIN nodes : [nodes[k] EXCEPT !.visits = @ + 1] \in NodeRecords
    BY <1>1 DEF NodeRecords
  <2>3. \A e \in DOMAIN edges : /\ [edges[e] EXCEPT !.visits = @ + 1] \in EdgeRecords
                               /\ [edges[e] EXCEPT !.visits = @ + 1].child = edges[e].child
    <3>1. \A r \in EdgeRecords : /\ [r EXCEPT !.visits = @ + 1] \in EdgeRecords
                                 /\ [r EXCEPT !.visits = @ + 1].child = r.child
      BY DEF EdgeRecords
    <3> QED BY <1>1, <3>1
  <2>4. DOMAIN nodes' = DOMAIN nodes /\ nodes' \in [DOMAIN nodes -> NodeRecords]
    BY <1>1, <2>1, <2>2
  <2>5. /\ DOMAIN edges' = DOMAIN edges /\ edges' \in [DOMAIN edges -> EdgeRecords]
        /\ \A e \in DOMAIN edges : edges'[e].child = edges[e].child
    BY <1>1, <2>1, <2>3
  <2>6. Trajectory \in Seq(Actions)
    <3>1. Len(path) \in Nat /\ DOMAIN path = 1 .. Len(path) /\ path \in [1 .. Len(path) -> DOMAIN edges]
      BY <1>1, LenProperties
    <3>2. Trajectory \in [1 .. Len(path) -> Actions]
      BY <1>1, <3>1 DEF Trajectory
    <3> QED BY <3>1, <3>2, SeqDef
  <2>7. solution' \in Seq(Actions) \cup {NoSolution}
    BY <1>1, <2>1, <2>6
  <2>8. TableIsExact'
    BY <1>2, <1>3, <2>4, <2>5 DEF TableIsExact
  <2>9. /\ target' \in Tensors /\ moves' \in Nat \ {0} /\ limited' \in BOOLEAN /\ timedOut' \in BOOLEAN
    BY <1>4, <2>1 DEF SearchInv, SearchTypeOK
  <2> QED BY <1>1, <1>3, <1>4, <2>1, <2>4, <2>5, <2>7, <2>8, <2>9
          DEF SearchInv, SearchTypeOK, NodeRecords, EdgeRecords
<1> QED
  BY <1>5, <1>6, <1>7, <1>8, <1>9, <1>10 DEF SearchStep
-----------------------------------------------------------------------------
(* An episode is typed with its history, which the types of the model      *)
(* leave open.                                                             *)
Ids == [target : Targets, seed : Seeds]
DecisionRecords ==
  [episode : Ids, depth : Nat, residual : Tensors, action : Actions, next : Tensors]
Games == [target : Targets, seed : Seeds, residual : Tensors, history : Seq(DecisionRecords),
          outcome : Outcomes \cup {"none"}]

ExperienceInv ==
  /\ SearchInv /\ game \in Games
  /\ phase \in {"loop", "search", "add", "next"}
  /\ Range(decisions) \subseteq Int \cup {NoReturn}
  /\ played \in 1 .. Plays
  /\ phase = "search" => moves = Left /\ target = game.residual

(* The zero tensor is a tensor.                                            *)
LEMMA ZeroIsTensor == Zero \in Tensors
BY DEF Zero, Tensors

(* A new episode is a game.                                                *)
LEMMA NewIsTyped == ASSUME NEW t \in Targets, NEW s \in Seeds PROVE New(t, s) \in Games
<1>1. t \in Tensors
  BY ExperienceConstants
<1>2. << >> \in Seq(DecisionRecords)
  BY EmptySeq
<1> QED BY <1>1, <1>2 DEF New, Games

(* The initial states satisfy the invariant.                               *)
LEMMA ExperienceInit == ASSUME Init PROVE ExperienceInv
<1>1. MaxMoves \in Nat \ {0} /\ Plays \in Nat \ {0}
  BY ExperienceConstants
<1>2. SearchInv
  BY <1>1, ZeroIsTensor, SearchStarts DEF Init
<1>3. game \in Games
  BY NewIsTyped DEF Init
<1>4. Range(decisions) = {}
  BY DEF Init, Range
<1> QED BY <1>1, <1>2, <1>3, <1>4 DEF Init, ExperienceInv

(* Every step preserves it.                                                *)
LEMMA ExperienceStep == ASSUME ExperienceInv, [Next]_vars PROVE ExperienceInv'
<1> USE DEF buffer
<1>1. MaxMoves \in Nat \ {0} /\ Plays \in Nat \ {0}
  BY ExperienceConstants
<1>2. /\ game \in Games /\ game.history \in Seq(DecisionRecords) /\ Len(game.history) \in Nat
      /\ Range(decisions) \subseteq Int \cup {NoReturn} /\ played \in 1 .. Plays
  BY DEF ExperienceInv, Games
<1>3. Forget => SearchInv'
  BY <1>1, ZeroIsTensor, SearchStarts, SearchRestarts DEF Forget
<1>4. ASSUME NEW o \in Outcomes, End(o) PROVE ExperienceInv'
  <2>1. game' \in Games /\ phase' = "add" /\ UNCHANGED <<episodes, decisions, played>>
    BY <1>2, <1>4 DEF End, Games
  <2> QED BY <1>2, <1>3, <1>4, <2>1 DEF End, ExperienceInv
<1>5. CASE GameOver \/ Interrupt \/ NoSupport
  BY <1>4, <1>5 DEF GameOver, Interrupt, NoSupport, Outcomes
<1>6. CASE NewSearch
  <2>1. Left \in Nat \ {0}
    BY <1>1, <1>2, <1>6 DEF NewSearch, Left, Depth, Truncated
  <2>2. game.residual \in Tensors
    BY <1>2 DEF Games
  <2>3. SearchInv'
    BY <1>6, <2>1, <2>2, SearchRestarts DEF NewSearch
  <2>4. /\ UNCHANGED <<game, decisions, played>> /\ phase' = "search"
        /\ target' = game.residual /\ moves' = Left
    BY <1>6 DEF NewSearch, Search
  <2> QED BY <1>2, <2>3, <2>4 DEF ExperienceInv, Left, Depth
<1>7. CASE Searching
  <2>1. SearchInv'
    BY <1>7, SearchStepKeeps DEF Searching, ExperienceInv
  <2>2. target' = target /\ moves' = moves
    BY <1>7 DEF Searching, SearchStep, StartSimulation, TimeOut, SimulationsSpent, Expand, StopAtLeaf,
                Backup, Follow, Link, HitLimit
  <2> QED BY <1>2, <1>7, <2>1, <2>2 DEF Searching, ExperienceInv, Left, Depth
<1>8. ASSUME NEW a \in Actions, Decide(a) PROVE ExperienceInv'
  <2>1. game.residual \in Tensors /\ a \in Tensors
    BY <1>2, SearchConstants DEF Games
  <2>2. Subtract(game.residual, a) \in Tensors
    BY <2>1 DEF Subtract, Tensors
  <2>3. Decision(a) \in DecisionRecords
    BY <1>2, <2>1, <2>2 DEF Decision, DecisionRecords, Id, Ids, Depth, Games
  <2>4. Append(game.history, Decision(a)) \in Seq(DecisionRecords)
    BY <1>2, <2>3, AppendProperties
  <2>5. game' \in Games
    BY <1>2, <1>8, <2>2, <2>4 DEF Decide, Games
  <2>6. phase' = "loop" /\ UNCHANGED <<decisions, played>> /\ SearchInv'
    BY <1>3, <1>8 DEF Decide
  <2> QED BY <1>2, <2>5, <2>6 DEF ExperienceInv
<1>9. CASE Add
  <2>1. \A d \in RowsOf(game) : d.depth \in Nat
    <3>1. \A i \in DOMAIN game.history : game.history[i] \in DecisionRecords
      BY <1>2, LenProperties
    <3> QED BY <3>1 DEF RowsOf, Range, DecisionRecords
  <2>2. \A d \in RowsOf(game) : Return(d.depth + 1) \in Int \cup {NoReturn}
    BY <1>1, <1>2, <2>1 DEF Return, Base, Depth
  <2>3. Range(decisions') \subseteq Int \cup {NoReturn}
    BY <1>2, <1>9, <2>2 DEF Add, Range
  <2>4. UNCHANGED <<searchVars, game, played>> /\ phase' = "next"
    BY <1>9 DEF Add
  <2>5. SearchInv'
    BY <2>4 DEF searchVars, ExperienceInv, SearchInv, SearchTypeOK, TableIsExact, Root
  <2> QED BY <1>2, <2>3, <2>4, <2>5 DEF ExperienceInv
<1>10. CASE RefuseDuplicate \/ (\E t \in Targets, s \in Seeds : NextEpisode(t, s)) \/ UNCHANGED vars
  <2>1. UNCHANGED <<searchVars, decisions>>
    BY <1>10 DEF RefuseDuplicate, NextEpisode, vars
  <2>2. SearchInv'
    BY <2>1 DEF searchVars, ExperienceInv, SearchInv, SearchTypeOK, TableIsExact, Root
  <2>3. game' \in Games /\ played' \in 1 .. Plays
    BY <1>1, <1>2, <1>10, NewIsTyped DEF RefuseDuplicate, NextEpisode, vars
  <2>4. CASE phase' # "search"
    BY <1>2, <1>10, <2>1, <2>2, <2>3, <2>4 DEF RefuseDuplicate, NextEpisode, vars, ExperienceInv
  <2>5. CASE phase' = "search"
    BY <1>2, <1>10, <2>1, <2>2, <2>3, <2>5
    DEF RefuseDuplicate, NextEpisode, vars, searchVars, ExperienceInv, Left, Depth
  <2> QED BY <2>4, <2>5
<1> QED
  BY <1>5, <1>6, <1>7, <1>8, <1>9, <1>10 DEF Next

(* The inductive invariant of search, game and buffer holds of every       *)
(* reachable state.                                                        *)
THEOREM ExperienceInvariant == Spec => []ExperienceInv
<1>1. Init => ExperienceInv
  BY ExperienceInit
<1>2. ExperienceInv /\ [Next]_vars => ExperienceInv'
  BY ExperienceStep
<1> QED BY <1>1, <1>2, PTL DEF Spec

(* Search, game and buffer keep their types.                               *)
THEOREM ExperienceTypeCorrect == Spec => []TypeOK
<1>1. ExperienceInv => TypeOK
  BY DEF ExperienceInv, SearchInv, TypeOK, Games
<1> QED BY <1>1, ExperienceInvariant, PTL

(* In every search of every episode the table keeps its limit, and every   *)
(* cached child is in it and is exactly its parent's less the action.      *)
THEOREM SearchTableIsExact == Spec => []TableIsExact
<1>1. ExperienceInv => TableIsExact
  BY DEF ExperienceInv, SearchInv
<1> QED BY <1>1, ExperienceInvariant, PTL
-----------------------------------------------------------------------------
(* The buffer: every decision names the episode it is of.                  *)
Named(ep) == ep \in Games /\ \A d \in RowsOf(ep) : d.episode = Id(ep)
BufferInv ==
  /\ episodes \in Seq(Games)
  /\ Named(game) /\ \A ep \in Range(episodes) : Named(ep)
  /\ RowsAreOwned

(* The successor of an index that is not the last is an index.             *)
LEMMA NextIndex == \A n \in Nat : \A i \in 1 .. n : i # n => i + 1 \in 1 .. n /\ i + 1 \in 2 .. n
OBVIOUS

(* A list that takes a new last element, and one that loses its first too. *)
LEMMA AppendRange ==
  ASSUME NEW S, NEW s \in Seq(S), NEW x \in S
  PROVE  /\ Append(s, x) \in Seq(S) /\ Len(Append(s, x)) = Len(s) + 1
         /\ \A i \in 1 .. Len(s) : Append(s, x)[i] = s[i]
         /\ Append(s, x)[Len(s) + 1] = x
         /\ Range(Append(s, x)) = Range(s) \cup {x}
<1>1. /\ Append(s, x) \in Seq(S) /\ Len(Append(s, x)) = Len(s) + 1
      /\ \A i \in 1 .. Len(s) : Append(s, x)[i] = s[i]
      /\ Append(s, x)[Len(s) + 1] = x
  BY AppendProperties
<1>2. Len(s) \in Nat /\ DOMAIN s = 1 .. Len(s) /\ DOMAIN Append(s, x) = 1 .. Len(s) + 1
  BY <1>1, LenProperties
<1>3. 1 .. Len(s) + 1 = (1 .. Len(s)) \cup {Len(s) + 1}
  BY <1>2
<1>4. Range(Append(s, x)) = Range(s) \cup {x}
  BY <1>1, <1>2, <1>3 DEF Range
<1> QED BY <1>1, <1>4

(* A list of distinct elements that takes a new last one and loses its     *)
(* first loses exactly the first from its range.                           *)
LEMMA ShiftedRange ==
  ASSUME NEW S, NEW s \in Seq(S), s # << >>, NEW x \in S,
         \A i, j \in DOMAIN s : i # j => s[i] # s[j]
  PROVE  LET t == Tail(Append(s, x)) IN
         /\ t \in Seq(S) /\ Len(t) = Len(s) /\ DOMAIN s = 1 .. Len(s) /\ DOMAIN t = 1 .. Len(s)
         /\ \A i \in 1 .. Len(s) : t[i] = IF i = Len(s) THEN x ELSE s[i + 1]
         /\ Range(t) = (Range(s) \ {Head(s)}) \cup {x}
<1> DEFINE u == Append(s, x)
           t == Tail(u)
<1>1. /\ u \in Seq(S) /\ Len(u) = Len(s) + 1 /\ u # << >>
      /\ \A i \in 1 .. Len(s) : u[i] = s[i]
      /\ u[Len(s) + 1] = x
  BY AppendProperties
<1>2. Len(s) \in Nat /\ Len(s) >= 1 /\ DOMAIN s = 1 .. Len(s) /\ Head(s) = s[1]
  BY LenProperties, EmptySeq
<1> HIDE DEF u
<1>3. t \in Seq(S) /\ Len(t) = Len(u) - 1 /\ \A i \in 1 .. Len(t) : t[i] = u[i + 1]
  BY <1>1, HeadTailProperties
<1> HIDE DEF t
<1>4. Len(t) = Len(s) /\ DOMAIN t = 1 .. Len(s)
  BY <1>1, <1>2, <1>3, LenProperties
<1>5. ASSUME NEW i \in 1 .. Len(s) PROVE t[i] = IF i = Len(s) THEN x ELSE s[i + 1]
  <2>1. t[i] = u[i + 1]
    BY <1>3, <1>4
  <2>2. CASE i = Len(s)
    BY <1>1, <2>1, <2>2
  <2>3. CASE i # Len(s)
    <3>1. i + 1 \in 1 .. Len(s)
      BY <1>2, <2>3, NextIndex
    <3> QED BY <1>1, <2>1, <2>3, <3>1
  <2> QED BY <2>2, <2>3
<1>6. ASSUME NEW i \in 2 .. Len(s) PROVE s[i] \in Range(t) /\ s[i] # s[1]
  <2>1. i - 1 \in 1 .. Len(s) /\ i - 1 # Len(s) /\ (i - 1) + 1 = i
    BY <1>2
  <2>2. t[i - 1] = s[i]
    BY <1>5, <2>1
  <2>3. i \in DOMAIN s /\ 1 \in DOMAIN s /\ i # 1
    BY <1>2
  <2> QED BY <1>4, <2>1, <2>2, <2>3 DEF Range
<1>7. x \in Range(t)
  <2>1. Len(s) \in 1 .. Len(s)
    BY <1>2
  <2>2. t[Len(s)] = x
    BY <1>5, <2>1
  <2> QED BY <1>4, <2>1, <2>2 DEF Range
<1>8. Range(t) \subseteq (Range(s) \ {Head(s)}) \cup {x}
  <2>1. ASSUME NEW i \in 1 .. Len(s) PROVE t[i] = x \/ \E j \in 2 .. Len(s) : t[i] = s[j]
    <3>1. CASE i = Len(s)
      BY <1>5, <3>1
    <3>2. CASE i # Len(s)
      <4>1. i + 1 \in 2 .. Len(s)
        BY <1>2, <3>2, NextIndex
      <4> QED BY <1>5, <3>2, <4>1
    <3> QED BY <3>1, <3>2
  <2>2. \A j \in 2 .. Len(s) : s[j] \in Range(s) /\ s[j] # Head(s)
    BY <1>2, <1>6 DEF Range
  <2> QED BY <1>4, <2>1, <2>2 DEF Range
<1>9. (Range(s) \ {Head(s)}) \subseteq Range(t)
  <2>1. 1 .. Len(s) = {1} \cup 2 .. Len(s)
    BY <1>2
  <2> QED BY <1>2, <1>6, <2>1 DEF Range
<1> QED BY <1>2, <1>3, <1>4, <1>5, <1>7, <1>8, <1>9 DEF t, u

(* The decisions of the game under way carry its id, whatever the step.    *)
LEMMA NamedGame ==
  ASSUME ExperienceInv, BufferInv, [Next]_vars
  PROVE  Named(game')
<1>1. game' \in Games
  BY ExperienceStep DEF ExperienceInv
<1>2. game \in Games /\ Named(game)
  BY DEF BufferInv, ExperienceInv
<1>3. CASE game' = game
  BY <1>2, <1>3
<1>4. CASE \E o \in Outcomes : End(o)
  <2>1. RowsOf(game') = RowsOf(game) /\ Id(game') = Id(game)
    BY <1>2, <1>4 DEF End, RowsOf, Id, Games
  <2> QED BY <1>1, <1>2, <2>1 DEF Named
<1>5. ASSUME NEW a \in Actions, Decide(a) PROVE Named(game')
  <2>1. game'.history = Append(game.history, Decision(a)) /\ Id(game') = Id(game)
    BY <1>2, <1>5 DEF Decide, Id, Games
  <2>2. game'.history \in Seq(DecisionRecords) /\ game.history \in Seq(DecisionRecords)
    BY <1>1, <1>2 DEF Games
  <2>3. Decision(a) \in DecisionRecords
    <3>1. game.residual \in Tensors /\ a \in Tensors /\ Len(game.history) \in Nat
      BY <1>2, <2>2, LenProperties, SearchConstants DEF Games
    <3>2. Subtract(game.residual, a) \in Tensors
      BY <3>1 DEF Subtract, Tensors
    <3> QED BY <1>2, <3>1, <3>2 DEF Decision, DecisionRecords, Id, Ids, Depth, Games
  <2>4. Range(game'.history) = Range(game.history) \cup {Decision(a)}
    BY <2>1, <2>2, <2>3, AppendRange
  <2>5. Decision(a).episode = Id(game)
    BY DEF Decision
  <2> QED BY <1>1, <1>2, <2>1, <2>4, <2>5 DEF Named, RowsOf
<1>6. ASSUME NEW t \in Targets, NEW s \in Seeds, NextEpisode(t, s) PROVE Named(game')
  BY <1>1, <1>6 DEF NextEpisode, New, Named, RowsOf, Range
<1> QED
  BY <1>3, <1>4, <1>5, <1>6
  DEF Next, GameOver, Interrupt, NewSearch, Searching, NoSupport, Add, RefuseDuplicate, vars, Outcomes

(* Episodes of different ids have no decision in common.                   *)
LEMMA RowsAreDisjoint ==
  ASSUME NEW p, NEW q, Named(p), Named(q), Id(p) # Id(q)
  PROVE  RowsOf(p) \cap RowsOf(q) = {}
BY DEF Named

(* Adding an episode, with the eviction of the oldest or without, keeps    *)
(* rows and episodes together.                                             *)
LEMMA AddKeepsBuffer ==
  ASSUME ExperienceInv, BufferInv, Add
  PROVE  /\ episodes' \in Seq(Games) /\ \A ep \in Range(episodes') : Named(ep)
         /\ RowsAreOwned'
         /\ Range(episodes') \subseteq Range(episodes) \cup {game}
<1>1. /\ episodes \in Seq(Games) /\ game \in Games /\ Named(game)
      /\ \A ep \in Range(episodes) : Named(ep)
  BY DEF BufferInv, ExperienceInv
<1>2. /\ Len(episodes) <= Capacity
      /\ \A i, j \in DOMAIN episodes : i # j => Id(episodes[i]) # Id(episodes[j])
      /\ DOMAIN decisions = UNION {RowsOf(ep) : ep \in Range(episodes)}
  BY DEF BufferInv, RowsAreOwned
<1>3. Capacity \in Nat \ {0}
  BY ExperienceConstants
<1>4. Len(episodes) \in Nat /\ DOMAIN episodes = 1 .. Len(episodes)
  BY <1>1, LenProperties
<1>5. \A ep \in Range(episodes) : Id(ep) # Id(game)
  BY DEF Add, Duplicate
<1>6. DOMAIN decisions' = (DOMAIN decisions \cup RowsOf(game)) \ OldestRows
  BY DEF Add
<1>7. CASE Len(episodes) < Capacity
  <2>1. Oldest = {} /\ OldestRows = {} /\ episodes' = Append(episodes, game)
    BY <1>7 DEF Add, Oldest, OldestRows
  <2>2. /\ episodes' \in Seq(Games) /\ Len(episodes') = Len(episodes) + 1
        /\ \A i \in 1 .. Len(episodes) : episodes'[i] = episodes[i]
        /\ episodes'[Len(episodes) + 1] = game
        /\ Range(episodes') = Range(episodes) \cup {game}
    BY <1>1, <2>1, AppendRange
  <2>3. Len(episodes') <= Capacity
    BY <1>3, <1>4, <1>7, <2>2
  <2>4. DOMAIN episodes' = (1 .. Len(episodes)) \cup {Len(episodes) + 1}
    <3>1. DOMAIN episodes' = 1 .. (Len(episodes) + 1)
      BY <2>2, LenProperties
    <3> QED BY <1>4, <3>1
  <2>5. ASSUME NEW i \in DOMAIN episodes', NEW j \in DOMAIN episodes', i # j
        PROVE  Id(episodes'[i]) # Id(episodes'[j])
    <3>1. \A k \in 1 .. Len(episodes) : episodes[k] \in Range(episodes)
      BY <1>4 DEF Range
    <3> QED BY <1>2, <1>4, <1>5, <2>2, <2>4, <2>5, <3>1
  <2>6. DOMAIN decisions' = UNION {RowsOf(ep) : ep \in Range(episodes')}
    BY <1>2, <1>6, <2>1, <2>2
  <2>7. \A ep \in Range(episodes') : Named(ep)
    BY <1>1, <2>2
  <2>8. RowsAreOwned'
    BY <2>3, <2>5, <2>6 DEF RowsAreOwned, Id, RowsOf
  <2> QED BY <2>2, <2>7, <2>8
<1>8. CASE ~(Len(episodes) < Capacity)
  <2>0. Len(episodes) >= 1 /\ episodes # << >>
    BY <1>1, <1>3, <1>4, <1>8, EmptySeq
  <2>1. /\ OldestRows = RowsOf(Head(episodes)) /\ episodes' = Tail(Append(episodes, game))
    BY <1>8 DEF Add, Oldest, OldestRows
  <2>2. \A i, j \in DOMAIN episodes : i # j => episodes[i] # episodes[j]
    BY <1>2
  <2>3. /\ episodes' \in Seq(Games) /\ Len(episodes') = Len(episodes)
        /\ DOMAIN episodes' = 1 .. Len(episodes)
        /\ \A i \in 1 .. Len(episodes) :
             episodes'[i] = IF i = Len(episodes) THEN game ELSE episodes[i + 1]
        /\ Range(episodes') = (Range(episodes) \ {Head(episodes)}) \cup {game}
    BY <1>1, <2>0, <2>1, <2>2, ShiftedRange
  <2>4. Head(episodes) = episodes[1] /\ 1 \in DOMAIN episodes
    BY <1>1, <1>4, <2>0
  <2>5. ASSUME NEW i \in DOMAIN episodes', NEW j \in DOMAIN episodes', i # j
        PROVE  Id(episodes'[i]) # Id(episodes'[j])
    <3>1. \A k \in 1 .. Len(episodes) : episodes[k] \in Range(episodes)
      BY <1>4 DEF Range
    <3>2. /\ i # Len(episodes) => i + 1 \in 1 .. Len(episodes)
          /\ j # Len(episodes) => j + 1 \in 1 .. Len(episodes)
      BY <1>4, <2>3, NextIndex
    <3>3. i + 1 # j + 1
      <4>1. i \in Int /\ j \in Int
        <5>1. i \in 1 .. Len(episodes) /\ j \in 1 .. Len(episodes)
          BY <2>3, <2>5
        <5> QED BY <5>1
      <4>2. \A m, n \in Int : m # n => m + 1 # n + 1
        OBVIOUS
      <4> QED BY <2>5, <4>1, <4>2
    <3> QED BY <1>2, <1>4, <1>5, <2>3, <2>5, <3>1, <3>2, <3>3
  <2>6. ASSUME NEW ep \in Range(episodes) \ {Head(episodes)}
        PROVE  RowsOf(ep) \cap RowsOf(Head(episodes)) = {}
    <3>1. PICK i \in DOMAIN episodes : ep = episodes[i]
      BY DEF Range
    <3>2. Id(ep) # Id(Head(episodes))
      BY <1>2, <2>4, <2>6, <3>1
    <3> QED BY <1>1, <2>4, <3>1, <3>2, RowsAreDisjoint DEF Range
  <2>7. RowsOf(game) \cap RowsOf(Head(episodes)) = {}
    <3>1. Head(episodes) \in Range(episodes)
      BY <2>4 DEF Range
    <3> QED BY <1>1, <1>5, <3>1, RowsAreDisjoint
  <2>8. DOMAIN decisions' = UNION {RowsOf(ep) : ep \in Range(episodes')}
    BY <1>2, <1>6, <2>1, <2>3, <2>6, <2>7
  <2>9. \A ep \in Range(episodes') : Named(ep)
    BY <1>1, <2>3
  <2>10. Len(episodes') <= Capacity
    BY <1>2, <2>3
  <2>11. RowsAreOwned'
    BY <2>5, <2>8, <2>10 DEF RowsAreOwned, Id, RowsOf
  <2> QED BY <2>3, <2>9, <2>11
<1> QED BY <1>7, <1>8

(* Every step preserves BufferInv.                                         *)
LEMMA BufferStep == ASSUME ExperienceInv, BufferInv, [Next]_vars PROVE BufferInv'
<1>1. CASE Add
  BY <1>1, NamedGame, AddKeepsBuffer DEF BufferInv, Named, Id, RowsOf
<1>2. CASE ~Add
  <2>1. UNCHANGED buffer
    BY <1>2 DEF Next, GameOver, Interrupt, NewSearch, Searching, NoSupport, RefuseDuplicate, Decide,
                NextEpisode, End, vars, buffer
  <2> QED BY <2>1, NamedGame DEF buffer, BufferInv, RowsAreOwned, Named, Id, RowsOf
<1> QED BY <1>1, <1>2

(* An empty buffer satisfies it.                                           *)
LEMMA BufferStarts == ASSUME Init PROVE BufferInv
<1>1. PICK t \in Targets, s \in Seeds : game = New(t, s)
  BY DEF Init
<1>2. Named(game)
  BY <1>1, NewIsTyped DEF New, Named, RowsOf, Range
<1>3. episodes = << >> /\ Len(episodes) = 0 /\ DOMAIN episodes = {} /\ DOMAIN decisions = {}
  BY DEF Init
<1>4. Range(episodes) = {}
  BY <1>3 DEF Range
<1>5. Capacity \in Nat
  BY ExperienceConstants
<1> QED BY <1>2, <1>3, <1>4, <1>5, EmptySeq DEF BufferInv, RowsAreOwned

(* However episodes are added, refused and evicted, the buffer keeps its   *)
(* capacity, one episode per id, and the decisions of its episodes alone.  *)
THEOREM BufferRowsAreOwned == Spec => []RowsAreOwned
<1>1. Init => BufferInv
  BY BufferStarts
<1>2. ExperienceInv /\ BufferInv /\ [Next]_vars => BufferInv'
  BY BufferStep
<1>3. BufferInv => RowsAreOwned
  BY DEF BufferInv
<1> QED BY <1>1, <1>2, <1>3, ExperienceInvariant, PTL DEF Spec
-----------------------------------------------------------------------------
(* Sums of actions, cell by cell. *)
Column(s, c) == [i \in DOMAIN s |-> s[i][c]]

(* A cell of a sum of actions is the sum of that cell of the actions.      *)
LEMMA CellSum ==
  ASSUME NEW s, NEW c \in Cells, IsFiniteSet(DOMAIN s)
  PROVE  Sum(s)[c] = SumFunctionOnSet(Column(s, c), DOMAIN s)
<1> DEFINE D == DOMAIN s
           Adding(g) == g = [u \in SUBSET D |-> IF u = {} THEN 0
                                                ELSE s[Pick(u)][c] + g[u \ {Pick(u)}]]
<1>1. ASSUME NEW g PROVE Adding(g) <=> Sums(g, Column(s, c), D)
  <2>1. ASSUME NEW u \in SUBSET D, u # {} PROVE Column(s, c)[Pick(u)] = s[Pick(u)][c]
    BY <2>1 DEF Column, Pick
  <2>2. [u \in SUBSET D |-> IF u = {} THEN 0 ELSE s[Pick(u)][c] + g[u \ {Pick(u)}]]
      = [u \in SUBSET D |-> IF u = {} THEN 0 ELSE Column(s, c)[Pick(u)] + g[u \ {Pick(u)}]]
    BY <2>1
  <2> QED BY <2>2 DEF Sums, Adds
<1>2. \E g : Adding(g)
  <2> HIDE DEF Adding
  <2> QED BY <1>1, AddsExists
<1>3. \E g : Adding(g) /\ Sum(s)[c] = g[D]
  BY <1>2 DEF Sum, FoldFunction, FoldFunctionOnSet, MapThenFoldSet, Pick
<1> HIDE DEF Adding
<1>4. PICK h : Sums(h, Column(s, c), D) /\ Sum(s)[c] = h[D]
  BY <1>1, <1>3
<1>5. PICK g : Sums(g, Column(s, c), D) /\ SumFunctionOnSet(Column(s, c), D) = g[D]
  BY AddsExists, SumIs
<1>6. Agree(Column(s, c), Column(s, c), D)
  BY DEF Agree
<1>7. g[D] = h[D]
  BY <1>4, <1>5, <1>6, AddsAgree
<1> QED BY <1>4, <1>5, <1>7

(* The indices of a list.                                                  *)
LEMMA Indices ==
  ASSUME NEW S, NEW s \in Seq(S)
  PROVE  /\ Len(s) \in Nat /\ DOMAIN s = 1 .. Len(s) /\ IsFiniteSet(DOMAIN s)
         /\ \A i \in DOMAIN s : s[i] \in S
BY LenProperties, FS_Interval

(* A sum of tensors is a tensor.                                           *)
LEMMA SumIsTensor == ASSUME NEW s \in Seq(Tensors) PROVE Sum(s) \in Tensors
<1>1. ASSUME NEW c \in Cells PROVE Sum(s)[c] \in Int
  <2>1. \A i \in DOMAIN s : Column(s, c)[i] \in Int
    BY Indices DEF Column, Tensors
  <2> QED BY <2>1, Indices, CellSum, SumTakesOut
<1> QED BY <1>1 DEF Sum, Tensors

(* The sum of no tensors is zero.                                          *)
LEMMA SumOfNone == ASSUME NEW s \in Seq(Tensors), Len(s) = 0 PROVE Sum(s) = Zero
<1>1. DOMAIN s = {} /\ IsFiniteSet(DOMAIN s)
  <2>1. DOMAIN s = 1 .. 0 /\ IsFiniteSet(DOMAIN s)
    BY Indices
  <2> QED BY <2>1
<1>2. \A c \in Cells : Sum(s)[c] = 0
  BY <1>1, CellSum, SumOfZeros
<1> QED BY <1>2 DEF Sum, Zero

(* The sum of two tensors, cell by cell. *)
Plus(r, a) == [c \in Cells |-> r[c] + a[c]]

(* A list that takes one more tensor adds it to its sum: an action that is *)
(* appended to a trajectory or a history.                                  *)
LEMMA SumAppends ==
  ASSUME NEW s \in Seq(Tensors), NEW t \in Seq(Tensors), Len(t) = Len(s) + 1,
         \A i \in 1 .. Len(s) : t[i] = s[i]
  PROVE  Sum(t) = Plus(Sum(s), t[Len(t)])
<1> DEFINE n == Len(s)
           m == n + 1
<1>1. n \in Nat /\ DOMAIN s = 1 .. n /\ DOMAIN t = 1 .. m /\ IsFiniteSet(1 .. n) /\ IsFiniteSet(1 .. m)
      /\ (\A i \in 1 .. m : t[i] \in Tensors) /\ m \in 1 .. m /\ (1 .. m) \ {m} = 1 .. n
  BY Indices
<1>2. ASSUME NEW c \in Cells PROVE Sum(t)[c] = Sum(s)[c] + t[m][c]
  <2> DEFINE f == Column(t, c)
             g == Column(s, c)
  <2>1. /\ \A i \in 1 .. m : f[i] \in Int
        /\ \A i \in 1 .. n : g[i] = f[i]
        /\ f[m] = t[m][c]
    BY <1>1 DEF Column, Tensors
  <2>2. Sum(t)[c] = SumFunctionOnSet(f, 1 .. m) /\ Sum(s)[c] = SumFunctionOnSet(g, 1 .. n)
    BY <1>1, CellSum
  <2>3. Sum(s)[c] \in Int
    BY SumIsTensor DEF Tensors
  <2> HIDE DEF f, g, m, n
  <2>4. SumFunctionOnSet(g, 1 .. n) = SumFunctionOnSet(f, 1 .. n)
    BY <1>1, <2>1, SumsAgree
  <2>5. SumFunctionOnSet(f, 1 .. m) = f[m] + SumFunctionOnSet(f, 1 .. n)
    <3>1. SumFunctionOnSet(f, 1 .. m) = f[m] + SumFunctionOnSet(f, (1 .. m) \ {m})
      BY <1>1, <2>1, SumTakesOut
    <3> QED BY <1>1, <3>1
  <2>6. f[m] \in Int
    BY <1>1, <2>1
  <2>7. Sum(t)[c] = f[m] + Sum(s)[c]
    BY <2>2, <2>4, <2>5
  <2> QED BY <2>1, <2>3, <2>6, <2>7
<1> QED BY <1>2 DEF Sum, Plus
-----------------------------------------------------------------------------
(* Where a walk is: the nodes of its path are a chain from the root to it, *)
(* each with a move less than the one before.                              *)
OnWay == search \in {"walk", "backup"}
EndOf(i) == IF i = Len(path) THEN at ELSE path[i + 1].from

Chain ==
  /\ Root = IF path = << >> THEN at ELSE path[1].from
  /\ \A i \in DOMAIN path :
       /\ edges[path[i]].child = EndOf(i)
       /\ path[i].from.remaining = moves - i + 1
Standing ==
  /\ at.residual = Subtract(target, Sum(Trajectory))
  /\ at.remaining = moves - Len(path)

WayInv == OnWay => Chain /\ Standing

(* A solution is one. *)
SolutionInv == solution # NoSolution => Sum(solution) = target /\ Len(solution) <= moves

(* Subtracting actions one by one, or their sum.                           *)
LEMMA SubtractSteps ==
  ASSUME NEW r \in Tensors, NEW s \in Tensors, NEW a \in Tensors
  PROVE  /\ Subtract(r, Zero) = r
         /\ Subtract(Subtract(r, s), a) = Subtract(r, Plus(s, a))
         /\ Subtract(r, a) \in Tensors
<1>1. \A c \in Cells : r[c] - 0 = r[c] /\ (r[c] - s[c]) - a[c] = r[c] - (s[c] + a[c]) /\ r[c] - a[c] \in Int
  BY DEF Tensors
<1> QED BY <1>1 DEF Tensors, Subtract, Plus, Zero

(* The actions of a path. *)
ActionsOf(p) == [i \in DOMAIN p |-> p[i].action]

(* They are as many as its edges, and actions.                             *)
LEMMA ActionsOfPath ==
  ASSUME NEW p \in Seq(DOMAIN edges), SearchInv
  PROVE  /\ ActionsOf(p) \in Seq(Actions) /\ ActionsOf(p) \in Seq(Tensors)
         /\ Len(ActionsOf(p)) = Len(p)
         /\ \A i \in 1 .. Len(p) : ActionsOf(p)[i] = p[i].action
<1>1. Len(p) \in Nat /\ DOMAIN p = 1 .. Len(p) /\ \A i \in DOMAIN p : p[i] \in DOMAIN edges
  BY Indices
<1>2. \A e \in DOMAIN edges : e.action \in Actions /\ e.action \in Tensors
  BY SearchConstants DEF SearchInv, SearchTypeOK
<1>3. ActionsOf(p) \in [1 .. Len(p) -> Actions] /\ ActionsOf(p) \in [1 .. Len(p) -> Tensors]
  BY <1>1, <1>2 DEF ActionsOf
<1>4. ActionsOf(p) \in Seq(Actions) /\ ActionsOf(p) \in Seq(Tensors)
  BY <1>1, <1>3, SeqDef
<1>5. DOMAIN ActionsOf(p) = 1 .. Len(ActionsOf(p)) /\ DOMAIN ActionsOf(p) = 1 .. Len(p)
      /\ Len(ActionsOf(p)) \in Nat
  BY <1>1, <1>3, <1>4, Indices
<1>6. Len(ActionsOf(p)) = Len(p)
  <2> DEFINE m == Len(ActionsOf(p))
             n == Len(p)
  <2>1. m \in Nat /\ n \in Nat /\ 1 .. m = 1 .. n
    BY <1>1, <1>5
  <2> HIDE DEF m, n
  <2>2. m = n
    BY <2>1
  <2> QED BY <2>2 DEF m, n
<1> QED BY <1>1, <1>4, <1>6 DEF ActionsOf

(* Nodes and moves along a walk, as they are typed.                        *)
LEMMA WayTypes ==
  ASSUME SearchInv
  PROVE  /\ moves \in Nat /\ target \in Tensors /\ path \in Seq(DOMAIN edges)
         /\ at \in Keys /\ at.residual \in Tensors /\ at.remaining \in Nat
         /\ \A e \in DOMAIN edges : e.from \in Keys /\ e.from # NoChild /\ e.action \in Actions
         /\ at # NoChild /\ NoChild \notin Keys
         /\ \A e \in DOMAIN edges : edges[e].child # NoChild =>
              edges[e].child = Child(e.from, e.action) /\ edges[e].child \in DOMAIN nodes
BY SearchConstants DEF SearchInv, SearchTypeOK, TableIsExact, Keys

(* The child of the node a walk stands at is none it has been to.          *)
LEMMA ChildIsNew ==
  ASSUME SearchInv, Chain, Standing, NEW child, child.remaining = at.remaining - 1
  PROVE  child \notin Seen
<1>1. Len(path) \in Nat /\ DOMAIN path = 1 .. Len(path) /\ moves \in Nat
  BY WayTypes, Indices
<1>2. ASSUME NEW i \in DOMAIN path PROVE path[i].from # child
  <2>1. path[i].from.remaining = moves - i + 1
    BY DEF Chain
  <2>2. child.remaining = moves - Len(path) - 1
    BY DEF Standing
  <2> QED BY <1>1, <2>1, <2>2
<1>3. at # child
  BY <1>1 DEF Standing
<1> QED BY <1>2, <1>3 DEF Seen

(* A walk that goes on to a child.                                         *)
LEMMA WalkGoesOn ==
  ASSUME SearchInv, WayInv, search = "walk", at.remaining > 0,
         NEW e \in DOMAIN edges, e.from = at, Advance(e, Child(at, e.action)),
         edges'[e].child = Child(at, e.action),
         \A f \in DOMAIN edges : edges[f].child # NoChild => edges'[f].child = edges[f].child,
         UNCHANGED <<target, moves>>
  PROVE  /\ path' = Append(path, e) /\ at' = Child(at, e.action) /\ search' = "walk"
         /\ Chain' /\ Standing'
<1> DEFINE n == Len(path)
           a == e.action
           child == Child(at, a)
<1>1. Chain /\ Standing
  BY DEF WayInv, OnWay
<1>2. child.remaining = at.remaining - 1 /\ child.residual = Subtract(at.residual, a)
  BY DEF Child
<1>3. child \notin Seen
  BY <1>1, <1>2, ChildIsNew
<1>4. path' = Append(path, e) /\ at' = child /\ search' = "walk"
  BY <1>3 DEF Advance
<1>5. /\ n \in Nat /\ DOMAIN path = 1 .. n /\ moves \in Nat /\ a \in Actions /\ a \in Tensors
      /\ \A i \in 1 .. n : path[i] \in DOMAIN edges
  BY WayTypes, Indices, SearchConstants
<1>6. /\ path' \in Seq(DOMAIN edges) /\ Len(path') = n + 1 /\ DOMAIN path' = 1 .. n + 1
      /\ \A i \in 1 .. n : path'[i] = path[i]
      /\ path'[n + 1] = e /\ path' # << >>
  BY <1>4, WayTypes, AppendProperties, LenProperties
<1> HIDE DEF child, a
<1>7. Root' = path'[1].from
  <2>1. Root' = Root
    BY DEF Root
  <2>2. CASE path = << >>
    BY <1>1, <1>6, <2>1, <2>2, EmptySeq DEF Chain
  <2>3. CASE path # << >>
    <3>1. 1 \in 1 .. n
      BY <1>5, <2>3, WayTypes, EmptySeq
    <3> QED BY <1>1, <1>6, <2>1, <2>3, <3>1 DEF Chain
  <2> QED BY <2>2, <2>3
<1>8. ASSUME NEW i \in 1 .. n
      PROVE  edges'[path'[i]].child = path'[i + 1].from /\ path'[i].from.remaining = moves - i + 1
  <2>1. edges[path[i]].child = EndOf(i) /\ path[i].from.remaining = moves - i + 1
    BY <1>1, <1>5 DEF Chain
  <2>2. EndOf(i) = path'[i + 1].from
    <3>1. CASE i = n
      BY <1>6, <3>1 DEF EndOf
    <3>2. CASE i # n
      <4>1. i + 1 \in 1 .. n
        BY <1>5, <3>2, NextIndex
      <4> QED BY <1>6, <3>2, <4>1 DEF EndOf
    <3> QED BY <3>1, <3>2
  <2>3. EndOf(i) # NoChild
    <3>1. i # n => i + 1 \in 1 .. n
      BY <1>5, NextIndex
    <3> QED BY <1>5, <3>1, WayTypes DEF EndOf
  <2> QED BY <1>5, <1>6, <2>1, <2>2, <2>3
<1>9. edges'[e].child = at' /\ e.from.remaining = moves' - (n + 1) + 1
  BY <1>1, <1>4, <1>5 DEF Standing, child, a
<1>10. Chain'
  <2>1. ASSUME NEW i \in 1 .. n + 1
        PROVE  edges'[path'[i]].child = EndOf(i)' /\ path'[i].from.remaining = moves' - i + 1
    <3>1. CASE i = n + 1
      BY <1>6, <1>9, <3>1 DEF EndOf
    <3>2. CASE i # n + 1
      <4>1. i \in 1 .. n
        BY <1>5, <3>2
      <4> QED BY <1>6, <1>8, <3>2, <4>1 DEF EndOf
    <3> QED BY <3>1, <3>2
  <2> QED BY <1>6, <1>7, <2>1 DEF Chain
<1>11. Standing'
  <2> DEFINE s == ActionsOf(path)
             t == ActionsOf(path')
  <2>1. /\ s \in Seq(Tensors) /\ t \in Seq(Tensors) /\ Len(s) = n /\ Len(t) = n + 1
        /\ \A i \in 1 .. n : t[i] = s[i]
        /\ t[n + 1] = a
    <3>1. path \in Seq(DOMAIN edges) /\ path' \in Seq(DOMAIN edges)
      BY <1>6, WayTypes
    <3>2. n + 1 \in 1 .. n + 1 /\ \A i \in 1 .. n : i \in 1 .. n + 1
      BY <1>5
    <3> QED BY <1>6, <3>1, <3>2, ActionsOfPath DEF a
  <2>2. Trajectory = s /\ Trajectory' = t
    BY DEF Trajectory, ActionsOf
  <2> HIDE DEF s, t
  <2>3. Sum(t) = Plus(Sum(s), a) /\ Sum(s) \in Tensors
    BY <2>1, SumAppends, SumIsTensor
  <2>4. at'.residual = Subtract(Subtract(target, Sum(s)), a)
    BY <1>1, <1>2, <1>4, <2>2 DEF Standing
  <2>5. at'.residual = Subtract(target, Sum(t))
    BY <1>5, <2>3, <2>4, WayTypes, SubtractSteps
  <2>6. at'.remaining = moves' - Len(path')
    BY <1>1, <1>2, <1>4, <1>5, <1>6 DEF Standing
  <2> QED BY <2>2, <2>5, <2>6 DEF Standing
<1> QED BY <1>4, <1>10, <1>11 DEF child, a
-----------------------------------------------------------------------------
(* Every step of a search keeps its walk on its way.                       *)
LEMMA WayStep == ASSUME SearchInv, WayInv, SearchStep PROVE WayInv'
<1> USE DEF table, walk, flags
<1>0. UNCHANGED <<target, moves, Root>>
  BY DEF SearchStep, StartSimulation, TimeOut, SimulationsSpent, Expand, StopAtLeaf, Backup, Follow,
         Link, HitLimit, Root
<1>1. CASE StartSimulation
  <2>1. path' = << >> /\ at' = Root /\ Len(path') = 0 /\ DOMAIN path' = {}
    BY <1>1 DEF StartSimulation
  <2>2. Chain'
    BY <1>0, <2>1 DEF Chain
  <2>3. Trajectory' \in Seq(Tensors) /\ Len(Trajectory') = 0
    BY <2>1, ActionsOfPath, EmptySeq DEF Trajectory, ActionsOf
  <2>4. Sum(Trajectory') = Zero
    BY <2>3, SumOfNone
  <2>5. Root.residual = target /\ Root.remaining = moves
    BY DEF Root
  <2>6. Standing'
    BY <1>0, <2>1, <2>4, <2>5, WayTypes, ZeroIsTensor, SubtractSteps DEF Standing
  <2> QED BY <2>2, <2>6 DEF WayInv
<1>2. CASE TimeOut \/ SimulationsSpent \/ Backup
  BY <1>2 DEF TimeOut, SimulationsSpent, Backup, WayInv, OnWay
<1>3. CASE StopAtLeaf \/ \E a \in Actions : HitLimit(a)
  <2>1. OnWay /\ UNCHANGED <<nodes, edges, at, path>>
    BY <1>3 DEF StopAtLeaf, HitLimit, Walking, OnWay
  <2> QED BY <1>0, <2>1 DEF WayInv, Chain, Standing, EndOf, Trajectory
<1>4. CASE Expand
  <2>1. OnWay /\ UNCHANGED <<at, path>> /\ \A e \in DOMAIN edges : edges'[e] = edges[e]
    BY <1>4 DEF Expand, Walking, OnWay
  <2>2. \A i \in DOMAIN path : path[i] \in DOMAIN edges
    BY WayTypes, Indices
  <2> QED BY <1>0, <2>1, <2>2 DEF WayInv, Chain, Standing, EndOf, Trajectory
<1>5. ASSUME NEW a \in Actions, Follow(a) PROVE WayInv'
  <2> DEFINE e == Edge(at, a)
  <2>1. /\ search = "walk" /\ at.remaining > 0 /\ e \in DOMAIN edges /\ edges[e].child # NoChild
        /\ Advance(e, edges[e].child) /\ edges' = edges
    BY <1>5 DEF Follow, Walking, Support
  <2>2. e.from = at /\ e.action = a
    BY DEF Edge
  <2> HIDE DEF e
  <2>3. edges[e].child = Child(at, e.action)
    BY <2>1, <2>2, WayTypes
  <2> QED BY <1>0, <2>1, <2>2, <2>3, WalkGoesOn DEF WayInv
<1>6. ASSUME NEW a \in Actions, Link(a) PROVE WayInv'
  <2> DEFINE e == Edge(at, a)
             child == Child(at, a)
  <2>1. /\ search = "walk" /\ at.remaining > 0 /\ e \in DOMAIN edges /\ edges[e].child = NoChild
        /\ Advance(e, child) /\ edges' = [edges EXCEPT ![e].child = child]
    BY <1>6 DEF Link, Walking, Support
  <2>2. e.from = at /\ e.action = a
    BY DEF Edge
  <2> HIDE DEF e
  <2>3. edges'[e].child = child /\ \A f \in DOMAIN edges : edges[f].child # NoChild => edges'[f].child = edges[f].child
    <3>1. edges[e] \in EdgeRecords /\ edges' = [edges EXCEPT ![e] = [edges[e] EXCEPT !.child = child]]
      BY <2>1 DEF SearchInv, SearchTypeOK, EdgeRecords
    <3>2. [edges[e] EXCEPT !.child = child].child = child
      BY <3>1 DEF EdgeRecords
    <3> QED BY <2>1, <3>1, <3>2
  <2> QED BY <1>0, <2>1, <2>2, <2>3, WalkGoesOn DEF WayInv
<1> QED BY <1>1, <1>2, <1>3, <1>4, <1>5, <1>6 DEF SearchStep

(* A solution is replaced only by a walk that sums up to the target.       *)
LEMMA SolutionStep == ASSUME SearchInv, WayInv, SolutionInv, SearchStep PROVE SolutionInv'
<1>1. CASE Backup
  <2>1. Chain /\ Standing
    BY <1>1 DEF Backup, WayInv, OnWay
  <2>2. Len(Trajectory) <= moves
    <3>1. Len(Trajectory) = Len(path) /\ Len(path) \in Nat
      BY WayTypes, ActionsOfPath, Indices DEF Trajectory, ActionsOf
    <3> QED BY <2>1, <3>1, WayTypes DEF Standing
  <2> QED BY <1>1, <2>2 DEF Backup, Better, SolutionInv
<1>2. CASE ~Backup
  BY <1>2 DEF SearchStep, StartSimulation, TimeOut, SimulationsSpent, Expand, StopAtLeaf, Follow,
              Link, HitLimit, SolutionInv
<1> QED BY <1>1, <1>2
-----------------------------------------------------------------------------
(* The edges into a node and the visits they are summed by. *)
Into(k) == {e \in DOMAIN edges : edges[e].child = k}
Taken == [e \in DOMAIN edges |-> edges[e].visits]

(* During a simulation the visits of the one under way are not in the      *)
(* table yet.                                                              *)
VisitsInv ==
  /\ IsFiniteSet(DOMAIN edges)
  /\ nodes[Root].visits = IF OnWay THEN runs - 1 ELSE runs
  /\ \A k \in DOMAIN nodes \ {Root} : nodes[k].visits = VisitsInto(k)
  /\ \A e \in DOMAIN edges : edges[e].child = NoChild => edges[e].visits = 0

(* The visits into a node are a sum of numbers over a finite set of edges. *)
LEMMA VisitsIntoIs ==
  ASSUME SearchInv, VisitsInv, NEW k
  PROVE  /\ VisitsInto(k) = SumFunctionOnSet(Taken, Into(k))
         /\ IsFiniteSet(Into(k)) /\ Into(k) \subseteq DOMAIN edges
         /\ \A e \in DOMAIN edges : Taken[e] \in Nat
         /\ VisitsInto(k) \in Int
<1>1. IsFiniteSet(Into(k)) /\ Into(k) \subseteq DOMAIN edges
  BY FS_Subset DEF Into, VisitsInv
<1>2. \A e \in DOMAIN edges : Taken[e] \in Nat
  BY DEF Taken, SearchInv, SearchTypeOK
<1>3. VisitsInto(k) = SumFunctionOnSet(Taken, Into(k))
  BY DEF VisitsInto, Taken, Into
<1>4. \A e \in Into(k) : Taken[e] \in Int
  BY <1>1, <1>2
<1> QED BY <1>1, <1>2, <1>3, <1>4, SumTakesOut

(* Edges that lead to a node as before, and were taken as often, have been *)
(* taken to it as often.                                                   *)
LEMMA SameVisits ==
  ASSUME SearchInv, VisitsInv, NEW k, Into(k)' = Into(k), \A e \in Into(k) : Taken'[e] = Taken[e]
  PROVE  VisitsInto(k)' = VisitsInto(k)
<1>1. VisitsInto(k)' = SumFunctionOnSet(Taken', Into(k)')
  BY DEF VisitsInto, Taken, Into
<1>2. IsFiniteSet(Into(k)) /\ VisitsInto(k) = SumFunctionOnSet(Taken, Into(k))
  BY VisitsIntoIs
<1> DEFINE f == Taken'
           g == Taken
           D == Into(k)
<1>3. \A e \in D : f[e] = g[e]
  OBVIOUS
<1> HIDE DEF f, g, D
<1>4. SumFunctionOnSet(f, D) = SumFunctionOnSet(g, D)
  BY <1>2, <1>3, SumsAgree DEF D
<1> QED BY <1>1, <1>2, <1>4 DEF f, g, D

(* Steps that leave the table alone. *)
LEMMA VisitsRest ==
  ASSUME SearchInv, VisitsInv, UNCHANGED <<nodes, edges, Root>>,
         \/ UNCHANGED runs /\ (OnWay' <=> OnWay)
         \/ runs' = runs + 1 /\ ~OnWay /\ OnWay'
  PROVE  VisitsInv'
<1>1. \A k : VisitsInto(k)' = VisitsInto(k)
  BY DEF VisitsInto
<1>2. nodes'[Root'].visits = IF OnWay' THEN runs' - 1 ELSE runs'
  <2>1. runs \in Nat
    BY DEF SearchInv, SearchTypeOK
  <2> QED BY <2>1 DEF VisitsInv
<1> QED BY <1>1, <1>2 DEF VisitsInv

(* A node that is expanded gets edges to nowhere. *)
LEMMA VisitsOfExpand == ASSUME SearchInv, VisitsInv, Expand PROVE VisitsInv'
<1>1. PICK P \in SUBSET Actions :
        /\ IsFiniteSet(P)
        /\ edges' = [e \in DOMAIN edges \cup {Edge(at, a) : a \in P} |->
                       IF e \in DOMAIN edges THEN edges[e] ELSE Untaken]
  BY DEF Expand
<1>2. /\ nodes' = [nodes EXCEPT ![at].expanded = TRUE] /\ OnWay /\ OnWay' /\ Root' = Root /\ runs' = runs
  BY DEF Expand, OnWay, Root, Walking
<1>3. DOMAIN nodes' = DOMAIN nodes /\ \A k \in DOMAIN nodes : nodes'[k].visits = nodes[k].visits
  <2>1. \A r \in NodeRecords : [r EXCEPT !.expanded = TRUE].visits = r.visits
    BY DEF NodeRecords
  <2>2. nodes \in [DOMAIN nodes -> NodeRecords]
    BY DEF SearchInv, SearchTypeOK, NodeRecords
  <2> QED BY <1>2, <2>1, <2>2
<1>4. Untaken.child = NoChild /\ Untaken.visits = 0
  BY DEF Untaken
<1>5. DOMAIN edges' = DOMAIN edges \cup {Edge(at, a) : a \in P}
  BY <1>1
<1>6. IsFiniteSet(DOMAIN edges')
  <2> DEFINE f == [a \in P |-> Edge(at, a)]
             T == {Edge(at, a) : a \in P}
  <2>1. f \in Surjection(P, T)
    BY DEF Surjection
  <2> HIDE DEF f, T
  <2>2. IsFiniteSet(T)
    BY <1>1, <2>1, FS_Surjection
  <2> QED BY <1>5, <2>2, FS_Union DEF VisitsInv, T
<1>7. ASSUME NEW k \in DOMAIN nodes PROVE VisitsInto(k)' = VisitsInto(k)
  <2>1. k # NoChild
    BY SearchConstants DEF SearchInv, SearchTypeOK
  <2>2. Into(k)' = Into(k)
    BY <1>1, <1>4, <2>1 DEF Into
  <2>3. \A e \in Into(k) : Taken'[e] = Taken[e]
    BY <1>1 DEF Into, Taken
  <2> QED BY <2>2, <2>3, SameVisits
<1>8. \A e \in DOMAIN edges' : edges'[e].child = NoChild => edges'[e].visits = 0
  BY <1>1, <1>4 DEF VisitsInv
<1>9. Root \in DOMAIN nodes
  BY DEF SearchInv, SearchTypeOK
<1>10. /\ nodes'[Root'].visits = IF OnWay' THEN runs' - 1 ELSE runs'
       /\ \A k \in DOMAIN nodes' \ {Root'} : nodes'[k].visits = VisitsInto(k)'
  BY <1>2, <1>3, <1>7, <1>9 DEF VisitsInv
<1> QED BY <1>6, <1>8, <1>10 DEF VisitsInv

(* An edge that is linked has not been taken yet, and a node that is put   *)
(* into the table has no other edge to it.                                 *)
LEMMA VisitsOfLink == ASSUME SearchInv, VisitsInv, NEW a \in Actions, Link(a) PROVE VisitsInv'
<1> DEFINE e == Edge(at, a)
           child == Child(at, a)
<1>1. /\ Walking /\ e \in DOMAIN edges /\ edges[e].child = NoChild
      /\ nodes' = [k \in DOMAIN nodes \cup {child} |-> IF k \in DOMAIN nodes THEN nodes[k] ELSE Unvisited]
      /\ edges' = [edges EXCEPT ![e].child = child] /\ UNCHANGED <<runs, target, moves>>
      /\ OnWay /\ OnWay'
  BY DEF Link, Support, Walking, OnWay, Advance
<1>2. child \in Keys
  BY <1>1, WayTypes, KeysAreClosed DEF Walking
<1> HIDE DEF e, child
<1>3. /\ DOMAIN edges' = DOMAIN edges /\ edges'[e].child = child /\ edges'[e].visits = 0
      /\ \A f \in DOMAIN edges \ {e} : edges'[f] = edges[f]
  <2>1. edges \in [DOMAIN edges -> EdgeRecords]
    BY DEF SearchInv, SearchTypeOK, EdgeRecords
  <2>2. edges' = [edges EXCEPT ![e] = [edges[e] EXCEPT !.child = child]]
    BY <1>1
  <2>3. \A r \in EdgeRecords : [r EXCEPT !.child = child].child = child
                               /\ [r EXCEPT !.child = child].visits = r.visits
    BY DEF EdgeRecords
  <2>4. edges[e].visits = 0
    BY <1>1 DEF VisitsInv
  <2> QED BY <1>1, <2>1, <2>2, <2>3, <2>4
<1>4. Unvisited.visits = 0 /\ Root \in DOMAIN nodes /\ Root' = Root /\ NoChild \notin Keys
      /\ DOMAIN nodes \subseteq Keys
  BY <1>1, SearchConstants DEF Unvisited, SearchInv, SearchTypeOK, Root
<1>5. \A f \in DOMAIN edges : Taken'[f] = Taken[f]
  BY <1>1, <1>3 DEF Taken, VisitsInv
<1>6. ASSUME NEW k \in Keys PROVE VisitsInto(k)' = VisitsInto(k)
  <2>1. CASE k # child
    <3>1. Into(k)' = Into(k)
      BY <1>1, <1>3, <1>4, <2>1 DEF Into
    <3>2. \A f \in Into(k) : Taken'[f] = Taken[f]
      BY <1>5 DEF Into
    <3> QED BY <3>1, <3>2, SameVisits
  <2>2. CASE k = child
    <3>1. Into(k)' = Into(k) \cup {e} /\ e \notin Into(k)
      BY <1>1, <1>3, <1>4, <2>2 DEF Into
    <3> DEFINE f == Taken'
               g == Taken
               D == Into(k)
    <3>2. VisitsInto(k)' = SumFunctionOnSet(f, D \cup {e})
      BY <3>1 DEF VisitsInto, Taken, Into
    <3>3. /\ IsFiniteSet(D) /\ VisitsInto(k) = SumFunctionOnSet(g, D) /\ VisitsInto(k) \in Int
          /\ \A d \in D : g[d] \in Int
      BY VisitsIntoIs
    <3>4. f[e] = 0 /\ \A d \in D : f[d] = g[d] /\ f[d] \in Int
      BY <1>1, <1>3, <1>5, <3>3 DEF Taken, Into
    <3>7. e \notin D /\ f[e] \in Int
      BY <3>1, <3>4
    <3> HIDE DEF f, g, D
    <3>5. SumFunctionOnSet(f, D) = SumFunctionOnSet(g, D)
      BY <3>3, <3>4, SumsAgree
    <3>6. SumFunctionOnSet(f, D \cup {e}) = f[e] + SumFunctionOnSet(f, D)
      BY <3>3, <3>4, <3>7, SumGrows
    <3> QED BY <3>2, <3>3, <3>4, <3>5, <3>6
  <2> QED BY <2>1, <2>2
<1>7. ASSUME child \notin DOMAIN nodes PROVE VisitsInto(child) = 0
  <2>1. Into(child) = {}
    BY <1>2, <1>4, <1>7, WayTypes DEF Into
  <2>2. VisitsInto(child) = SumFunctionOnSet(Taken, Into(child)) /\ IsFiniteSet(Into(child))
    BY VisitsIntoIs
  <2> QED BY <2>1, <2>2, SumOfZeros
<1>8. ASSUME NEW k \in DOMAIN nodes' \ {Root'} PROVE nodes'[k].visits = VisitsInto(k)'
  <2>1. CASE k \in DOMAIN nodes
    BY <1>1, <1>4, <1>6, <1>8, <2>1 DEF VisitsInv
  <2>2. CASE k \notin DOMAIN nodes
    BY <1>1, <1>2, <1>4, <1>6, <1>7, <1>8, <2>2
  <2> QED BY <2>1, <2>2
<1>9. nodes'[Root'].visits = IF OnWay' THEN runs' - 1 ELSE runs'
  BY <1>1, <1>4 DEF VisitsInv
<1>10. \A f \in DOMAIN edges' : edges'[f].child = NoChild => edges'[f].visits = 0
  BY <1>3 DEF VisitsInv
<1>11. IsFiniteSet(DOMAIN edges')
  BY <1>3 DEF VisitsInv
<1> QED BY <1>8, <1>9, <1>10, <1>11 DEF VisitsInv
-----------------------------------------------------------------------------
(* A walk has been at the root, and to any other of its nodes by exactly   *)
(* one of its edges.                                                       *)
LEMMA WayOfNodes ==
  ASSUME SearchInv, Chain, Standing
  PROVE  /\ Root \in Seen
         /\ Range(path) \subseteq DOMAIN edges
         /\ \A e \in Range(path) : edges[e].child \in Seen \ {Root} /\ edges[e].child # NoChild
         /\ \A k \in Seen \ {Root} : \E e \in Into(k) : Into(k) \cap Range(path) = {e}
<1> DEFINE n == Len(path)
<1>1. /\ n \in Nat /\ DOMAIN path = 1 .. n /\ moves \in Nat /\ Root.remaining = moves
      /\ \A i \in 1 .. n : path[i] \in DOMAIN edges
  BY WayTypes, Indices DEF Root
<1>2. /\ \A i \in 1 .. n : edges[path[i]].child = EndOf(i) /\ path[i].from.remaining = moves - i + 1
      /\ Root = IF path = << >> THEN at ELSE path[1].from
  BY <1>1 DEF Chain
<1>3. ASSUME NEW i \in 1 .. n PROVE EndOf(i) \in Seen /\ EndOf(i) # NoChild
  <2>1. CASE i = n
    BY <2>1, WayTypes DEF EndOf, Seen
  <2>2. CASE i # n
    <3>1. i + 1 \in 1 .. n
      BY <1>1, <2>2, NextIndex
    <3> QED BY <1>1, <2>2, <3>1, WayTypes DEF EndOf, Seen
  <2> QED BY <2>1, <2>2
<1>4. ASSUME NEW i \in 1 .. n PROVE EndOf(i).remaining = moves - i
  <2>1. EndOf(i) = Child(path[i].from, path[i].action)
    BY <1>1, <1>2, <1>3, WayTypes
  <2>2. path[i].from.remaining = moves - i + 1
    BY <1>2
  <2> QED BY <1>1, <2>1, <2>2 DEF Child
<1>5. \A i \in 1 .. n : EndOf(i) # Root /\ \A j \in 1 .. n : EndOf(i) = EndOf(j) => i = j
  <2>1. \A i, j \in 1 .. n : moves - i # moves /\ (moves - i = moves - j => i = j)
    BY <1>1
  <2> QED BY <1>1, <1>4, <2>1
<1>6. path = << >> <=> n = 0
  BY WayTypes, EmptySeq
<1>7. Root \in Seen
  <2>1. CASE path = << >>
    BY <1>2, <2>1 DEF Seen
  <2>2. CASE path # << >>
    <3>1. 1 \in 1 .. n
      BY <1>1, <1>6, <2>2
    <3> QED BY <1>1, <1>2, <2>2, <3>1 DEF Seen
  <2> QED BY <2>1, <2>2
<1>8. ASSUME NEW k \in Seen \ {Root} PROVE \E i \in 1 .. n : k = EndOf(i)
  <2>1. CASE k = at
    <3>1. n # 0
      BY <1>2, <1>6, <1>8, <2>1
    <3>2. n \in 1 .. n
      BY <1>1, <3>1
    <3> QED BY <2>1, <3>2 DEF EndOf
  <2>2. CASE k # at
    <3>1. PICK j \in 1 .. n : k = path[j].from
      BY <1>1, <1>8, <2>2 DEF Seen
    <3>2. j # 1
      BY <1>1, <1>2, <1>6, <1>8, <3>1
    <3>3. j - 1 \in 1 .. n /\ j - 1 # n /\ (j - 1) + 1 = j
      BY <1>1, <3>2
    <3>4. EndOf(j - 1) = k
      BY <3>1, <3>3 DEF EndOf
    <3> QED BY <3>3, <3>4
  <2> QED BY <2>1, <2>2
<1>9. ASSUME NEW k \in Seen \ {Root} PROVE \E e \in Into(k) : Into(k) \cap Range(path) = {e}
  <2>1. PICK i \in 1 .. n : k = EndOf(i)
    BY <1>8
  <2>2. path[i] \in Into(k) /\ path[i] \in Range(path)
    BY <1>1, <1>2, <2>1 DEF Into, Range
  <2>3. ASSUME NEW e \in Into(k) \cap Range(path) PROVE e = path[i]
    <3>1. PICK j \in 1 .. n : e = path[j]
      BY <1>1 DEF Range
    <3>2. EndOf(j) = EndOf(i)
      BY <1>2, <2>1, <3>1 DEF Into
    <3> QED BY <1>5, <3>1, <3>2
  <2> QED BY <2>2, <2>3
<1>10. ASSUME NEW e \in Range(path)
       PROVE  e \in DOMAIN edges /\ edges[e].child \in Seen \ {Root} /\ edges[e].child # NoChild
  <2>1. PICK i \in 1 .. n : e = path[i]
    BY <1>1 DEF Range
  <2> QED BY <1>1, <1>2, <1>3, <1>5, <2>1
<1> QED BY <1>7, <1>9, <1>10

(* The backup visits the nodes of the walk, and the edges that led there.  *)
LEMMA VisitsOfBackup == ASSUME SearchInv, WayInv, VisitsInv, Backup PROVE VisitsInv'
<1>1. /\ OnWay /\ ~OnWay' /\ Chain /\ Standing /\ UNCHANGED <<runs, target, moves>> /\ Root' = Root
      /\ nodes' = [k \in DOMAIN nodes |->
                    IF k \in Seen THEN [nodes[k] EXCEPT !.visits = @ + 1] ELSE nodes[k]]
      /\ edges' = [e \in DOMAIN edges |->
                    IF e \in Range(path) THEN [edges[e] EXCEPT !.visits = @ + 1] ELSE edges[e]]
  BY DEF Backup, WayInv, OnWay, Root
<1>2. /\ \A k \in DOMAIN nodes : nodes[k] \in NodeRecords
      /\ \A e \in DOMAIN edges : edges[e] \in EdgeRecords
      /\ Root \in DOMAIN nodes /\ runs \in Nat
  BY DEF SearchInv, SearchTypeOK, NodeRecords, EdgeRecords
<1>3. /\ DOMAIN nodes' = DOMAIN nodes
      /\ \A k \in DOMAIN nodes :
           nodes'[k].visits = IF k \in Seen THEN nodes[k].visits + 1 ELSE nodes[k].visits
  <2>1. \A r \in NodeRecords : [r EXCEPT !.visits = @ + 1].visits = r.visits + 1
    BY DEF NodeRecords
  <2> QED BY <1>1, <1>2, <2>1
<1>4. /\ DOMAIN edges' = DOMAIN edges
      /\ \A e \in DOMAIN edges :
           /\ edges'[e].child = edges[e].child
           /\ edges'[e].visits = IF e \in Range(path) THEN edges[e].visits + 1 ELSE edges[e].visits
  <2>1. \A r \in EdgeRecords : [r EXCEPT !.visits = @ + 1].visits = r.visits + 1
                               /\ [r EXCEPT !.visits = @ + 1].child = r.child
    BY DEF EdgeRecords
  <2> QED BY <1>1, <1>2, <2>1
<1>5. \A k : Into(k)' = Into(k)
  BY <1>4 DEF Into
<1>6. ASSUME NEW k, k \notin Seen PROVE VisitsInto(k)' = VisitsInto(k)
  <2>1. \A e \in Into(k) : Taken'[e] = Taken[e]
    BY <1>1, <1>4, <1>6, WayOfNodes DEF Into, Taken
  <2>2. Into(k)' = Into(k)
    BY <1>5
  <2> QED BY <2>1, <2>2, SameVisits
<1>7. ASSUME NEW k \in Seen \ {Root} PROVE VisitsInto(k)' = VisitsInto(k) + 1
  <2>1. PICK e \in Into(k) : Into(k) \cap Range(path) = {e}
    BY <1>1, WayOfNodes
  <2> DEFINE f == Taken
             g == Taken'
             D == Into(k)
  <2>2. VisitsInto(k)' = SumFunctionOnSet(g, D)
    BY <1>5 DEF VisitsInto, Taken, Into
  <2>3. /\ IsFiniteSet(D) /\ VisitsInto(k) = SumFunctionOnSet(f, D) /\ VisitsInto(k) \in Int
        /\ \A d \in D : f[d] \in Int
    BY VisitsIntoIs
  <2>4. g[e] = f[e] + 1 /\ \A d \in D \ {e} : g[d] = f[d]
    BY <1>4, <2>1 DEF Into, Taken
  <2>5. f[e] \in Int /\ e \in D
    BY <2>1, <2>3
  <2> HIDE DEF f, g, D
  <2>6. \A d \in D : g[d] \in Int
    BY <2>3, <2>4, <2>5
  <2>7. SumFunctionOnSet(g, D) = SumFunctionOnSet(f, D) - f[e] + g[e]
    BY <2>3, <2>4, <2>5, <2>6, SumChanges
  <2> QED BY <2>2, <2>3, <2>4, <2>5, <2>7
<1>8. ASSUME NEW k \in DOMAIN nodes' \ {Root'} PROVE nodes'[k].visits = VisitsInto(k)'
  BY <1>1, <1>3, <1>6, <1>7, <1>8 DEF VisitsInv
<1>9. nodes'[Root'].visits = IF OnWay' THEN runs' - 1 ELSE runs'
  <2>1. Root \in Seen /\ nodes[Root].visits = runs - 1
    BY <1>1, WayOfNodes DEF VisitsInv
  <2>2. nodes'[Root].visits = runs
    BY <1>2, <1>3, <2>1
  <2>3. Root' = Root /\ runs' = runs /\ ~OnWay'
    BY <1>1
  <2> QED BY <2>2, <2>3
<1>10. \A e \in DOMAIN edges' : edges'[e].child = NoChild => edges'[e].visits = 0
  BY <1>1, <1>4, WayOfNodes DEF VisitsInv
<1> QED BY <1>4, <1>8, <1>9, <1>10 DEF VisitsInv

(* Every step of a search keeps its books.                                 *)
LEMMA VisitsStep == ASSUME SearchInv, WayInv, VisitsInv, SearchStep PROVE VisitsInv'
<1> USE DEF table, walk, flags
<1>0. Root' = Root
  BY DEF SearchStep, StartSimulation, TimeOut, SimulationsSpent, Expand, StopAtLeaf, Backup, Follow,
         Link, HitLimit, Root
<1>1. CASE StartSimulation
  <2>1. UNCHANGED <<nodes, edges>> /\ runs' = runs + 1 /\ ~OnWay /\ OnWay'
    BY <1>1 DEF StartSimulation, OnWay
  <2> QED BY <1>0, <2>1, VisitsRest
<1>2. CASE TimeOut \/ SimulationsSpent \/ StopAtLeaf \/ \E a \in Actions : HitLimit(a) \/ Follow(a)
  <2>1. UNCHANGED <<nodes, edges>> /\ UNCHANGED runs /\ (OnWay' <=> OnWay)
    BY <1>2 DEF TimeOut, SimulationsSpent, StopAtLeaf, HitLimit, Follow, Advance, Walking, OnWay
  <2> QED BY <1>0, <2>1, VisitsRest
<1> QED BY <1>1, <1>2, VisitsOfExpand, VisitsOfLink, VisitsOfBackup DEF SearchStep
-----------------------------------------------------------------------------
(* The walk, the solution and the books of a search together. *)
WholeInv == WayInv /\ SolutionInv /\ VisitsInv

(* The search an episode begins with satisfies it.                         *)
LEMMA WholeStarts == ASSUME NEW t, NEW m, SearchInit(t, m) PROVE WholeInv
<1>1. nodes[Root].visits = 0 /\ DOMAIN nodes = {Root}
  BY DEF SearchInit, Unvisited
<1>2. DOMAIN edges = {} /\ IsFiniteSet(DOMAIN edges)
  BY FS_EmptySet DEF SearchInit
<1> QED BY <1>1, <1>2 DEF SearchInit, WholeInv, WayInv, SolutionInv, VisitsInv, OnWay

(* So does every search that is built later.                               *)
LEMMA WholeRestarts == ASSUME NEW t, NEW m, Search(t, m) PROVE WholeInv'
<1>1. nodes'[Root'].visits = 0 /\ DOMAIN nodes' = {Root'}
  BY DEF Search, Unvisited
<1>2. DOMAIN edges' = {} /\ IsFiniteSet(DOMAIN edges')
  BY FS_EmptySet DEF Search
<1> QED BY <1>1, <1>2 DEF Search, WholeInv, WayInv, SolutionInv, VisitsInv, OnWay

(* A step of play_episode is one of its search, builds one, or leaves the  *)
(* one there is alone.                                                     *)
LEMMA SearchOfStep ==
  ASSUME [Next]_vars
  PROVE  SearchStep \/ (\E t, m : Search(t, m)) \/ UNCHANGED searchVars
<1>1. Forget => \E t, m : Search(t, m)
  BY DEF Forget
<1>2. \A o : End(o) => Forget
  BY DEF End
<1>3. NewSearch => \E t, m : Search(t, m)
  BY DEF NewSearch
<1>4. Searching => SearchStep
  BY DEF Searching
<1>5. GameOver \/ Interrupt \/ NoSupport \/ (\E a \in Actions : Decide(a)) => Forget
  BY <1>2 DEF GameOver, Interrupt, NoSupport, Decide
<1>6. Add \/ RefuseDuplicate \/ (\E t \in Targets, s \in Seeds : NextEpisode(t, s)) \/ UNCHANGED vars
      => UNCHANGED searchVars
  BY DEF Add, RefuseDuplicate, NextEpisode, vars
<1> QED BY <1>1, <1>3, <1>4, <1>5, <1>6 DEF Next

(* No step of an episode breaks them.                                      *)
LEMMA WholeStep == ASSUME ExperienceInv, WholeInv, [Next]_vars PROVE WholeInv'
<1>1. CASE SearchStep
  <2>1. SearchInv
    BY DEF ExperienceInv
  <2> QED BY <1>1, <2>1, WayStep, SolutionStep, VisitsStep DEF WholeInv
<1>2. CASE \E t, m : Search(t, m)
  BY <1>2, WholeRestarts
<1>3. CASE UNCHANGED searchVars
  BY <1>3 DEF searchVars, WholeInv, WayInv, SolutionInv, VisitsInv, OnWay, Chain, Standing, EndOf,
              Trajectory, Root, VisitsInto
<1> QED BY <1>1, <1>2, <1>3, SearchOfStep

(* The walks, solutions and visits of every search of every episode are as *)
(* the invariant says.                                                     *)
THEOREM SearchesAreWhole == Spec => []WholeInv
<1>1. Init => WholeInv
  BY WholeStarts DEF Init
<1>2. ExperienceInv /\ WholeInv /\ [Next]_vars => WholeInv'
  BY WholeStep
<1> QED BY <1>1, <1>2, ExperienceInvariant, PTL DEF Spec

(* Wherever a walk of SampledMCTS stands, also at nodes other walks put    *)
(* into the table, its actions lead from the target to the residual there; *)
(* and a solution sums up to the target within the moves.                  *)
THEOREM SearchWalkIsExact == Spec => []WalkIsExact
<1>1. WholeInv => WalkIsExact
  BY DEF WholeInv, WayInv, SolutionInv, OnWay, Standing, WalkIsExact
<1> QED BY <1>1, SearchesAreWhole, PTL

(* Between simulations the root has been visited by each of them, and any  *)
(* other node as often as all the edges that lead to it: _backup loses and *)
(* repeats no visit of a node that several walks share.                    *)
THEOREM SearchVisitsAreConserved == Spec => []VisitsAreConserved
<1>1. WholeInv => VisitsAreConserved
  BY DEF WholeInv, VisitsInv, OnWay, VisitsAreConserved
<1> QED BY <1>1, SearchesAreWhole, PTL
-----------------------------------------------------------------------------
(* The first i actions of an episode, and those from its i-th decision on. *)
First(ep, i) == [j \in 1 .. i |-> ep.history[j].action]
Rest(ep, i) == [j \in 1 .. Len(ep.history) - i + 1 |-> ep.history[i + j - 1].action]

(* An episode whose decisions are played one after the other: each stands  *)
(* where the actions before it lead, and the ones from it on lead to the   *)
(* residual left.                                                          *)
Stands(ep, i) == LET d == ep.history[i] IN
  /\ d.depth = i - 1
  /\ d.residual = Played(ep, i - 1) /\ d.next = Played(ep, i)
  /\ i < Len(ep.history) => d.next # Zero
  /\ Sum(Rest(ep, i)) = Subtract(d.residual, ep.residual)
Walked(ep) ==
  /\ ep.residual = Played(ep, Len(ep.history)) /\ Len(ep.history) <= MaxMoves
  /\ \A i \in 1 .. Len(ep.history) : Stands(ep, i)

(* How an episode ends, and the return of its i-th decision. *)
Ended(ep) ==
  LET n == Len(ep.history) IN
  \/ ep.outcome = "success" /\ n > 0 /\ ep.residual = Zero
  \/ ep.outcome = "truncated" /\ n >= MaxMoves /\ ep.residual # Zero
  \/ ep.outcome = "interrupted" /\ n < MaxMoves /\ (n = 0 \/ ep.residual # Zero)
ReturnOf(ep, i) ==
  IF ep.outcome = "interrupted" THEN NoReturn
  ELSE (IF ep.outcome = "success" THEN MaxMoves ELSE -(MaxMoves + 1)) - (Len(ep.history) - i + 1)
Earned(ep) ==
  /\ Walked(ep) /\ Ended(ep)
  /\ \A i \in 1 .. Len(ep.history) : decisions[ep.history[i]] = ReturnOf(ep, i)

(* A game goes on only while it is neither won nor out of moves, and what  *)
(* is in the buffer ended so and has its returns.                          *)
GameInv ==
  /\ Walked(game)
  /\ phase = "search" => ~Terminated /\ ~Truncated
  /\ phase = "add" => Ended(game)
  /\ \A ep \in Range(episodes) : Earned(ep)

(* A list of tensors that is written as a function.                        *)
LEMMA ListIs ==
  ASSUME NEW n \in Nat, NEW f, DOMAIN f = 1 .. n, f = [i \in 1 .. n |-> f[i]],
         \A i \in 1 .. n : f[i] \in Tensors
  PROVE  f \in Seq(Tensors) /\ Len(f) = n
<1>1. f \in [1 .. n -> Tensors]
  OBVIOUS
<1>2. f \in Seq(Tensors)
  BY <1>1, SeqDef
<1>3. DOMAIN f = 1 .. Len(f) /\ Len(f) \in Nat
  BY <1>2, Indices
<1> DEFINE m == Len(f)
<1>4. m \in Nat /\ 1 .. m = 1 .. n
  BY <1>3
<1> HIDE DEF m
<1>5. m = n
  BY <1>4
<1> QED BY <1>2, <1>5 DEF m

(* What an episode's history is made of.                                   *)
LEMMA HistoryIs ==
  ASSUME NEW ep \in Games
  PROVE  /\ Len(ep.history) \in Nat /\ DOMAIN ep.history = 1 .. Len(ep.history)
         /\ ep.target \in Tensors /\ ep.residual \in Tensors
         /\ \A i \in 1 .. Len(ep.history) : ep.history[i].action \in Tensors
                                            /\ ep.history[i].residual \in Tensors
<1>1. ep.history \in Seq(DecisionRecords) /\ ep.target \in Tensors /\ ep.residual \in Tensors
  BY ExperienceConstants DEF Games
<1>2. \A d \in DecisionRecords : d.action \in Tensors /\ d.residual \in Tensors
  BY SearchConstants DEF DecisionRecords
<1> QED BY <1>1, <1>2, LenProperties

(* The first actions of an episode are a list of tensors of that length.   *)
LEMMA FirstIs ==
  ASSUME NEW ep \in Games, NEW i \in 0 .. Len(ep.history)
  PROVE  First(ep, i) \in Seq(Tensors) /\ Len(First(ep, i)) = i
<1> DEFINE f == First(ep, i)
<1>1. i \in Nat /\ DOMAIN f = 1 .. i /\ f = [j \in 1 .. i |-> f[j]]
  BY HistoryIs DEF First
<1>2. \A j \in 1 .. i : f[j] \in Tensors
  <2>1. \A j \in 1 .. i : j \in 1 .. Len(ep.history)
    BY HistoryIs
  <2> QED BY <2>1, HistoryIs DEF First
<1> HIDE DEF f
<1>3. f \in Seq(Tensors) /\ Len(f) = i
  BY <1>1, <1>2, ListIs
<1> QED BY <1>3 DEF f

(* So are those from a decision on.                                        *)
LEMMA RestIs ==
  ASSUME NEW ep \in Games, NEW i \in 1 .. Len(ep.history)
  PROVE  Rest(ep, i) \in Seq(Tensors) /\ Len(Rest(ep, i)) = Len(ep.history) - i + 1
<1> DEFINE f == Rest(ep, i)
           m == Len(ep.history) - i + 1
<1>1. m \in Nat /\ DOMAIN f = 1 .. m /\ f = [j \in 1 .. m |-> f[j]]
  BY HistoryIs DEF Rest
<1>2. \A j \in 1 .. m : f[j] \in Tensors
  <2>1. \A j \in 1 .. m : i + j - 1 \in 1 .. Len(ep.history)
    BY HistoryIs
  <2> QED BY <2>1, HistoryIs DEF Rest
<1> HIDE DEF f, m
<1>3. f \in Seq(Tensors) /\ Len(f) = m
  BY <1>1, <1>2, ListIs
<1> QED BY <1>3 DEF f, m

(* Differences of tensors.                                                 *)
LEMMA TensorDifferences ==
  ASSUME NEW r \in Tensors, NEW s \in Tensors, NEW a \in Tensors
  PROVE  /\ Plus(Subtract(r, s), a) = Subtract(r, Subtract(s, a))
         /\ Plus(Zero, a) = Subtract(r, Subtract(r, a))
         /\ Subtract(r, s) = r => s = Zero
         /\ Subtract(r, Zero) = r
<1>1. \A c \in Cells : r[c] \in Int /\ s[c] \in Int /\ a[c] \in Int
  BY DEF Tensors
<1>2. Plus(Subtract(r, s), a) = Subtract(r, Subtract(s, a))
  <2>1. \A c \in Cells : (r[c] - s[c]) + a[c] = r[c] - (s[c] - a[c])
    BY <1>1
  <2> QED BY <2>1 DEF Plus, Subtract
<1>3. Plus(Zero, a) = Subtract(r, Subtract(r, a))
  <2>1. \A c \in Cells : 0 + a[c] = r[c] - (r[c] - a[c])
    BY <1>1
  <2> QED BY <2>1 DEF Plus, Subtract, Zero
<1>4. ASSUME Subtract(r, s) = r PROVE s = Zero
  <2>1. \A c \in Cells : r[c] - s[c] = r[c]
    BY <1>4 DEF Subtract
  <2>2. \A c \in Cells : s[c] = 0
    BY <1>1, <2>1
  <2> QED BY <2>2 DEF Tensors, Zero
<1>5. Subtract(r, Zero) = r
  BY SubtractSteps
<1> QED BY <1>2, <1>3, <1>4, <1>5
-----------------------------------------------------------------------------
(* A decision at the end of an episode, and what it leaves of it.          *)
Decided(p, q, a) ==
  LET n == Len(p.history) d == q.history[n + 1] IN
  /\ q.target = p.target /\ q.residual = Subtract(p.residual, a)
  /\ Len(q.history) = n + 1 /\ \A i \in 1 .. n : q.history[i] = p.history[i]
  /\ d.depth = n /\ d.residual = p.residual /\ d.action = a /\ d.next = Subtract(p.residual, a)

(* The actions before are the same, and one more subtracts it.             *)
LEMMA PlayedOn ==
  ASSUME NEW p \in Games, NEW q \in Games, NEW a \in Tensors, Decided(p, q, a)
  PROVE  /\ \A i \in 0 .. Len(p.history) : Played(q, i) = Played(p, i)
         /\ Played(q, Len(p.history) + 1) = Subtract(Played(p, Len(p.history)), a)
<1> DEFINE n == Len(p.history)
<1>1. /\ n \in Nat /\ q.target = p.target /\ Len(q.history) = n + 1 /\ q.history[n + 1].action = a
      /\ \A i \in 1 .. n : q.history[i] = p.history[i]
  BY HistoryIs DEF Decided
<1>2. \A i \in 0 .. n : First(q, i) = First(p, i)
  <2>1. \A i \in 0 .. n : \A j \in 1 .. i : q.history[j] = p.history[j]
    BY <1>1
  <2> QED BY <2>1 DEF First
<1>3. \A i : Played(p, i) = Subtract(p.target, Sum(First(p, i)))
             /\ Played(q, i) = Subtract(q.target, Sum(First(q, i)))
  BY DEF Played, First
<1>4. \A i \in 0 .. n : Played(q, i) = Played(p, i)
  BY <1>1, <1>2, <1>3
<1> DEFINE s == First(p, n)
           t == First(q, n + 1)
<1>5. /\ s \in Seq(Tensors) /\ Len(s) = n /\ t \in Seq(Tensors) /\ Len(t) = n + 1
  <2>1. n \in 0 .. Len(p.history) /\ n + 1 \in 0 .. Len(q.history)
    BY <1>1
  <2> QED BY <2>1, FirstIs
<1>6. /\ \A i \in 1 .. n : t[i] = s[i]
      /\ t[n + 1] = a
  <2>1. n + 1 \in 1 .. n + 1 /\ \A i \in 1 .. n : i \in 1 .. n + 1
    BY <1>1
  <2> QED BY <1>1, <2>1 DEF First
<1> HIDE DEF s, t, n
<1>7. Sum(t) = Plus(Sum(s), a) /\ Sum(s) \in Tensors
  BY <1>5, <1>6, SumAppends, SumIsTensor
<1>8. Subtract(p.target, Sum(t)) = Subtract(Subtract(p.target, Sum(s)), a)
  <2>1. p.target \in Tensors
    BY HistoryIs
  <2>2. \A r, u \in Tensors : Subtract(r, Plus(u, a)) = Subtract(Subtract(r, u), a)
    BY SubtractSteps
  <2>3. Subtract(p.target, Plus(Sum(s), a)) = Subtract(Subtract(p.target, Sum(s)), a)
    BY <1>7, <2>1, <2>2
  <2> QED BY <1>7, <2>3
<1>9. Played(q, n + 1) = Subtract(Played(p, n), a)
  BY <1>1, <1>3, <1>8 DEF s, t
<1> QED BY <1>4, <1>9 DEF n

(* What is left from each decision on has one action more.                 *)
LEMMA RestOn ==
  ASSUME NEW p \in Games, NEW q \in Games, NEW a \in Tensors, Decided(p, q, a),
         NEW i \in 1 .. Len(p.history),
         Sum(Rest(p, i)) = Subtract(p.history[i].residual, p.residual)
  PROVE  Sum(Rest(q, i)) = Subtract(q.history[i].residual, q.residual)
<1> DEFINE n == Len(p.history)
           m == n - i + 1
           s == Rest(p, i)
           t == Rest(q, i)
<1>1. /\ n \in Nat /\ m \in Nat /\ Len(q.history) = n + 1 /\ q.history[n + 1].action = a
      /\ \A j \in 1 .. n : q.history[j] = p.history[j]
      /\ i \in 1 .. n /\ q.residual = Subtract(p.residual, a)
  BY HistoryIs DEF Decided
<1>2. /\ s \in Seq(Tensors) /\ Len(s) = m /\ t \in Seq(Tensors) /\ Len(t) = m + 1
  <2>1. i \in 1 .. Len(p.history) /\ i \in 1 .. Len(q.history) /\ (n + 1) - i + 1 = m + 1
    BY <1>1
  <2> QED BY <1>1, <2>1, RestIs
<1>3. \A j \in 1 .. m : t[j] = s[j]
  <2>1. \A j \in 1 .. m : j \in 1 .. (n + 1) - i + 1 /\ i + j - 1 \in 1 .. n
    BY <1>1
  <2> QED BY <1>1, <2>1 DEF Rest
<1>4. t[m + 1] = a
  <2>1. m + 1 \in 1 .. (n + 1) - i + 1 /\ i + (m + 1) - 1 = n + 1
    BY <1>1
  <2> QED BY <1>1, <2>1 DEF Rest
<1> HIDE DEF s, t, n, m
<1>5. Sum(t) = Plus(Sum(s), a)
  BY <1>2, <1>3, <1>4, SumAppends
<1>6. p.history[i].residual \in Tensors /\ p.residual \in Tensors
  BY <1>1, HistoryIs DEF n
<1>7. Sum(s) = Subtract(p.history[i].residual, p.residual)
  BY DEF s
<1>8. Sum(t) = Subtract(p.history[i].residual, Subtract(p.residual, a))
  BY <1>5, <1>6, <1>7, TensorDifferences
<1> QED BY <1>1, <1>8 DEF t

(* From the last decision on there is its own action.                      *)
LEMMA RestOfLast ==
  ASSUME NEW p \in Games, NEW q \in Games, NEW a \in Tensors, Decided(p, q, a)
  PROVE  Sum(Rest(q, Len(p.history) + 1)) = Subtract(p.residual, q.residual)
<1> DEFINE n == Len(p.history)
           s == First(p, 0)
           t == Rest(q, n + 1)
<1>1. /\ n \in Nat /\ Len(q.history) = n + 1 /\ q.history[n + 1].action = a
      /\ p.residual \in Tensors /\ q.residual = Subtract(p.residual, a)
  BY HistoryIs DEF Decided
<1>2. s \in Seq(Tensors) /\ Len(s) = 0
  <2>1. 0 \in 0 .. Len(p.history)
    BY <1>1
  <2> QED BY <2>1, FirstIs
<1>3. t \in Seq(Tensors) /\ Len(t) = 1
  <2>1. n + 1 \in 1 .. Len(q.history) /\ (n + 1) - (n + 1) + 1 = 1
    BY <1>1
  <2> QED BY <1>1, <2>1, RestIs
<1>4. t[1] = a
  <2>1. 1 \in 1 .. (n + 1) - (n + 1) + 1 /\ (n + 1) + 1 - 1 = n + 1
    BY <1>1
  <2> QED BY <1>1, <2>1 DEF Rest
<1> HIDE DEF s, t, n
<1>5. Sum(s) = Zero /\ Sum(t) = Plus(Sum(s), a)
  <2>1. \A i \in 1 .. Len(s) : t[i] = s[i]
    BY <1>2
  <2>2. Len(t) = Len(s) + 1 /\ t[Len(t)] = a
    BY <1>2, <1>3, <1>4
  <2>3. Sum(t) = Plus(Sum(s), t[Len(t)])
    BY <1>2, <1>3, <2>1, <2>2, SumAppends
  <2>4. Sum(s) = Zero
    BY <1>2, SumOfNone
  <2> QED BY <2>2, <2>3, <2>4
<1>6. Sum(t) = Subtract(p.residual, q.residual)
  BY <1>1, <1>5, TensorDifferences
<1> QED BY <1>6 DEF t, n

(* A game that is neither won nor out of moves can take a decision.        *)
LEMMA WalksOn ==
  ASSUME NEW p \in Games, NEW q \in Games, NEW a \in Tensors, Decided(p, q, a), Walked(p),
         Len(p.history) < MaxMoves, Len(p.history) = 0 \/ p.residual # Zero
  PROVE  Walked(q)
<1> DEFINE n == Len(p.history)
           d == q.history[n + 1]
<1>1. /\ n \in Nat /\ MaxMoves \in Nat /\ Len(q.history) = n + 1
      /\ \A i \in 1 .. n : q.history[i] = p.history[i]
      /\ d.depth = n /\ d.residual = p.residual /\ d.next = q.residual
      /\ q.residual = Subtract(p.residual, a)
  BY HistoryIs, ExperienceConstants DEF Decided
<1>2. p.residual = Played(p, n) /\ \A i \in 1 .. n : Stands(p, i)
  BY DEF Walked
<1>3. Played(q, n) = p.residual /\ Played(q, n + 1) = q.residual
  <2>1. n \in 0 .. n
    BY <1>1
  <2> QED BY <1>1, <1>2, <2>1, PlayedOn
<1>4. ASSUME NEW i \in 1 .. n PROVE Stands(q, i)
  <2>1. /\ q.history[i] = p.history[i] /\ i - 1 \in 0 .. n /\ i \in 0 .. n /\ i < Len(q.history)
    BY <1>1
  <2>2. /\ p.history[i].depth = i - 1
        /\ p.history[i].residual = Played(p, i - 1) /\ p.history[i].next = Played(p, i)
        /\ i < n => p.history[i].next # Zero
        /\ Sum(Rest(p, i)) = Subtract(p.history[i].residual, p.residual)
    BY <1>2 DEF Stands
  <2>3. Played(q, i - 1) = Played(p, i - 1) /\ Played(q, i) = Played(p, i)
    BY <2>1, PlayedOn
  <2>4. q.history[i].next # Zero
    <3>1. CASE i < n
      BY <2>1, <2>2, <3>1
    <3>2. CASE i = n
      BY <1>1, <1>2, <2>1, <2>2, <3>2
    <3> QED BY <1>1, <3>1, <3>2
  <2>5. Sum(Rest(q, i)) = Subtract(q.history[i].residual, q.residual)
    BY <2>2, RestOn
  <2> QED BY <2>1, <2>2, <2>3, <2>4, <2>5 DEF Stands
<1>5. Stands(q, n + 1)
  <2>1. Sum(Rest(q, n + 1)) = Subtract(d.residual, q.residual)
    BY <1>1, RestOfLast
  <2>2. (n + 1) - 1 = n /\ ~(n + 1 < Len(q.history))
    BY <1>1
  <2> QED BY <1>1, <1>3, <2>1, <2>2 DEF Stands
<1>6. \A i \in 1 .. n + 1 : i \in 1 .. n \/ i = n + 1
  BY <1>1
<1>7. n + 1 <= MaxMoves
  BY <1>1
<1> HIDE DEF n, d
<1> QED BY <1>1, <1>3, <1>4, <1>5, <1>6, <1>7 DEF Walked

(* A new game has been nowhere.                                            *)
LEMMA NewWalks == ASSUME NEW t \in Targets, NEW s \in Seeds PROVE Walked(New(t, s))
<1> DEFINE p == New(t, s)
<1>1. p \in Games /\ p.target = t /\ p.residual = t /\ Len(p.history) = 0 /\ t \in Tensors
  BY NewIsTyped, ExperienceConstants DEF New
<1>2. Played(p, 0) = Subtract(p.target, Sum(First(p, 0)))
  BY DEF Played, First
<1> HIDE DEF p
<1>3. First(p, 0) \in Seq(Tensors) /\ Len(First(p, 0)) = 0
  BY <1>1, FirstIs
<1>4. Played(p, 0) = t
  BY <1>1, <1>2, <1>3, SumOfNone, TensorDifferences
<1>5. Walked(p)
  BY <1>1, <1>4, ExperienceConstants DEF Walked
<1> QED BY <1>5 DEF p

(* A game's end and its id do not matter to it.                            *)
LEMMA SameWalk ==
  ASSUME NEW p, NEW q, Walked(p), q.target = p.target, q.residual = p.residual, q.history = p.history
  PROVE  Walked(q)
BY DEF Walked, Stands, Played, Rest
-----------------------------------------------------------------------------
(* Whatever the step, the game under way has been walked as GameInv says.  *)
LEMMA GameGoesOn ==
  ASSUME ExperienceInv, GameInv, [Next]_vars
  PROVE  /\ Walked(game)'
         /\ phase' = "search" => ~Terminated' /\ ~Truncated'
         /\ phase' = "add" => Ended(game)'
<1>1. /\ game \in Games /\ Walked(game) /\ Len(game.history) \in Nat /\ MaxMoves \in Nat \ {0}
      /\ phase = "search" => ~Terminated /\ ~Truncated
  BY HistoryIs, ExperienceConstants DEF ExperienceInv, GameInv
<1>2. /\ Terminated <=> Len(game.history) > 0 /\ game.residual = Zero
      /\ Truncated <=> Len(game.history) >= MaxMoves /\ ~Terminated
  BY DEF Terminated, Truncated, Depth
<1>3. CASE game' = game /\ (phase' = phase \/ phase' \in {"search", "next"})
           /\ (phase' = "search" => ~Terminated /\ ~Truncated)
  BY <1>1, <1>3 DEF GameInv, Terminated, Truncated, Depth
<1>4. ASSUME NEW o, End(o), Walked(game') => Ended(game')
      PROVE  Walked(game') /\ phase' = "add" /\ Ended(game')
  <2>1. /\ game'.target = game.target /\ game'.residual = game.residual
        /\ game'.history = game.history /\ phase' = "add"
    BY <1>1, <1>4 DEF End, Games
  <2>2. Walked(game')
    BY <1>1, <2>1, SameWalk
  <2> QED BY <1>4, <2>1, <2>2
<1>5. ASSUME NEW o, End(o)
      PROVE  /\ game'.outcome = o /\ game'.residual = game.residual /\ game'.history = game.history
  BY <1>1, <1>5 DEF End, Games
<1>6. CASE GameOver
  <2> DEFINE o == IF Terminated THEN "success" ELSE "truncated"
  <2>1. End(o) /\ (Terminated \/ Truncated)
    BY <1>6 DEF GameOver
  <2>2. Ended(game')
    <3>1. game'.outcome = o /\ game'.residual = game.residual /\ game'.history = game.history
      BY <1>5, <2>1
    <3> QED BY <1>1, <1>2, <2>1, <3>1 DEF Ended
  <2>3. Walked(game') /\ phase' = "add"
    BY <1>4, <2>1, <2>2
  <2> QED BY <2>2, <2>3
<1>7. CASE Interrupt \/ NoSupport
  <2>1. End("interrupted") /\ ~Terminated /\ ~Truncated
    BY <1>1, <1>7 DEF Interrupt, NoSupport
  <2>2. Ended(game')
    <3>1. /\ game'.outcome = "interrupted" /\ game'.residual = game.residual
          /\ game'.history = game.history
      BY <1>5, <2>1
    <3>2. Len(game.history) < MaxMoves /\ (Len(game.history) = 0 \/ game.residual # Zero)
      BY <1>1, <1>2, <2>1
    <3> QED BY <3>1, <3>2 DEF Ended
  <2>3. Walked(game') /\ phase' = "add"
    BY <1>4, <2>1, <2>2
  <2> QED BY <2>2, <2>3
<1>8. ASSUME NEW a \in Actions, Decide(a) PROVE Walked(game') /\ phase' = "loop"
  <2> DEFINE n == Len(game.history)
  <2>1. /\ phase = "search" /\ phase' = "loop"
        /\ game' = [game EXCEPT !.residual = Subtract(@, a), !.history = Append(@, Decision(a))]
    BY <1>8 DEF Decide
  <2>2. game' \in Games /\ a \in Tensors
    BY ExperienceStep, SearchConstants DEF ExperienceInv
  <2>3. /\ game'.target = game.target /\ game'.residual = Subtract(game.residual, a)
        /\ game'.history = Append(game.history, Decision(a))
    BY <1>1, <2>1 DEF Games
  <2>4. /\ Len(game'.history) = n + 1 /\ game'.history[n + 1] = Decision(a)
        /\ \A i \in 1 .. n : game'.history[i] = game.history[i]
    <3>1. game.history \in Seq(DecisionRecords)
      BY <1>1 DEF Games
    <3> QED BY <2>3, <3>1, AppendProperties
  <2>5. Decided(game, game', a)
    BY <2>3, <2>4 DEF Decided, Decision, Depth
  <2>6. n < MaxMoves /\ (n = 0 \/ game.residual # Zero)
    BY <1>1, <1>2, <2>1
  <2> QED BY <1>1, <2>1, <2>2, <2>5, <2>6, WalksOn
<1>9. ASSUME NEW t \in Targets, NEW s \in Seeds, NextEpisode(t, s)
      PROVE  Walked(game') /\ phase' = "loop"
  BY <1>9, NewWalks DEF NextEpisode
<1>10. CASE NewSearch \/ Searching \/ Add \/ RefuseDuplicate \/ UNCHANGED vars
  BY <1>1, <1>3, <1>10 DEF NewSearch, Searching, Add, RefuseDuplicate, vars
<1> QED
  BY <1>6, <1>7, <1>8, <1>9, <1>10 DEF Next

(* An episode that is added has its returns, and the others keep theirs.   *)
LEMMA AddEarns ==
  ASSUME ExperienceInv, BufferInv, GameInv, Add, NEW ep \in Range(episodes')
  PROVE  Earned(ep)'
<1>1. ep \in Range(episodes) \cup {game} /\ RowsAreOwned'
  BY AddKeepsBuffer
<1>2. ep \in Games /\ Named(ep) /\ game \in Games /\ Named(game)
  BY <1>1 DEF BufferInv, Named
<1>3. Walked(ep) /\ Ended(ep)
  BY <1>1 DEF GameInv, Earned, Add
<1>4. \A i \in 1 .. Len(ep.history) : ep.history[i] \in RowsOf(ep)
  BY <1>2, HistoryIs DEF RowsOf, Range
<1>5. \A d \in RowsOf(ep) :
        decisions'[d] = IF d \in RowsOf(game) THEN Return(d.depth + 1) ELSE decisions[d]
  <2>1. RowsOf(ep) \subseteq DOMAIN decisions'
    BY <1>1 DEF RowsAreOwned, RowsOf
  <2>2. decisions' = [d \in (DOMAIN decisions \cup RowsOf(game)) \ OldestRows |->
                        IF d \in RowsOf(game) THEN Return(d.depth + 1) ELSE decisions[d]]
    BY DEF Add
  <2> QED BY <2>1, <2>2
<1>6. ASSUME NEW i \in 1 .. Len(ep.history) PROVE decisions'[ep.history[i]] = ReturnOf(ep, i)
  <2> DEFINE d == ep.history[i]
  <2>1. d \in RowsOf(ep)
    BY <1>4
  <2>2. CASE ep = game
    <3>1. d.depth + 1 = i
      <4>1. d.depth = i - 1
        BY <1>3 DEF Walked, Stands
      <4>2. i \in Int
        BY <1>2, HistoryIs
      <4> QED BY <4>1, <4>2
    <3>2. decisions'[d] = Return(i)
      BY <1>5, <2>1, <2>2, <3>1
    <3> QED BY <2>2, <3>2 DEF Return, Base, Depth, ReturnOf
  <2>3. CASE ep # game
    <3>1. ep \in Range(episodes)
      BY <1>1, <2>3
    <3>2. Id(ep) # Id(game)
      BY <3>1 DEF Add, Duplicate
    <3>3. d \notin RowsOf(game)
      BY <1>2, <2>1, <3>2, RowsAreDisjoint
    <3>4. decisions[d] = ReturnOf(ep, i)
      BY <3>1 DEF GameInv, Earned
    <3> QED BY <1>5, <2>1, <3>3, <3>4
  <2> QED BY <2>2, <2>3
<1> QED BY <1>3, <1>6 DEF Earned

(* Every step preserves GameInv.                                           *)
LEMMA GameStep ==
  ASSUME ExperienceInv, BufferInv, GameInv, [Next]_vars
  PROVE  GameInv'
<1>1. \A ep \in Range(episodes') : Earned(ep)'
  <2>1. CASE Add
    BY <2>1, AddEarns
  <2>2. CASE ~Add
    <3>1. UNCHANGED buffer
      BY <2>2 DEF Next, GameOver, Interrupt, NewSearch, Searching, NoSupport, RefuseDuplicate, Decide,
                  NextEpisode, End, vars, buffer
    <3> QED BY <3>1 DEF buffer, GameInv, Earned
  <2> QED BY <2>1, <2>2
<1> QED BY <1>1, GameGoesOn DEF GameInv

(* The games played and those in the buffer are as their invariants say.   *)
THEOREM EpisodesAreWhole == Spec => [](BufferInv /\ GameInv)
<1>1. Init => GameInv
  <2> SUFFICES ASSUME Init PROVE GameInv
    OBVIOUS
  <2>1. Walked(game)
    BY NewWalks DEF Init
  <2>2. phase = "loop" /\ Range(episodes) = {}
    BY DEF Init, Range
  <2> QED BY <2>1, <2>2 DEF GameInv
<1>2. Init => BufferInv
  BY BufferStarts
<1>3. ExperienceInv /\ BufferInv /\ [Next]_vars => BufferInv'
  BY BufferStep
<1>4. ExperienceInv /\ BufferInv /\ GameInv /\ [Next]_vars => GameInv'
  BY GameStep
<1> QED BY <1>1, <1>2, <1>3, <1>4, ExperienceInvariant, PTL DEF Spec

(* Whatever was won, cut off, interrupted, refused or evicted, every       *)
(* episode in the buffer passes replay_episode: its decisions are there,   *)
(* stand where its actions lead, and its outcome is what its residual and  *)
(* its length say.                                                         *)
THEOREM BufferedEpisodesReplay == Spec => []BufferReplays
<1>1. BufferInv /\ GameInv => BufferReplays
  <2> SUFFICES ASSUME BufferInv, GameInv, NEW ep \in Range(episodes) PROVE Replays(ep)
    BY DEF BufferReplays, BufferInv
  <2>1. Named(ep) /\ Walked(ep) /\ Ended(ep) /\ RowsOf(ep) \subseteq DOMAIN decisions
    BY DEF BufferInv, RowsAreOwned, GameInv, Earned
  <2>2. Len(ep.history) \in Nat /\ DOMAIN ep.history = 1 .. Len(ep.history) /\ MaxMoves \in Nat \ {0}
    BY <2>1, HistoryIs, ExperienceConstants DEF Named
  <2>3. ASSUME NEW i \in 1 .. Len(ep.history)
        PROVE  ep.history[i] \in DOMAIN decisions /\ ep.history[i].episode = Id(ep)
    <3>1. ep.history[i] \in RowsOf(ep)
      BY <2>2 DEF RowsOf, Range
    <3> QED BY <2>1, <3>1 DEF Named
  <2>4. ep.outcome = "success" <=> Len(ep.history) > 0 /\ ep.residual = Zero
    BY <2>1, <2>2 DEF Ended
  <2> QED BY <2>1, <2>3, <2>4 DEF Replays, Walked, Stands
<1> QED BY <1>1, EpisodesAreWhole, PTL

(* A decision's return in the buffer is MaxMoves less the number of        *)
(* actions from it on if these do sum up to its residual, less than        *)
(* -MaxMoves if they do not, and None exactly if its episode was           *)
(* neither won nor out of moves.                                           *)
THEOREM BufferedReturnsAreEarned == Spec => []ReturnsAreEarned
<1>1. BufferInv /\ GameInv => ReturnsAreEarned
  <2> SUFFICES ASSUME BufferInv, GameInv, NEW ep \in Range(episodes), NEW i \in DOMAIN ep.history
               PROVE  LET r == decisions[ep.history[i]]
                          rest == [j \in 1 .. Len(ep.history) - i + 1 |-> ep.history[i + j - 1].action]
                      IN  /\ r = NoReturn <=> Len(ep.history) < MaxMoves /\ ep.residual # Zero
                          /\ r # NoReturn /\ Sum(rest) = ep.history[i].residual
                               => r = MaxMoves - Len(rest)
                          /\ r # NoReturn /\ Sum(rest) # ep.history[i].residual => r < -MaxMoves
    BY DEF ReturnsAreEarned
  <2> DEFINE n == Len(ep.history)
             r == decisions[ep.history[i]]
             rest == Rest(ep, i)
             d == ep.history[i]
  <2>1. ep \in Games /\ Walked(ep) /\ Ended(ep)
    BY DEF BufferInv, Named, GameInv, Earned
  <2>2. /\ n \in Nat /\ i \in 1 .. n /\ MaxMoves \in Nat \ {0} /\ NoReturn \notin Int
        /\ d.residual \in Tensors /\ ep.residual \in Tensors
    BY <2>1, HistoryIs, ExperienceConstants
  <2>3. r = ReturnOf(ep, i) /\ Sum(rest) = Subtract(d.residual, ep.residual)
    BY <2>2 DEF GameInv, Earned, Walked, Stands
  <2>4. Len(rest) = n - i + 1
    BY <2>1, <2>2, RestIs
  <2>5. Sum(rest) = d.residual <=> ep.residual = Zero
    BY <2>2, <2>3, TensorDifferences
  <2> DEFINE m == n - i + 1
  <2>6. m \in Nat /\ m >= 1 /\ n >= 1
    BY <2>2
  <2>7. CASE ep.outcome = "success"
    BY <2>1, <2>2, <2>3, <2>4, <2>5, <2>6, <2>7 DEF Ended, ReturnOf, Rest
  <2>8. CASE ep.outcome = "truncated"
    BY <2>1, <2>2, <2>3, <2>4, <2>5, <2>6, <2>8 DEF Ended, ReturnOf, Rest
  <2>9. CASE ep.outcome = "interrupted"
    BY <2>1, <2>2, <2>3, <2>4, <2>5, <2>6, <2>9 DEF Ended, ReturnOf, Rest
  <2> QED BY <2>1, <2>7, <2>8, <2>9 DEF Ended
<1> QED BY <1>1, EpisodesAreWhole, PTL
-----------------------------------------------------------------------------
(* A bound on the steps an episode has left.  A simulation takes three more *)
(* than the moves its walk has left; a search takes its simulations, and    *)
(* one step more; and every decision a search and two steps more.           *)
Simulation == MaxMoves + 3
SearchLimit == (Simulations + 1) * Simulation
SearchLeft ==
  (Simulations - runs) * Simulation
  + (IF search = "ready" THEN 1 ELSE IF search = "backup" THEN 2
     ELSE IF search = "walk" THEN at.remaining + 3 ELSE 0)
StepsLeft ==
  IF phase = "next" THEN 0 ELSE IF phase = "add" THEN 1
  ELSE IF phase = "loop" THEN Left * (SearchLimit + 2) + 2
  ELSE (Left - 1) * (SearchLimit + 2) + 3 + SearchLeft

(* What a product does when a factor grows.                                 *)
LEMMA OneMore ==
  ASSUME NEW n \in Int, NEW m \in Int, NEW c \in Int, m = n - 1
  PROVE  m * c + c = n * c
BY Z3

LEMMA Products ==
  ASSUME NEW m \in Nat, NEW n \in Nat, NEW c \in Nat
  PROVE  /\ m * c \in Nat
         /\ m <= n => m * c <= n * c
<1>1. m * c \in Nat /\ n * c \in Nat
  BY Z3
<1>2. ASSUME m <= n PROVE m * c <= n * c
  <2>1. (n - m) * c \in Nat
    BY <1>2, Z3
  <2>2. (n - m) * c = n * c - m * c
    BY Z3
  <2> QED BY <1>1, <2>1, <2>2
<1> QED BY <1>1, <1>2

(* The numbers are numbers.                                                 *)
LEMMA SearchNumbers ==
  ASSUME ExperienceInv, WayInv, GameInv
  PROVE  /\ Simulation \in Nat /\ SearchLimit \in Nat /\ Left \in 0 .. MaxMoves
         /\ phase = "search" => SearchLeft \in 0 .. SearchLimit /\ moves = Left /\ Left > 0
<1>1. /\ MaxMoves \in Nat \ {0} /\ Simulations \in Nat \ {0} /\ runs \in 0 .. Simulations
      /\ Depth \in Nat /\ Depth <= MaxMoves
  BY ExperienceConstants, SearchConstants
  DEF ExperienceInv, SearchInv, SearchTypeOK, GameInv, Walked, Depth, Games
<1>2. Simulation \in Nat /\ Simulations - runs \in Nat /\ Left \in 0 .. MaxMoves
  BY <1>1 DEF Simulation, Left
<1>3. SearchLimit \in Nat /\ SearchLimit = Simulations * Simulation + Simulation
  BY <1>1, <1>2, Products, OneMore DEF SearchLimit
<1>4. ASSUME phase = "search"
      PROVE  SearchLeft \in 0 .. SearchLimit /\ moves = Left /\ Left > 0
  <2>1. moves = Left /\ Left > 0
    BY <1>1, <1>2, <1>4 DEF ExperienceInv, GameInv, Terminated, Truncated, Left
  <2>2. search = "walk" => at.remaining \in Nat /\ at.remaining <= MaxMoves
    <3>1. at \in Keys
      BY DEF ExperienceInv, SearchInv, SearchTypeOK
    <3>2. Len(path) \in Nat
      BY DEF ExperienceInv, SearchInv, SearchTypeOK
    <3>3. search = "walk" => at.remaining = moves - Len(path)
      BY DEF WayInv, OnWay, Standing
    <3> QED
      BY <1>1, <1>2, <2>1, <3>1, <3>2, <3>3 DEF Keys
  <2>3. PICK k \in 0 .. Simulation :
          SearchLeft = (Simulations - runs) * Simulation + k
    <3>1. \E k \in 0 .. Simulation :
            k = IF search = "ready" THEN 1 ELSE IF search = "backup" THEN 2
                ELSE IF search = "walk" THEN at.remaining + 3 ELSE 0
      BY <1>1, <2>2 DEF Simulation
    <3> QED
      BY <3>1 DEF SearchLeft
  <2>4. (Simulations - runs) * Simulation \in Nat
        /\ (Simulations - runs) * Simulation <= Simulations * Simulation
    BY <1>1, <1>2, Products
  <2>5. Simulations * Simulation \in Nat
    BY <1>1, <1>2, Products
  <2> QED
    BY <1>2, <1>3, <2>1, <2>3, <2>4, <2>5
<1> QED
  BY <1>2, <1>3, <1>4

(* Every step of a search leaves it fewer.                                  *)
LEMMA SearchStepsLeft ==
  ASSUME SearchInv, SearchStep, moves <= MaxMoves
  PROVE  SearchLeft' < SearchLeft
<1> USE DEF table, walk, flags
<1>1. /\ MaxMoves \in Nat \ {0} /\ Simulations \in Nat \ {0} /\ runs \in 0 .. Simulations
      /\ moves \in Nat /\ Simulation \in Nat /\ at \in Keys
      /\ search \in {"ready", "walk", "backup", "done"}
  BY ExperienceConstants, SearchConstants DEF SearchInv, SearchTypeOK, Simulation
<1>2. at.remaining \in Nat
  BY <1>1 DEF Keys
<1> DEFINE Over(s, k) == IF s = "ready" THEN 1 ELSE IF s = "backup" THEN 2
                         ELSE IF s = "walk" THEN k.remaining + 3 ELSE 0
<1>3. (Simulations - runs) * Simulation \in Nat
  <2>1. Simulations - runs \in Nat
    BY <1>1
  <2> QED
    BY <1>1, <2>1, Products
<1>4. SearchLeft = (Simulations - runs) * Simulation + Over(search, at)
  BY DEF SearchLeft
<1>5. SearchLeft' = (Simulations - runs') * Simulation + Over(search', at')
  BY DEF SearchLeft, Simulation
<1>6. CASE StartSimulation
  <2>1. (Simulations - runs') * Simulation + Simulation = (Simulations - runs) * Simulation
    <3>1. Simulations - runs' = (Simulations - runs) - 1 /\ Simulations - runs' \in Int
          /\ Simulations - runs \in Int
      BY <1>1, <1>6 DEF StartSimulation
    <3> QED
      BY <1>1, <3>1, OneMore
  <2>2. (Simulations - runs') * Simulation \in Int
    <3>1. Simulations - runs' \in Nat
      BY <1>1, <1>6 DEF StartSimulation
    <3> QED
      BY <1>1, <3>1, Products
  <2>3. Over(search, at) = 1 /\ Over(search', at') = moves + 3
    BY <1>6 DEF StartSimulation, Root
  <2>4. Simulation = MaxMoves + 3
    BY DEF Simulation
  <2> HIDE DEF Over
  <2> QED
    BY <1>1, <1>3, <1>4, <1>5, <2>1, <2>2, <2>3, <2>4
<1>7. ASSUME runs' = runs, Over(search', at') \in Int, Over(search', at') < Over(search, at)
      PROVE  SearchLeft' < SearchLeft
  <2>1. Over(search, at) \in Int
    BY <1>2
  <2> HIDE DEF Over
  <2> QED
    BY <1>3, <1>4, <1>5, <1>7, <2>1
<1>8. CASE TimeOut \/ SimulationsSpent \/ Expand \/ StopAtLeaf \/ Backup
           \/ \E a \in Actions : HitLimit(a)
  <2>1. runs' = runs
    BY <1>8 DEF TimeOut, SimulationsSpent, Expand, StopAtLeaf, Backup, HitLimit
  <2>2. \/ search = "ready" /\ search' = "done"
        \/ search = "walk" /\ search' = "backup"
        \/ search = "backup" /\ search' = "ready"
    BY <1>8 DEF TimeOut, SimulationsSpent, Expand, StopAtLeaf, Backup, HitLimit, Walking
  <2> QED
    BY <1>2, <1>7, <2>1, <2>2
<1>9. ASSUME NEW a \in Actions, Follow(a) \/ Link(a) PROVE SearchLeft' < SearchLeft
  <2>1. runs' = runs /\ search = "walk" /\ Edge(at, a) \in DOMAIN edges
    BY <1>9 DEF Follow, Link, Walking, Support
  <2>2. Advance(Edge(at, a), Child(at, a))
    <3>1. CASE Follow(a)
      BY <2>1, <3>1 DEF Follow, SearchInv, TableIsExact, Edge
    <3>2. CASE Link(a)
      BY <3>2 DEF Link
    <3> QED
      BY <1>9, <3>1, <3>2
  <2>3. \/ search' = "backup"
        \/ search' = "walk" /\ at'.remaining = at.remaining - 1
    BY <2>1, <2>2 DEF Advance, Child
  <2> QED
    BY <1>2, <1>7, <2>1, <2>3
<1> QED
  BY <1>6, <1>8, <1>9 DEF SearchStep

(* Every step of an episode leaves it fewer.                                *)
LEMMA EpisodeStepsLeft ==
  ASSUME ExperienceInv, WayInv, GameInv, ExperienceInv', WayInv', GameInv', Next, phase # "next"
  PROVE  StepsLeft' < StepsLeft
<1>1. /\ SearchLimit \in Nat /\ Left \in 0 .. MaxMoves /\ MaxMoves \in Nat
      /\ phase = "search" => SearchLeft \in 0 .. SearchLimit /\ moves = Left /\ Left > 0
  BY SearchNumbers, ExperienceConstants
<1>2. /\ Left' \in 0 .. MaxMoves
      /\ phase' = "search" => SearchLeft' \in 0 .. SearchLimit /\ moves' = Left' /\ Left' > 0
  <2>1. (ExperienceInv /\ WayInv /\ GameInv =>
          /\ Simulation \in Nat /\ SearchLimit \in Nat /\ Left \in 0 .. MaxMoves
          /\ phase = "search" => SearchLeft \in 0 .. SearchLimit /\ moves = Left /\ Left > 0)'
    BY SearchNumbers, PTL
  <2>2. SearchLimit' = SearchLimit
    BY DEF SearchLimit, Simulation
  <2> QED
    BY <2>1, <2>2
<1> DEFINE Whole(n) == n * (SearchLimit + 2)
<1>3. \A n \in Nat : Whole(n) \in Nat /\ (n > 0 => Whole(n - 1) \in Nat
                       /\ Whole(n - 1) + SearchLimit + 2 = Whole(n))
  <2> SUFFICES ASSUME NEW n \in Nat
               PROVE  Whole(n) \in Nat /\ (n > 0 => Whole(n - 1) \in Nat
                       /\ Whole(n - 1) + SearchLimit + 2 = Whole(n))
    OBVIOUS
  <2>1. SearchLimit + 2 \in Nat /\ (n > 0 => n - 1 \in Nat)
    BY <1>1
  <2>2. Whole(n) \in Nat /\ (n > 0 => Whole(n - 1) \in Nat)
    BY <2>1, Products
  <2>3. n > 0 => Whole(n - 1) + (SearchLimit + 2) = Whole(n)
    BY <2>1, OneMore
  <2> HIDE DEF Whole
  <2> QED
    BY <1>1, <2>2, <2>3
<1>4. /\ phase = "next" => StepsLeft = 0
      /\ phase = "add" => StepsLeft = 1
      /\ phase = "loop" => StepsLeft = Whole(Left) + 2
      /\ phase = "search" => StepsLeft = Whole(Left - 1) + 3 + SearchLeft
  BY DEF StepsLeft
<1>5. /\ phase' = "next" => StepsLeft' = 0
      /\ phase' = "add" => StepsLeft' = 1
      /\ phase' = "loop" => StepsLeft' = Whole(Left') + 2
      /\ phase' = "search" => StepsLeft' = Whole(Left' - 1) + 3 + SearchLeft'
  BY DEF StepsLeft, SearchLimit, Simulation
<1> HIDE DEF Whole
<1>6. CASE GameOver \/ Interrupt \/ NoSupport
  <2>1. phase \in {"loop", "search"} /\ phase' = "add"
    BY <1>6 DEF GameOver, Interrupt, NoSupport, End
  <2> QED
    BY <1>1, <1>3, <1>4, <1>5, <2>1
<1>7. CASE NewSearch
  <2>1. phase = "loop" /\ phase' = "search" /\ Left' = Left
    BY <1>7 DEF NewSearch, Left, Depth
  <2> QED
    BY <1>1, <1>2, <1>3, <1>4, <1>5, <2>1
<1>8. CASE Searching
  <2>1. phase = "search" /\ phase' = "search" /\ Left' = Left /\ SearchStep
    BY <1>8 DEF Searching, Left, Depth
  <2>2. SearchLeft' < SearchLeft
    BY <1>1, <2>1, SearchStepsLeft DEF ExperienceInv
  <2> QED
    BY <1>1, <1>2, <1>3, <1>4, <1>5, <2>1, <2>2
<1>9. ASSUME NEW a \in Actions, Decide(a) PROVE StepsLeft' < StepsLeft
  <2>1. phase = "search" /\ phase' = "loop"
    BY <1>9 DEF Decide
  <2>2. Left' = Left - 1
    <3>1. game.history \in Seq(DecisionRecords) /\ game'.history = Append(game.history, Decision(a))
      BY <1>9 DEF ExperienceInv, Games, Decide
    <3>2. Len(game'.history) = Len(game.history) + 1 /\ Len(game.history) \in Nat
      BY <3>1
    <3> QED
      BY <1>1, <3>2 DEF Left, Depth
  <2> QED
    BY <1>1, <1>2, <1>3, <1>4, <1>5, <2>1, <2>2
<1>10. CASE Add \/ RefuseDuplicate
  BY <1>4, <1>5, <1>10 DEF Add, RefuseDuplicate
<1>11. ~ \E t \in Targets, s \in Seeds : NextEpisode(t, s)
  BY DEF NextEpisode
<1> QED
  BY <1>6, <1>7, <1>8, <1>9, <1>10, <1>11 DEF Next

(* No episode goes on for ever: every step of it, of its searches and of    *)
(* their walks leaves it fewer, for each move it has two more than its      *)
(* longest search.                                                          *)
THEOREM EpisodeStepsAreBounded ==
  Spec => /\ [](StepsLeft \in 0 .. MaxMoves * (SearchLimit + 2) + 2)
          /\ [][phase # "next" => StepsLeft' < StepsLeft]_vars
<1>1. ExperienceInv /\ WayInv /\ GameInv => StepsLeft \in 0 .. MaxMoves * (SearchLimit + 2) + 2
  <2> SUFFICES ASSUME ExperienceInv, WayInv, GameInv
               PROVE  StepsLeft \in 0 .. MaxMoves * (SearchLimit + 2) + 2
    OBVIOUS
  <2>1. /\ SearchLimit \in Nat /\ Left \in 0 .. MaxMoves /\ MaxMoves \in Nat
        /\ phase = "search" => SearchLeft \in 0 .. SearchLimit /\ Left > 0
        /\ phase \in {"loop", "search", "add", "next"}
    BY SearchNumbers, ExperienceConstants DEF ExperienceInv
  <2>2. /\ SearchLimit + 2 \in Nat /\ Left \in Nat /\ Left <= MaxMoves
        /\ phase = "search" => Left - 1 \in Nat
    BY <2>1
  <2>3. /\ Left * (SearchLimit + 2) \in Nat
        /\ Left * (SearchLimit + 2) <= MaxMoves * (SearchLimit + 2)
        /\ MaxMoves * (SearchLimit + 2) \in Nat
    BY <2>1, <2>2, Products
  <2>4. phase = "search" => /\ (Left - 1) * (SearchLimit + 2) \in Nat
                            /\ (Left - 1) * (SearchLimit + 2) + (SearchLimit + 2) = Left * (SearchLimit + 2)
    BY <2>2, Products, OneMore
  <2>5. StepsLeft \in Nat /\ StepsLeft <= Left * (SearchLimit + 2) + 2
    BY <2>1, <2>3, <2>4 DEF StepsLeft
  <2> QED
    BY <2>3, <2>5
<1>2. ExperienceInv /\ WayInv /\ GameInv /\ (ExperienceInv /\ WayInv /\ GameInv)' /\ [Next]_vars
      => [phase # "next" => StepsLeft' < StepsLeft]_vars
  BY EpisodeStepsLeft
<1>3. WholeInv => WayInv
  BY DEF WholeInv
<1> QED
  BY <1>1, <1>2, <1>3, ExperienceInvariant, SearchesAreWhole, EpisodesAreWhole, PTL DEF Spec
=============================================================================
