----------------------------- MODULE SampledSearch -----------------------------
(***************************************************************************)
(* SampledMCTS (src/src/matmul_inspector/tensor_game_search.py) over the   *)
(* exact residuals of src/src/matmul_inspector/tensor_game.py: simulations *)
(* from the root through a table of nodes keyed by residual and remaining  *)
(* moves, which different orders of the same actions share.                *)
(*                                                                         *)
(* A tensor is a function from its cells to the integers and an action is  *)
(* its outer product, which names it (canonicalize_action).  Priors,       *)
(* values and PUCT scores only choose an action, so the choice is free.    *)
(***************************************************************************)
EXTENDS Integers, Sequences, FiniteSets, Functions

CONSTANTS
  Cells,        \* index set of a tensor
  Actions,      \* outer products a policy may propose
  Simulations,  \* SearchConfig.simulations
  MaxActions,   \* SearchConfig.max_actions
  NodeLimit,    \* SearchConfig.node_limit
  NoChild, NoSolution

Tensors == [Cells -> Int]
Keys == [residual : Tensors, remaining : Nat]

ASSUME SearchConstants ==
  /\ Actions \subseteq Tensors
  /\ Simulations \in Nat \ {0} /\ MaxActions \in Nat \ {0} /\ NodeLimit \in Nat \ {0}
  /\ NoChild \notin Keys /\ NoSolution \notin Seq(Actions)

VARIABLES
  target, moves,  \* what is searched and max_moves
  nodes,          \* the table: visits and expanded, by key
  edges,          \* ActionStatistics: visits and child, by key and action
  search,         \* where run() is
  at, path,       \* node of the walk and the edges that led to it
  runs,           \* simulations_run
  limited, timedOut,
  solution

walk == <<at, path>>
flags == <<limited, timedOut>>
table == <<nodes, edges>>
searchVars == <<target, moves, nodes, edges, search, at, path, runs, limited, timedOut, solution>>

Zero == [c \in Cells |-> 0]
Subtract(r, a) == [c \in Cells |-> r[c] - a[c]]
Sum(actions) == [c \in Cells |-> FoldFunction(LAMBDA a, n : a[c] + n, 0, actions)]

Root == [residual |-> target, remaining |-> moves]
Edge(k, a) == [from |-> k, action |-> a]
Terminal(k) == k.residual = Zero
Support(k) == {a \in Actions : Edge(k, a) \in DOMAIN edges}

Child(k, a) == [residual |-> Subtract(k.residual, a), remaining |-> k.remaining - 1]

(* A search of t in m moves is built, and its root put into the table. *)
Unvisited == [visits |-> 0, expanded |-> FALSE]
Untaken == [visits |-> 0, child |-> NoChild]

SearchInit(t, m) ==
  /\ target = t /\ moves = m
  /\ nodes = [k \in {Root} |-> Unvisited] /\ edges = [e \in {} |-> Untaken]
  /\ search = "ready" /\ at = Root /\ path = << >> /\ runs = 0
  /\ limited = FALSE /\ timedOut = FALSE /\ solution = NoSolution

Search(t, m) ==
  /\ target' = t /\ moves' = m
  /\ nodes' = [k \in {Root'} |-> Unvisited] /\ edges' = [e \in {} |-> Untaken]
  /\ search' = "ready" /\ at' = Root' /\ path' = << >> /\ runs' = 0
  /\ limited' = FALSE /\ timedOut' = FALSE /\ solution' = NoSolution
-----------------------------------------------------------------------------
(* Mutant of StartSimulation: the path of the last one is not forgotten. *)
StartOnOldPath ==
  /\ search = "ready" /\ runs < Simulations
  /\ runs' = runs + 1
  /\ search' = "walk" /\ at' = Root /\ UNCHANGED path
  /\ UNCHANGED <<target, moves, table, flags, solution>>

StartSimulation ==
  /\ search = "ready" /\ runs < Simulations
  /\ runs' = runs + 1
  /\ search' = "walk" /\ at' = Root /\ path' = << >>
  /\ UNCHANGED <<target, moves, table, flags, solution>>

(* The wall time is looked at between simulations, before the first too. *)
TimeOut ==
  /\ search = "ready" /\ runs < Simulations
  /\ timedOut' = TRUE /\ search' = "done"
  /\ UNCHANGED <<target, moves, table, walk, runs, limited, solution>>

SimulationsSpent ==
  /\ search = "ready" /\ runs = Simulations
  /\ search' = "done"
  /\ UNCHANGED <<target, moves, table, walk, runs, flags, solution>>

Walking == search = "walk" /\ ~Terminal(at) /\ at.remaining > 0

(* _expand: the policy proposes what it likes, nothing included. *)
Expand ==
  /\ Walking /\ ~nodes[at].expanded
  /\ \E P \in SUBSET Actions :
       /\ IsFiniteSet(P) /\ Cardinality(P) <= MaxActions
       /\ edges' = [e \in DOMAIN edges \cup {Edge(at, a) : a \in P} |->
                      IF e \in DOMAIN edges THEN edges[e] ELSE Untaken]
  /\ nodes' = [nodes EXCEPT ![at].expanded = TRUE]
  /\ search' = "backup"
  /\ UNCHANGED <<target, moves, walk, runs, flags, solution>>

(* The walk ends at a terminal node, with the last move, or without action. *)
StopAtLeaf ==
  /\ search = "walk"
  /\ ~Walking \/ (nodes[at].expanded /\ Support(at) = {})
  /\ search' = "backup"
  /\ UNCHANGED <<target, moves, table, walk, runs, flags, solution>>

(* The nodes of the walk.  It goes on to a child unless it has been there. *)
(* Mutant of Seen: the leaf is left out. *)
SeenBefore == {path[i].from : i \in DOMAIN path}

Seen == {at} \cup {path[i].from : i \in DOMAIN path}

Advance(e, child) ==
  /\ path' = Append(path, e)
  /\ IF child \in Seen THEN search' = "backup" /\ UNCHANGED at
     ELSE at' = child /\ UNCHANGED search

Follow(a) ==
  /\ Walking /\ nodes[at].expanded /\ a \in Support(at)
  /\ edges[Edge(at, a)].child # NoChild
  /\ Advance(Edge(at, a), edges[Edge(at, a)].child)
  /\ UNCHANGED <<target, moves, table, runs, flags, solution>>

(* Mutant of Room: the table is looked at after it has grown. *)
RoomForOne(child) == child \in DOMAIN nodes \/ Cardinality(DOMAIN nodes) <= NodeLimit

Room(child) == child \in DOMAIN nodes \/ Cardinality(DOMAIN nodes) < NodeLimit

(* An edge taken for the first time finds its child in the table, a        *)
(* transposition, or puts it there.                                        *)
Link(a) ==
  LET e == Edge(at, a) child == Child(at, a) IN
  /\ Walking /\ nodes[at].expanded /\ a \in Support(at)
  /\ edges[e].child = NoChild /\ Room(child)
  /\ nodes' = [k \in DOMAIN nodes \cup {child} |->
                 IF k \in DOMAIN nodes THEN nodes[k] ELSE Unvisited]
  /\ edges' = [edges EXCEPT ![e].child = child]
  /\ Advance(e, child)
  /\ UNCHANGED <<target, moves, runs, flags, solution>>

(* Mutant of HitLimit: the walk looks for another action for ever. *)
HitLimitAgain(a) ==
  /\ Walking /\ nodes[at].expanded /\ a \in Support(at)
  /\ edges[Edge(at, a)].child = NoChild /\ ~Room(Child(at, a))
  /\ limited' = TRUE
  /\ UNCHANGED <<target, moves, table, search, walk, runs, timedOut, solution>>

HitLimit(a) ==
  /\ Walking /\ nodes[at].expanded /\ a \in Support(at)
  /\ edges[Edge(at, a)].child = NoChild /\ ~Room(Child(at, a))
  /\ limited' = TRUE /\ search' = "backup"
  /\ UNCHANGED <<target, moves, table, walk, runs, timedOut, solution>>

Trajectory == [i \in DOMAIN path |-> path[i].action]

Better == Sum(Trajectory) = target /\ (solution = NoSolution \/ Len(path) < Len(solution))

(* _backup and the solution: a terminal walk is believed only if it sums   *)
(* up to the target.                                                       *)
Backup ==
  /\ search = "backup"
  /\ nodes' = [k \in DOMAIN nodes |->
                 IF k \in Seen THEN [nodes[k] EXCEPT !.visits = @ + 1] ELSE nodes[k]]
  /\ edges' = [e \in DOMAIN edges |->
                 IF e \in Range(path) THEN [edges[e] EXCEPT !.visits = @ + 1] ELSE edges[e]]
  /\ solution' = IF Terminal(at) /\ Better THEN Trajectory ELSE solution
  /\ search' = "ready"
  /\ UNCHANGED <<target, moves, walk, runs, flags>>

SearchStep ==
  \/ StartSimulation \/ TimeOut \/ SimulationsSpent \/ Expand \/ StopAtLeaf \/ Backup
  \/ \E a \in Actions : Follow(a) \/ Link(a) \/ HitLimit(a)
-----------------------------------------------------------------------------
(* Every variable keeps its type.                                          *)
SearchTypeOK ==
  /\ target \in Tensors /\ moves \in Nat \ {0}
  /\ DOMAIN nodes \subseteq Keys /\ Root \in DOMAIN nodes
  /\ nodes \in [DOMAIN nodes -> [visits : Nat, expanded : BOOLEAN]]
  /\ DOMAIN edges \subseteq [from : DOMAIN nodes, action : Actions]
  /\ edges \in [DOMAIN edges -> [visits : Nat, child : Keys \cup {NoChild}]]
  /\ search \in {"ready", "walk", "backup", "done"}
  /\ at \in DOMAIN nodes /\ path \in Seq(DOMAIN edges) /\ runs \in 0 .. Simulations
  /\ limited \in BOOLEAN /\ timedOut \in BOOLEAN
  /\ solution \in Seq(Actions) \cup {NoSolution}

(* The table and what is cached beside it agree: a cached child is in the  *)
(* table and is exactly its parent's residual less the action, with one    *)
(* move less, whichever walk linked it first; and the table never outgrows *)
(* its limit, although walks add to it one node at a time.                 *)
TableIsExact ==
  /\ Cardinality(DOMAIN nodes) <= NodeLimit
  /\ \A e \in DOMAIN edges : edges[e].child # NoChild =>
       edges[e].child = Child(e.from, e.action) /\ edges[e].child \in DOMAIN nodes

(* Between simulations, the root has been visited by each of them, and     *)
(* every other node as often as all the edges that lead to it, which may   *)
(* be several: no simulation is lost, or counted twice, by a shared node,  *)
(* a full table, or a node without actions.                                *)
VisitsInto(k) ==
  SumFunctionOnSet([e \in DOMAIN edges |-> edges[e].visits],
                   {e \in DOMAIN edges : edges[e].child = k})
VisitsAreConserved ==
  search \in {"ready", "done"} =>
    /\ nodes[Root].visits = runs
    /\ \A k \in DOMAIN nodes \ {Root} : nodes[k].visits = VisitsInto(k)

(* Wherever a walk stands, target and residual differ by the actions it    *)
(* took, also through nodes that other walks made: so no terminal walk is  *)
(* discarded as inexact, and a solution found is one, within the moves.    *)
WalkIsExact ==
  /\ search \in {"walk", "backup"} =>
       /\ at.residual = Subtract(target, Sum(Trajectory))
       /\ at.remaining = moves - Len(path)
  /\ solution # NoSolution => Sum(solution) = target /\ Len(solution) <= moves
================================================================================
