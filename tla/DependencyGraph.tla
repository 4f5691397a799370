---------------------------- MODULE DependencyGraph ----------------------------
(***************************************************************************)
(* The dependency resolver of internal/graph: resources are added to a    *)
(* graph with an edge to each resource they refer to (AddResource), a      *)
(* three-colour depth-first search looks for a cycle (detectCycle), and    *)
(* Kahn's algorithm cuts the graph into the layers that the engine runs    *)
(* one after the other (topologicalSort).                                  *)
(*                                                                         *)
(* Go ranges over a map in any order, so the choice of the next root, the  *)
(* next edge and the next node of a layer is nondeterministic here.  The   *)
(* final sort inside a layer (by kind, then by name) only orders a layer   *)
(* that is already complete: a layer is a set.                             *)
(***************************************************************************)
EXTENDS Integers, Sequences, FiniteSets, SequencesExt

CONSTANTS
    Node,  \* the node ids, "Kind/Name" in the code
    Kind   \* Kind[n]: the resource kind of node n

Kinds == {"Runtime", "Installer", "InstallerRepository", "Tool"}

ASSUME NodeAssumption == IsFiniteSet(Node)

ASSUME KindAssumption == Kind \in [Node -> Kinds]

VARIABLES
    pc,        \* "build", "detect", "sort", "sorted" or "cyclic"
    nodes,     \* dag.nodes
    edges,     \* dag.edges: edges[n] is the set of nodes n depends on
    inDegree,  \* dag.inDegree: number of dependencies of a node
    color,     \* detectCycle: white, gray (on the current path) or black
    parent,    \* detectCycle: the node a white node was reached from
    path,      \* detectCycle: the stack of recursive calls
    cycle,     \* detectCycle: the path reported
    remaining, \* topologicalSort: its own copy of inDegree
    queue,     \* topologicalSort: the nodes of the layer being built
    layer,     \* topologicalSort: those of them already placed
    nextQueue, \* topologicalSort: the nodes of the layer after it
    layers     \* topologicalSort: the result

graphVars == <<nodes, edges, inDegree>>
dfsVars == <<color, parent, path, cycle>>
sortVars == <<remaining, queue, layer, nextQueue, layers>>
vars == <<pc, graphVars, dfsVars, sortVars>>

Init ==
    /\ pc = "build"
    /\ nodes = {}
    /\ edges = [n \in Node |-> {}]
    /\ inDegree = [n \in Node |-> 0]
    /\ color = [n \in Node |-> "white"]
    /\ parent = [n \in Node |-> n]
    /\ path = <<>>
    /\ cycle = <<>>
    /\ remaining = [n \in Node |-> 0]
    /\ queue = {}
    /\ layer = {}
    /\ nextQueue = {}
    /\ layers = <<>>

--------------------------------------------------------------------------------
(***************************************************************************)
(* Building the graph.                                                     *)
(***************************************************************************)

RefsOfKind(refs, k) == {d \in refs : Kind[d] = k}

\* What Dependencies() of a resource of this kind can return.
SpecDependencies(n) ==
    {refs \in SUBSET Node :
        /\ Kind[n] = "Runtime" => refs = {}
        /\ Kind[n] = "Installer" =>
              /\ \A d \in refs : Kind[d] \in {"Runtime", "Tool"}
              /\ Cardinality(RefsOfKind(refs, "Runtime")) <= 1
        /\ Kind[n] = "InstallerRepository" =>
              /\ refs = RefsOfKind(refs, "Installer")
              /\ Cardinality(refs) = 1
        /\ Kind[n] = "Tool" =>
              /\ RefsOfKind(refs, "Tool") = {}
              /\ \A k \in Kinds : Cardinality(RefsOfKind(refs, k)) <= 1}

NewDegree_Duplicates(n, refs) == Cardinality(edges[n]) + Cardinality(refs)

\* addEdge counts an edge only when it is new.
NewDegree(n, refs) == inDegree[n] + Cardinality(refs \ edges[n])

\* AddResource: the node, a node for every reference (also for one that is
\* declared later or never), and the edges.  A manifest loaded twice gives an
\* id twice, with the same references or with others: their edges add up.
AddResource(n) ==
    /\ pc = "build"
    /\ \E refs \in SpecDependencies(n) :
          /\ nodes' = nodes \cup {n} \cup refs
          /\ edges' = [edges EXCEPT ![n] = @ \cup refs]
          /\ inDegree' = [inDegree EXCEPT ![n] = NewDegree(n, refs)]
    /\ UNCHANGED <<pc, dfsVars, sortVars>>

\* Resolve: all resources of the manifest have been added.
Resolve ==
    /\ pc = "build"
    /\ pc' = "detect"
    /\ UNCHANGED <<graphVars, dfsVars, sortVars>>

--------------------------------------------------------------------------------
(***************************************************************************)
(* Looking for a cycle.                                                    *)
(***************************************************************************)

Top == path[Len(path)]

VisitRoot(n) ==
    /\ pc = "detect"
    /\ path = <<>>
    /\ n \in nodes
    /\ color[n] = "white"
    /\ color' = [color EXCEPT ![n] = "gray"]
    /\ path' = <<n>>
    /\ UNCHANGED <<pc, parent, cycle, graphVars, sortVars>>

Descend(d) ==
    /\ pc = "detect"
    /\ path # <<>>
    /\ d \in edges[Top]
    /\ color[d] = "white"
    /\ parent' = [parent EXCEPT ![d] = Top]
    /\ color' = [color EXCEPT ![d] = "gray"]
    /\ path' = Append(path, d)
    /\ UNCHANGED <<pc, cycle, graphVars, sortVars>>

\* The nodes met walking up the parents from node, up to but not including dep.
WalkUp(node, dep) ==
    LET up[k \in 0 .. Cardinality(nodes)] ==
            IF k = 0 THEN node
            ELSE IF up[k - 1] = dep THEN dep ELSE parent[up[k - 1]]
        steps == CHOOSE k \in DOMAIN up :
                     up[k] = dep /\ \A j \in 0 .. k - 1 : up[j] # dep
    IN  [k \in 1 .. steps |-> up[k - 1]]

CyclePath_NotReversed(node, dep) == <<dep>> \o WalkUp(node, dep) \o <<dep>>

CyclePath(node, dep) == Reverse(<<dep>> \o WalkUp(node, dep) \o <<dep>>)

IsBackEdge(d) == d \in edges[Top] /\ color[d] = "gray"

FindCycle(d) ==
    /\ pc = "detect"
    /\ path # <<>>
    /\ IsBackEdge(d)
    /\ cycle' = CyclePath(Top, d)
    /\ pc' = "cyclic"
    /\ UNCHANGED <<color, parent, path, graphVars, sortVars>>

FinishedColor_White == "white"

FinishedColor == "black"

\* The loop over the dependencies of the top call is over.
Finish ==
    /\ pc = "detect"
    /\ path # <<>>
    /\ \A d \in edges[Top] : color[d] # "white" /\ ~IsBackEdge(d)
    /\ color' = [color EXCEPT ![Top] = FinishedColor]
    /\ path' = SubSeq(path, 1, Len(path) - 1)
    /\ UNCHANGED <<pc, parent, cycle, graphVars, sortVars>>

--------------------------------------------------------------------------------
(***************************************************************************)
(* Cutting the graph into layers.                                          *)
(***************************************************************************)

Dependents(n) == {m \in nodes : n \in edges[m]}

StartSort ==
    /\ pc = "detect"
    /\ path = <<>>
    /\ \A n \in nodes : color[n] = "black"
    /\ pc' = "sort"
    /\ remaining' = inDegree
    /\ queue' = {n \in nodes : inDegree[n] = 0}
    /\ UNCHANGED <<layer, nextQueue, layers, graphVars, dfsVars>>

Released_TooEarly(n) == Dependents(n)

\* The dependents whose count reaches zero when n is placed.
Released(n) == {m \in Dependents(n) : remaining[m] - 1 = 0}

Place(n) ==
    /\ pc = "sort"
    /\ n \in queue \ layer
    /\ layer' = layer \cup {n}
    /\ remaining' = [m \in Node |->
                        IF m \in Dependents(n) THEN remaining[m] - 1 ELSE remaining[m]]
    /\ nextQueue' = nextQueue \cup Released(n)
    /\ UNCHANGED <<pc, queue, layers, graphVars, dfsVars>>

CloseLayer_TooSoon ==
    /\ pc = "sort"
    /\ layer # {}
    /\ layers' = Append(layers, layer)
    /\ queue' = nextQueue \cup (queue \ layer)
    /\ layer' = {}
    /\ nextQueue' = {}
    /\ UNCHANGED <<pc, remaining, graphVars, dfsVars>>

\* The whole queue has been placed.
CloseLayer ==
    /\ pc = "sort"
    /\ queue # {}
    /\ layer = queue
    /\ layers' = Append(layers, layer)
    /\ queue' = nextQueue
    /\ layer' = {}
    /\ nextQueue' = {}
    /\ UNCHANGED <<pc, remaining, graphVars, dfsVars>>

Sorted ==
    /\ pc = "sort"
    /\ queue = {}
    /\ pc' = "sorted"
    /\ UNCHANGED <<graphVars, dfsVars, sortVars>>

Next ==
    \/ \E n \in Node : AddResource(n)
    \/ Resolve
    \/ \E n \in Node : VisitRoot(n)
    \/ \E d \in Node : Descend(d)
    \/ \E d \in Node : FindCycle(d)
    \/ Finish
    \/ StartSort
    \/ \E n \in Node : Place(n)
    \/ CloseLayer
    \/ Sorted

Spec == Init /\ [][Next]_vars

\* The resolver runs in one goroutine that nothing interrupts.
FairSpec == Spec /\ WF_vars(Next)

--------------------------------------------------------------------------------
(***************************************************************************)
(* Properties.                                                             *)
(***************************************************************************)

Placed == UNION {layers[i] : i \in DOMAIN layers}

\* Every variable has the type the Go declarations give it; in particular no
\* counter of topologicalSort ever goes below zero.
TypeOK ==
    /\ pc \in {"build", "detect", "sort", "sorted", "cyclic"}
    /\ nodes \in SUBSET Node
    /\ edges \in [Node -> SUBSET Node]
    /\ inDegree \in [Node -> Nat]
    /\ color \in [Node -> {"white", "gray", "black"}]
    /\ parent \in [Node -> Node]
    /\ path \in Seq(Node)
    /\ cycle \in Seq(Node)
    /\ remaining \in [Node -> Nat]
    /\ queue \in SUBSET Node
    /\ layer \in SUBSET Node
    /\ nextQueue \in SUBSET Node
    /\ layers \in Seq(SUBSET Node)

\* A reported cycle is one: a walk along dependency edges that ends where it
\* began and meets no other node twice (detectCycle, which rebuilds the walk
\* from the parent map and reverses it).
CycleIsReal ==
    pc = "cyclic" =>
        /\ Len(cycle) >= 2
        /\ cycle[1] = cycle[Len(cycle)]
        /\ \A i \in 1 .. Len(cycle) - 1 : cycle[i + 1] \in edges[cycle[i]]
        /\ \A i, j \in 1 .. Len(cycle) - 1 : cycle[i] = cycle[j] => i = j

\* A graph that gets past detectCycle has no cycle: every set of nodes has one
\* that depends on no other of the set.
Acyclic == \A S \in SUBSET nodes : S # {} => \E n \in S : edges[n] \cap S = {}

AcyclicBeforeSort == pc \in {"sort", "sorted"} => Acyclic

\* Kahn's algorithm loses no node and runs none twice: when it ends each node
\* of the graph is in exactly one layer.  An edge that two loads of one manifest
\* both give is counted once (addEdge), or its node would never be released.
EveryNodeInOneLayer ==
    /\ pc = "sorted" => Placed = nodes
    /\ \A i, j \in DOMAIN layers : i # j => layers[i] \cap layers[j] = {}

\* What the engine relies on: a node's dependencies are all in layers strictly
\* before its own, so they have settled before it starts.
LayerOrder ==
    \A i \in DOMAIN layers : \A n \in layers[i] : \A d \in edges[n] :
        \E j \in DOMAIN layers : j < i /\ d \in layers[j]

\* No node waits longer than it must: one that is not in the first layer has a
\* dependency in the layer right before its own.
NoNeedlessWait ==
    \A i \in DOMAIN layers : i > 1 =>
        \A n \in layers[i] : edges[n] \cap layers[i - 1] # {}

\* Resolve always ends, with layers or with a cycle.
ResolverEnds == <>(pc \in {"sorted", "cyclic"})

================================================================================
