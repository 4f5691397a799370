------------------------- MODULE DependencyGraphProofs -------------------------
(***************************************************************************)
(* For every finite set of nodes: a graph that passes detectCycle is       *)
(* acyclic, and topologicalSort then puts each node in exactly one layer,  *)
(* after all of its dependencies.                                          *)
(***************************************************************************)
EXTENDS DependencyGraph, FiniteSetTheorems, SequenceTheorems, TLAPS

\* The part of TypeOK the argument needs.
SortTypes ==
    /\ pc \in {"build", "detect", "sort", "sorted", "cyclic"}
    /\ nodes \in SUBSET Node
    /\ edges \in [Node -> SUBSET Node]
    /\ inDegree \in [Node -> Nat]
    /\ color \in [Node -> {"white", "gray", "black"}]
    /\ path \in Seq(Node)
    /\ remaining \in [Node -> Nat]
    /\ queue \in SUBSET Node
    /\ layer \in SUBSET Node
    /\ nextQueue \in SUBSET Node
    /\ layers \in Seq(SUBSET Node)

\* addEdge keeps inDegree equal to the number of dependencies, and every
\* dependency is a node.
DegreeInv ==
    \A n \in Node :
        /\ inDegree[n] = Cardinality(edges[n])
        /\ edges[n] \subseteq nodes
        /\ edges[n] # {} => n \in nodes

\* The calls on the stack are distinct gray nodes.
PathInv ==
    /\ \A i \in 1 .. Len(path) : color[path[i]] = "gray"
    /\ \A i, j \in 1 .. Len(path) : path[i] = path[j] => i = j

\* What has been finished depends only on what has been finished, and contains
\* no cycle.
Black == {n \in Node : color[n] = "black"}

BlackInv ==
    /\ \A n \in Black : edges[n] \subseteq Black
    /\ \A S \in SUBSET Black : S # {} => \E n \in S : edges[n] \cap S = {}

\* Before the search no node has a colour; before the sort it has no state.
PhaseInv ==
    /\ pc = "build" => path = <<>> /\ \A n \in Node : color[n] = "white"
    /\ pc \in {"build", "detect", "cyclic"} =>
          queue = {} /\ layer = {} /\ nextQueue = {} /\ layers = <<>>
    /\ pc \in {"sort", "sorted"} => nodes \subseteq Black
    /\ pc = "sorted" => queue = {}

Visited == Placed \cup layer

\* Kahn's algorithm: the counters count the dependencies not yet visited, the
\* queue holds nodes whose dependencies are in closed layers, and a node whose
\* counter is zero has been queued.
SortInv ==
    pc \in {"sort", "sorted"} =>
        /\ \A m \in nodes : remaining[m] = Cardinality(edges[m] \ Visited)
        /\ \A m \in nodes : remaining[m] = 0 => m \in Placed \cup queue \cup nextQueue
        /\ queue \subseteq nodes
        /\ nextQueue \subseteq nodes
        /\ Placed \subseteq nodes
        /\ layer \subseteq queue
        /\ \A n \in queue : edges[n] \subseteq Placed
        /\ \A n \in nextQueue : edges[n] \subseteq Visited
        /\ queue \cap Placed = {}
        /\ nextQueue \cap (Placed \cup queue) = {}
        /\ queue = {} => nextQueue = {}

DisjointLayers == \A i, j \in DOMAIN layers : i # j => layers[i] \cap layers[j] = {}

IInv ==
    /\ SortTypes
    /\ DegreeInv
    /\ PathInv
    /\ BlackInv
    /\ PhaseInv
    /\ SortInv
    /\ LayerOrder
    /\ DisjointLayers

--------------------------------------------------------------------------------
\* Counting the dependencies of a node is counting a subset of a finite set.
LEMMA SubsetCount ==
    ASSUME NEW S \in SUBSET Node
    PROVE  /\ IsFiniteSet(S)
           /\ Cardinality(S) \in Nat
           /\ Cardinality(S) = 0 <=> S = {}
  BY NodeAssumption, FS_Subset, FS_CardinalityType, FS_EmptySet

\* Taking one node away lowers the count by one exactly when it was there.
LEMMA RemoveOne ==
    ASSUME NEW S \in SUBSET Node, NEW n
    PROVE  Cardinality(S \ {n}) =
               IF n \in S THEN Cardinality(S) - 1 ELSE Cardinality(S)
  BY SubsetCount, FS_RemoveElement

\* Returning from a call takes the last element off the stack.
LEMMA PopProperties ==
    ASSUME NEW S, NEW s \in Seq(S), s # <<>>
    PROVE  /\ SubSeq(s, 1, Len(s) - 1) \in Seq(S)
           /\ Len(SubSeq(s, 1, Len(s) - 1)) = Len(s) - 1
           /\ \A i \in 1 .. Len(s) - 1 : SubSeq(s, 1, Len(s) - 1)[i] = s[i]
<1> DEFINE n == Len(s) - 1
<1>1. n \in Nat /\ Len(s) \in Nat /\ \A i \in 1 .. n : s[i] \in S
  OBVIOUS
<1>2. n \in Int /\ 1 \in Int
  BY <1>1
<1> HIDE DEF n
<1>3. /\ SubSeq(s, 1, n) \in Seq(S)
      /\ Len(SubSeq(s, 1, n)) = (IF 1 <= n THEN n - 1 + 1 ELSE 0)
      /\ \A i \in 1 .. n - 1 + 1 : SubSeq(s, 1, n)[i] = s[1 + i - 1]
  BY <1>1, <1>2, SubSeqProperties
<1>4. n - 1 + 1 = n /\ Len(SubSeq(s, 1, n)) = n
  BY <1>1, <1>3
<1>5. \A i \in 1 .. n : SubSeq(s, 1, n)[i] = s[i]
  <2>1. \A i \in 1 .. n : 1 + i - 1 = i
    BY <1>1
  <2>2. QED
    BY <1>3, <1>4, <2>1
<1>6. QED
  BY <1>3, <1>4, <1>5 DEF n

\* Only nodes that are already in a layer are placed by layers.
LEMMA PlacedAppend ==
    ASSUME NEW s \in Seq(SUBSET Node), NEW l \in SUBSET Node
    PROVE  UNION {Append(s, l)[i] : i \in DOMAIN Append(s, l)} =
               (UNION {s[i] : i \in DOMAIN s}) \cup l
<1>1. /\ DOMAIN Append(s, l) = 1 .. Len(s) + 1
      /\ DOMAIN s = 1 .. Len(s)
      /\ Append(s, l)[Len(s) + 1] = l
      /\ \A i \in 1 .. Len(s) : Append(s, l)[i] = s[i]
      /\ Len(s) \in Nat
  OBVIOUS
<1>2. ASSUME NEW x
      PROVE  (\E i \in 1 .. Len(s) + 1 : x \in Append(s, l)[i]) <=>
                 (\E i \in 1 .. Len(s) : x \in s[i]) \/ x \in l
  BY <1>1
<1>3. QED
  BY <1>1, <1>2

LEMMA InitIInv == Init => IInv
<1> SUFFICES ASSUME Init PROVE IInv
  OBVIOUS
<1>1. SortTypes
  BY DEF Init, SortTypes
<1>2. DegreeInv
  BY FS_EmptySet DEF Init, DegreeInv
<1>3. PathInv /\ BlackInv /\ PhaseInv
  BY DEF Init, PathInv, BlackInv, Black, PhaseInv
<1>4. SortInv /\ LayerOrder /\ DisjointLayers
  BY DEF Init, SortInv, LayerOrder, DisjointLayers
<1>5. QED
  BY <1>1, <1>2, <1>3, <1>4 DEF IInv

\* A step that leaves the sort alone, adds no edge and does not enter the sort
\* keeps everything the invariant says of layers.
LEMMA SortUntouched ==
    ASSUME SortInv, LayerOrder, DisjointLayers, pc' = pc,
           UNCHANGED <<nodes, edges, sortVars>>
    PROVE  SortInv' /\ LayerOrder' /\ DisjointLayers'
<1>1. /\ nodes' = nodes /\ edges' = edges /\ remaining' = remaining /\ queue' = queue
      /\ layer' = layer /\ nextQueue' = nextQueue /\ layers' = layers
  BY DEF sortVars
<1>2. Placed' = Placed
  BY <1>1 DEF Placed
<1>3. Visited' = Visited
  BY <1>1, <1>2 DEF Visited
<1>4. SortInv'
  BY <1>1, <1>2, <1>3 DEF SortInv
<1>5. LayerOrder' /\ DisjointLayers'
  BY <1>1 DEF LayerOrder, DisjointLayers
<1>6. QED
  BY <1>4, <1>5

--------------------------------------------------------------------------------
LEMMA AddResourceStep ==
    ASSUME IInv, NEW n \in Node, AddResource(n)
    PROVE  IInv'
<1> PICK refs \in SpecDependencies(n) :
        /\ nodes' = nodes \cup {n} \cup refs
        /\ edges' = [edges EXCEPT ![n] = @ \cup refs]
        /\ inDegree' = [inDegree EXCEPT ![n] = NewDegree(n, refs)]
  BY DEF AddResource
<1> USE DEF IInv
<1>1. refs \in SUBSET Node /\ pc = "build" /\ pc' = "build" /\ UNCHANGED <<dfsVars, sortVars>>
  BY DEF AddResource, SpecDependencies
<1>2. /\ Cardinality(refs \ edges[n]) \in Nat
      /\ Cardinality(edges[n] \cup refs) =
             Cardinality(edges[n]) + Cardinality(refs \ edges[n])
  <2>1. edges[n] \in SUBSET Node /\ refs \ edges[n] \in SUBSET Node
    BY <1>1 DEF SortTypes
  <2>2. /\ IsFiniteSet(edges[n]) /\ IsFiniteSet(refs \ edges[n])
        /\ Cardinality(edges[n]) \in Nat
        /\ Cardinality(refs \ edges[n]) \in Nat
    BY <2>1, SubsetCount
  <2>3. Cardinality(edges[n] \cup (refs \ edges[n])) =
            Cardinality(edges[n]) + Cardinality(refs \ edges[n])
                - Cardinality(edges[n] \cap (refs \ edges[n]))
    BY <2>2, FS_Union
  <2>4. edges[n] \cup (refs \ edges[n]) = edges[n] \cup refs
        /\ edges[n] \cap (refs \ edges[n]) = {}
    OBVIOUS
  <2>5. Cardinality(edges[n] \cup refs) = Cardinality(edges[n] \cup (refs \ edges[n]))
    BY <2>4, Zenon
  <2>6. Cardinality(edges[n] \cap (refs \ edges[n])) = 0
    BY <2>4, FS_EmptySet, Zenon
  <2>7. QED
    BY <2>2, <2>3, <2>5, <2>6
<1>3. SortTypes'
  BY <1>1, <1>2 DEF SortTypes, NewDegree, dfsVars, sortVars
<1>4. DegreeInv'
  BY <1>1, <1>2 DEF DegreeInv, SortTypes, NewDegree
<1>5. PathInv' /\ BlackInv' /\ PhaseInv'
  BY <1>1 DEF PathInv, BlackInv, Black, PhaseInv, SortTypes, dfsVars, sortVars
<1>6. SortInv' /\ LayerOrder' /\ DisjointLayers'
  BY <1>1 DEF SortInv, LayerOrder, DisjointLayers, PhaseInv, sortVars
<1>7. QED
  BY <1>3, <1>4, <1>5, <1>6

LEMMA VisitRootStep ==
    ASSUME IInv, NEW n \in Node, VisitRoot(n)
    PROVE  IInv'
<1> USE DEF IInv, VisitRoot
<1>1. SortTypes'
  BY DEF SortTypes, graphVars, sortVars
<1>2. DegreeInv' /\ PhaseInv'
  BY DEF DegreeInv, PhaseInv, SortTypes, graphVars, sortVars
<1>3. PathInv'
  BY DEF PathInv, SortTypes
<1>4. BlackInv'
  <2>1. Black' = Black
    BY DEF Black, SortTypes
  <2>2. QED
    BY <2>1 DEF BlackInv, graphVars
<1>5. SortInv' /\ LayerOrder' /\ DisjointLayers'
  BY SortUntouched DEF graphVars
<1>6. QED
  BY <1>1, <1>2, <1>3, <1>4, <1>5

LEMMA DescendStep ==
    ASSUME IInv, NEW d \in Node, Descend(d)
    PROVE  IInv'
<1> USE DEF IInv, Descend
<1>1. SortTypes'
  BY DEF SortTypes, graphVars, sortVars
<1>2. DegreeInv' /\ PhaseInv'
  BY DEF DegreeInv, PhaseInv, SortTypes, graphVars, sortVars
<1>3. PathInv'
  <2>1. /\ Len(path') = Len(path) + 1
        /\ path'[Len(path) + 1] = d
        /\ \A i \in 1 .. Len(path) : path'[i] = path[i] /\ path[i] \in Node
        /\ Len(path) \in Nat
    BY DEF SortTypes
  <2>2. \A i \in 1 .. Len(path) : path[i] # d
    BY DEF PathInv
  <2>3. /\ Len(path') = Len(path) + 1 /\ color'[d] = "gray"
        /\ \A n \in Node : color[n] = "gray" => color'[n] = "gray"
    BY <2>1 DEF SortTypes
  <2>4. \A i \in 1 .. Len(path') : i \in 1 .. Len(path) \/ i = Len(path) + 1
    BY <2>1
  <2>5. \A i \in 1 .. Len(path') : color'[path'[i]] = "gray"
    BY <2>1, <2>3, <2>4 DEF PathInv
  <2>6. \A i, j \in 1 .. Len(path') : path'[i] = path'[j] => i = j
    BY <2>1, <2>2, <2>4 DEF PathInv
  <2>7. QED
    BY <2>5, <2>6 DEF PathInv
<1>4. BlackInv'
  <2>1. Black' = Black
    BY DEF Black, SortTypes
  <2>2. QED
    BY <2>1 DEF BlackInv, graphVars
<1>5. SortInv' /\ LayerOrder' /\ DisjointLayers'
  BY SortUntouched DEF graphVars
<1>6. QED
  BY <1>1, <1>2, <1>3, <1>4, <1>5

\* The node that is finished has only finished dependencies, so it closes no
\* cycle among them.
LEMMA FinishStep ==
    ASSUME IInv, Finish
    PROVE  IInv'
<1> USE DEF IInv
<1>1. /\ path # <<>> /\ pc = "detect"
      /\ color' = [color EXCEPT ![Top] = "black"]
      /\ path' = SubSeq(path, 1, Len(path) - 1)
      /\ UNCHANGED <<pc, nodes, edges, inDegree, sortVars>>
      /\ \A d \in edges[Top] : color[d] # "white" /\ color[d] # "gray"
  BY DEF Finish, FinishedColor, IsBackEdge, graphVars
<1>2. /\ Len(path) \in Nat /\ Len(path) >= 1 /\ Top \in Node
      /\ Top = path[Len(path)] /\ color[Top] = "gray"
      /\ Len(path') = Len(path) - 1
      /\ \A i \in 1 .. Len(path') : path'[i] = path[i] /\ path[i] \in Node
      /\ path' \in Seq(Node)
  <2>1. path \in Seq(Node) /\ Len(path) \in Nat /\ Len(path) >= 1
    BY <1>1 DEF SortTypes
  <2>2. Top = path[Len(path)] /\ Top \in Node /\ color[Top] = "gray"
    BY <2>1 DEF Top, PathInv
  <2>3. /\ path' \in Seq(Node)
        /\ Len(path') = Len(path) - 1
        /\ \A i \in 1 .. Len(path) - 1 : path'[i] = path[i]
    BY <1>1, <2>1, PopProperties
  <2>4. QED
    BY <2>1, <2>2, <2>3
<1>3. SortTypes'
  BY <1>1, <1>2 DEF SortTypes, sortVars
<1>4. DegreeInv' /\ PhaseInv'
  BY <1>1 DEF DegreeInv, PhaseInv, sortVars
<1>5. PathInv'
  <2>1. \A i \in 1 .. Len(path') : path[i] # Top
    BY <1>2 DEF PathInv
  <2>2. \A i \in 1 .. Len(path') : i \in 1 .. Len(path) /\ path'[i] = path[i]
    BY <1>2
  <2>3. ASSUME NEW i \in 1 .. Len(path')
        PROVE  color'[path'[i]] = "gray"
    <3>1. path[i] # Top /\ path[i] \in Node /\ path'[i] = path[i] /\ color[path[i]] = "gray"
      BY <1>2, <2>1, <2>2 DEF PathInv
    <3>2. QED
      BY <1>1, <1>2, <3>1 DEF SortTypes
  <2>4. \A i, j \in 1 .. Len(path') : path'[i] = path'[j] => i = j
    BY <2>2 DEF PathInv
  <2>5. QED
    BY <2>3, <2>4 DEF PathInv
<1>6. BlackInv'
  <2>1. Black' = Black \cup {Top}
    BY <1>1, <1>2 DEF Black, SortTypes
  <2>2. edges[Top] \subseteq Black /\ Top \notin Black
    BY <1>1, <1>2 DEF Black, SortTypes
  <2>3. \A n \in Black' : edges'[n] \subseteq Black'
    BY <1>1, <2>1, <2>2 DEF BlackInv
  <2>4. ASSUME NEW S \in SUBSET Black', S # {}
        PROVE  \E n \in S : edges'[n] \cap S = {}
    <3>1. CASE S \ {Top} = {}
      BY <1>1, <2>1, <2>2, <2>4, <3>1
    <3>2. CASE S \ {Top} # {}
      <4>1. PICK n \in S \ {Top} : edges[n] \cap (S \ {Top}) = {}
        BY <2>1, <3>2 DEF BlackInv
      <4>2. Top \notin edges[n]
        BY <2>1, <2>2, <4>1 DEF BlackInv
      <4>3. QED
        BY <1>1, <4>1, <4>2
    <3>3. QED
      BY <3>1, <3>2
  <2>5. QED
    BY <2>3, <2>4 DEF BlackInv
<1>7. SortInv' /\ LayerOrder' /\ DisjointLayers'
  BY <1>1, SortUntouched
<1>8. QED
  BY <1>3, <1>4, <1>5, <1>6, <1>7

--------------------------------------------------------------------------------
LEMMA StartSortStep ==
    ASSUME IInv, StartSort
    PROVE  IInv'
<1> USE DEF IInv
<1>1. /\ pc = "detect" /\ pc' = "sort"
      /\ \A n \in nodes : color[n] = "black"
      /\ remaining' = inDegree
      /\ queue' = {n \in nodes : inDegree[n] = 0}
      /\ layer' = layer /\ nextQueue' = nextQueue /\ layers' = layers
      /\ UNCHANGED <<nodes, edges, inDegree, color, path>>
  BY DEF StartSort, graphVars, dfsVars
<1>2. layer = {} /\ nextQueue = {} /\ layers = <<>>
  BY <1>1 DEF PhaseInv
<1>3. Placed' = {} /\ Visited' = {}
  BY <1>1, <1>2 DEF Placed, Visited
<1>4. SortTypes'
  BY <1>1 DEF SortTypes
<1>5. DegreeInv' /\ PathInv'
  BY <1>1 DEF DegreeInv, PathInv
<1>6. Black' = Black
  BY <1>1 DEF Black
<1>7. BlackInv' /\ PhaseInv'
  BY <1>1, <1>6 DEF BlackInv, PhaseInv, Black, SortTypes
<1>8. SortInv'
  <2>1. \A m \in nodes' : remaining'[m] = Cardinality(edges'[m] \ Visited')
    BY <1>1, <1>3 DEF DegreeInv, SortTypes
  <2>2. \A n \in queue' : edges'[n] \subseteq Placed'
    <3>1. \A n \in queue' : edges[n] \in SUBSET Node /\ Cardinality(edges[n]) = 0
      BY <1>1 DEF DegreeInv, SortTypes
    <3>2. QED
      BY <1>1, <3>1, SubsetCount
  <2>3. QED
    BY <1>1, <1>2, <1>3, <2>1, <2>2 DEF SortInv
<1>9. LayerOrder' /\ DisjointLayers'
  BY <1>1 DEF LayerOrder, DisjointLayers
<1>10. QED
  BY <1>4, <1>5, <1>7, <1>8, <1>9

\* Placing a node whose dependencies are in closed layers lowers the counters
\* of its dependents by one; those that reach zero have all their dependencies
\* visited and were in no queue before.
LEMMA PlaceStep ==
    ASSUME IInv, NEW n \in Node, Place(n)
    PROVE  IInv'
<1> USE DEF IInv
<1>1. /\ pc = "sort" /\ pc' = "sort"
      /\ n \in queue /\ n \notin layer
      /\ layer' = layer \cup {n}
      /\ remaining' = [m \in Node |->
                          IF m \in Dependents(n) THEN remaining[m] - 1 ELSE remaining[m]]
      /\ nextQueue' = nextQueue \cup Released(n)
      /\ UNCHANGED <<nodes, edges, inDegree, color, path, queue, layers>>
  BY DEF Place, graphVars, dfsVars
<1>2. /\ \A m \in nodes : remaining[m] = Cardinality(edges[m] \ Visited)
      /\ \A m \in nodes : remaining[m] = 0 => m \in Placed \cup queue \cup nextQueue
      /\ queue \subseteq nodes /\ nextQueue \subseteq nodes /\ Placed \subseteq nodes
      /\ layer \subseteq queue
      /\ \A q \in queue : edges[q] \subseteq Placed
      /\ \A q \in nextQueue : edges[q] \subseteq Visited
      /\ queue \cap Placed = {}
      /\ nextQueue \cap (Placed \cup queue) = {}
  BY <1>1 DEF SortInv
<1>3. Placed' = Placed /\ Visited' = Visited \cup {n} /\ n \notin Visited
  BY <1>1, <1>2 DEF Placed, Visited
<1>4. \A m \in nodes : /\ edges'[m] \ Visited' = (edges[m] \ Visited) \ {n}
                       /\ edges[m] \ Visited \in SUBSET Node
  BY <1>1, <1>3 DEF SortTypes
<1>5. ASSUME NEW m \in nodes
      PROVE  /\ remaining'[m] = Cardinality(edges'[m] \ Visited')
             /\ remaining'[m] \in Nat
             /\ m \in Dependents(n) => remaining[m] - 1 = remaining'[m]
             /\ m \notin Dependents(n) => remaining'[m] = remaining[m]
  <2>1. m \in Node
    BY DEF SortTypes
  <2>2. Cardinality((edges[m] \ Visited) \ {n}) =
            IF n \in edges[m] \ Visited
            THEN Cardinality(edges[m] \ Visited) - 1
            ELSE Cardinality(edges[m] \ Visited)
    BY <1>4, RemoveOne
  <2>3. m \in Dependents(n) <=> n \in edges[m] \ Visited
    BY <1>3 DEF Dependents
  <2>4. remaining'[m] = Cardinality((edges[m] \ Visited) \ {n})
    BY <1>1, <1>2, <2>1, <2>2, <2>3
  <2>5. Cardinality((edges[m] \ Visited) \ {n}) \in Nat
    BY <1>4, SubsetCount
  <2>6. QED
    BY <1>1, <1>4, <2>1, <2>4, <2>5
<1>6. \A m \in Released(n) : /\ m \in nodes /\ m \in Dependents(n) /\ n \in edges[m]
                             /\ remaining'[m] = 0
  BY <1>5 DEF Released, Dependents
<1>7. \A m \in Released(n) : edges'[m] \subseteq Visited'
  <2>1. ASSUME NEW m \in Released(n)
        PROVE  edges'[m] \ Visited' = {}
    <3>1. m \in nodes /\ Cardinality(edges'[m] \ Visited') = 0
      BY <1>5, <1>6
    <3>2. edges'[m] \ Visited' \in SUBSET Node
      BY <1>4, <3>1
    <3>3. QED
      BY <3>1, <3>2, SubsetCount
  <2>2. QED
    BY <2>1
<1>8. \A m \in Released(n) : m \notin Placed /\ m \notin queue
  <2>1. ASSUME NEW m \in Released(n), m \in Placed \cup queue
        PROVE  FALSE
    <3>1. n \in edges[m] /\ n \notin Placed
      BY <1>1, <1>2, <1>6
    <3>2. CASE m \in queue
      BY <1>2, <3>1, <3>2
    <3>3. CASE m \in Placed
      <4>1. PICK i \in DOMAIN layers : m \in layers[i]
        BY <3>3 DEF Placed
      <4>2. PICK j \in DOMAIN layers : n \in layers[j]
        BY <3>1, <4>1 DEF LayerOrder
      <4>3. QED
        BY <3>1, <4>2 DEF Placed
    <3>4. QED
      BY <2>1, <3>2, <3>3
  <2>2. QED
    BY <2>1
<1>9. SortTypes'
  <2>1. \A m \in Node : m \in Dependents(n) => m \in nodes
    BY DEF Dependents
  <2>2. remaining' \in [Node -> Nat]
    BY <1>1, <1>5, <2>1 DEF SortTypes
  <2>3. Released(n) \subseteq Node
    BY DEF Released, Dependents, SortTypes
  <2>4. QED
    BY <1>1, <2>2, <2>3 DEF SortTypes
<1>10. DegreeInv' /\ PathInv' /\ BlackInv' /\ PhaseInv'
  <2>1. Black' = Black
    BY <1>1 DEF Black
  <2>2. QED
    BY <1>1, <2>1 DEF DegreeInv, PathInv, BlackInv, PhaseInv
<1>11. SortInv'
  <2>1. \A m \in nodes' : remaining'[m] = Cardinality(edges'[m] \ Visited')
    BY <1>1, <1>5
  <2>2. \A m \in nodes' : remaining'[m] = 0 => m \in Placed' \cup queue' \cup nextQueue'
    BY <1>1, <1>2, <1>3, <1>5 DEF Released
  <2>3. \A q \in nextQueue' : edges'[q] \subseteq Visited'
    BY <1>1, <1>2, <1>3, <1>7
  <2>4. queue' \subseteq nodes' /\ nextQueue' \subseteq nodes' /\ Placed' \subseteq nodes'
    BY <1>1, <1>2, <1>3, <1>6
  <2>5. layer' \subseteq queue' /\ queue' # {}
    BY <1>1, <1>2
  <2>6. \A q \in queue' : edges'[q] \subseteq Placed'
    BY <1>1, <1>2, <1>3
  <2>7. queue' \cap Placed' = {} /\ nextQueue' \cap (Placed' \cup queue') = {}
    BY <1>1, <1>2, <1>3, <1>8
  <2>8. QED
    BY <2>1, <2>2, <2>3, <2>4, <2>5, <2>6, <2>7 DEF SortInv
<1>12. LayerOrder' /\ DisjointLayers'
  BY <1>1 DEF LayerOrder, DisjointLayers
<1>13. QED
  BY <1>9, <1>10, <1>11, <1>12

\* Closing a layer: its nodes are new, and their dependencies are in the layers
\* closed before.
LEMMA CloseLayerStep ==
    ASSUME IInv, CloseLayer
    PROVE  IInv'
<1> USE DEF IInv
<1>1. /\ pc = "sort" /\ pc' = "sort"
      /\ layer = queue
      /\ layers' = Append(layers, layer)
      /\ queue' = nextQueue /\ layer' = {} /\ nextQueue' = {}
      /\ UNCHANGED <<nodes, edges, inDegree, color, path, remaining>>
  BY DEF CloseLayer, graphVars, dfsVars
<1>2. /\ \A m \in nodes : remaining[m] = Cardinality(edges[m] \ Visited)
      /\ \A m \in nodes : remaining[m] = 0 => m \in Placed \cup queue \cup nextQueue
      /\ queue \subseteq nodes /\ nextQueue \subseteq nodes /\ Placed \subseteq nodes
      /\ \A q \in queue : edges[q] \subseteq Placed
      /\ \A q \in nextQueue : edges[q] \subseteq Visited
      /\ queue \cap Placed = {}
      /\ nextQueue \cap (Placed \cup queue) = {}
  BY <1>1 DEF SortInv
<1>3. layers \in Seq(SUBSET Node) /\ layer \in SUBSET Node
  BY DEF SortTypes
<1>4. Placed' = Visited /\ Visited' = Visited
  <2>1. Placed' = Placed \cup layer
    BY <1>1, <1>3, PlacedAppend DEF Placed
  <2>2. QED
    BY <1>1, <2>1 DEF Visited
<1>5. /\ DOMAIN layers = 1 .. Len(layers) /\ Len(layers) \in Nat
      /\ DOMAIN layers' = 1 .. Len(layers) + 1
      /\ layers'[Len(layers) + 1] = layer
      /\ \A i \in DOMAIN layers : layers'[i] = layers[i]
  BY <1>1, <1>3
<1>6. SortTypes'
  BY <1>1, <1>3 DEF SortTypes
<1>7. DegreeInv' /\ PathInv' /\ BlackInv' /\ PhaseInv'
  <2>1. Black' = Black
    BY <1>1 DEF Black
  <2>2. QED
    BY <1>1, <2>1 DEF DegreeInv, PathInv, BlackInv, PhaseInv
<1>8. SortInv'
  <2>1. Visited = Placed \cup queue
    BY <1>1 DEF Visited
  <2>2. QED
    BY <1>1, <1>2, <1>4, <2>1 DEF SortInv
<1>9. LayerOrder'
  <2>1. ASSUME NEW i \in DOMAIN layers', NEW n \in layers'[i], NEW d \in edges'[n]
        PROVE  \E j \in DOMAIN layers' : j < i /\ d \in layers'[j]
    <3>1. CASE i \in DOMAIN layers
      <4>1. PICK j \in DOMAIN layers : j < i /\ d \in layers[j]
        BY <1>1, <1>5, <3>1 DEF LayerOrder
      <4>2. QED
        BY <1>5, <4>1
    <3>2. CASE i = Len(layers) + 1
      <4>1. d \in Placed
        BY <1>1, <1>2, <1>5, <3>2
      <4>2. PICK j \in DOMAIN layers : d \in layers[j]
        BY <4>1 DEF Placed
      <4>3. QED
        BY <1>5, <3>2, <4>2
    <3>3. QED
      BY <1>5, <3>1, <3>2
  <2>2. QED
    BY <2>1 DEF LayerOrder
<1>10. DisjointLayers'
  <2>1. \A i \in DOMAIN layers : layers[i] \cap layer = {}
    BY <1>1, <1>2 DEF Placed
  <2>2. QED
    BY <1>5, <2>1 DEF DisjointLayers
<1>11. QED
  BY <1>6, <1>7, <1>8, <1>9, <1>10

--------------------------------------------------------------------------------
LEMMA StepIInv == IInv /\ [Next]_vars => IInv'
<1> SUFFICES ASSUME IInv, [Next]_vars PROVE IInv'
  OBVIOUS
<1>1. CASE \E n \in Node : AddResource(n)
  BY <1>1, AddResourceStep
<1>2. CASE \E n \in Node : VisitRoot(n)
  BY <1>2, VisitRootStep
<1>3. CASE \E d \in Node : Descend(d)
  BY <1>3, DescendStep
<1>4. CASE Finish
  BY <1>4, FinishStep
<1>5. CASE StartSort
  BY <1>5, StartSortStep
<1>6. CASE \E n \in Node : Place(n)
  BY <1>6, PlaceStep
<1>7. CASE CloseLayer
  BY <1>7, CloseLayerStep
<1>8. CASE Resolve \/ Sorted \/ (\E d \in Node : FindCycle(d)) \/ UNCHANGED vars
  <2>1. /\ UNCHANGED <<nodes, edges, inDegree, color, path, sortVars>>
        /\ \/ pc' = pc
           \/ pc = "build" /\ pc' = "detect"
           \/ pc = "detect" /\ pc' = "cyclic"
           \/ pc = "sort" /\ queue = {} /\ pc' = "sorted"
    BY <1>8 DEF Resolve, Sorted, FindCycle, vars, graphVars, dfsVars, sortVars
  <2>2. /\ layers' = layers /\ layer' = layer /\ queue' = queue /\ nextQueue' = nextQueue
        /\ remaining' = remaining
    BY <2>1 DEF sortVars
  <2>3. SortTypes' /\ DegreeInv' /\ PathInv'
    BY <2>1, <2>2 DEF IInv, SortTypes, DegreeInv, PathInv
  <2>4. Black' = Black /\ Placed' = Placed /\ Visited' = Visited
    BY <2>1, <2>2 DEF Black, Placed, Visited
  <2>5. BlackInv' /\ PhaseInv'
    BY <2>1, <2>2, <2>4 DEF IInv, BlackInv, PhaseInv
  <2>6. SortInv' /\ LayerOrder' /\ DisjointLayers'
    BY <2>1, <2>2, <2>4 DEF IInv, SortInv, LayerOrder, DisjointLayers
  <2>7. QED
    BY <2>3, <2>5, <2>6 DEF IInv
<1>9. QED
  BY <1>1, <1>2, <1>3, <1>4, <1>5, <1>6, <1>7, <1>8 DEF Next

LEMMA ResolverIInv == Spec => []IInv
  BY InitIInv, StepIInv, PTL DEF Spec

\* topologicalSort never puts a node before, or beside, one it depends on,
\* whatever the resources of the manifest are.
THEOREM LayersRespectDependencies == Spec => []LayerOrder
<1>1. IInv => LayerOrder
  BY DEF IInv
<1>2. QED
  BY <1>1, ResolverIInv, PTL

\* detectCycle misses no cycle: the sort only ever sees an acyclic graph.
THEOREM SortedGraphIsAcyclic == Spec => []AcyclicBeforeSort
<1>1. IInv => AcyclicBeforeSort
  BY DEF IInv, PhaseInv, BlackInv, AcyclicBeforeSort, Acyclic
<1>2. QED
  BY <1>1, ResolverIInv, PTL

\* Because the graph is acyclic, Kahn's algorithm ends with every node in a
\* layer, and in no second one.
THEOREM NoNodeLostOrRepeated == Spec => []EveryNodeInOneLayer
<1>1. IInv => EveryNodeInOneLayer
  <2> SUFFICES ASSUME IInv, pc = "sorted" PROVE Placed = nodes
    BY DEF IInv, DisjointLayers, EveryNodeInOneLayer
  <2> USE DEF IInv
  <2>1. /\ queue = {} /\ nextQueue = {} /\ layer = {} /\ Placed \subseteq nodes
        /\ Visited = Placed
        /\ \A m \in nodes : remaining[m] = Cardinality(edges[m] \ Placed)
        /\ \A m \in nodes : remaining[m] = 0 => m \in Placed
    BY DEF SortInv, PhaseInv, Visited
  <2>2. SUFFICES ASSUME nodes \ Placed # {} PROVE FALSE
    BY <2>1
  <2>3. PICK n \in nodes \ Placed : edges[n] \cap (nodes \ Placed) = {}
    BY <2>2 DEF PhaseInv, BlackInv
  <2>4. edges[n] \ Placed = {}
    BY <2>3 DEF DegreeInv, SortTypes
  <2>5. remaining[n] = 0
    BY <2>1, <2>3, <2>4, FS_EmptySet
  <2>6. QED
    BY <2>1, <2>3, <2>5
<1>2. QED
  BY <1>1, ResolverIInv, PTL

--------------------------------------------------------------------------------
(***************************************************************************)
(* The cycle that is reported.  WalkUp is a recursive function, so what it *)
(* returns is an induction over the calls on the stack; it is done here    *)
(* with the least index at which the function and the stack differ.        *)
(***************************************************************************)

\* Every nonempty set of numbers has a least element: among the finite sets
\* of the numbers up to one of them, a smallest is not empty.
LEMMA LeastNumber ==
    ASSUME NEW T \in SUBSET Nat, NEW n \in T
    PROVE  \E x \in T : \A y \in T : x <= y
<1> DEFINE UpTo(k) == {i \in T : i <= k}
<1> DEFINE F == {UpTo(k) : k \in T}
<1>1. \A i \in T : i \in Nat
  OBVIOUS
<1>2. ASSUME NEW k \in T PROVE IsFiniteSet(UpTo(k))
  <2>1. UpTo(k) \in SUBSET Nat /\ k \in Nat /\ \A i \in UpTo(k) : i <= k
    OBVIOUS
  <2> HIDE DEF UpTo
  <2>2. QED
    BY <2>1, FS_BoundedSetOfNaturals
<1>3. F \subseteq FiniteSubsetsOf(Nat) /\ F # {}
  <2> HIDE DEF UpTo
  <2>1. \A k \in T : UpTo(k) \in SUBSET Nat
    BY DEF UpTo
  <2>2. QED
    BY <1>2, <2>1 DEF FiniteSubsetsOf
<1>4. PICK U \in F : \A V \in F : <<V, U>> \notin StrictSubsetOrdering(Nat)
  <2> HIDE DEF F
  <2>1. QED
    BY <1>3, FS_StrictSubsetOrderingWellFounded, WFMin
<1>5. PICK x \in T : U = UpTo(x)
  OBVIOUS
<1>6. ASSUME NEW y \in T, y < x PROVE FALSE
  <2>1. x \in UpTo(x) /\ x \notin UpTo(y)
    BY <1>1, <1>6
  <2>2. UpTo(y) \subseteq UpTo(x)
    <3>1. \A i \in T : i <= y => i <= x
      BY <1>1, <1>6
    <3>2. QED
      BY <3>1
  <2>3. <<UpTo(y), UpTo(x)>> \in StrictSubsetOrdering(Nat)
    BY <2>1, <2>2 DEF StrictSubsetOrdering
  <2>4. QED
    BY <1>4, <1>5, <2>3
<1>7. QED
  BY <1>1, <1>6

\* The types of the variables only the search reads.
SearchTypes ==
    /\ parent \in [Node -> Node]
    /\ cycle \in Seq(Node)

\* The stack of calls is a path of the graph, parent remembers it, and it holds
\* every gray node.
WalkInv ==
    /\ \A i \in 1 .. Len(path) : path[i] \in nodes
    /\ \A i \in 1 .. Len(path) - 1 :
          path[i + 1] \in edges[path[i]] /\ parent[path[i + 1]] = path[i]
    /\ \A n \in Node : color[n] = "gray" => \E i \in 1 .. Len(path) : path[i] = n

SearchInv == SearchTypes /\ WalkInv /\ CycleIsReal

\* Walking up the parents from the top of the stack to the node at index m
\* meets the nodes of the stack between them, from the top down.
LEMMA WalkUpTheStack ==
    ASSUME IInv, SearchInv, NEW m \in 1 .. Len(path)
    PROVE  WalkUp(Top, path[m]) =
               [k \in 1 .. Len(path) - m |-> path[Len(path) - k + 1]]
<1> DEFINE L == Len(path)
           d == path[m]
           C == Cardinality(nodes)
           up[k \in 0 .. C] ==
               IF k = 0 THEN Top
               ELSE IF up[k - 1] = d THEN d ELSE parent[up[k - 1]]
           w == [k \in 0 .. C |-> IF k <= L - m THEN path[L - k] ELSE d]
<1>1. /\ path \in Seq(Node) /\ L \in Nat /\ m \in Nat /\ 1 <= m /\ m <= L
      /\ \A i \in 1 .. L : path[i] \in nodes
      /\ \A i, j \in 1 .. L : path[i] = path[j] => i = j
      /\ \A i \in 1 .. L - 1 : parent[path[i + 1]] = path[i]
      /\ Top = path[L]
  BY DEF IInv, SortTypes, PathInv, SearchInv, WalkInv, Top
<1>2. C \in Nat /\ L <= C
  <2>1. IsFiniteSet(nodes) /\ C \in Nat
    BY SubsetCount DEF IInv, SortTypes
  <2>2. /\ path \in [1 .. L -> nodes]
        /\ \A i, j \in 1 .. L : i # j => path[i] # path[j]
    <3>1. path = [i \in 1 .. L |-> path[i]]
      BY <1>1
    <3>2. QED
      BY <1>1, <3>1
  <2>3. path \in Injection(1 .. L, nodes)
    BY <2>2 DEF Injection, IsInjective
  <2>4. Cardinality(1 .. L) <= C
    BY <2>1, <2>3, FS_Injection DEF ExistsInjection
  <2>5. Cardinality(1 .. L) = L
    BY <1>1, FS_Interval
  <2>6. QED
    BY <2>1, <2>4, <2>5
<1>3. \A k \in 0 .. C : k # 0 => k - 1 \in 0 .. C
  BY <1>2
<1>4. w = [k \in 0 .. C |-> IF k = 0 THEN Top
                            ELSE IF w[k - 1] = d THEN d ELSE parent[w[k - 1]]]
  <2>1. ASSUME NEW k \in 0 .. C
        PROVE  w[k] = IF k = 0 THEN Top
                      ELSE IF w[k - 1] = d THEN d ELSE parent[w[k - 1]]
    <3>1. CASE k = 0
      BY <1>1, <1>2, <3>1
    <3>2. CASE k # 0 /\ k <= L - m
      <4>1. /\ L - k \in 1 .. L - 1 /\ L - (k - 1) = L - k + 1
            /\ L - k + 1 \in 1 .. L /\ L - k + 1 # m
        BY <1>1, <1>2, <3>2
      <4>2. w[k - 1] = path[L - k + 1] /\ w[k] = path[L - k]
        BY <1>1, <1>2, <1>3, <3>2, <4>1
      <4>3. w[k - 1] # d /\ parent[w[k - 1]] = path[L - k]
        BY <1>1, <4>1, <4>2
      <4>4. QED
        BY <3>2, <4>2, <4>3
    <3>3. CASE k # 0 /\ ~(k <= L - m)
      <4>1. w[k] = d
        BY <1>1, <1>2, <3>3
      <4>2. w[k - 1] = d
        <5>1. CASE k - 1 <= L - m
          <6>1. k - 1 = L - m /\ L - (k - 1) = m
            <7>1. k \in Int /\ L \in Int /\ m \in Int /\ ~(k <= L - m) /\ k - 1 <= L - m
              BY <1>1, <1>2, <3>3, <5>1
            <7> HIDE DEF L
            <7>2. QED
              BY <7>1
          <6>2. QED
            BY <1>3, <3>3, <5>1, <6>1
        <5>2. CASE ~(k - 1 <= L - m)
          BY <1>3, <3>3, <5>2
        <5>3. QED
          BY <5>1, <5>2
      <4>3. QED
        BY <3>3, <4>1, <4>2
    <3>4. QED
      BY <3>1, <3>2, <3>3
  <2> HIDE DEF w
  <2>2. w = [k \in 0 .. C |-> w[k]]
    BY DEF w
  <2>3. QED
    BY <2>1, <2>2
<1>5. up = [k \in 0 .. C |-> IF k = 0 THEN Top
                             ELSE IF up[k - 1] = d THEN d ELSE parent[up[k - 1]]]
  BY <1>4, Zenon
<1>6. WalkUp(Top, d) =
          [k \in 1 .. (CHOOSE k \in DOMAIN up :
                           up[k] = d /\ \A j \in 0 .. k - 1 : up[j] # d) |-> up[k - 1]]
  BY Zenon DEF WalkUp
<1> HIDE DEF up
<1>7. \A k \in 0 .. C : up[k] = w[k]
  <2> DEFINE Differ == {k \in 0 .. C : up[k] # w[k]}
  <2>1. SUFFICES ASSUME NEW k \in Differ PROVE FALSE
    OBVIOUS
  <2>2. PICK x \in Differ : \A y \in Differ : x <= y
    <3>1. Differ \in SUBSET Nat
      BY <1>2
    <3> HIDE DEF Differ
    <3>2. QED
      BY <3>1, LeastNumber
  <2> HIDE DEF w
  <2>3. x \in 0 .. C /\ up[x] # w[x]
    OBVIOUS
  <2>4. CASE x = 0
    BY <1>4, <1>5, <2>3, <2>4
  <2>5. CASE x # 0
    <3>1. x - 1 \in 0 .. C /\ ~(x <= x - 1)
      BY <1>2, <1>3, <2>3, <2>5
    <3>2. up[x - 1] = w[x - 1]
      BY <2>2, <3>1
    <3>3. up[x] = IF up[x - 1] = d THEN d ELSE parent[up[x - 1]]
      BY <1>5, <2>3, <2>5
    <3>4. w[x] = IF w[x - 1] = d THEN d ELSE parent[w[x - 1]]
      BY <1>4, <2>3, <2>5
    <3>5. QED
      BY <2>3, <3>2, <3>3, <3>4
  <2>6. QED
    BY <2>4, <2>5
<1>8. DOMAIN up = 0 .. C
  BY <1>5
<1>9. \A k \in 0 .. C : (up[k] = d /\ \A j \in 0 .. k - 1 : up[j] # d) <=> k = L - m
  <2>1. L - m \in 0 .. C
    BY <1>1, <1>2
  <2>2. \A j \in 0 .. C : j < L - m => w[j] # d
    <3>1. ASSUME NEW j \in 0 .. C, j < L - m PROVE path[L - j] # d
      <4>1. L - j \in 1 .. L /\ L - j # m
        BY <1>1, <1>2, <3>1
      <4>2. QED
        BY <1>1, <4>1
    <3>2. QED
      BY <1>1, <1>2, <3>1
  <2>3. w[L - m] = d
    BY <1>1, <2>1
  <2> HIDE DEF w
  <2>4. ASSUME NEW k \in 0 .. C, up[k] = d, \A j \in 0 .. k - 1 : up[j] # d
        PROVE  k = L - m
    <3>1. ~(k < L - m)
      BY <1>7, <2>2, <2>4
    <3>2. ~(L - m < k)
      <4>1. L - m < k => L - m \in 0 .. k - 1
        BY <1>1, <1>2, <2>1
      <4>2. QED
        BY <1>7, <2>1, <2>3, <2>4, <4>1
    <3>3. QED
      BY <1>1, <1>2, <3>1, <3>2
  <2>5. ASSUME NEW j \in 0 .. (L - m) - 1 PROVE up[j] # d
    <3>1. j \in 0 .. C /\ j < L - m
      BY <1>1, <1>2, <2>1
    <3>2. QED
      BY <1>7, <2>2, <3>1
  <2>6. up[L - m] = d
    BY <1>7, <2>1, <2>3
  <2>7. QED
    BY <2>4, <2>5, <2>6
<1>10. (CHOOSE k \in DOMAIN up : up[k] = d /\ \A j \in 0 .. k - 1 : up[j] # d) = L - m
  <2>1. L - m \in 0 .. C
    BY <1>1, <1>2
  <2>2. QED
    BY <1>8, <1>9, <2>1
<1>11. ASSUME NEW k \in 1 .. L - m PROVE up[k - 1] = path[L - k + 1]
  <2>1. k - 1 \in 0 .. C /\ k - 1 <= L - m /\ L - (k - 1) = L - k + 1
    BY <1>1, <1>2
  <2>2. QED
    BY <1>7, <2>1
<1>12. QED
  BY <1>6, <1>10, <1>11

\* Reversed, that walk is the stack from the node the back edge leads to up to
\* the top, and then that node again.
LEMMA CycleOfTheStack ==
    ASSUME IInv, SearchInv, NEW m \in 1 .. Len(path), NEW c, c = CyclePath(Top, path[m])
    PROVE  /\ c \in Seq(Node)
           /\ Len(c) = Len(path) - m + 2
           /\ \A i \in 1 .. Len(path) - m + 1 : c[i] = path[m + i - 1]
           /\ c[Len(path) - m + 2] = path[m]
<1> DEFINE L == Len(path)
           d == path[m]
           N == L - m
           walk == [k \in 1 .. N |-> path[L - k + 1]]
           back == <<d>> \o walk \o <<d>>
<1>1. /\ path \in Seq(Node) /\ L \in Nat /\ m \in Nat /\ 1 <= m /\ m <= L
      /\ \A i \in 1 .. L : path[i] \in Node
      /\ d \in Node
  BY DEF IInv, SortTypes
<1>2. N \in Nat
  BY <1>1
<1>3. walk \in Seq(Node) /\ Len(walk) = N
  <2>1. \A k \in 1 .. N : L - k + 1 \in 1 .. L
    BY <1>1, <1>2
  <2>2. walk \in [1 .. N -> Node]
    BY <1>1, <2>1
  <2> HIDE DEF walk, N
  <2>3. walk \in Seq(Node)
    BY <1>2, <2>2
  <2>4. DOMAIN walk = 1 .. N
    BY <2>2
  <2>5. QED
    BY <1>2, <2>3, <2>4
<1>4. c = Reverse(back)
  BY WalkUpTheStack DEF CyclePath
<1>5. /\ back \in Seq(Node) /\ Len(back) = N + 2
      /\ back[1] = d /\ back[N + 2] = d
      /\ \A k \in 1 .. N : back[k + 1] = path[L - k + 1]
  <2>1. \A k \in 1 .. N : walk[k] = path[L - k + 1]
    OBVIOUS
  <2> HIDE DEF walk, N, d, L
  <2>2. /\ <<d>> \o walk \in Seq(Node)
        /\ Len(<<d>> \o walk) = N + 1
        /\ (<<d>> \o walk)[1] = d
        /\ \A k \in 1 .. N : (<<d>> \o walk)[k + 1] = walk[k]
    BY <1>1, <1>2, <1>3
  <2> DEFINE front == <<d>> \o walk
  <2> HIDE DEF front
  <2>3. front \in Seq(Node) /\ Len(front) = N + 1
    BY <2>2 DEF front
  <2>4. /\ front \o <<d>> \in Seq(Node)
        /\ Len(front \o <<d>>) = N + 2
        /\ (front \o <<d>>)[N + 2] = d
        /\ \A k \in 1 .. N + 1 : (front \o <<d>>)[k] = front[k]
    BY <1>1, <1>2, <2>3
  <2>5. back = front \o <<d>>
    BY DEF front
  <2>6. \A k \in 1 .. N : k + 1 \in 1 .. N + 1
    BY <1>2
  <2>7. \A k \in 1 .. N : back[k + 1] = path[L - k + 1]
    BY <2>1, <2>2, <2>4, <2>5, <2>6 DEF front
  <2>8. back[1] = d
    BY <1>2, <2>2, <2>4, <2>5 DEF front
  <2> HIDE DEF back
  <2>9. QED
    BY <2>4, <2>5, <2>7, <2>8
<1> HIDE DEF back
<1>6. /\ c \in Seq(Node) /\ Len(c) = N + 2
      /\ \A i \in 1 .. N + 2 : c[i] = back[N + 3 - i]
  <2>1. c = [i \in 1 .. N + 2 |-> back[(N + 2 - i) + 1]]
    BY <1>4, <1>5 DEF Reverse
  <2> HIDE DEF N
  <2>2. \A i \in 1 .. N + 2 : (N + 2 - i) + 1 = N + 3 - i /\ N + 3 - i \in 1 .. N + 2
    BY <1>2
  <2>3. \A i \in 1 .. N + 2 : back[N + 3 - i] \in Node
    BY <1>2, <1>5, <2>2
  <2>4. c \in [1 .. N + 2 -> Node]
    BY <2>1, <2>2, <2>3
  <2>5. c \in Seq(Node)
    BY <1>2, <2>4
  <2>6. Len(c) = N + 2
    BY <1>2, <2>4, <2>5
  <2>7. ASSUME NEW i \in 1 .. N + 2 PROVE c[i] = back[N + 3 - i]
    <3>1. c[i] = back[(N + 2 - i) + 1]
      BY <2>1
    <3>2. (N + 2 - i) + 1 = N + 3 - i
      BY <2>2
    <3>3. QED
      BY <3>1, <3>2, Zenon
  <2>8. QED
    BY <2>5, <2>6, <2>7
<1>7. ASSUME NEW i \in 1 .. N + 1 PROVE c[i] = path[m + i - 1]
  <2>1. CASE i = 1
    <3>1. c[1] = back[N + 2] /\ m + i - 1 = m
      BY <1>1, <1>2, <1>6, <2>1
    <3>2. QED
      BY <1>5, <2>1, <3>1
  <2>2. CASE i # 1
    <3>1. /\ i \in 1 .. N + 2
          /\ N + 2 - i \in 1 .. N
          /\ N + 3 - i = (N + 2 - i) + 1
          /\ L - (N + 2 - i) + 1 = m + i - 1
      BY <1>1, <1>2, <2>2
    <3>2. QED
      BY <1>5, <1>6, <3>1
  <2>3. QED
    BY <2>1, <2>2
<1>8. c[N + 2] = d
  <2> HIDE DEF N
  <2>1. N + 2 \in 1 .. N + 2 /\ N + 3 - (N + 2) = 1
    BY <1>2
  <2>2. c[N + 2] = back[N + 3 - (N + 2)]
    BY <1>6, <2>1
  <2>3. QED
    BY <1>5, <2>1, <2>2
<1>9. QED
  BY <1>6, <1>7, <1>8

\* A back edge is to a node on the stack, and what detectCycle reports of it is
\* a cycle of the graph.
LEMMA FindCycleStep ==
    ASSUME IInv, SearchInv, NEW e \in Node, FindCycle(e)
    PROVE  SearchInv'
<1>1. /\ path # <<>> /\ e \in edges[Top] /\ color[e] = "gray"
      /\ cycle' = CyclePath(Top, e)
      /\ UNCHANGED <<nodes, edges, color, parent, path>>
  BY DEF FindCycle, IsBackEdge, graphVars
<1>2. PICK m \in 1 .. Len(path) : path[m] = e
  BY <1>1 DEF SearchInv, WalkInv
<1> DEFINE L == Len(path)
           c == cycle'
<1>3. /\ c \in Seq(Node) /\ Len(c) = L - m + 2
      /\ \A i \in 1 .. L - m + 1 : c[i] = path[m + i - 1]
      /\ c[L - m + 2] = path[m]
  BY <1>1, <1>2, CycleOfTheStack
<1>4. /\ L \in Nat /\ m \in Nat /\ 1 <= m /\ m <= L
      /\ Top = path[L]
      /\ \A i, j \in 1 .. L : path[i] = path[j] => i = j
      /\ \A i \in 1 .. L - 1 : path[i + 1] \in edges[path[i]]
  BY DEF IInv, SortTypes, PathInv, SearchInv, WalkInv, Top
<1> HIDE DEF L, c
<1>5. Len(c) \in Nat /\ Len(c) >= 2 /\ Len(c) - 1 = L - m + 1
  BY <1>3, <1>4
<1>6. c[1] = c[Len(c)]
  <2>1. 1 \in 1 .. L - m + 1 /\ m + 1 - 1 = m
    BY <1>4
  <2>2. QED
    BY <1>3, <2>1
<1>7. ASSUME NEW i \in 1 .. Len(c) - 1 PROVE c[i + 1] \in edges[c[i]]
  <2>1. i \in 1 .. L - m + 1 /\ c[i] = path[m + i - 1]
    BY <1>3, <1>5
  <2>2. CASE i = L - m + 1
    <3>1. m + i - 1 = L /\ i + 1 = L - m + 2
      BY <1>4, <2>2
    <3>2. QED
      BY <1>1, <1>2, <1>3, <1>4, <2>1, <3>1
  <2>3. CASE i # L - m + 1
    <3>1. /\ i + 1 \in 1 .. L - m + 1
          /\ m + i - 1 \in 1 .. L - 1
          /\ m + (i + 1) - 1 = (m + i - 1) + 1
      BY <1>4, <2>1, <2>3
    <3>2. c[i + 1] = path[(m + i - 1) + 1]
      <4>1. c[i + 1] = path[m + (i + 1) - 1]
        BY <1>3, <3>1
      <4>2. QED
        BY <3>1, <4>1, Zenon
    <3>3. QED
      BY <1>4, <2>1, <3>1, <3>2
  <2>4. QED
    BY <2>2, <2>3
<1>8. ASSUME NEW i \in 1 .. Len(c) - 1, NEW j \in 1 .. Len(c) - 1, c[i] = c[j]
      PROVE  i = j
  <2>1. c[i] = path[m + i - 1] /\ c[j] = path[m + j - 1]
    BY <1>3, <1>5
  <2>2. m + i - 1 \in 1 .. L /\ m + j - 1 \in 1 .. L
    BY <1>4, <1>5
  <2>3. m + i - 1 = m + j - 1
    BY <1>4, <1>8, <2>1, <2>2
  <2>4. QED
    BY <1>4, <1>5, <2>3
<1>9. CycleIsReal'
  <2>1. edges' = edges
    BY <1>1
  <2>2. QED
    BY <1>5, <1>6, <1>7, <1>8, <2>1 DEF CycleIsReal, c
<1>10. SearchTypes' /\ WalkInv'
  BY <1>1, <1>3 DEF SearchInv, SearchTypes, WalkInv, c
<1>11. QED
  BY <1>9, <1>10 DEF SearchInv

\* A step of the search lengthens the stack by an edge of the graph or
\* shortens it; no other step touches it.
LEMMA StepSearchInv == IInv /\ SearchInv /\ [Next]_vars => SearchInv'
<1> SUFFICES ASSUME IInv, SearchInv, [Next]_vars PROVE SearchInv'
  OBVIOUS
<1> USE DEF SearchInv
<1>1. ASSUME NEW n \in Node, AddResource(n) PROVE SearchInv'
  <2>1. /\ pc = "build" /\ pc' = "build"
        /\ UNCHANGED <<color, parent, path, cycle>>
    BY <1>1 DEF AddResource, dfsVars
  <2>2. path = <<>> /\ \A k \in Node : color[k] = "white"
    BY <2>1 DEF IInv, PhaseInv
  <2>3. QED
    BY <2>1, <2>2 DEF SearchTypes, WalkInv, CycleIsReal
<1>2. ASSUME NEW n \in Node, VisitRoot(n) PROVE SearchInv'
  <2>1. /\ path = <<>> /\ n \in nodes /\ color[n] = "white" /\ pc = "detect" /\ pc' = pc
        /\ color' = [color EXCEPT ![n] = "gray"]
        /\ path' = <<n>>
        /\ UNCHANGED <<nodes, parent, cycle>>
    BY <1>2 DEF VisitRoot, graphVars
  <2>2. Len(path') = 1 /\ path'[1] = n /\ \A k \in Node : color[k] # "gray"
    BY <2>1 DEF WalkInv
  <2>3. WalkInv'
    BY <2>1, <2>2 DEF WalkInv, IInv, SortTypes
  <2>4. QED
    BY <2>1, <2>3 DEF SearchTypes, CycleIsReal
<1>3. ASSUME NEW d \in Node, Descend(d) PROVE SearchInv'
  <2>1. /\ path # <<>> /\ d \in edges[Top] /\ color[d] = "white"
        /\ pc = "detect" /\ pc' = pc
        /\ parent' = [parent EXCEPT ![d] = Top]
        /\ color' = [color EXCEPT ![d] = "gray"]
        /\ path' = Append(path, d)
        /\ UNCHANGED <<nodes, edges, cycle>>
    BY <1>3 DEF Descend, graphVars
  <2>2. /\ path \in Seq(Node) /\ Len(path) \in Nat /\ Len(path) >= 1
        /\ Top = path[Len(path)] /\ Top \in Node
        /\ d \in nodes
        /\ \A i \in 1 .. Len(path) : path[i] \in Node /\ path[i] # d
    BY <2>1 DEF IInv, SortTypes, DegreeInv, PathInv, Top
  <2>3. /\ Len(path') = Len(path) + 1
        /\ path'[Len(path) + 1] = d
        /\ \A i \in 1 .. Len(path) : path'[i] = path[i]
    BY <2>1, <2>2
  <2>4. /\ parent' \in [Node -> Node] /\ parent'[d] = Top
        /\ \A i \in 1 .. Len(path) : parent'[path[i]] = parent[path[i]]
    BY <2>1, <2>2 DEF SearchTypes
  <2>5. \A i \in 1 .. Len(path') : path'[i] \in nodes'
    BY <2>1, <2>2, <2>3 DEF WalkInv
  <2>6. ASSUME NEW i \in 1 .. Len(path') - 1
        PROVE  path'[i + 1] \in edges'[path'[i]] /\ parent'[path'[i + 1]] = path'[i]
    <3>1. CASE i = Len(path)
      BY <2>1, <2>2, <2>3, <2>4, <3>1
    <3>2. CASE i # Len(path)
      <4>1. i \in 1 .. Len(path) - 1 /\ i \in 1 .. Len(path) /\ i + 1 \in 1 .. Len(path)
        BY <2>2, <2>3, <3>2
      <4>2. path[i + 1] \in edges[path[i]] /\ parent[path[i + 1]] = path[i]
        BY <4>1 DEF WalkInv
      <4>3. QED
        BY <2>1, <2>3, <2>4, <4>1, <4>2
    <3>3. QED
      BY <3>1, <3>2
  <2>7. ASSUME NEW n \in Node, color'[n] = "gray"
        PROVE  \E i \in 1 .. Len(path') : path'[i] = n
    <3>1. CASE n = d
      <4>1. Len(path) + 1 \in 1 .. Len(path')
        BY <2>2, <2>3
      <4>2. QED
        BY <2>3, <3>1, <4>1
    <3>2. CASE n # d
      <4>1. color[n] = "gray"
        BY <2>1, <2>7, <3>2 DEF IInv, SortTypes
      <4>2. PICK i \in 1 .. Len(path) : path[i] = n
        BY <4>1 DEF WalkInv
      <4>3. i \in 1 .. Len(path')
        BY <2>2, <2>3
      <4>4. QED
        BY <2>3, <4>2, <4>3
    <3>3. QED
      BY <3>1, <3>2
  <2>8. WalkInv'
    BY <2>5, <2>6, <2>7 DEF WalkInv
  <2>9. QED
    BY <2>1, <2>4, <2>8 DEF SearchTypes, CycleIsReal
<1>4. ASSUME NEW d \in Node, FindCycle(d) PROVE SearchInv'
  BY <1>4, FindCycleStep
<1>5. CASE Finish
  <2>1. /\ path # <<>> /\ pc = "detect" /\ pc' = pc
        /\ color' = [color EXCEPT ![Top] = "black"]
        /\ path' = SubSeq(path, 1, Len(path) - 1)
        /\ UNCHANGED <<nodes, edges, parent, cycle>>
    BY <1>5 DEF Finish, FinishedColor, graphVars
  <2>2. /\ path \in Seq(Node) /\ Len(path) \in Nat /\ Len(path) >= 1
        /\ Top = path[Len(path)] /\ Top \in Node
    BY <2>1 DEF IInv, SortTypes, Top
  <2>3. /\ Len(path') = Len(path) - 1
        /\ \A i \in 1 .. Len(path) - 1 : path'[i] = path[i]
    BY <2>1, <2>2, PopProperties
  <2>4. \A i \in 1 .. Len(path') : path'[i] \in nodes'
    BY <2>1, <2>2, <2>3 DEF WalkInv
  <2>5. ASSUME NEW i \in 1 .. Len(path') - 1
        PROVE  path'[i + 1] \in edges'[path'[i]] /\ parent'[path'[i + 1]] = path'[i]
    <3>1. /\ i \in 1 .. Len(path) - 1 /\ i + 1 \in 1 .. Len(path) - 1
      BY <2>2, <2>3
    <3>2. QED
      BY <2>1, <2>3, <3>1 DEF WalkInv
  <2>6. ASSUME NEW n \in Node, color'[n] = "gray"
        PROVE  \E i \in 1 .. Len(path') : path'[i] = n
    <3>1. color[n] = "gray" /\ n # Top
      BY <2>1, <2>2, <2>6 DEF IInv, SortTypes
    <3>2. PICK i \in 1 .. Len(path) : path[i] = n
      BY <3>1 DEF WalkInv
    <3>3. i \in 1 .. Len(path) - 1
      BY <2>2, <3>1, <3>2
    <3>4. QED
      BY <2>3, <3>2, <3>3
  <2>7. WalkInv'
    BY <2>4, <2>5, <2>6 DEF WalkInv
  <2>8. QED
    BY <2>1, <2>7 DEF SearchTypes, CycleIsReal
<1>6. CASE \/ Resolve \/ StartSort \/ (\E n \in Node : Place(n)) \/ CloseLayer \/ Sorted
           \/ UNCHANGED vars
  <2>1. /\ UNCHANGED <<nodes, edges, color, parent, path, cycle>>
        /\ pc' = "cyclic" => pc = "cyclic"
    BY <1>6 DEF Resolve, StartSort, Place, CloseLayer, Sorted, vars, graphVars, dfsVars
  <2>2. QED
    BY <2>1 DEF SearchTypes, WalkInv, CycleIsReal
<1>7. QED
  BY <1>1, <1>2, <1>3, <1>4, <1>5, <1>6 DEF Next

LEMMA SearchAlways == Spec => []SearchInv
<1>1. Init => SearchInv
  BY DEF Init, SearchInv, SearchTypes, WalkInv, CycleIsReal
<1>2. QED
  BY <1>1, StepSearchInv, ResolverIInv, PTL DEF Spec

\* What detectCycle reports is a cycle of the graph, whatever the resources and
\* in whatever order the maps are ranged over: a walk along dependency edges
\* that ends where it began and meets no other node twice.
THEOREM ReportedCycleIsReal == Spec => []CycleIsReal
<1>1. SearchInv => CycleIsReal
  BY DEF SearchInv
<1>2. QED
  BY <1>1, SearchAlways, PTL

--------------------------------------------------------------------------------
(***************************************************************************)
(* The layers are as early as they can be.                                 *)
(***************************************************************************)

\* A node is queued for the next layer by a dependency in this one.
WaitInv ==
    /\ \A n \in nextQueue : edges[n] \cap layer # {}
    /\ layers # <<>> => \A n \in queue : edges[n] \cap layers[Len(layers)] # {}
    /\ NoNeedlessWait

LEMMA StepWaitInv == IInv /\ WaitInv /\ [Next]_vars => WaitInv'
<1> SUFFICES ASSUME IInv, WaitInv, [Next]_vars PROVE WaitInv'
  OBVIOUS
<1>1. CASE \E n \in Node : Place(n)
  <2>1. PICK n \in Node : Place(n)
    BY <1>1
  <2>2. /\ layer' = layer \cup {n} /\ nextQueue' = nextQueue \cup Released(n)
        /\ UNCHANGED <<edges, queue, layers>>
    BY <2>1 DEF Place, graphVars
  <2>3. \A m \in Released(n) : n \in edges[m]
    BY DEF Released, Dependents
  <2>4. QED
    BY <2>2, <2>3 DEF WaitInv, NoNeedlessWait
<1>2. CASE CloseLayer
  <2>1. /\ layer = queue /\ layers' = Append(layers, layer)
        /\ queue' = nextQueue /\ nextQueue' = {} /\ edges' = edges
    BY <1>2 DEF CloseLayer, graphVars
  <2>2. /\ layers \in Seq(SUBSET Node) /\ layer \in SUBSET Node
        /\ DOMAIN layers = 1 .. Len(layers) /\ Len(layers) \in Nat
        /\ layers # <<>> <=> Len(layers) # 0
    BY DEF IInv, SortTypes
  <2>3. /\ DOMAIN layers' = 1 .. Len(layers) + 1 /\ Len(layers') = Len(layers) + 1
        /\ layers'[Len(layers) + 1] = layer
        /\ \A i \in 1 .. Len(layers) : layers'[i] = layers[i]
    BY <2>1, <2>2
  <2>4. \A n \in queue' : edges'[n] \cap layers'[Len(layers')] # {}
    BY <2>1, <2>3 DEF WaitInv
  <2>5. ASSUME NEW i \in DOMAIN layers', i > 1, NEW n \in layers'[i]
        PROVE  edges'[n] \cap layers'[i - 1] # {}
    <3>1. i - 1 \in 1 .. Len(layers) /\ layers'[i - 1] = layers[i - 1]
      BY <2>2, <2>3, <2>5
    <3>2. CASE i = Len(layers) + 1
      <4>1. n \in queue /\ layers # <<>> /\ i - 1 = Len(layers)
        BY <2>1, <2>2, <2>3, <2>5, <3>1, <3>2
      <4>2. QED
        BY <2>1, <3>1, <4>1 DEF WaitInv
    <3>3. CASE i # Len(layers) + 1
      <4>1. i \in DOMAIN layers /\ layers'[i] = layers[i]
        BY <2>2, <2>3, <3>3
      <4>2. QED
        BY <2>1, <2>5, <3>1, <4>1 DEF WaitInv, NoNeedlessWait
    <3>4. QED
      BY <3>2, <3>3
  <2>6. QED
    BY <2>1, <2>4, <2>5 DEF WaitInv, NoNeedlessWait
<1>3. CASE StartSort
  <2>1. /\ pc = "detect" /\ UNCHANGED <<edges, layer, nextQueue, layers>>
    BY <1>3 DEF StartSort, graphVars
  <2>2. nextQueue = {} /\ layers = <<>>
    BY <2>1 DEF IInv, PhaseInv
  <2>3. QED
    BY <2>1, <2>2 DEF WaitInv, NoNeedlessWait
<1>4. CASE \E n \in Node : AddResource(n)
  <2>1. pc = "build" /\ UNCHANGED <<queue, layer, nextQueue, layers>>
    BY <1>4 DEF AddResource, sortVars
  <2>2. queue = {} /\ nextQueue = {} /\ layers = <<>>
    BY <2>1 DEF IInv, PhaseInv
  <2>3. QED
    BY <2>1, <2>2 DEF WaitInv, NoNeedlessWait
<1>5. CASE \/ Resolve \/ Finish \/ Sorted \/ UNCHANGED vars
           \/ \E n \in Node : VisitRoot(n) \/ Descend(n) \/ FindCycle(n)
  <2>1. UNCHANGED <<edges, queue, layer, nextQueue, layers>>
    BY <1>5 DEF Resolve, Finish, Sorted, VisitRoot, Descend, FindCycle, vars, graphVars, sortVars
  <2>2. QED
    BY <2>1 DEF WaitInv, NoNeedlessWait
<1>6. QED
  BY <1>1, <1>2, <1>3, <1>4, <1>5 DEF Next

\* No node is in a later layer than its dependencies force it to be.
THEOREM LayersAreEarly == Spec => []NoNeedlessWait
<1>1. Init => WaitInv
  BY DEF Init, WaitInv, NoNeedlessWait
<1>2. WaitInv => NoNeedlessWait
  BY DEF WaitInv
<1>3. QED
  BY <1>1, <1>2, StepWaitInv, ResolverIInv, PTL DEF Spec

\* Every variable of the resolver keeps its type: no counter of topologicalSort
\* goes below zero.
THEOREM ResolverTypes == Spec => []TypeOK
<1>1. IInv /\ SearchInv => TypeOK
  BY DEF IInv, SortTypes, SearchInv, SearchTypes, TypeOK
<1>2. QED
  BY <1>1, ResolverIInv, SearchAlways, PTL

================================================================================
