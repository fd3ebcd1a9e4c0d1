----------------------------- MODULE AttackPaths ------------------------------
(***************************************************************************)
(* What `beguardit start` reports as attack paths: the graph of            *)
(* correlation/graph.js, the breadth-first search of correlation/paths.js  *)
(* and the severities of policy/severity.js.                               *)
(*                                                                         *)
(* The order of findings and assets decides the order in which neighbours  *)
(* and equally severe entry points are taken; it depends on the host that  *)
(* is scanned and is left open here.  globalVisited guards against a path  *)
(* recorded twice, which a set of paths does not show.                     *)
(***************************************************************************)
EXTENDS Naturals, Sequences, FiniteSets, SequencesExt

CONSTANTS
    FindingIds, AssetIds,
    Categories,   \* the categories of findings considered
    AssetTypes,   \* the types of assets considered
    Scores        \* scores of findings, in tenths

ASSUME IdsAssumption == FindingIds \cap AssetIds = {} /\ "none" \notin AssetIds
ASSUME FiniteAssumption == IsFiniteSet(FindingIds) /\ IsFiniteSet(AssetIds)
ASSUME ScoresAssumption == Scores \subseteq Nat

VARIABLES
    finding,   \* the findings of the scan, with category and score
    asset,     \* its assets, with their type
    runtime,   \* the first ai_runtime among them, "none" without one
    entries,   \* entry points that are still to be searched from
    visited,   \* localVisited
    queue,     \* the paths that are still to be extended
    path,      \* currentPath
    todo,      \* its neighbours that are still to be looked at
    paths      \* the paths found

graph == <<finding, asset, runtime>>
vars == <<finding, asset, runtime, entries, visited, queue, path, todo, paths>>

-----------------------------------------------------------------------------
(* Severities *)

\* SEVERITY_WEIGHT of classifySeverity: info 1, low 2, medium 3, high 4, critical 5.
Weight(score) == 1 + Cardinality({least \in {1, 40, 70, 90} : score >= least})

Severity(f) == Weight(finding[f].score)

FindingsOn(p) == ToSet(p) \cap DOMAIN finding

\* escalateChain: two findings escalate a high to critical and a medium to high,
\* three a low to medium.
Composite(p) ==
    LET weights == {Severity(f) : f \in FindingsOn(p)}
        maxWeight == CHOOSE w \in weights : \A v \in weights : v <= w
        count == Cardinality(FindingsOn(p))
    IN  CASE count >= 2 /\ maxWeight >= 4 -> 5
          [] count >= 2 /\ maxWeight = 3 -> 4
          [] count >= 3 /\ maxWeight = 2 -> 3
          [] OTHER -> maxWeight

-----------------------------------------------------------------------------
(* The graph *)

Nodes == DOMAIN asset \cup DOMAIN finding

\* Types that run on the host, store data in it or authenticate with it.
AttachedTypes ==
    {"network_service", "service", "package_manager", "ai_runtime", "gpu",
     "ai_model", "vector_database", "vector_data_store", "user_account"}

PromptTypes == {"prompt_store", "prompt_template"}

AssetEdge(a, b) ==
    \/ asset[a] \in AttachedTypes /\ asset[b] = "host"
    \/ asset[a] \in PromptTypes /\ b = runtime

categoryToAssetType ==
    {<<"users-auth", "user_account">>, <<"network", "network_service">>,
     <<"filesystem", "suid_binary">>, <<"ai-runtimes", "ai_runtime">>,
     <<"ai-runtimes", "gpu">>, <<"ai-models", "ai_model">>,
     <<"ai-prompts", "prompt_store">>, <<"ai-prompts", "prompt_template">>,
     <<"ai-rag", "vector_database">>, <<"ai-rag", "vector_data_store">>,
     <<"packages", "package_manager">>, <<"services", "service">>}

crossChains ==
    {<<"network", "users-auth">>, <<"ai-runtimes", "ai-models">>,
     <<"ai-prompts", "ai-rag">>, <<"network", "ai-runtimes">>,
     <<"users-auth", "filesystem">>}

Exposes(f, a) == <<finding[f].category, asset[a]>> \in categoryToAssetType

ChainsTo(f, g) ==
    \/ finding[f].category = finding[g].category /\ finding[f].score > finding[g].score
    \/ <<finding[f].category, finding[g].category>> \in crossChains

Edge(m, n) ==
    \/ m \in DOMAIN asset /\ n \in DOMAIN asset /\ AssetEdge(m, n)
    \/ m \in DOMAIN finding /\ n \in DOMAIN asset /\ Exposes(m, n)
    \/ m \in DOMAIN finding /\ n \in DOMAIN finding /\ ChainsTo(m, n)

Neighbors(m) == {n \in Nodes : Edge(m, n)}

\* Findings of severity medium and above.
EntryPoints == {f \in DOMAIN finding : Severity(f) >= 3}

-----------------------------------------------------------------------------
\* Mutant: the cap is too low.
MaxDepthLow == 4

MaxDepth == 8

TypeOK ==
    /\ \E F \in SUBSET FindingIds :
          finding \in [F -> [category : Categories, score : Scores]]
    /\ \E A \in SUBSET AssetIds : asset \in [A -> AssetTypes]
    /\ runtime \in DOMAIN asset \cup {"none"}
    /\ entries \in SUBSET EntryPoints
    /\ visited \in SUBSET Nodes
    /\ todo \in SUBSET Nodes
    /\ \A p \in ToSet(queue) \cup paths \cup {path} : p \in Seq(Nodes)

\* What a scan can yield: os-info.js adds one host asset at most.
Init ==
    /\ \E F \in SUBSET FindingIds :
          finding \in [F -> [category : Categories, score : Scores]]
    /\ \E A \in SUBSET AssetIds : asset \in [A -> AssetTypes]
    /\ \A a, b \in DOMAIN asset : asset[a] = "host" /\ asset[b] = "host" => a = b
    /\ LET runtimes == {a \in DOMAIN asset : asset[a] = "ai_runtime"}
       IN  IF runtimes = {} THEN runtime = "none" ELSE runtime \in runtimes
    /\ entries = EntryPoints
    /\ visited = {}
    /\ queue = <<>>
    /\ path = <<>>
    /\ todo = {}
    /\ paths = {}

\* The search from the next entry point begins, the most severe ones first.
StartEntry ==
    /\ todo = {} /\ queue = <<>>
    /\ \E start \in entries :
          /\ \A e \in entries : Severity(e) <= Severity(start)
          /\ entries' = entries \ {start}
          /\ queue' = <<<<start>>>>
          /\ visited' = {start}
    /\ UNCHANGED <<graph, path, todo, paths>>

\* Mutant: the queue is used as a stack.
DequeueLast ==
    /\ todo = {} /\ queue # <<>>
    /\ path' = queue[Len(queue)]
    /\ queue' = SubSeq(queue, 1, Len(queue) - 1)
    /\ todo' = Neighbors(Last(path'))
    /\ UNCHANGED <<graph, entries, visited, paths>>

Dequeue ==
    /\ todo = {} /\ queue # <<>>
    /\ path' = Head(queue)
    /\ queue' = Tail(queue)
    /\ todo' = Neighbors(Last(path'))
    /\ UNCHANGED <<graph, entries, visited, paths>>

\* Mutant: the new path goes on from its entry point.
VisitFromStart(n) ==
    /\ n \in todo
    /\ todo' = todo \ {n}
    /\ IF n \in visited THEN UNCHANGED <<visited, queue, paths>>
       ELSE LET newPath == <<path[1], n>>
            IN  /\ visited' = visited \cup {n}
                /\ queue' = Append(queue, newPath)
                /\ paths' = paths \cup {newPath}
    /\ UNCHANGED <<graph, entries, path>>

\* Mutant: the loop ends at the first neighbour that is visited already.
VisitBreaks(n) ==
    /\ n \in todo
    /\ IF n \in visited THEN todo' = {} /\ UNCHANGED <<visited, queue, paths>>
       ELSE LET newPath == Append(path, n)
            IN  /\ todo' = todo \ {n}
                /\ visited' = visited \cup {n}
                /\ queue' = IF Len(newPath) < MaxDepth THEN Append(queue, newPath)
                            ELSE queue
                /\ paths' = paths \cup {newPath}
    /\ UNCHANGED <<graph, entries, path>>

\* One turn of the loop over the neighbours.
Visit(n) ==
    /\ n \in todo
    /\ todo' = todo \ {n}
    /\ IF n \in visited THEN UNCHANGED <<visited, queue, paths>>
       ELSE LET newPath == Append(path, n)
            IN  /\ visited' = visited \cup {n}
                /\ queue' = IF Len(newPath) < MaxDepth THEN Append(queue, newPath)
                            ELSE queue
                /\ paths' = paths \cup {newPath}
    /\ UNCHANGED <<graph, entries, path>>

Next == StartEntry \/ Dequeue \/ \E n \in todo : Visit(n)

Spec == Init /\ [][Next]_vars

Done == todo = {} /\ queue = <<>> /\ entries = {}

-----------------------------------------------------------------------------
(* The result *)

\* Mutant: the shallowest is kept, of each entry point alone.
KeptShallowest ==
    {p \in paths : \A q \in paths : q[1] = p[1] => Len(p) <= Len(q)}

\* Sorted by severity and then by depth, the first path of each entry point and
\* severity is kept (any of the deepest, where there are several).
Kept ==
    {p \in paths : \A q \in paths :
        q[1] = p[1] /\ Composite(q) = Composite(p) => Len(q) <= Len(p)}

-----------------------------------------------------------------------------
(* Properties *)

\* The nodes that at most n steps along edges lead to.
Within(e) ==
    LET W[n \in Nat] == IF n = 0 THEN {e}
                        ELSE W[n - 1] \cup UNION {Neighbors(m) : m \in W[n - 1]}
    IN  W

\* All paths from e that repeat no node.
SimplePaths(e) ==
    LET Extensions(p) == {Append(p, n) : n \in Neighbors(Last(p)) \ ToSet(p)}
        S[n \in Nat] == IF n <= 1 THEN {<<e>>}
                        ELSE S[n - 1] \cup UNION {Extensions(p) : p \in S[n - 1]}
    IN  S[Cardinality(Nodes)]

\* Every path that is found leads from an entry point along edges of the graph,
\* repeats no node and is no deeper than the cap.
PathsAreReal ==
    \A p \in paths :
        /\ Len(p) \in 2 .. MaxDepth
        /\ p[1] \in EntryPoints
        /\ \A i \in 1 .. Len(p) - 1 : Edge(p[i], p[i + 1])
        /\ \A i, j \in 1 .. Len(p) : p[i] = p[j] => i = j

\* When the search from an entry point ends, every neighbour of a node that was
\* met was met too, unless the cap stopped the search at that node.
SearchIsComplete ==
    todo = {} /\ queue = <<>> => \A m \in visited :
        \/ Neighbors(m) \subseteq visited
        \/ \E p \in paths : Last(p) = m /\ Len(p) = MaxDepth

\* When the search is over every node that an entry point leads to has a path,
\* and a shortest one: no node is lost to another path that came first.
ShortestPaths ==
    Done => \A e \in EntryPoints, d \in 1 .. MaxDepth - 1 :
        \A n \in Within(e)[d] \ Within(e)[d - 1] :
            \E p \in paths : p[1] = e /\ Last(p) = n /\ Len(p) = d + 1

\* The cap loses nothing: every node of every path from an entry point, however
\* long the path is, is the end of a path that is found.
NothingIsCutOff ==
    Done => \A e \in EntryPoints : \A p \in SimplePaths(e) : \A i \in 2 .. Len(p) :
        \E q \in paths : q[1] = e /\ Last(q) = p[i]

\* One path per node is enough: of all the attack paths from an entry point none
\* has a higher composite severity than one of those that are reported.
NothingWorseIsMissed ==
    Done => \A e \in EntryPoints : \A p \in SimplePaths(e) :
        Len(p) >= 2 => \E q \in Kept : q[1] = e /\ Composite(q) >= Composite(p)
=============================================================================
