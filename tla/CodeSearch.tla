----------------------------- MODULE CodeSearch -----------------------------
(***************************************************************************)
(* Questions to the code index while it is being written: POST             *)
(* /code/search and GET /code/call-graph of app/main.py, answered by       *)
(* app/code_retrieval.py and app/call_graph.py.  Each looks into both      *)
(* stores several times, and a run of CodeIndex may take steps in between. *)
(* The query is the name of a function.  Scores are abstracted: a limited  *)
(* search of Qdrant returns any points of that number, one of the text any *)
(* rows that match, those of that name among them if the name makes a      *)
(* token; the list of files beside them is left out.                       *)
(***************************************************************************)
EXTENDS CodeIndex, FiniteSetsExt

CONSTANTS Tail,          \* last part of a qualified name
          Searchable,    \* names that _query_tokens makes a token of: two characters or more
          FileTopK, FunctionTopK, FinalTopK,
          WideTopK,      \* max(function_limit, final_limit * 10)
          MaxNodes,      \* nodes of the graph shown with a search
          MaxDepth,      \* depth of a call chain
          Questions,     \* what may be asked: "search" or "chain", and a name
          MaxQuestions   \* bound

ASSUME CodeSearchAssumption ==
    /\ IsFiniteSet(Names)
    /\ DOMAIN Tail = Names /\ Callees = Names \cup {Tail[n] : n \in Names}
    /\ Searchable \subseteq Names
    /\ {FileTopK, FunctionTopK, FinalTopK, WideTopK, MaxNodes, MaxDepth} \subseteq Nat \ {0}
    /\ WideTopK >= FunctionTopK /\ WideTopK >= FinalTopK
    /\ Questions \subseteq {"search", "chain"} \X Names /\ MaxQuestions \in Nat

VARIABLES look,       \* the question being answered
          questions
vars == <<indexVars, look, questions>>

Functions == Files \X Names
Rows      == {x \in Functions : body[x[1]][x[2]] # 0}
Points    == {x \in Functions : fnPts[x[1]][x[2]] # 0}
Stored    == {x \in Rows \cap Points : filePts[x[1]] # 0}

\* The k best of S, whichever they are.
Top(k, S) == {T \in SUBSET S : Cardinality(T) = Min({k, Cardinality(S)})}

Init ==
    /\ IndexInit
    /\ look = Idle /\ questions = 0

-----------------------------------------------------------------------------
Step(from, to) == look.pc = from /\ look' = [look EXCEPT !.pc = to]
Refuse(from) == look.pc = from /\ look' = Idle
Answered == look.pc = "answered"

\* History fields: "quiet" remembers whether a run was under way at any time, "steady"
\* the functions of that name that have been in both stores at all times, "lost" whether
\* matches of the text were cut off or could not be scored.
Ask(kind, name) ==
    /\ look = Idle /\ questions < MaxQuestions
    /\ questions' = questions + 1
    /\ look' = [pc |-> IF kind = "search" THEN "available" ELSE "nodes", kind |-> kind,
                name |-> name, text |-> FALSE, files |-> {}, hits |-> {}, lexical |-> {},
                shown |-> {}, read |-> {}, nodes |-> {}, edges |-> {}, lost |-> FALSE,
                quiet |-> \A p \in Procs : ~Active(p), steady |-> {x \in Stored : x[2] = name}]

\* _ensure_index_available: without both collections the answer is 503.  Then
\* _embed_texts: the actor, once more with a new one, or the local model; without a
\* vector the search is one of the text only.
EmbedQuery ==
    IF ~ Colls \subseteq colls THEN Refuse("available")
    ELSE \/ Step("available", "files")
         \/ look.pc = "available" /\ look' = [look EXCEPT !.pc = "textfunctions", !.text = TRUE]

\* _search_files.  Without a file the search is over.
SearchFiles ==
    IF "files" \notin colls THEN Refuse("files")
    ELSE /\ look.pc = "files"
         /\ \E T \in Top(FileTopK, {f \in Files : filePts[f] # 0}) :
              look' = [look EXCEPT !.files = T,
                                   !.pc = IF T = {} THEN "nodes" ELSE "functions"]

\* _search_functions: points of functions of these files ...
SearchFunctions ==
    IF "functions" \notin colls THEN Refuse("functions")
    ELSE /\ look.pc = "functions"
         /\ \E T \in Top(FunctionTopK, {x \in Points : x[1] \in look.files}) :
              look' = [look EXCEPT !.hits = T, !.files = {}, !.pc = "repository"]

\* ... _search_functions_by_repositories: of any file, and more of them ...
SearchRepository ==
    IF "functions" \notin colls THEN Refuse("repository")
    ELSE /\ look.pc = "repository"
         /\ \E T \in Top(WideTopK, Points) :
              look' = [look EXCEPT !.hits = @ \cup T, !.pc = "text"]

\* ... _search_functions_by_text: rows; beside hits of Qdrant they still need a score.
Named == {x \in Rows : x[2] = look.name /\ x[2] \in Searchable}
SearchText ==
    /\ look.pc \in {"text", "textfunctions"}
    /\ \E matching \in {S \in SUBSET Rows : Named \subseteq S} :
         \E T \in Top(WideTopK, matching) :
           LET next == [look EXCEPT !.lost = @ \/ T # matching] IN
           look' = IF look.text THEN [next EXCEPT !.hits = T, !.pc = "hydrate"]
                   ELSE [next EXCEPT !.lexical = T, !.pc = "vectors"]

\* _score_function_candidates_by_vector: those with a point; _merge_function_hits.
WithoutText(hits, text) == hits
MergeHits(hits, text) == hits \cup text

\* An error other than Qdrant's own answer is logged: the search goes on without them.
ScoreCandidates ==
    /\ look.pc = "vectors"
    /\ \/ look' = IF "functions" \notin colls /\ look.lexical # {} THEN Idle
                  ELSE [look EXCEPT !.hits = MergeHits(@, look.lexical \cap Points),
                                    !.lexical = {}, !.pc = "hydrate"]
       \/ /\ look.lexical # {}
          /\ look' = [look EXCEPT !.lexical = {}, !.lost = TRUE, !.pc = "hydrate"]

\* _hydrate_functions and _rank_code_hits: the rows of the hits, the best of them.
HydrateFunctions ==
    /\ look.pc = "hydrate"
    /\ \E T \in Top(FinalTopK, look.hits \cap Rows) :
         look' = [look EXCEPT !.shown = T, !.hits = {}, !.pc = "nodes"]

-----------------------------------------------------------------------------
\* _load_graph: a node for each name, with the path of one of its functions ...
LoadNodes ==
    /\ look.pc = "nodes"
    /\ \E path \in [{x[2] : x \in Rows} -> Files] :
         /\ \A n \in DOMAIN path : <<path[n], n>> \in Rows
         /\ look' = [look EXCEPT !.nodes = path, !.read = DOMAIN path, !.pc = "edges"]

\* _pick_node: the only one in the same file, or the only one.
PickNode(S, nodes, path) ==
    LET same == {n \in S : nodes[n] = path} IN
    IF Cardinality(same) = 1 THEN same ELSE IF Cardinality(S) = 1 THEN S ELSE {}

\* _resolve_callee_node: the node of that name, or one with the same last part.
ResolveCallee(nodes, callee, path) ==
    IF callee \in DOMAIN nodes THEN {callee}
    ELSE LET tail == IF callee \in Names THEN Tail[callee] ELSE callee IN
         PickNode({n \in DOMAIN nodes : Tail[n] = tail}, nodes, path)

\* ... and, read after the nodes, an edge for each call of one node that resolves to
\* another.
Resolved(nodes, f, call) == {<<call[1], callee>> : callee \in ResolveCallee(nodes, call[2], f)}
CallRows == {x \in Files \X (Names \X Callees) : x[2] \in edges[x[1]]}
AnyCaller(nodes)  == UNION {Resolved(nodes, x[1], x[2]) : x \in CallRows}
GraphEdges(nodes) == UNION {Resolved(nodes, x[1], x[2]) : x \in {y \in CallRows : y[2][1] \in DOMAIN nodes}}

\* get_call_chain: what the roots reach within the depth, with the calls up to there.
Reached(depth, roots, graph) ==
    LET met == roots \cup {e[2] : e \in graph} IN
    {n \in met : \E d \in 0..depth : \E walk \in [0..d -> met] :
       walk[0] \in roots /\ walk[d] = n /\ \A i \in 1..d : <<walk[i-1], walk[i]>> \in graph}
Chain(roots, graph) == [nodes |-> Reached(MaxDepth, roots, graph),
                        edges |-> {e \in graph : e[1] \in Reached(MaxDepth - 1, roots, graph)}]

\* get_relevant_graph: the seeds, then some of their neighbours and of theirs.
Neighbours(S, graph) == S \cup {e[1] : e \in {x \in graph : x[2] \in S}}
                          \cup {e[2] : e \in {x \in graph : x[1] \in S}}
Relevant(seeds, graph) ==
    {S \in SUBSET Neighbours(Neighbours(seeds, graph), graph) :
       /\ Cardinality(S) <= MaxNodes
       /\ \/ seeds \subseteq S
          \/ S \subseteq seeds /\ Cardinality(S) = MaxNodes}

ShowGraph ==
    /\ look.pc = "edges"
    /\ LET graph == GraphEdges(look.nodes)
           names == IF look.kind = "chain" THEN {look.name} ELSE {x[2] : x \in look.shown}
           roots == names \cap DOMAIN look.nodes IN
       IF look.kind = "chain"
       THEN LET c == Chain(roots, graph) IN
            look' = [look EXCEPT !.nodes = c.nodes, !.edges = c.edges, !.pc = "answered"]
       ELSE \E S \in Relevant(roots, graph) :
              look' = [look EXCEPT !.nodes = S, !.pc = "answered",
                                   !.edges = {e \in graph : e[1] \in S /\ e[2] \in S}]

Forget == Refuse("answered")

SearchStep ==
    \/ EmbedQuery \/ SearchFiles \/ SearchFunctions
    \/ SearchRepository \/ SearchText \/ ScoreCandidates
    \/ HydrateFunctions \/ LoadNodes \/ ShowGraph \/ Forget

-----------------------------------------------------------------------------
\* A run goes on while a question is answered.  An answer is looked at as it is given.
Disturb ==
    look' = IF look = Idle THEN Idle
            ELSE [look EXCEPT !.quiet = @ /\ \A p \in Procs : ~Active(p)',
                              !.steady = @ \cap Stored']

Next ==
    \/ ~Answered /\ IndexNext /\ Disturb /\ UNCHANGED questions
    \/ SearchStep /\ UNCHANGED <<indexVars, questions>>
    \/ \E q \in Questions : Ask(q[1], q[2]) /\ UNCHANGED indexVars

Spec == Init /\ [][Next]_vars

-----------------------------------------------------------------------------
\* A search by the name of a function shows it if it is in both stores all the while,
\* whatever a run replaces between its readings and whatever points and rows overlapping
\* or failed runs have left behind; and if no run has failed and none runs meanwhile, it
\* shows every function of that name in the indexed contents.  Only a list that is full
\* may lack it, a name without a token, and a search whose text matches were cut off or
\* could not be scored.
Indexed == {x \in Files \X {look.name} : row[x[1]] # 0 /\ x[2] \in Symbols[x[1]][row[x[1]]]}
NamedIsFound ==
    Answered /\ look.kind = "search" /\ look.name \in Searchable /\ ~look.lost =>
      \/ Cardinality(look.shown) = FinalTopK
      \/ /\ look.steady \subseteq look.shown
         /\ look.quiet /\ ~failed => Indexed \subseteq look.shown

\* The graph shown is one of the functions that were read: an edge joins two nodes
\* and each node is a function, though functions and calls are read one after the other
\* while a run may replace both.
GraphIsClosed ==
    Answered =>
      /\ look.nodes \subseteq look.read
      /\ \A e \in look.edges : e[1] \in look.nodes /\ e[2] \in look.nodes
=============================================================================
