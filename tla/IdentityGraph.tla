---------------------------- MODULE IdentityGraph ----------------------------
(****************************************************************************)
(* The identity graph of a user: node.c, input/json-to-graph.c,             *)
(* graph/graph-export.c, the handlers of graph-handlers.c, and what         *)
(* user-io.c saves and loads of it. The nodes are an array; the contexts    *)
(* are nodes without a parent, and every other node is listed by its label  *)
(* in the dictionary of its context. Links are kept at both ends.           *)
(*                                                                          *)
(* A label is a word of the AI with what was done to it: low counts how     *)
(* often lowerAll has changed its letters, which settles after a number of  *)
(* times that depends on the word (a digit is changed twice); cut tells     *)
(* that AddNodeEx took its end off. Strengths, touches and the coordinates  *)
(* of the export are left out. One thread runs the handlers; the process    *)
(* may end between any two steps, also while the file is written.           *)
(****************************************************************************)
EXTENDS Naturals, Sequences, FiniteSets, SequencesExt

CONSTANTS
    Words,            \* the names the AI may give
    Settles,          \* how many times lowerAll changes each: a capital once, a digit twice
    LongWords,        \* those of 31 characters
    Context,          \* context_labels, as a sequence of words
    None, Torn,       \* no file, a file whose text is not all there
    Vocabulary,       \* bound of the model: the words of each context
    MAX_NODES, MAX_LINKS, MaxMentions   \* bounds of the model

Contexts == Range(Context)

ASSUME GraphAssumption ==
    /\ Settles \in [Words \cup Contexts -> 0..2]  \* letters and digits
    /\ Vocabulary \in [Contexts -> SUBSET Words]
    /\ LongWords \subseteq Words /\ Words \cap Contexts = {}
    /\ Context \in Seq(Contexts) /\ IsInjective(Context)
    /\ \A c \in Contexts : Settles[c] = 0
    /\ {MAX_NODES, MAX_LINKS, MaxMentions} \subseteq Nat

VARIABLES
    up,
    nodes, contexts, \* NodeContainer
    file,            \* the graph export of the user
    saving           \* what the handler still has to do: "open" the file, "write" it
graph == <<nodes, contexts>>
graphVars == <<up, nodes, contexts, file, saving>>

Label(word) == [word |-> word, low |-> 0, cut |-> FALSE]
Labels == [word : Words \cup Contexts, low : 0..2, cut : BOOLEAN]

----------------------------------------------------------------------------
(* Nodes and links *)

\* lowerAll adds 32 to every character below 'a', whatever it is.
lowerAll(l) == IF l.low < Settles[l.word] THEN [l EXCEPT !.low = @ + 1] ELSE l

\* NODE_LABEL_CAP - 2 characters are kept.
Kept(l) == IF l.word \in LongWords THEN [l EXCEPT !.cut = TRUE] ELSE l

\* A node at the end of the array; parent is 0 for none. The dictionary of
\* the parent leads to it, and no longer to the one that had the label.
AddNodeEx(ns, name, parent) ==
    LET node == [label |-> lowerAll(Kept(name)), parent |-> IF parent \in DOMAIN ns THEN parent ELSE 0,
                 children |-> <<>>, nbrs |-> <<>>]
        listed == IF node.parent = 0 THEN ns
                  ELSE [ns EXCEPT ![parent].children =
                            [l \in DOMAIN @ \cup {node.label} |-> IF l = node.label THEN Len(ns) + 1 ELSE @[l]]]
    IN  Append(listed, node)

\* Looks for the name after one lowerAll; 0 when the dictionary has no such key.
FindNode(ns, name, parent) ==
    LET key == lowerAll(name) IN
    IF key \in DOMAIN ns[parent].children THEN ns[parent].children[key] ELSE 0

\* One of the first nodes, by its label.
FindNodeGlobal(ns, label) ==
    LET at == {i \in DOMAIN ns : i <= Len(Context) + 1 /\ ns[i].label = label}
    IN  IF at = {} THEN 0 ELSE Min(at)

LinkExists(ns, a, b) == b \in Range(ns[a].nbrs) \/ a \in Range(ns[b].nbrs)
UniLinkEx(ns, a, b) == [ns EXCEPT ![a].nbrs = Append(@, b)]
BiLinkEx(ns, a, b) == UniLinkEx(UniLinkEx(ns, a, b), b, a)

\* The context nodes are those without a parent that have the labels; what is
\* missing is made. (fault: all of them are made again)
SetupContextNodes_Again(ns) ==
    FoldLeft(LAMBDA s, c : [nodes |-> AddNodeEx(s.nodes, Label(c), 0),
                            contexts |-> Append(s.contexts, Len(s.nodes) + 1)],
             [nodes |-> ns, contexts |-> <<>>], Context)
SetupContextNodes(ns) ==
    LET root(s, c) == {i \in DOMAIN s : s[i].parent = 0 /\ s[i].label = Label(c)}
        bind(s, c) == IF root(s.nodes, c) # {}
                      THEN [s EXCEPT !.contexts = Append(@, Min(root(s.nodes, c)))]
                      ELSE [nodes |-> AddNodeEx(s.nodes, Label(c), 0),
                            contexts |-> Append(s.contexts, Len(s.nodes) + 1)]
    IN  FoldLeft(bind, [nodes |-> ns, contexts |-> <<>>], Context)

----------------------------------------------------------------------------
(* What the AI makes of an input *)

\* A name that is found is touched. FindNode has lowered it by then.
AddNodeFromEntry(ns, word, context) ==
    IF FindNode(ns, Label(word), context) # 0 THEN ns
    ELSE AddNodeEx(ns, lowerAll(Label(word)), context)
AddNodesFromEntry(ns, ws, context) ==
    FoldLeft(LAMBDA s, w : AddNodeFromEntry(s, w, context), ns, ws)

\* A pair is linked when both are found and neither knows the other.
ProcessArrayLinkage(ns, pair, context) ==
    LET a == FindNode(ns, Label(pair[1]), context)
        b == FindNode(ns, Label(pair[2]), context)
    IN  IF a = 0 \/ b = 0 THEN ns
        ELSE IF LinkExists(ns, a, b) THEN ns
        ELSE BiLinkEx(ns, a, b)
AddConnectionsFromEntry(ns, pairs, context) ==
    FoldLeft(LAMBDA s, p : ProcessArrayLinkage(s, p, context), ns, pairs)

AddContextNodesFromJSON(ns, entry) ==
    LET context == FindNodeGlobal(ns, Label(entry.context))
    IN  AddConnectionsFromEntry(AddNodesFromEntry(ns, entry.nodes, context), entry.connections, context)

DecomposeInputIntoGraph(ns, answer) == FoldLeft(AddContextNodesFromJSON, ns, answer)

\* Answers of call_gpt_decomposition: every context in turn. Bound of the
\* model: at most MaxMentions names and links, all of one context.
Pairs(c) == Vocabulary[c] \X Vocabulary[c]
Mentions(c) ==
    {e \in [context : {c}, nodes : SeqOf(Vocabulary[c], MaxMentions), connections : SeqOf(Pairs(c), 1)] :
        Len(e.nodes) + Len(e.connections) \in 1..MaxMentions}
Nothing(c) == [context |-> c, nodes |-> <<>>, connections |-> <<>>]
Answers ==
    UNION {{[i \in DOMAIN Context |-> IF i = k THEN e ELSE Nothing(Context[i])] : e \in Mentions(Context[k])}
             : k \in DOMAIN Context}

----------------------------------------------------------------------------
(* The file *)

\* Every link is written once from each end.
SeriliazeGraph(ns) ==
    [nodes |-> [i \in DOMAIN ns |-> [name |-> ns[i].label, parent |-> ns[i].parent]],
     connections |-> FlattenSeq([i \in DOMAIN ns |-> [j \in DOMAIN ns[i].nbrs |-> <<i, ns[i].nbrs[j]>>]])]

\* Every link of the file is made at both ends: those of a graph that was
\* saved come back twice. (fault: the parent of a node is not read)
LoadNodes_Flat(g) == FoldLeft(LAMBDA ns, n : AddNodeEx(ns, n.name, 0), <<>>, g.nodes)
LoadNodes(g) == FoldLeft(LAMBDA ns, n : AddNodeEx(ns, n.name, n.parent), <<>>, g.nodes)
LoadConnections(ns, g) == FoldLeft(LAMBDA s, c : BiLinkEx(s, c[1], c[2]), ns, g.connections)
LoadGraphFromFile(g) == LoadConnections(LoadNodes(g), g)

\* Bound of the model.
Fits(ns) ==
    /\ Len(ns) <= MAX_NODES
    /\ FoldLeft(LAMBDA n, node : n + Len(node.nbrs), 0, ns) <= MAX_LINKS

handle_post_message(a) ==
    /\ up /\ saving = "no"
    /\ nodes' = DecomposeInputIntoGraph(nodes, a)
    /\ Fits(nodes')
    /\ saving' = "open"
    /\ UNCHANGED <<up, contexts, file>>

handle_post_graph_export ==
    /\ up /\ saving = "no"
    /\ saving' = "open"
    /\ UNCHANGED <<up, graph, file>>

\* WriteGraphAndFreeData: opening the file empties it.
OpenGraph ==
    /\ up /\ saving = "open"
    /\ file' = Torn
    /\ saving' = "write"
    /\ UNCHANGED <<up, graph>>
WriteGraph ==
    /\ up /\ saving = "write"
    /\ file' = SeriliazeGraph(nodes)
    /\ saving' = "no"
    /\ UNCHANGED <<up, graph>>

\* InitNodes sets every context to the first node, and nothing binds them again.
handle_get_graph_load ==
    /\ up /\ saving = "no"
    /\ file # None
    /\ nodes' = LoadGraphFromFile(file)
    /\ Fits(nodes')
    /\ contexts' = [i \in DOMAIN Context |-> 1]
    /\ UNCHANGED <<up, file, saving>>

\* The user of a process that starts; a torn file ends it by an assertion.
load_user_from_dir ==
    /\ ~up /\ file # Torn
    /\ LET loaded == IF file = None THEN <<>> ELSE LoadGraphFromFile(file)
           bound == SetupContextNodes(loaded)
       IN  /\ nodes' = bound.nodes
           /\ contexts' = bound.contexts
    /\ Fits(nodes')
    /\ up' = TRUE
    /\ UNCHANGED <<file, saving>>

\* The process ends: nothing but the file is left.
Ends ==
    /\ up' = FALSE
    /\ nodes' = <<>>
    /\ contexts' = <<>>
    /\ saving' = "no"
    /\ UNCHANGED file

\* NewUser; its graph is saved with the first message.
InitGraph ==
    /\ up = TRUE
    /\ nodes = SetupContextNodes(<<>>).nodes
    /\ contexts = SetupContextNodes(<<>>).contexts
    /\ file = None
    /\ saving = "no"

GraphHandler ==
    \/ \E a \in Answers : handle_post_message(a)
    \/ handle_post_graph_export
    \/ handle_get_graph_load
GraphStep == OpenGraph \/ WriteGraph

----------------------------------------------------------------------------
GraphTypeOK ==
    /\ up \in BOOLEAN
    /\ \A i \in DOMAIN nodes :
         /\ nodes[i].label \in Labels
         /\ nodes[i].parent \in 0..Len(nodes)
         /\ Range(nodes[i].nbrs) \subseteq DOMAIN nodes
         /\ DOMAIN nodes[i].children \subseteq Labels /\ Range(nodes[i].children) \subseteq DOMAIN nodes
    /\ up => contexts \in [DOMAIN Context -> DOMAIN nodes]
    /\ saving \in {"no", "open", "write"}

\* However often the process starts and the graph is saved and loaded
\* (SetupContextNodes, LoadGraphFromFile), every context is there once, and
\* the table of contexts leads to it, but after /graph/load, which leaves
\* the whole table at the first node.
ContextsOnce ==
    up =>
    /\ \A i, j \in DOMAIN nodes :
         nodes[i].parent = 0 /\ nodes[j].parent = 0 /\ nodes[i].label = nodes[j].label => i = j
    /\ \/ \A i \in DOMAIN Context : contexts[i] = 1
       \/ \A i \in DOMAIN Context : /\ nodes[contexts[i]].label = Label(Context[i])
                                    /\ nodes[contexts[i]].parent = 0

Faithful(l) == Settles[l.word] <= 1 /\ ~l.cut

\* A name that lowerAll leaves alone after one time and that is not cut has
\* one node in a context, whatever was said, saved and loaded in between
\* (AddNodeFromEntry). A name with a digit, and one of 31 characters, both of
\* which the prompt allows (config.h:501), has a new one every time.
OneNodePerName ==
    \A i, j \in DOMAIN nodes :
        /\ Faithful(nodes[i].label)
        /\ nodes[i].label = nodes[j].label /\ nodes[i].parent = nodes[j].parent
        => i = j

Times(i, j) == Cardinality({k \in DOMAIN nodes[i].nbrs : nodes[i].nbrs[k] = j})

\* A link is there from both ends, as often from the one as from the other,
\* and joins nodes of one context; also after it has been saved and loaded
\* (ProcessArrayLinkage, SeriliazeGraph, LoadGraphFromFile).
LinksMutual ==
    \A i, j \in DOMAIN nodes :
        /\ Times(i, j) = Times(j, i)
        /\ Times(i, j) > 0 => nodes[i].parent = nodes[j].parent /\ nodes[i].parent # 0

\* A start after a whole save brings back the nodes with their places, and
\* the links, of the graph as it was saved (LoadGraphFromFile after
\* SeriliazeGraph, with the labels lowered once more).
RestartKeepsGraph ==
    [][~up /\ up' /\ file # None =>
         /\ \A i \in DOMAIN file.nodes :
              nodes'[i].label = file.nodes[i].name /\ nodes'[i].parent = file.nodes[i].parent
         /\ \A i \in DOMAIN nodes' : \A j \in Range(nodes'[i].nbrs) : Contains(file.connections, <<i, j>>)
         /\ \A k \in DOMAIN file.connections :
              file.connections[k][2] \in Range(nodes'[file.connections[k][1]].nbrs)]_graphVars

\* The graph keeps its shape over input, saves, loads and starts: each context
\* once, one node for a name, links from both ends (node.c:194, json-to-graph.c:51,
\* graph-export.c).
GraphSound == GraphTypeOK /\ ContextsOnce /\ OneNodePerName /\ LinksMutual

=============================================================================
