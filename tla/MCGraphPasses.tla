---------------------------- MODULE MCGraphPasses ---------------------------
(***************************************************************************)
(* Scripts for TLC: every script of two or three inner nodes and a last    *)
(* one that is a report or an executor, and some longer ones.              *)
(***************************************************************************)
EXTENDS GraphPasses

Name(k) == <<"n1", "n2", "n3", "n4", "n5", "n6">>[k]
MCIds == {Name(k) : k \in 1..6} \cup {"_", "sessions_0", "sessions_1"}
MCTypes == {"source", "number", "binary", "report", "executor", "sessions"}
MCSinks == {"report", "executor"}
MCScalars == {"number"}
MCExecutors == {"executor"}
MCSessionIds == <<"sessions_0", "sessions_1">>
MCSessions == {1}

\* Node number k; its inputs are numbers too.
Node(k, type, inputs, tf) ==
  [id |-> Name(k), type |-> type, inputs |-> [i \in DOMAIN inputs |-> Name(inputs[i])],
   columns |-> <<>>, timeframe |-> tf, session |-> None]

\* With a schema that shows the inputs of those numbers.
Showing(n, shown) == [n EXCEPT !.columns = [i \in DOMAIN shown |-> Name(shown[i])]]

Underscore(n) == [n EXCEPT !.id = "_"]
InSession(n) == [n EXCEPT !.session = 1]

\* Nodes that collide: the timeframe does not count, nor which inputs there are.
MCHash(n) == <<n.type, Len(n.inputs)>>

\* The nodes the visitor may add as number k, with inputs among the earlier.
Lists(ids) == {<<i>> : i \in ids} \cup {<<i, j>> : i \in ids, j \in ids}

Inner(k, ids) ==
  {Node(k, "source", <<>>, tf) : tf \in 0..2}
  \cup {Node(k, "number", <<>>, 0)}
  \cup {Node(k, "binary", in, tf) : in \in Lists(ids), tf \in {0, 1}}

Closing(k, ids) ==
  {Showing(Node(k, "report", in, 0), <<Last(in)>>) : in \in Lists(ids)}
  \cup {Node(k, "executor", <<i>>, 0) : i \in ids}

\* All scripts of two inner nodes and a last one, and of three inner nodes and a
\* last one that does not read the first.
SmallScripts ==
  {<<m, n, l>> : m \in Inner(1, {}), n \in Inner(2, {1}), l \in Closing(3, {1, 2})}
  \cup {<<m, n, o, l>> : m \in Inner(1, {}), n \in Inner(2, {1}), o \in Inner(3, {1, 2}),
                         l \in Closing(4, {2, 3})}

\* Scripts of five and six nodes.
LongScripts ==
  {\* two chains over equal sources: the sources are merged, then read twice
   <<Node(1, "source", <<>>, tf), Node(2, "binary", <<1, 1>>, 0),
     Node(3, "source", <<>>, tf), Node(4, "binary", <<3, 3>>, 0),
     Showing(Node(5, "report", <<2, 4>>, 0), <<4, 2, 4>>),
     Node(6, "executor", <<4>>, 0)>> : tf \in 0..2}
  \cup
  {\* two reports on the same inputs that may show the same of them
   <<Node(1, "source", <<>>, 1), Node(2, "source", <<>>, tf),
     Showing(Node(3, "report", <<1, 2>>, 0), <<1>>),
     Showing(Node(4, "report", <<1, 2>>, 0), <<i>>)>> : tf \in 1..2, i \in 1..2}
  \cup
  {\* two executors alike, a source nobody reads, a literal shared
   <<Node(1, "source", <<>>, tf), Node(2, "source", <<>>, 0), Node(3, "number", <<>>, 0),
     Node(4, "binary", <<1, 3>>, 2), Node(5, "executor", <<4>>, 0),
     Node(6, "executor", <<4>>, 0)>> : tf \in 0..1}
  \cup
  {\* sources that take the timeframe of their readers, one of them twice over
   <<Node(1, "source", <<>>, 0), Node(2, "number", <<>>, 0), Node(3, "binary", <<1, 2>>, a),
     Node(4, "binary", <<1, 3>>, b), Node(5, "report", <<3, 4>>, 0)>> :
     a \in 0..2, b \in 0..2}
  \cup
  {\* no sink
   <<Node(1, "source", <<>>, a), InSession(Node(2, "binary", <<1, 1>>, 0))>> : a \in 0..1}
  \cup
  {\* a session asked for, and one that is there
   <<Node(1, "source", <<>>, 1), InSession(Node(2, "binary", <<1, 1>>, a)),
     InSession(Node(3, "sessions", <<>>, 1)), Node(4, "report", <<2, 3>>, 0)>> :
     a \in 0..1}

MCScripts == SmallScripts \cup LongScripts

\* "_" is the one name the visitor lets a script use twice.  It wires the inputs
\* of the second report to the first node it finds with that name.
UnderscoreScripts ==
  {<<Node(1, "source", <<>>, tf), Node(2, "binary", <<1, 1>>, a), Node(3, "number", <<>>, 0),
     Underscore(Node(4, "report", <<1, b>>, 0)), Underscore(Node(5, "report", <<>>, 0))>> :
     tf \in 1..2, a \in 0..2, b \in 1..3}

=============================================================================
