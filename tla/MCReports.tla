------------------------------ MODULE MCReports ------------------------------
(***************************************************************************)
(* Sinks next to transforms that store columns or scalars, or to another   *)
(* sink, over two assets.                                                  *)
(***************************************************************************)
EXTENDS Reports

CONSTANTS a1, a2

MCAssets == {a1, a2}

T(kind) == [kind |-> kind, isCrossSectional |-> FALSE, mayThrow |-> FALSE]
Group(kind) == [T(kind) EXCEPT !.isCrossSectional = TRUE]
Throwing(kind) == [T(kind) EXCEPT !.mayThrow = TRUE]

\* Two at once for the locks and the merging, one for two runs.
MCGraphs ==
  {<<Throwing("cards"), T("source")>>, <<Group("cards"), T("scalar")>>, <<T("gap"), T("cards")>>,
   <<Throwing("cards")>>, <<T("gap")>>, <<T("marker")>>, <<Group("cards")>>}

MCFeeds == {{a1, a2}, {a1}}

MCThreads == AllThreads

=============================================================================
