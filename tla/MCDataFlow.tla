----------------------------- MODULE MCDataFlow -----------------------------
(***************************************************************************)
(* A small graph for TLC.  An hourly transform that may throw reads the    *)
(* source twice and a scalar; a cross-section over it, which may throw as  *)
(* well, is broadcast; a daily one ranks the assets; a weekly transform is *)
(* skipped; and a report reads the ranks and the skipped one.              *)
(***************************************************************************)
EXTENDS DataFlow, TLC

CONSTANTS a1, a2

MCAssets == {a1, a2}
MCTimeframes == {"1D", "1H", "1W", "1M"}
MCIntraday == {"1H"}

Transform(inputs, tf, category) ==
  [inputs |-> inputs, timeframe |-> tf, category |-> category,
   dataSources |-> category = "DataSource", isCrossSectional |-> FALSE,
   broadcast |-> FALSE, allowNullInputs |-> FALSE, intradayOnly |-> FALSE,
   yields |-> "value"]

MCNodes == {"src", "num", "sig", "mkt", "week", "rank", "rep"}

MCDef ==
  [n \in MCNodes |->
     CASE n = "src"  -> Transform(<<>>, "1H", "DataSource")
       [] n = "num"  -> Transform(<<>>, "1M", "Scalar")
       [] n = "sig"  -> Transform(<<"src", "num", "src">>, "1H", "Other")
       [] n = "week" -> [Transform(<<"mkt">>, "1W", "Other") EXCEPT !.intradayOnly = TRUE]
       [] n = "mkt"  -> [Transform(<<"sig">>, "1H", "Other") EXCEPT !.isCrossSectional = TRUE,
                                                                    !.broadcast = TRUE]
       [] n = "rank" -> [Transform(<<"mkt">>, "1D", "Other") EXCEPT !.isCrossSectional = TRUE]
       [] n = "rep"  -> [Transform(<<"week", "rank">>, "1D", "Reporter")
                           EXCEPT !.allowNullInputs = TRUE]]

MCOrders ==
  {<<"src", "num", "sig", "mkt", "week", "rank", "rep">>,
   <<"src", "sig", "num", "mkt", "week", "rank", "rep">>,    \* num after its reader
   <<"src", "num", "sig", "mkt", "week", "rank", "src">>}    \* src twice

\* d1, h1 for a1 and d2, h2 for a2; nobody has weekly bars, and monthly ones who
\* has daily ones.
Data(d1, h1, d2, h2) ==
  ("1D" :> (a1 :> d1 @@ a2 :> d2)) @@ ("1H" :> (a1 :> h1 @@ a2 :> h2))
    @@ ("1M" :> (a1 :> d1 @@ a2 :> d2))
    @@ ("1W" :> (a1 :> "absent" @@ a2 :> "absent"))

MCFeeds ==
  {Data("rows", "rows", "rows", "rows"),
   Data("rows", "rows", "rows", "absent"),
   Data("rows", "empty", "rows", "rows"),
   Data("absent", "absent", "rows", "absent")}

OnlyA1 == {a1}

(***************************************************************************)
(* Data for the run that contradicts a statement of the code.               *)
(***************************************************************************)
ScalarFeeds == {Data("empty", "rows", "rows", "rows")}

=============================================================================
