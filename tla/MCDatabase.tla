----------------------------- MODULE MCDatabase -----------------------------
(***************************************************************************)
(* A crypto asset and a stock the loader does not have, and a futures      *)
(* asset of two contracts with bars at the same time.                      *)
(***************************************************************************)
EXTENDS Database, TLC

MCAssets == {"stock", "btc", "future", "continuation"}
MCFeeds == {"Stocks", "Crypto"}

MCContinuation == "future" :> "continuation"
MCStored == [btc |-> <<1, 2>>, future |-> <<1, 1, 2>>]

NewBar(a, t) == [asset |-> a, time |-> t]

\* The bars of a feed come in the order of time.
MCStream ==
  [Stocks |-> <<<<NewBar("stock", 3)>>>>,
   Crypto |-> <<<<NewBar("btc", 3)>>, <<NewBar("btc", 4), NewBar("btc", 5)>>>>]

\* NoForeignRows is about such data.
ASSUME DataAssumption == Chronological

=============================================================================
