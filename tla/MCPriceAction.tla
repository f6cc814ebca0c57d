---------------------------- MODULE MCPriceAction ----------------------------
(* Small instance of PriceAction. *)
EXTENDS PriceAction

\* A bar of the range l .. h that rises or falls over all of it.
Up(l, h) == [o |-> l, h |-> h, l |-> l, c |-> h]
Down(l, h) == [o |-> h, h |-> h, l |-> l, c |-> l]
MCBars == {Up(1, 2), Down(2, 3), Up(3, 4), Down(1, 4), Up(2, 2)}

\* Periods of two bars, so that the third has a level of the periods before it; and
\* sessions that open, run and close between inactive bars.
MCCalendar ==
    [i \in 1 .. 12 |->
        [period |-> (i + 1) \div 2,
         phase |-> CASE i % 4 = 1 -> "before" [] i % 4 = 2 -> "open"
                     [] i % 4 = 3 -> "inside" [] OTHER -> "close"]]
=============================================================================
