------------------------------ MODULE MCNight ------------------------------
(***************************************************************************)
(* A small bar: two substitutes, one of them with every character a CSV    *)
(* has to escape in its name, and a soft drink alone in its group.         *)
(***************************************************************************)
EXTENDS Night

Beer == <<"a">>
Cider == <<"c", ",", "\"", "d">>
Water == <<"w">>

Drink(group, alcoholic, order, stock) ==
  [group |-> group, alcoholic |-> alcoholic, order |-> order, archived |-> FALSE,
   base |-> 100, min |-> 85, max |-> 120, price |-> 100, raw |-> 1000,
   stockInitial |-> stock, stock |-> stock, demand |-> 0, share |-> 0, pin |-> 0, until |-> 0]

MCOpening == Beer :> Drink(<<"g", "\n", "h">>, TRUE, 0, 3)
             @@ Cider :> Drink(<<"g", "\n", "h">>, TRUE, 1, 4)
             @@ Water :> Drink(<<"s">>, FALSE, 2, 4)

\* The catalogue as it was, and a file that moves the range of one drink away
\* from the price it is sold at and calls another by a new name.
MCFiles == {exportProducts(MCOpening),
            exportProducts(Beer :> [MCOpening[Beer] EXCEPT !.base = 110, !.min = 105]
                           @@ <<"x">> :> MCOpening[Water])}
MCRanges == {[base |-> 90, min |-> 85, max |-> 95]}

MCPeople == 1 :> [optIn |-> TRUE, team |-> 1, nickname |-> 2, adult |-> TRUE]
            @@ 2 :> [optIn |-> TRUE, team |-> 2, nickname |-> 1, adult |-> TRUE]

Of(p, n) == [product |-> p, qty |-> n]
MCBaskets == {<<Of(Beer, 2)>>, <<Of(Cider, 1), Of(Water, 1)>>}

MCParams == [ewmaLambda |-> 500, demandSensitivity |-> 100, meanReversion |-> 100,
             stockPressure |-> 50, lowStockThreshold |-> 200, maxStepPct |-> 80,
             roundingCents |-> 10, renormalize |-> TRUE]

=============================================================================
