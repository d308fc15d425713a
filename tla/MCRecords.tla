----------------------------- MODULE MCRecords -----------------------------
(* For TLC: a sale, and each of the parts of Records, at small sizes.        *)
EXTENDS Records, TLC

Symmetry == Permutations(Pair)

\* engaged is history that only NoUndercutLive reads
View == <<itemVars, buyerVars, floor, moves, part,
          v1, v2, v3, v4, v5, v6, v7, v8, v9, v10, v11, v12, v13, v14>>

\* firmness levels of the engine, at a list price of 4
Balanced == [step |-> 1, counters |-> 2, low |-> 2, lowballs |-> 2]
Hardline == [step |-> 1, counters |-> 1, low |-> 3, lowballs |-> 1]
BothKnobs == {Balanced, Hardline}

Aims == (5 :> 4) @@ (6 :> 4)
Served == [r \in {"SG", "US"} |-> IF r = "SG" THEN {"carousell"} ELSE {}]
\* the second release ships two migrations, the third none
Migrations == <<1, 3, 3>>
BuyBudgets == {[max |-> 6, target |-> 4], [max |-> 4, target |-> 4]}
=============================================================================
