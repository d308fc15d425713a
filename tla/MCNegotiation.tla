--------------------------- MODULE MCNegotiation ---------------------------
(***************************************************************************)
(* Negotiation at a finer price grid, for the return of a buyer who passed *)
(* (the invariants run in MCRecords): the engine's "balanced" and          *)
(* "hardline" at a list price of 100, counted in fives.                    *)
(***************************************************************************)
EXTENDS Negotiation, TLC

Symmetry == Permutations(Buyers)
Presets == {[step |-> 2, counters |-> 2, low |-> 12, lowballs |-> 3],
            [step |-> 2, counters |-> 1, low |-> 16, lowballs |-> 1]}

============================================================================
