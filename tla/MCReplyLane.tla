---------------------------- MODULE MCReplyLane ----------------------------
(***************************************************************************)
(* ReplyLane for TLC: two threads on two markets, or one thread alone.     *)
(***************************************************************************)
EXTENDS ReplyLane, TLC

CONSTANTS t1, t2, m1, m2

TwoMarkets == (t1 :> m1) @@ (t2 :> m2)
OneMarket == t1 :> m1
Symmetry == Permutations(Slots)

============================================================================
