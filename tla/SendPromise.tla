---------------------------- MODULE SendPromise ----------------------------
(***************************************************************************)
(* What the send bracket promises about a reply, with every mechanism      *)
(* removed.  A reply starts with an unknown fate.  It ends "said" only     *)
(* while its words stand on the marketplace page as one of our own         *)
(* bubbles, and "said" is final.  A reply nobody could confirm is "asked": *)
(* handed to the seller once, and from there it can only become "said".    *)
(* Nothing ever returns a reply to a state from which it would be sent     *)
(* again.  SendBracket implements this module.                             *)
(***************************************************************************)

CONSTANTS Intents,   \* the replies
          Texts      \* what a reply can say

VARIABLES fate,      \* fate[i]: what is known about reply i
          words,     \* words[i]: what reply i says
          page       \* the texts on the page as our own bubbles

vars == <<fate, words, page>>

Init == /\ fate = [i \in Intents |-> "none"]
        /\ words \in [Intents -> Texts]
        /\ page = {}

\* A caller settles on the words of a reply it has not reserved yet.
Draft(i, t) == /\ fate[i] = "none"
               /\ words' = [words EXCEPT ![i] = t]
               /\ UNCHANGED <<fate, page>>

\* The reply is reserved: from here its fate is unknown.
Reserve(i) == /\ fate[i] = "none"
              /\ fate' = [fate EXCEPT ![i] = "unsure"]
              /\ UNCHANGED <<words, page>>

\* Some of our words appear on the page; they never disappear.
Appear(t) == /\ page' = page \cup {t}
             /\ UNCHANGED <<fate, words>>

\* The words of a reply were seen on the page.
Confirm(i) == /\ fate[i] \in {"unsure", "asked"}
              /\ words[i] \in page
              /\ fate' = [fate EXCEPT ![i] = "said"]
              /\ UNCHANGED <<words, page>>

\* The replies nobody could confirm are handed to the seller.
HandOver(S) == /\ \A i \in S : fate[i] = "unsure"
               /\ fate' = [i \in Intents |-> IF i \in S THEN "asked" ELSE fate[i]]
               /\ UNCHANGED <<words, page>>

Next == \/ \E i \in Intents, t \in Texts : Draft(i, t)
        \/ \E i \in Intents : Reserve(i)
        \/ \E t \in Texts : Appear(t)
        \/ \E i \in Intents : Confirm(i)
        \/ \E S \in SUBSET Intents : HandOver(S)

Spec == Init /\ [][Next]_vars

============================================================================
