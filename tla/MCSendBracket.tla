--------------------------- MODULE MCSendBracket ---------------------------
(***************************************************************************)
(* SendBracket for TLC: two calls of send_reply on one thread.             *)
(***************************************************************************)
EXTENDS SendBracket, TLC

Symmetry == Permutations(Intents)

\* A row's age is read only while it is pending or sent_unverified, and its
\* count of looks only while it is unsettled; no status leads back there.
Ages == [i \in Intents |-> IF status[i] \in {"pending", "sent_unverified"}
                           THEN age[i] ELSE "fresh"]
Looks == [i \in Intents |-> IF status[i] \in Unsettled THEN attempts[i] ELSE 0]
View == <<callVars, text, status, Looks, Ages, threadVars, pageVars, asked>>

============================================================================
