---------------------------- MODULE ControlAuth ----------------------------
(* Who the control server answers (http_server.py Auth and its routes,      *)
(* secrets.py): the attended token that is on file, in memory and in the    *)
(* hands of the command line and of open tail pages; its rotation, a write  *)
(* and then a swap on a request's own thread; and the one-shot tickets that *)
(* a tail page trades for it.  Tokens are numbered as they are made.        *)
EXTENDS Integers, FiniteSets

CONSTANTS
  Requests,    \* rotations that may be under way at a time
  Tickets,
  Pages,       \* tail pages in browsers
  MaxTokens    \* bound on rotations

ControlAuthAssumption == MaxTokens \in Nat \ {0}

VARIABLES
  file,      \* the token on file
  attended,  \* Auth._attended
  made,      \* tokens made so far
  rotation,  \* each rotation: idle, or the token it has to swap in
  ticket,    \* each ticket: unused, live, gone
  asked,     \* the ticket a page's exchange carries, after its body was read
  page,      \* the token a tail page polls with, 0 for none
  handed,    \* exchanges each ticket was good for
  replaced   \* tokens that a later one took the place of

vars == <<file, attended, made, rotation, ticket, asked, page, handed, replaced>>

NoTicket == "none"
Idle == [at |-> "idle", new |-> 0]

Init == /\ file = 1 /\ attended = 1 /\ made = 1
        /\ rotation = [r \in Requests |-> Idle]
        /\ ticket = [k \in Tickets |-> "unused"] /\ asked = [p \in Pages |-> NoTicket]
        /\ page = [p \in Pages |-> 0] /\ handed = [k \in Tickets |-> 0] /\ replaced = {}

\* Auth.resolve of an attended bearer
Resolves(token) == token = attended

\* _handle_rotate_token: the gate is passed with the token on file
Rotate(r) == /\ rotation[r] = Idle /\ Resolves(file) /\ made < MaxTokens
             /\ rotation' = [rotation EXCEPT ![r] = [at |-> "write", new |-> 0]]
             /\ UNCHANGED <<file, attended, made, ticket, asked, page, handed, replaced>>

\* rotate_mcp_token
Write(r) == /\ rotation[r].at = "write"
            /\ made < MaxTokens /\ made' = made + 1 /\ file' = made + 1
            /\ rotation' = [rotation EXCEPT ![r] = [at |-> "swap", new |-> made + 1]]
            /\ UNCHANGED <<attended, ticket, asked, page, handed, replaced>>

Replaces(new) == replaced' = IF attended < new THEN replaced \cup {attended} ELSE replaced

\* A variant of Swap.
SwapLater(r) == /\ rotation[r].at = "swap"
                /\ rotation' = [rotation EXCEPT ![r] = Idle]
                /\ Replaces(rotation[r].new)
                /\ UNCHANGED <<file, attended, made, ticket, asked, page, handed>>

\* rotate_attended, and the answer
Swap(r) == /\ rotation[r].at = "swap"
           /\ attended' = rotation[r].new /\ Replaces(rotation[r].new)
           /\ rotation' = [rotation EXCEPT ![r] = Idle]
           /\ UNCHANGED <<file, made, ticket, asked, page, handed>>

\* mint_tail_ticket, for the command line, which reads its token from the file
MintTicket(k) == /\ ticket[k] = "unused" /\ Resolves(file)
                 /\ ticket' = [ticket EXCEPT ![k] = "live"]
                 /\ UNCHANGED <<file, attended, made, rotation, asked, page, handed, replaced>>

\* the clock against _TAIL_TICKET_TTL_SEC
Expire(k) == /\ ticket[k] = "live" /\ ticket' = [ticket EXCEPT ![k] = "gone"]
             /\ UNCHANGED <<file, attended, made, rotation, asked, page, handed, replaced>>

\* a page opened on the ticket's address, reloaded, or opened twice
Exchange(p, k) == /\ asked[p] = NoTicket /\ ticket[k] # "unused"
                  /\ asked' = [asked EXCEPT ![p] = k]
                  /\ UNCHANGED <<file, attended, made, rotation, ticket, page, handed, replaced>>

\* A variant of Redeem.
RedeemAndKeep(p) ==
  LET k == asked[p] IN
  /\ k # NoTicket /\ asked' = [asked EXCEPT ![p] = NoTicket]
  /\ IF ticket[k] = "live"
       THEN /\ page' = [page EXCEPT ![p] = attended]
            /\ handed' = [handed EXCEPT ![k] = @ + 1]
       ELSE UNCHANGED <<page, handed>>
  /\ UNCHANGED <<file, attended, made, rotation, ticket, replaced>>

\* redeem_tail_ticket, under the lock
Redeem(p) ==
  LET k == asked[p] IN
  /\ k # NoTicket /\ asked' = [asked EXCEPT ![p] = NoTicket]
  /\ IF ticket[k] = "live"
       THEN /\ ticket' = [ticket EXCEPT ![k] = "gone"]
            /\ page' = [page EXCEPT ![p] = attended]
            /\ handed' = [handed EXCEPT ![k] = @ + 1]
       ELSE UNCHANGED <<ticket, page, handed>>
  /\ UNCHANGED <<file, attended, made, rotation, replaced>>

\* a restart: ensure_mcp_token reads the file, tickets and requests are gone
Restart == /\ attended' = file /\ Replaces(file)
           /\ rotation' = [r \in Requests |-> Idle] /\ asked' = [p \in Pages |-> NoTicket]
           /\ ticket' = [k \in Tickets |-> IF ticket[k] = "live" THEN "gone" ELSE ticket[k]]
           /\ UNCHANGED <<file, made, page, handed>>

Next == \/ Restart
        \/ \E r \in Requests : Rotate(r) \/ Write(r) \/ Swap(r)
        \/ \E k \in Tickets : MintTicket(k) \/ Expire(k)
        \/ \E p \in Pages : Redeem(p) \/ \E k \in Tickets : Exchange(p, k)

Spec == Init /\ [][Next]_vars

-----------------------------------------------------------------------------
TypeOK ==
  /\ {file, attended, made} \subseteq 1..MaxTokens
  /\ rotation \in [Requests -> [at : {"idle", "write", "swap"}, new : 0..MaxTokens]]
  /\ ticket \in [Tickets -> {"unused", "live", "gone"}]
  /\ asked \in [Pages -> Tickets \cup {NoTicket}] /\ page \in [Pages -> 0..MaxTokens]
  /\ handed \in [Tickets -> Nat] /\ replaced \subseteq 1..MaxTokens

(* A ticket is good for one page, however many exchanges carry it at once and *)
(* whatever is rotated or restarted between its making and its use.           *)
TicketOnce == \A k \in Tickets : handed[k] <= 1

(* "The old token dies here": once a rotation has taken a token's place,      *)
(* nothing is let in with it again, not even a page that was handed it, in    *)
(* whatever order rotations swap and restarts read the file.                  *)
ReplacedStaysDead == \A token \in replaced : ~Resolves(token)

\* What every step keeps.  The tokens yet to be swapped in are all different,
\* none is the one in memory, and the one on file is the newest; so nothing
\* that was replaced can be swapped in or read back.
Pending == {r \in Requests : rotation[r].at = "swap"}
ComingIsNew ==
  /\ \A r \in Pending : /\ rotation[r].new \notin replaced \cup {attended}
                        /\ \A q \in Pending : rotation[q].new = rotation[r].new => q = r
  /\ attended \notin replaced /\ file \notin replaced
TicketsInHand == \A k \in Tickets : ticket[k] # "gone" => handed[k] = 0

IInv == /\ file = made /\ made \in Nat /\ attended \in 0..made /\ replaced \subseteq 0..made
        /\ rotation \in [Requests -> [at : {"idle", "write", "swap"}, new : 0..made]]
        /\ ticket \in [Tickets -> {"unused", "live", "gone"}] /\ handed \in [Tickets -> Nat]
        /\ asked \in [Pages -> Tickets \cup {NoTicket}]
        /\ ComingIsNew /\ TicketsInHand /\ TicketOnce

=============================================================================
