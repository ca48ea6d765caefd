------------------------------ MODULE PeerRouter ------------------------------
(***************************************************************************)
(* The peer router (internal/router/peer.go): which peer a model goes to,  *)
(* requests counted in a WaitGroup, and a shutdown that waits for them     *)
(* until its deadline, then cuts them off and closes the transports.       *)
(* Peers with the same Tailcat identity share one client, which has to be  *)
(* closed once.                                                            *)
(***************************************************************************)
EXTENDS Naturals, FiniteSets

CONSTANTS Peers,           \* peers, numbered in the order of their names
          Offers,          \* the models each peer is configured with
          PeerModelFQN,    \* per peer and model, its full name
          ClientOf,        \* the Tailcat client of each peer, or NoClient
          NoClient,
          Asks             \* requests, each with the model name it asks for

VARIABLES asked,           \* per request: how far ServeHTTP is
          late,            \* requests counted after Wait returned (history)
          cut,             \* requests ended by the shutdown (history)
          peerFlag,        \* shuttingDown
          peerCut,         \* shutdownCtx is cancelled
          peerShut,        \* how far Shutdown is
          graceful,        \* it waited and did not run into its deadline (history)
          transports,      \* members whose goroutine in closeTransports is through
          clientClosed     \* how often each client was closed

peerVars == <<asked, late, cut, peerFlag, peerCut, peerShut, graceful, transports, clientClosed>>
shutVars == <<peerFlag, peerCut, peerShut, graceful, transports, clientClosed>>

Offered == UNION {{[peer |-> p, model |-> m] : m \in Offers[p]} : p \in Peers}

\* NewPeer: a full name, or a bare name only one peer has and no full name is.
Routes(name) ==
  LET full == {r \in Offered : PeerModelFQN[r.peer][r.model] = name}
      bare == {r \in Offered : r.model = name}
  IN IF full # {} THEN full ELSE IF Cardinality(bare) = 1 THEN bare ELSE {}

Handles(name) == Routes(name) # {}

Init ==
  /\ asked = [q \in DOMAIN Asks |-> "none"]
  /\ late = {} /\ cut = {}
  /\ peerFlag = FALSE /\ peerCut = FALSE /\ peerShut = "none" /\ graceful = FALSE
  /\ transports = {}
  /\ clientClosed = [c \in {ClientOf[p] : p \in Peers} |-> 0]

-----------------------------------------------------------------------------
\* ServeHTTP looks at the flag first and counts itself after that.
Counted == {q \in DOMAIN Asks : asked[q] \in {"counted", "proxying"}}

Ask(q) ==
  /\ asked[q] = "none"
  /\ asked' = [asked EXCEPT ![q] = IF peerFlag THEN "over" ELSE "checked"]
  /\ UNCHANGED <<late, cut, shutVars>>

Count(q) ==
  /\ asked[q] = "checked"
  /\ asked' = [asked EXCEPT ![q] = "counted"]
  /\ late' = IF peerShut \in {"closing", "over"} THEN late \union {q} ELSE late
  /\ UNCHANGED <<cut, shutVars>>

\* No such peer model, a body that cannot be rewritten, or the reverse proxy.
Route(q) ==
  /\ asked[q] = "counted"
  /\ \/ Handles(Asks[q]) /\ asked' = [asked EXCEPT ![q] = "proxying"]
     \/ asked' = [asked EXCEPT ![q] = "over"]
  /\ UNCHANGED <<late, cut, shutVars>>

\* The peer answers, or fails, or the client leaves; Done by the defer.
Answered(q) ==
  /\ asked[q] = "proxying"
  /\ asked' = [asked EXCEPT ![q] = "over"]
  /\ UNCHANGED <<late, cut, shutVars>>

\* The shutdown's context cancels the request's own (AfterFunc).
CutOff(q) ==
  /\ asked[q] = "proxying" /\ peerCut
  /\ asked' = [asked EXCEPT ![q] = "over"]
  /\ cut' = cut \union {q}
  /\ UNCHANGED <<late, shutVars>>

-----------------------------------------------------------------------------
\* Shutdown, first call: no timeout cuts off at once and waits, else it waits.
\* A second call is refused and changes nothing.
BeginShutdown ==
  /\ ~peerFlag
  /\ peerFlag' = TRUE
  /\ \/ peerCut' = TRUE /\ peerShut' = "waiting" /\ UNCHANGED graceful
     \/ peerShut' = "draining" /\ UNCHANGED <<peerCut, graceful>>
  /\ UNCHANGED <<asked, late, cut, transports, clientClosed>>

\* inflight.Wait returns.
Drained ==
  /\ peerShut \in {"waiting", "draining"}
  /\ Counted = {}
  /\ graceful' = (peerShut = "draining")
  /\ peerCut' = TRUE
  /\ peerShut' = "closing"
  /\ UNCHANGED <<asked, late, cut, peerFlag, transports, clientClosed>>

\* The deadline passes first.
DeadlinePasses ==
  /\ peerShut = "draining"
  /\ peerCut' = TRUE
  /\ peerShut' = "closing"
  /\ UNCHANGED <<asked, late, cut, peerFlag, graceful, transports, clientClosed>>

\* closeTransports: one goroutine for each member; the first member of a client
\* closes it.  Shutdown collects them all or gives up, and they go on.
\* Mutant: every member closes its client.
ClosesEach(p) == ClientOf[p] # NoClient
Closes(p) == ClientOf[p] # NoClient /\ \A o \in Peers : o < p => ClientOf[o] # ClientOf[p]

CloseTransport(p) ==
  /\ peerShut \in {"closing", "over"}
  /\ p \notin transports
  /\ transports' = transports \union {p}
  /\ clientClosed' = IF Closes(p) THEN [clientClosed EXCEPT ![ClientOf[p]] = @ + 1]
                                  ELSE clientClosed
  /\ UNCHANGED <<asked, late, cut, peerFlag, peerCut, peerShut, graceful>>

ShutdownReturns ==
  /\ peerShut = "closing"
  /\ peerShut' = "over"
  /\ UNCHANGED <<asked, late, cut, peerFlag, peerCut, graceful, transports, clientClosed>>

Next ==
  \/ \E q \in DOMAIN Asks : Ask(q) \/ Count(q) \/ Route(q) \/ Answered(q) \/ CutOff(q)
  \/ BeginShutdown \/ Drained \/ DeadlinePasses \/ ShutdownReturns
  \/ \E p \in Peers : CloseTransport(p)

Spec == Init /\ [][Next]_peerVars

-----------------------------------------------------------------------------
\* A shutdown that was not in a hurry spares every request that counted itself
\* before the wait ended, and leaves none of them behind; it closes each Tailcat
\* client, shared or not, once and not before every request is being cut off.
PeerShutdownClean ==
  /\ graceful => cut \subseteq late /\ Counted \subseteq late
  /\ \A c \in DOMAIN clientClosed \ {NoClient} :
       /\ clientClosed[c] > 0 => peerCut
       /\ clientClosed[c] = IF \E p \in transports : Closes(p) /\ ClientOf[p] = c THEN 1 ELSE 0
       /\ transports = Peers => clientClosed[c] = 1
=============================================================================
