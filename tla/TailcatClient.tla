---------------------------- MODULE TailcatClient ----------------------------
(***************************************************************************)
(* The outbound client of a Tailcat peer (Client in internal/tailcat/      *)
(* transport.go).  A dial that fails replaces the client behind it, while  *)
(* other dials and connections of the old one go on; a goroutine waits for *)
(* those and closes the old one; Close ends them all.  What is under c.mu  *)
(* is one step; the flag "closed" is not under it.  The Tailcat library    *)
(* (dials, DrainTCP, Close of a client) is external.                       *)
(***************************************************************************)
EXTENDS Naturals, FiniteSets

CONSTANTS Dials,       \* calls of DialContext
          MaxClients   \* clients made (bound)

VARIABLES current,     \* c.client
          usedClient,  \* c.usedClient, 0 for nil
          retired,     \* per client that was replaced, its retiredClient and
                       \* where the goroutine is that drains it
          pending,     \* c.pending
          tcClosed,    \* c.closed
          dial,        \* per dial: where it is and on which client
          tcClient,    \* per client: "none", "open", "closed"
          closing      \* where Close is, and the retired clients it took

tcVars == <<current, usedClient, retired, pending, tcClosed, dial, tcClient, closing>>
Clients == 1..MaxClients

NotRetired == [listed |-> FALSE, used |-> FALSE, dialsDone |-> 0, cancelled |-> FALSE, at |-> "none"]

Init ==
  /\ current = 1 /\ usedClient = 0
  /\ retired = [c \in Clients |-> NotRetired]
  /\ pending = [c \in Clients |-> 0]
  /\ tcClosed = FALSE
  /\ dial = [d \in Dials |-> [at |-> "none", client |-> 0, second |-> FALSE]]
  /\ tcClient = [c \in Clients |-> IF c = 1 THEN "open" ELSE "none"]
  /\ closing = [at |-> "none", took |-> {}, used |-> FALSE]

DialAt(d, at) == dial' = [dial EXCEPT ![d].at = at]
Connected(c) == \E d \in Dials : dial[d].client = c /\ dial[d].at \in {"connected", "in use"}

-----------------------------------------------------------------------------
\* DialContext.
DialBegins(d) ==
  /\ dial[d].at = "none"
  /\ DialAt(d, IF tcClosed THEN "over" ELSE "lock")
  /\ UNCHANGED <<current, usedClient, retired, pending, tcClosed, tcClient, closing>>

\* startDialLocked, in the section that reads the client; for the second try too.
DialStarts(d) ==
  /\ dial[d].at = "lock"
  /\ IF tcClosed
       THEN DialAt(d, "over") /\ UNCHANGED pending
       ELSE /\ dial' = [dial EXCEPT ![d].at = "dialing", ![d].client = current]
            /\ pending' = [pending EXCEPT ![current] = @ + 1]
  /\ UNCHANGED <<current, usedClient, retired, tcClosed, tcClient, closing>>

\* DialTCPPort: a connection, an error, or the request is over.
DialReturns(d) ==
  /\ dial[d].at = "dialing"
  /\ \/ tcClient[dial[d].client] = "open" /\ DialAt(d, "connected")
     \/ DialAt(d, "failed")
     \/ DialAt(d, "cancelled")
  /\ UNCHANGED <<current, usedClient, retired, pending, tcClosed, tcClient, closing>>

\* finishDial, and what its caller does with the answer.
DialFinishes(d) ==
  LET c == dial[d].client
      kept == dial[d].at = "connected" /\ ~tcClosed
      last == pending[c] = 1
  IN /\ dial[d].at \in {"connected", "failed", "cancelled"}
     /\ usedClient' = IF kept /\ current = c THEN c ELSE usedClient
     /\ retired' = [retired EXCEPT
          ![c].used = @ \/ (kept /\ current # c /\ retired[c].listed),
          ![c].dialsDone = IF last /\ retired[c].listed THEN @ + 1 ELSE @]
     /\ pending' = [pending EXCEPT ![c] = @ - 1]
     /\ DialAt(d, IF kept THEN "in use"
                  ELSE IF dial[d].at = "failed" /\ ~dial[d].second THEN "replace" ELSE "over")
     /\ UNCHANGED <<current, tcClosed, tcClient, closing>>

\* replaceClient; only the first of several failures of a client replaces it.
ReplaceClient(d) ==
  LET c == dial[d].client
  IN /\ dial[d].at = "replace"
     /\ IF tcClosed \/ current # c
          THEN UNCHANGED <<current, usedClient, retired, tcClient>>
          ELSE /\ c < MaxClients
               /\ current' = c + 1 /\ usedClient' = 0
               /\ tcClient' = [tcClient EXCEPT ![c + 1] = "open"]
               /\ retired' = [retired EXCEPT ![c] =
                    [listed |-> TRUE, used |-> usedClient = c, cancelled |-> FALSE, at |-> "dials",
                     dialsDone |-> IF pending[c] = 0 THEN 1 ELSE 0]]
     /\ dial' = [dial EXCEPT ![d].at = "lock", ![d].second = TRUE]
     /\ UNCHANGED <<pending, tcClosed, closing>>

ConnectionEnds(d) ==
  /\ dial[d].at = "in use"
  /\ DialAt(d, "over")
  /\ UNCHANGED <<current, usedClient, retired, pending, tcClosed, tcClient, closing>>

-----------------------------------------------------------------------------
\* drainRetiredClient: its dials, its connections, its end.
DrainAt(c, at) == retired' = [retired EXCEPT ![c].at = at]

\* Mutant: the connections are not waited for.
DrainSkips(c) ==
  /\ retired[c].at = "dials"
  /\ retired[c].dialsDone > 0 \/ retired[c].cancelled
  /\ DrainAt(c, "close")
  /\ UNCHANGED <<current, usedClient, pending, tcClosed, dial, tcClient, closing>>
DrainAwaitsDials(c) ==
  /\ retired[c].at = "dials"
  /\ \/ retired[c].dialsDone > 0 /\ DrainAt(c, IF retired[c].used THEN "drain" ELSE "close")
     \/ retired[c].cancelled /\ DrainAt(c, "close")
  /\ UNCHANGED <<current, usedClient, pending, tcClosed, dial, tcClient, closing>>

DrainAwaitsConnections(c) ==
  /\ retired[c].at = "drain"
  /\ ~Connected(c) \/ retired[c].cancelled
  /\ DrainAt(c, "close")
  /\ UNCHANGED <<current, usedClient, pending, tcClosed, dial, tcClient, closing>>

DrainCloses(c) ==
  /\ retired[c].at = "close"
  /\ tcClient' = [tcClient EXCEPT ![c] = "closed"]
  /\ DrainAt(c, "remove")
  /\ UNCHANGED <<current, usedClient, pending, tcClosed, dial, closing>>

DrainEnds(c) ==
  /\ retired[c].at = "remove"
  /\ retired' = [retired EXCEPT ![c].at = "done", ![c].listed = FALSE]
  /\ UNCHANGED <<current, usedClient, pending, tcClosed, dial, tcClient, closing>>

\* Close: the flag, what it takes from under the lock, the current client, and
\* the goroutines of those that were replaced.
CloseBegins ==
  /\ closing.at = "none" /\ ~tcClosed
  /\ tcClosed' = TRUE
  /\ closing' = [closing EXCEPT !.at = "lock"]
  /\ UNCHANGED <<current, usedClient, retired, pending, dial, tcClient>>

CloseTakes ==
  /\ closing.at = "lock"
  /\ closing' = [at |-> "close", took |-> {c \in Clients : retired[c].listed}, used |-> usedClient = current]
  /\ retired' = [c \in Clients |-> [retired[c] EXCEPT !.listed = FALSE]]
  /\ UNCHANGED <<current, usedClient, pending, tcClosed, dial, tcClient>>

\* DrainTCP ends with the connections or with the context.
CloseCurrent ==
  /\ closing.at = "close"
  /\ tcClient' = [tcClient EXCEPT ![current] = "closed"]
  /\ retired' = [c \in Clients |-> [retired[c] EXCEPT !.cancelled = @ \/ c \in closing.took]]
  /\ closing' = [closing EXCEPT !.at = "wait"]
  /\ UNCHANGED <<current, usedClient, pending, tcClosed, dial>>

CloseReturns ==
  /\ closing.at = "wait"
  /\ \A c \in closing.took : retired[c].at = "done"
  /\ closing' = [closing EXCEPT !.at = "returned"]
  /\ UNCHANGED <<current, usedClient, retired, pending, tcClosed, dial, tcClient>>

Next ==
  \/ \E d \in Dials : DialBegins(d) \/ DialStarts(d) \/ DialReturns(d) \/ DialFinishes(d)
                      \/ ReplaceClient(d) \/ ConnectionEnds(d)
  \/ \E c \in Clients : DrainAwaitsDials(c) \/ DrainAwaitsConnections(c) \/ DrainCloses(c) \/ DrainEnds(c)
  \/ CloseBegins \/ CloseTakes \/ CloseCurrent \/ CloseReturns

Spec == Init /\ [][Next]_tcVars

-----------------------------------------------------------------------------
\* A channel is closed once: twice is a panic.
DialsDoneOnce == \A c \in Clients : retired[c].dialsDone <= 1

\* Until Close is called no client is closed under a dial or a connection: that
\* is what its comment on "pending" is about.
NobodyCutOff ==
  ~tcClosed => \A c \in Clients : tcClient[c] = "closed" => pending[c] = 0 /\ ~Connected(c)

\* When Close returns, every client is closed or its goroutine is at the last
\* step; none is made afterwards.
CloseIsComplete == closing.at = "returned" => \A c \in Clients : tcClient[c] # "open"

ClientsAreRetired == DialsDoneOnce /\ NobodyCutOff /\ CloseIsComplete
=============================================================================
