----------------------------- MODULE DepthSource -----------------------------
(***************************************************************************)
(* The market-data connection of the Alpha Ladder worker                   *)
(* (src/src/nifty-alpha-ladder/live/kiteDepthSource.ts): a web socket that *)
(* is dialled again after every close, until too many closes in a row have *)
(* brought no depth tick.  The events of a socket and the reconnect timer  *)
(* come in any order the platform may produce.                             *)
(*                                                                         *)
(* A Socket is a slot, free again once its socket has closed.  The length  *)
(* of the delay and the two counters that are only reported are left out,  *)
(* and so is disconnect(), which the worker never calls.                   *)
(***************************************************************************)
EXTENDS Naturals, FiniteSets

CONSTANTS Socket,      \* slots for sockets that have not closed yet
          None,        \* null
          MaxFails     \* MAX_CONSECUTIVE_RECONNECT_ATTEMPTS, 8 in the code

ASSUME DepthAssumption == None \notin Socket /\ MaxFails \in Nat \ {0}

VARIABLES
  sock,       \* [Socket -> "none" | "dialing" | "open"]
  sent,       \* [Socket -> Nat]: subscriptions sent on it
  current,    \* this.socket
  feedStatus,
  isOpen,
  fails,      \* consecutiveFailedAttempts
  timers,     \* reconnect timers that have not fired
  subscribed  \* subscribedToken is set

feed == <<sock, sent, current, feedStatus, isOpen, fails, timers, subscribed>>

FeedInit ==
  /\ sock = [s \in Socket |-> "none"] /\ sent = [s \in Socket |-> 0]
  /\ current = None /\ feedStatus = "STARTING" /\ isOpen = FALSE
  /\ fails = 0 /\ timers = 0 /\ subscribed = FALSE

\* The process is gone, and its sockets and timers with it.
FeedReset ==
  /\ sock' = [s \in Socket |-> "none"] /\ sent' = [s \in Socket |-> 0]
  /\ current' = None /\ feedStatus' = "STARTING" /\ isOpen' = FALSE
  /\ fails' = 0 /\ timers' = 0 /\ subscribed' = FALSE

openSocket ==
  LET free == {s \in Socket : sock[s] = "none"}
      slot == CHOOSE s \in free : TRUE
  IN  /\ free # {}
      /\ sock' = [sock EXCEPT ![slot] = "dialing"] /\ sent' = [sent EXCEPT ![slot] = 0]
      /\ current' = slot /\ feedStatus' = "CONNECTING"

\* connect() and subscribe(), one after the other: no event comes between them.
Connect ==
  /\ openSocket /\ fails' = 0 /\ subscribed' = TRUE
  /\ UNCHANGED <<isOpen, timers>>

\* Mutant: the subscription is not sent again on a socket that was dialled again.
SubscribeFirst == IF fails = 0 THEN [sent EXCEPT ![current] = @ + 1] ELSE sent

\* The subscription goes to this.socket, whichever socket has opened.
sendSubscription == IF subscribed THEN [sent EXCEPT ![current] = @ + 1] ELSE sent

SocketOpens(s) ==
  /\ sock[s] = "dialing" /\ sock' = [sock EXCEPT ![s] = "open"]
  /\ isOpen' = TRUE /\ feedStatus' = "WARMING_UP" /\ sent' = sendSubscription
  /\ UNCHANGED <<current, fails, timers, subscribed>>

Warmed == IF feedStatus = "WARMING_UP" THEN "HEALTHY" ELSE feedStatus

\* A text frame, or one without a depth packet.
ControlFrame(s) ==
  /\ sock[s] = "open" /\ feedStatus' = Warmed
  /\ UNCHANGED <<sock, sent, current, isOpen, fails, timers, subscribed>>

DepthFrame(s) ==
  /\ sock[s] = "open" /\ feedStatus' = Warmed /\ fails' = 0
  /\ UNCHANGED <<sock, sent, current, isOpen, timers, subscribed>>

\* A close follows.
SocketError(s) ==
  /\ sock[s] \in {"dialing", "open"} /\ feedStatus' = "FAILED"
  /\ UNCHANGED <<sock, sent, current, isOpen, fails, timers, subscribed>>

\* Mutant: the close handler as it was before the first deployment.
CloseForGood(s) ==
  /\ sock[s] \in {"dialing", "open"} /\ sock' = [sock EXCEPT ![s] = "none"]
  /\ isOpen' = FALSE /\ fails' = fails + 1 /\ feedStatus' = "RECONNECTING"
  /\ UNCHANGED <<sent, current, timers, subscribed>>

SocketCloses(s) ==
  /\ sock[s] \in {"dialing", "open"} /\ sock' = [sock EXCEPT ![s] = "none"]
  /\ isOpen' = FALSE /\ fails' = fails + 1
  /\ \/ fails + 1 >= MaxFails /\ feedStatus' = "FAILED" /\ UNCHANGED timers
     \/ fails + 1 < MaxFails /\ feedStatus' = "RECONNECTING" /\ timers' = timers + 1
  /\ UNCHANGED <<sent, current, subscribed>>

\* The timer calls openSocket without a look at the state.
Redial ==
  /\ timers > 0 /\ timers' = timers - 1 /\ openSocket
  /\ UNCHANGED <<isOpen, fails, subscribed>>

\* One connection at a time: the sockets that have not closed and the timers that will
\* dial another are never more than one together, every open socket is the one the
\* source sends on, and it has been subscribed exactly once (openSocket and its event
\* handlers, kiteDepthSource.ts:119-176).
OneSocket ==
  /\ Cardinality({s \in Socket : sock[s] # "none"}) + timers <= 1
  /\ \A s \in Socket : sock[s] = "open" => s = current /\ sent[s] = 1
=============================================================================
