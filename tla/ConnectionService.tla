--------------------------- MODULE ConnectionService ---------------------------
(***************************************************************************)
(* What the server promises each client, whatever loops, queues, timers    *)
(* and epoll instances stand behind it.  A connection is accepted or       *)
(* refused at most once.  An accepted one is closed once and for a reason: *)
(* the service ended it after a request, the client hung up, it was idle   *)
(* for the whole keep-alive timeout, or the server was told to quit - and  *)
(* requestQuit is no such reason (README.md: "Support gracefully closing   *)
(* of connections").                                                       *)
(***************************************************************************)
EXTENDS Integers

CONSTANTS Conns, Timeout

VARIABLES
  running,   \* quit was not called
  status,    \* none, backlog, open, closed, refused
  pending,   \* a request waits
  peerOpen,  \* the client has not hung up
  idle       \* time since the connection was accepted or last served

vars == <<running, status, pending, peerOpen, idle>>

Init ==
  /\ running = TRUE
  /\ status = [c \in Conns |-> "none"]
  /\ pending = [c \in Conns |-> FALSE]
  /\ peerOpen = [c \in Conns |-> TRUE]
  /\ idle = [c \in Conns |-> 0]

Connect(c) ==
  /\ status[c] = "none"
  /\ status' = [status EXCEPT ![c] = "backlog"]
  /\ UNCHANGED <<running, pending, peerOpen, idle>>

Request(c) ==
  /\ status[c] \in {"backlog", "open"}
  /\ peerOpen[c]
  /\ pending' = [pending EXCEPT ![c] = TRUE]
  /\ UNCHANGED <<running, status, peerOpen, idle>>

HangUp(c) ==
  /\ status[c] \in {"backlog", "open"}
  /\ peerOpen' = [peerOpen EXCEPT ![c] = FALSE]
  /\ UNCHANGED <<running, status, pending, idle>>

Accept(c) ==
  /\ status[c] = "backlog"
  /\ status' = [status EXCEPT ![c] = "open"]
  /\ UNCHANGED <<running, pending, peerOpen, idle>>

Refuse(C) ==
  /\ \A c \in C : status[c] = "backlog"
  /\ status' = [c \in Conns |-> IF c \in C THEN "refused" ELSE status[c]]
  /\ pending' = [c \in Conns |-> pending[c] /\ c \notin C]
  /\ UNCHANGED <<running, peerOpen, idle>>

Serve(c) ==
  /\ status[c] = "open"
  /\ pending[c]
  /\ pending' = [pending EXCEPT ![c] = FALSE]
  /\ idle' = [idle EXCEPT ![c] = 0]
  /\ UNCHANGED <<running, status, peerOpen>>

MayClose(c) ==
  /\ status[c] = "open"
  /\ pending[c] \/ ~peerOpen[c] \/ idle[c] = Timeout \/ ~running

\* Several at once only when the server quits.
Close(C) ==
  /\ \A c \in C : MayClose(c)
  /\ status' = [c \in Conns |-> IF c \in C THEN "closed" ELSE status[c]]
  /\ pending' = [c \in Conns |-> pending[c] /\ c \notin C]
  /\ idle' = [c \in Conns |-> IF c \in C THEN 0 ELSE idle[c]]
  /\ UNCHANGED <<running, peerOpen>>

Tick ==
  /\ idle' = [c \in Conns |-> IF status[c] = "open" /\ idle[c] < Timeout
                              THEN idle[c] + 1 ELSE idle[c]]
  /\ UNCHANGED <<running, status, pending, peerOpen>>

\* The server starts (nothing is open yet) or is told to quit.
Start == /\ \A c \in Conns : status[c] \in {"none", "backlog"}
         /\ running' = TRUE
         /\ UNCHANGED <<status, pending, peerOpen, idle>>
Quit  == running' = FALSE /\ UNCHANGED <<status, pending, peerOpen, idle>>

Next ==
  \/ \E c \in Conns : Connect(c) \/ Request(c) \/ HangUp(c) \/ Accept(c) \/ Serve(c)
  \/ \E C \in SUBSET Conns : Refuse(C) \/ Close(C)
  \/ Tick
  \/ Start
  \/ Quit

Spec == Init /\ [][Next]_vars
=============================================================================
