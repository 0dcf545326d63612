---------------------------- MODULE ServerLifecycle ----------------------------
(***************************************************************************)
(* The life of a server's connections (server/server.go, server/conn.go):  *)
(* Serve accepting on a listener, one handleConn goroutine per connection, *)
(* Shutdown, and the two goroutines of an IDLE (server/commands/idle.go).  *)
(*                                                                         *)
(* srv.mu is held over several steps only by Shutdown, while it goes over  *)
(* the connections: every other critical section is one step that needs    *)
(* srv.mu free.  c.mu protects Conn.Close, which is one step.  Commands    *)
(* other than IDLE and LOGOUT matter here only in that serve goes on.      *)
(***************************************************************************)
EXTENDS Integers, FiniteSets

CONSTANTS
    Conns,              \* connections that clients may open
    MaxConnections      \* options.MaxConnections; 0 means no limit

ASSUME LifecycleAssumption ==
    /\ IsFiniteSet(Conns)
    /\ MaxConnections \in Nat

VARIABLES
    isShutdown,     \* srv.isShutdown; also that srv.shutdown is closed
    listening,      \* the listener accepts connections
    serve,          \* where Serve is
    accepted,       \* the connections Serve has accepted and not yet passed on
    stopper,        \* where Shutdown is
    todo,           \* connections Shutdown has still to close
    conns,          \* srv.conns
    connCount,      \* srv.connCount
    pc,             \* where every connection's goroutine is
    closed,         \* c.closed
    hasSession,     \* c.session is set
    netOpen,        \* the server's end of the connection is open
    peerOpen,       \* the client's end is open
    idleRd,         \* IDLE: what its line-reading goroutine has seen
    orphan,         \* ghost: the connection was closed before c.session was set
    sessionCloses   \* ghost: calls of session.Close

serveVars == <<isShutdown, listening, serve, accepted, stopper, todo>>
poolVars == <<conns, connCount>>
connVars == <<closed, hasSession, netOpen, orphan, sessionCloses>>
vars == <<serveVars, poolVars, connVars, pc, peerOpen, idleRd>>

Init ==
    /\ isShutdown = FALSE
    /\ listening = TRUE
    /\ serve = "start"
    /\ accepted = {}
    /\ stopper = "no"
    /\ todo = {}
    /\ conns = {}
    /\ connCount = 0
    /\ pc = [c \in Conns |-> "none"]
    /\ closed = [c \in Conns |-> FALSE]
    /\ hasSession = [c \in Conns |-> FALSE]
    /\ netOpen = [c \in Conns |-> FALSE]
    /\ peerOpen = [c \in Conns |-> FALSE]
    /\ idleRd = [c \in Conns |-> "none"]
    /\ orphan = [c \in Conns |-> FALSE]
    /\ sessionCloses = [c \in Conns |-> 0]

-----------------------------------------------------------------------------
At(c, where) == pc[c] = where
Go(c, where) == pc' = [pc EXCEPT ![c] = where]

\* Another goroutine can take srv.mu.
MuFree == stopper # "closing"

CloseConn_Again(c) ==
    /\ closed' = [closed EXCEPT ![c] = TRUE]
    /\ sessionCloses' = IF hasSession[c]
                        THEN [sessionCloses EXCEPT ![c] = @ + 1]
                        ELSE sessionCloses
    /\ netOpen' = [netOpen EXCEPT ![c] = FALSE]
    /\ UNCHANGED <<hasSession, orphan>>

\* Conn.Close: only the first call does anything.
CloseConn(c) ==
    \/ closed[c] /\ UNCHANGED connVars
    \/ /\ ~closed[c]
       /\ closed' = [closed EXCEPT ![c] = TRUE]
       /\ sessionCloses' = IF hasSession[c]
                           THEN [sessionCloses EXCEPT ![c] = @ + 1]
                           ELSE sessionCloses
       /\ netOpen' = [netOpen EXCEPT ![c] = FALSE]
       /\ UNCHANGED <<hasSession, orphan>>

-----------------------------------------------------------------------------
(* Serve *)

\* Serve registers the listener, unless the server is shut down.
ServeStart ==
    /\ serve = "start" /\ MuFree
    /\ serve' = IF isShutdown THEN "returned" ELSE "accept"
    /\ UNCHANGED <<isShutdown, listening, accepted, stopper, todo, poolVars,
                   connVars, pc, peerOpen, idleRd>>

Accept(c) ==
    /\ serve = "accept" /\ listening
    /\ At(c, "backlog")
    /\ Go(c, "accepted")
    /\ accepted' = {c}
    /\ serve' = "check"
    /\ netOpen' = [netOpen EXCEPT ![c] = TRUE]
    /\ UNCHANGED <<isShutdown, listening, stopper, todo, poolVars, closed,
                   hasSession, orphan, sessionCloses, peerOpen, idleRd>>

\* Accept fails: Serve ends if the server is shut down, and tries again if not.
ServeEnd_Retries ==
    /\ serve = "accept" /\ ~listening
    /\ UNCHANGED vars

ServeEnd ==
    /\ serve = "accept" /\ ~listening /\ isShutdown
    /\ MuFree                           \* the deferred removal of the listener
    /\ serve' = "returned"
    /\ UNCHANGED <<isShutdown, listening, accepted, stopper, todo, poolVars,
                   connVars, pc, peerOpen, idleRd>>

\* The limit is compared with connCount, which handleConn has yet to raise.
CheckLimit(c) ==
    LET full == MaxConnections > 0 /\ connCount >= MaxConnections
    IN /\ serve = "check" /\ c \in accepted
       /\ accepted' = {}
       /\ serve' = "accept"
       /\ Go(c, IF full THEN "rejected" ELSE "spawned")
       /\ netOpen' = IF full THEN [netOpen EXCEPT ![c] = FALSE] ELSE netOpen
       /\ UNCHANGED <<isShutdown, listening, stopper, todo, poolVars, closed,
                      hasSession, orphan, sessionCloses, peerOpen, idleRd>>

-----------------------------------------------------------------------------
(* handleConn *)

Register(c) ==
    /\ At(c, "spawned") /\ MuFree
    /\ conns' = conns \cup {c}
    /\ Go(c, "registered")
    /\ UNCHANGED <<serveVars, connCount, connVars, peerOpen, idleRd>>

Count(c) ==
    /\ At(c, "registered")
    /\ connCount' = connCount + 1
    /\ Go(c, "session")
    /\ UNCHANGED <<serveVars, conns, connVars, peerOpen, idleRd>>

\* options.NewSession is set.  It succeeds and c.session is set, without c.mu;
\* or it fails, a BYE is written and the deferred clean-up follows.
NewSession(c) ==
    /\ At(c, "session")
    /\ \/ /\ orphan' = [orphan EXCEPT ![c] = closed[c]]
          /\ hasSession' = [hasSession EXCEPT ![c] = TRUE]
          /\ Go(c, "serve")
       \/ Go(c, "remove") /\ UNCHANGED <<orphan, hasSession>>
    /\ UNCHANGED <<serveVars, poolVars, closed, netOpen, sessionCloses,
                   peerOpen, idleRd>>

ServeConnEnds_IgnoresErrors(c) ==
    /\ At(c, "serve")
    /\ netOpen[c] /\ peerOpen[c]
    /\ CloseConn(c)
    /\ Go(c, "remove")
    /\ UNCHANGED <<serveVars, poolVars, peerOpen, idleRd>>

\* readAndHandle fails, for want of a connection or with a handler's BYE, or
\* LOGOUT has been handled: serve's deferred Close.
ServeConnEnds(c) ==
    /\ At(c, "serve")
    /\ CloseConn(c)
    /\ Go(c, "remove")
    /\ UNCHANGED <<serveVars, poolVars, peerOpen, idleRd>>

Remove(c) ==
    /\ At(c, "remove") /\ MuFree
    /\ conns' = conns \ {c}
    /\ Go(c, "uncount")
    /\ UNCHANGED <<serveVars, connCount, connVars, peerOpen, idleRd>>

Uncount_Skipped(c) ==
    /\ At(c, "uncount")
    /\ CloseConn(c)
    /\ Go(c, "ended")
    /\ UNCHANGED <<serveVars, poolVars, peerOpen, idleRd>>

\* connCount.Add(-1) and the last Close.
Uncount(c) ==
    /\ At(c, "uncount")
    /\ connCount' = connCount - 1
    /\ CloseConn(c)
    /\ Go(c, "ended")
    /\ UNCHANGED <<serveVars, conns, peerOpen, idleRd>>

-----------------------------------------------------------------------------
(* IDLE: the handler waits in session.Idle until stop is closed, and then for *)
(* the goroutine that reads lines.                                            *)

IdleStart(c) ==
    /\ At(c, "serve") /\ netOpen[c] /\ peerOpen[c]
    /\ Go(c, "idle")
    /\ idleRd' = [idleRd EXCEPT ![c] = "reading"]
    /\ UNCHANGED <<serveVars, poolVars, connVars, peerOpen>>

\* The client's DONE closes stop; a read error does not.
IdleRead(c) ==
    /\ idleRd[c] = "reading"
    /\ \/ netOpen[c] /\ peerOpen[c] /\ idleRd' = [idleRd EXCEPT ![c] = "DONE"]
       \/ /\ ~netOpen[c] \/ ~peerOpen[c]
          /\ idleRd' = [idleRd EXCEPT ![c] = "error"]
    /\ UNCHANGED <<serveVars, poolVars, connVars, pc, peerOpen>>

IdleReturn(c) ==
    /\ At(c, "idle") /\ idleRd[c] = "DONE"
    /\ Go(c, "serve")
    /\ idleRd' = [idleRd EXCEPT ![c] = "none"]
    /\ UNCHANGED <<serveVars, poolVars, connVars, peerOpen>>

-----------------------------------------------------------------------------
(* Shutdown and the clients *)

\* First critical section: the flag, the channel and the listeners.
ShutdownListeners ==
    /\ stopper = "no"
    /\ isShutdown' = TRUE
    /\ listening' = IF serve = "start" THEN listening ELSE FALSE
    /\ stopper' = "between"
    /\ UNCHANGED <<serve, accepted, todo, poolVars, connVars, pc, peerOpen,
                   idleRd>>

\* Second one: every connection gets a BYE and is closed.
ShutdownConns ==
    /\ stopper = "between"
    /\ stopper' = "closing"
    /\ todo' = conns
    /\ UNCHANGED <<isShutdown, listening, serve, accepted, poolVars, connVars,
                   pc, peerOpen, idleRd>>

ShutdownClose(c) ==
    /\ stopper = "closing" /\ c \in todo
    /\ CloseConn(c)
    /\ todo' = todo \ {c}
    /\ UNCHANGED <<isShutdown, listening, serve, accepted, stopper, poolVars,
                   pc, peerOpen, idleRd>>

ShutdownReturn ==
    /\ stopper = "closing" /\ todo = {}
    /\ stopper' = "returned"
    /\ UNCHANGED <<isShutdown, listening, serve, accepted, todo, poolVars,
                   connVars, pc, peerOpen, idleRd>>

Connect(c) ==
    /\ At(c, "none") /\ listening
    /\ Go(c, "backlog")
    /\ peerOpen' = [peerOpen EXCEPT ![c] = TRUE]
    /\ UNCHANGED <<serveVars, poolVars, connVars, idleRd>>

Disconnect(c) ==
    /\ peerOpen[c]
    /\ peerOpen' = [peerOpen EXCEPT ![c] = FALSE]
    /\ UNCHANGED <<serveVars, poolVars, connVars, pc, idleRd>>

-----------------------------------------------------------------------------
\* What the goroutine of a connection does without waiting for its client.
HandleConn(c) ==
    Register(c) \/ Count(c) \/ NewSession(c) \/ Remove(c) \/ Uncount(c)
    \/ IdleReturn(c)

Shutdown == ShutdownListeners \/ ShutdownConns \/ ShutdownReturn
            \/ \E c \in Conns : ShutdownClose(c)

Next ==
    \/ ServeStart \/ ServeEnd \/ Shutdown
    \/ \E c \in Conns :
          \/ Accept(c) \/ CheckLimit(c)
          \/ HandleConn(c) \/ ServeConnEnds(c) \/ IdleStart(c) \/ IdleRead(c)
          \/ Connect(c) \/ Disconnect(c)

Spec == Init /\ [][Next]_vars

\* Goroutines run on when they can.  A read on a connection that is gone at
\* either end returns; nothing else is owed by a client.
Gone(c) == ~netOpen[c] \/ ~peerOpen[c]

Fairness ==
    /\ WF_vars(ServeStart) /\ WF_vars(ServeEnd)
    /\ WF_vars(\E c \in Conns : CheckLimit(c))
    /\ WF_vars(ShutdownConns \/ ShutdownReturn \/ \E c \in Conns : ShutdownClose(c))
    /\ \A c \in Conns : WF_vars(HandleConn(c)) /\ WF_vars(Gone(c) /\ ServeConnEnds(c))
                        /\ WF_vars(Gone(c) /\ IdleRead(c))

FairSpec == Spec /\ Fairness

-----------------------------------------------------------------------------
\* Every variable has its type.
TypeOK ==
    /\ isShutdown \in BOOLEAN /\ listening \in BOOLEAN
    /\ serve \in {"start", "accept", "check", "returned"}
    /\ accepted \subseteq Conns /\ todo \subseteq Conns /\ conns \subseteq Conns
    /\ stopper \in {"no", "between", "closing", "returned"}
    /\ connCount \in Nat
    /\ pc \in [Conns -> {"none", "backlog", "accepted", "rejected", "spawned",
                         "registered", "session", "serve", "idle", "remove",
                         "uncount", "ended"}]
    /\ closed \in [Conns -> BOOLEAN] /\ hasSession \in [Conns -> BOOLEAN]
    /\ netOpen \in [Conns -> BOOLEAN] /\ peerOpen \in [Conns -> BOOLEAN]
    /\ idleRd \in [Conns -> {"none", "reading", "DONE", "error"}]
    /\ orphan \in [Conns -> BOOLEAN] /\ sessionCloses \in [Conns -> Nat]

\* A session is closed once at most, and a closed connection has no open socket.
ClosedOnce ==
    \A c \in Conns : sessionCloses[c] <= 1 /\ (closed[c] => ~netOpen[c])

\* Connections between their Add(1) and their Add(-1).
Counted == {c \in Conns : pc[c] \in {"session", "serve", "idle", "remove", "uncount"}}

\* connCount, which MaxConnections is compared with, is neither leaked nor
\* counted down twice: it is the number of connections between their Add(1)
\* and their Add(-1), whichever way they end.
CountIsExact == connCount = Cardinality(Counted)

\* server/session.go: "Close is called when the connection is closed."  Conn.Close
\* is called from serve, from handleConn and from Shutdown, but closes a session
\* once; and when a connection's goroutine has ended, its session has been closed,
\* unless Shutdown closed the connection before handleConn set c.session.
SessionsAreClosed ==
    /\ ClosedOnce
    /\ \A c \in Conns :
          At(c, "ended") /\ hasSession[c] => sessionCloses[c] = 1 \/ orphan[c]

\* A connection whose client is gone ends, gives back its place in connCount
\* and leaves srv.conns.  (Not so if the client was in IDLE: the goroutine that
\* reads its lines ends without closing stop, and the handler waits for ever.)
LeavesWithClient ==
    \A c \in Conns : (At(c, "serve") /\ ~peerOpen[c]) ~> At(c, "ended")

\* Shutdown, which holds srv.mu while it closes connections, and Serve return;
\* so does the goroutine of every connection Shutdown found, unless it is in
\* IDLE.
ShutdownDrains ==
    /\ (stopper = "closing") ~> (stopper = "returned" /\ serve = "returned")
    /\ \A c \in Conns : (c \in todo) ~> (At(c, "ended") \/ At(c, "idle"))
=============================================================================
