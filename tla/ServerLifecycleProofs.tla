------------------------- MODULE ServerLifecycleProofs -------------------------
(***************************************************************************)
(* Proofs about ServerLifecycle, for any finite set of connections: its    *)
(* types, that a session is closed once at most, and that connCount counts *)
(* exactly the connections that have been added and not yet taken off.     *)
(***************************************************************************)
EXTENDS ServerLifecycle, FiniteSetTheorems, TLAPS

\* The types but for connCount's, which follows from CountIsExact.
Types ==
    /\ isShutdown \in BOOLEAN /\ listening \in BOOLEAN
    /\ serve \in {"start", "accept", "check", "returned"}
    /\ accepted \subseteq Conns /\ todo \subseteq Conns /\ conns \subseteq Conns
    /\ stopper \in {"no", "between", "closing", "returned"}
    /\ pc \in [Conns -> {"none", "backlog", "accepted", "rejected", "spawned",
                         "registered", "session", "serve", "idle", "remove",
                         "uncount", "ended"}]
    /\ closed \in [Conns -> BOOLEAN] /\ hasSession \in [Conns -> BOOLEAN]
    /\ netOpen \in [Conns -> BOOLEAN] /\ peerOpen \in [Conns -> BOOLEAN]
    /\ idleRd \in [Conns -> {"none", "reading", "DONE", "error"}]
    /\ orphan \in [Conns -> BOOLEAN] /\ sessionCloses \in [Conns -> Nat]

\* Connections handleConn has registered: nobody closes one before that.
Registered(c) ==
    pc[c] \in {"registered", "session", "serve", "idle", "remove", "uncount", "ended"}

\* What makes ClosedOnce inductive: a session is closed only together with its
\* connection, and only a registered connection is closed.
CloseInv ==
    /\ ClosedOnce
    /\ \A c \in Conns : /\ ~closed[c] => sessionCloses[c] = 0
                        /\ closed[c] => Registered(c)
                        /\ c \in conns \cup todo => Registered(c)

IInv == Types /\ CloseInv /\ CountIsExact

USE LifecycleAssumption

LEMMA InitIInv == Init => IInv
<1> SUFFICES ASSUME Init PROVE IInv
  OBVIOUS
<1>0. Types
  BY Zenon DEF Init, Types
<1>1. CloseInv
  BY DEF Init, CloseInv, ClosedOnce, Registered
<1>2. Counted = {}
  BY DEF Init, Counted
<1>3. CountIsExact
  BY <1>2, FS_EmptySet DEF Init, CountIsExact
<1>. QED
  BY <1>0, <1>1, <1>3 DEF IInv

\* A step that does not move a connection over either border, or touch
\* connCount, keeps the count exact.
LEMMA SameCount ==
    ASSUME CountIsExact, connCount' = connCount,
           \A c \in Conns : c \in Counted' <=> c \in Counted
    PROVE  CountIsExact'
<1>1. Counted' = Counted
  BY DEF Counted
<1>. QED
  BY <1>1 DEF CountIsExact

LEMMA CountFinite == IsFiniteSet(Counted)
  BY FS_Subset DEF Counted

\* Conn.Close keeps types and CloseInv, whoever calls it.
LEMMA CloseConnStep ==
    ASSUME Types, CloseInv, NEW c \in Conns, CloseConn(c), Registered(c),
           UNCHANGED <<conns>>, todo' \subseteq todo,
           \A d \in Conns : Registered(d) => Registered(d)'
    PROVE  /\ closed' \in [Conns -> BOOLEAN] /\ hasSession' \in [Conns -> BOOLEAN]
           /\ netOpen' \in [Conns -> BOOLEAN] /\ orphan' \in [Conns -> BOOLEAN]
           /\ sessionCloses' \in [Conns -> Nat]
           /\ CloseInv'
<1>1. CASE closed[c] /\ UNCHANGED connVars
  <2>1. UNCHANGED <<closed, hasSession, netOpen, orphan, sessionCloses>>
    BY <1>1 DEF connVars
  <2>2. CloseInv'
    BY <2>1 DEF CloseInv, ClosedOnce
  <2>. QED
    BY <2>1, <2>2 DEF Types
<1>2. CASE ~closed[c]
  <2>1. /\ closed' = [closed EXCEPT ![c] = TRUE]
        /\ netOpen' = [netOpen EXCEPT ![c] = FALSE]
        /\ UNCHANGED <<hasSession, orphan>>
        /\ sessionCloses' = [sessionCloses EXCEPT ![c] = @ + 1]
           \/ sessionCloses' = sessionCloses
    BY <1>2 DEF CloseConn
  <2>2. closed' \in [Conns -> BOOLEAN] /\ netOpen' \in [Conns -> BOOLEAN]
    BY <2>1 DEF Types
  <2>3. sessionCloses' \in [Conns -> Nat]
    BY <2>1 DEF Types
  <2>4. CloseInv'
    BY <1>2, <2>1 DEF CloseInv, ClosedOnce, Types
  <2>. QED
    BY <2>1, <2>2, <2>3, <2>4 DEF Types
<1>. QED
  BY <1>1, <1>2 DEF CloseConn

-----------------------------------------------------------------------------
\* Serve, the borders of Shutdown and the clients.
LEMMA ServeSteps ==
    ASSUME IInv, ServeStart \/ ServeEnd \/ ShutdownListeners \/ ShutdownConns
                 \/ ShutdownReturn \/ \E c \in Conns : Disconnect(c) \/ IdleRead(c)
    PROVE  IInv'
<1> USE DEF IInv, serveVars, poolVars, connVars
<1>0. UNCHANGED <<conns, connCount, pc, closed, hasSession, netOpen, orphan,
                  sessionCloses>> /\ (todo' = todo \/ todo' = conns)
  BY Zenon DEF ServeStart, ServeEnd, ShutdownListeners, ShutdownConns, ShutdownReturn,
         Disconnect, IdleRead
<1>1. CASE ServeStart \/ ServeEnd \/ ShutdownListeners \/ ShutdownConns
           \/ ShutdownReturn
  <2>1. /\ isShutdown' \in BOOLEAN /\ listening' \in BOOLEAN
        /\ serve' \in {"start", "accept", "check", "returned"}
        /\ stopper' \in {"no", "between", "closing", "returned"}
        /\ UNCHANGED <<accepted, peerOpen, idleRd>>
    BY Zenon, <1>1 DEF ServeStart, ServeEnd, ShutdownListeners, ShutdownConns,
                ShutdownReturn, Types
  <2>. QED
    BY <1>0, <2>1 DEF Types, CloseInv, ClosedOnce, Registered, CountIsExact, Counted
<1>2. CASE \E c \in Conns : Disconnect(c) \/ IdleRead(c)
  <2>1. /\ UNCHANGED <<isShutdown, listening, serve, accepted, stopper, todo>>
        /\ peerOpen' \in [Conns -> BOOLEAN]
        /\ idleRd' \in [Conns -> {"none", "reading", "DONE", "error"}]
    BY Zenon, <1>2 DEF Disconnect, IdleRead, Types
  <2>. QED
    BY <1>0, <2>1 DEF Types, CloseInv, ClosedOnce, Registered, CountIsExact, Counted
<1>. QED
  BY <1>1, <1>2

\* Steps before a connection is registered.
LEMMA AcceptSteps ==
    ASSUME IInv, NEW c \in Conns, Connect(c) \/ Accept(c) \/ CheckLimit(c),
           c \in accepted => At(c, "accepted")
    PROVE  IInv'
<1> USE DEF IInv, serveVars, poolVars, connVars
<1>1. UNCHANGED <<conns, connCount, todo, closed, hasSession, orphan, sessionCloses,
                  isShutdown, listening, stopper, idleRd>>
  BY DEF Connect, Accept, CheckLimit
<1>2. ~Registered(c) /\ ~Registered(c)' /\ \A d \in Conns \ {c} : pc'[d] = pc[d]
  BY DEF Connect, Accept, CheckLimit, At, Go, Registered, Types
<1>3. Types'
  <2>1. netOpen' \in [Conns -> BOOLEAN] /\ peerOpen' \in [Conns -> BOOLEAN]
    BY Zenon DEF Connect, Accept, CheckLimit, Types
  <2>2. accepted' \subseteq Conns /\ serve' \in {"start", "accept", "check", "returned"}
    BY DEF Connect, Accept, CheckLimit, Types
  <2>3. pc' \in [Conns -> {"none", "backlog", "accepted", "rejected", "spawned",
                         "registered", "session", "serve", "idle", "remove",
                         "uncount", "ended"}]
    BY DEF Connect, Accept, CheckLimit, Go, Types
  <2>. QED
    BY <1>1, <2>1, <2>2, <2>3 DEF Types
<1>4. \A d \in Conns \ {c} : netOpen'[d] = netOpen[d]
  BY DEF Connect, Accept, CheckLimit, Types
<1>5. CloseInv'
  BY <1>1, <1>2, <1>4 DEF CloseInv, ClosedOnce, Registered
<1>6. CountIsExact'
  BY <1>1, <1>2, SameCount DEF Counted, Registered
<1>. QED
  BY <1>3, <1>5, <1>6

\* Steps of handleConn that neither count nor close.
LEMMA HandleSteps ==
    ASSUME IInv, NEW c \in Conns,
           Register(c) \/ NewSession(c) \/ Remove(c) \/ IdleStart(c) \/ IdleReturn(c)
    PROVE  IInv'
<1> USE DEF IInv, serveVars, poolVars, connVars
<1>1. UNCHANGED <<connCount, todo, closed, netOpen, sessionCloses, isShutdown,
                  listening, serve, accepted, stopper, peerOpen>>
  BY DEF Register, NewSession, Remove, IdleStart, IdleReturn
<1>2. Registered(c)' /\ \A d \in Conns \ {c} : pc'[d] = pc[d]
  BY DEF Register, NewSession, Remove, IdleStart, IdleReturn, At, Go, Registered, Types
<1>3. Types'
  <2>1. orphan' \in [Conns -> BOOLEAN] /\ hasSession' \in [Conns -> BOOLEAN]
    BY Zenon DEF Register, NewSession, Remove, IdleStart, IdleReturn, Types
  <2>2. idleRd' \in [Conns -> {"none", "reading", "DONE", "error"}]
    BY DEF Register, NewSession, Remove, IdleStart, IdleReturn, Types
  <2>3. pc' \in [Conns -> {"none", "backlog", "accepted", "rejected", "spawned",
                         "registered", "session", "serve", "idle", "remove",
                         "uncount", "ended"}]
    BY DEF Register, NewSession, Remove, IdleStart, IdleReturn, Go, Types
  <2>4. conns' \subseteq Conns
    BY DEF Register, NewSession, Remove, IdleStart, IdleReturn, Types
  <2>. QED
    BY <1>1, <2>1, <2>2, <2>3, <2>4 DEF Types
<1>4. conns' \subseteq conns \cup {c}
  BY DEF Register, NewSession, Remove, IdleStart, IdleReturn
<1>5. CloseInv'
  BY <1>1, <1>2, <1>4 DEF CloseInv, ClosedOnce, Registered
<1>6. c \in Counted' <=> c \in Counted
  BY <1>2 DEF Register, NewSession, Remove, IdleStart, IdleReturn, At, Go, Counted,
              Types
<1>7. CountIsExact'
  BY <1>1, <1>2, <1>6, SameCount DEF Counted
<1>. QED
  BY <1>3, <1>5, <1>7

\* connCount.Add(1).
LEMMA CountStep ==
    ASSUME IInv, NEW c \in Conns, Count(c)
    PROVE  IInv'
<1> USE DEF IInv, serveVars, poolVars, connVars
<1>1. Types' /\ CloseInv'
  <2>1. pc' \in [Conns -> {"none", "backlog", "accepted", "rejected", "spawned",
                         "registered", "session", "serve", "idle", "remove",
                         "uncount", "ended"}]
    BY DEF Count, Go, Types
  <2>2. \A d \in Conns : Registered(d)' <=> Registered(d)
    BY DEF Count, At, Go, Registered, Types
  <2>3. UNCHANGED <<serveVars, conns, connVars, peerOpen, idleRd>>
    BY DEF Count
  <2>. QED
    BY <2>1, <2>2, <2>3 DEF Types, CloseInv, ClosedOnce
<1>2. c \notin Counted /\ Counted' = Counted \cup {c}
  BY DEF Count, At, Go, Counted, Types
<1>3. CountIsExact'
  BY Zenon, <1>2, CountFinite, FS_AddElement DEF CountIsExact, Count
<1>. QED
  BY <1>1, <1>3

\* connCount.Add(-1) and the last Close.
LEMMA UncountStep ==
    ASSUME IInv, NEW c \in Conns, Uncount(c)
    PROVE  IInv'
<1> USE DEF IInv, serveVars, poolVars
<1>1. \A d \in Conns : Registered(d)' <=> Registered(d)
  BY DEF Uncount, At, Go, Registered, Types
<1>2. Registered(c)
  BY DEF Uncount, At, Registered
<1>3. UNCHANGED <<serveVars, conns, peerOpen, idleRd>> /\ CloseConn(c)
  BY DEF Uncount
<1>4. pc' \in [Conns -> {"none", "backlog", "accepted", "rejected", "spawned",
                         "registered", "session", "serve", "idle", "remove",
                         "uncount", "ended"}]
  BY DEF Uncount, Go, Types
<1>5. Types' /\ CloseInv'
  BY <1>1, <1>2, <1>3, <1>4, CloseConnStep DEF Types
<1>6. c \in Counted /\ Counted' = Counted \ {c}
  BY DEF Uncount, At, Go, Counted, Types
<1>7. CountIsExact'
  BY Zenon, <1>6, CountFinite, FS_RemoveElement DEF CountIsExact, Uncount
<1>. QED
  BY <1>5, <1>7

\* The other two callers of Conn.Close: serve and Shutdown.
LEMMA CloseSteps ==
    ASSUME IInv, NEW c \in Conns, ServeConnEnds(c) \/ ShutdownClose(c)
    PROVE  IInv'
<1> USE DEF IInv, serveVars, poolVars
<1>1. \A d \in Conns : Registered(d) => Registered(d)'
  BY DEF ServeConnEnds, ShutdownClose, At, Go, Registered, Types
<1>2. Registered(c)
  BY DEF ServeConnEnds, ShutdownClose, At, Registered, CloseInv
<1>3. /\ UNCHANGED <<isShutdown, listening, serve, accepted, stopper, conns,
                     connCount, peerOpen, idleRd>>
      /\ CloseConn(c) /\ todo' \subseteq todo
  BY DEF ServeConnEnds, ShutdownClose
<1>4. pc' \in [Conns -> {"none", "backlog", "accepted", "rejected", "spawned",
                         "registered", "session", "serve", "idle", "remove",
                         "uncount", "ended"}]
  BY DEF ServeConnEnds, ShutdownClose, Go, Types
<1>5. Types' /\ CloseInv'
  BY <1>1, <1>2, <1>3, <1>4, CloseConnStep DEF Types
<1>6. \A d \in Conns : d \in Counted' <=> d \in Counted
  BY DEF ServeConnEnds, ShutdownClose, At, Go, Counted, Types
<1>. QED
  BY <1>3, <1>5, <1>6, SameCount

-----------------------------------------------------------------------------
\* What Serve has in hand has not been passed on yet.
InHand == \A c \in accepted : At(c, "accepted")

LEMMA InHandStep ==
    ASSUME Types, InHand, Next
    PROVE  InHand'
<1> USE DEF InHand, At, Types, serveVars, poolVars, connVars
<1>1. ASSUME NEW c \in Conns, Accept(c) PROVE InHand'
  BY <1>1 DEF Accept, Go
<1>2. ASSUME NEW c \in Conns, CheckLimit(c) PROVE InHand'
  BY <1>2 DEF CheckLimit, Go
<1>3. ASSUME NEW c \in Conns,
             Register(c) \/ Count(c) \/ NewSession(c) \/ Remove(c) \/ Uncount(c)
             \/ IdleReturn(c) \/ IdleStart(c) \/ ServeConnEnds(c) \/ Connect(c)
      PROVE  InHand'
  BY <1>3 DEF Register, Count, NewSession, Remove, Uncount, IdleReturn, IdleStart,
              ServeConnEnds, Connect, Go
<1>4. ASSUME NEW c \in Conns, IdleRead(c) \/ Disconnect(c) \/ ShutdownClose(c)
      PROVE  InHand'
  BY <1>4 DEF IdleRead, Disconnect, ShutdownClose
<1>5. ASSUME ServeStart \/ ServeEnd \/ ShutdownListeners \/ ShutdownConns
             \/ ShutdownReturn
      PROVE  InHand'
  BY Zenon, <1>5 DEF ServeStart, ServeEnd, ShutdownListeners, ShutdownConns, ShutdownReturn
<1>. QED
  BY <1>1, <1>2, <1>3, <1>4, <1>5 DEF Next, HandleConn, Shutdown

\* The strengthened invariant is inductive.
LEMMA Inductive == IInv /\ InHand /\ [Next]_vars => (IInv /\ InHand)'
<1> SUFFICES ASSUME IInv, InHand, [Next]_vars PROVE (IInv /\ InHand)'
  OBVIOUS
<1>1. CASE Next
  <2>1. InHand'
    BY <1>1, InHandStep DEF IInv
  <2>2. \A c \in Conns : c \in accepted => At(c, "accepted")
    BY DEF InHand
  <2>3. IInv'
    BY <1>1, <2>2, ServeSteps, AcceptSteps, HandleSteps, CountStep, UncountStep,
       CloseSteps DEF Next, HandleConn, Shutdown
  <2>. QED
    BY <2>1, <2>3
<1>2. CASE UNCHANGED vars
  BY <1>2 DEF vars, serveVars, poolVars, connVars, IInv, InHand, Types, CloseInv,
              ClosedOnce, Registered, CountIsExact, Counted, At
<1>. QED
  BY <1>1, <1>2

LEMMA AlwaysIInv == Spec => [](IInv /\ InHand)
<1>1. Init => IInv /\ InHand
  BY InitIInv DEF Init, InHand
<1>. QED
  BY <1>1, Inductive, PTL DEF Spec

\* Every variable keeps its type; connCount in particular never goes below 0.
THEOREM TypeCorrect == Spec => []TypeOK
<1>1. IInv => TypeOK
  <2> SUFFICES ASSUME IInv PROVE TypeOK
    OBVIOUS
  <2>1. connCount \in Nat
    BY CountFinite, FS_CardinalityType DEF IInv, CountIsExact
  <2>. QED
    BY <2>1 DEF IInv, Types, TypeOK
<1>. QED
  BY <1>1, AlwaysIInv, PTL

\* Whichever of serve, handleConn and Shutdown calls Conn.Close, and in which
\* order, a session is closed once at most.
THEOREM SessionClosedOnce == Spec => []ClosedOnce
<1>1. IInv => ClosedOnce
  BY DEF IInv, CloseInv
<1>. QED
  BY <1>1, AlwaysIInv, PTL

\* connCount is exact for any number of connections.
THEOREM CountExact == Spec => []CountIsExact
<1>1. IInv => CountIsExact
  BY DEF IInv
<1>. QED
  BY <1>1, AlwaysIInv, PTL

-----------------------------------------------------------------------------
(* Sessions are closed *)

\* What makes SessionsAreClosed inductive: a closed connection's session has
\* been closed or is an orphan, and c.session is set in one place only.
SessionInv ==
    \A c \in Conns :
        /\ At(c, "ended") => closed[c]
        /\ closed[c] /\ hasSession[c] => sessionCloses[c] = 1 \/ orphan[c]
        /\ hasSession[c] => pc[c] \in {"serve", "idle", "remove", "uncount", "ended"}

\* Conn.Close, by whoever calls it on connection c.
LEMMA CloseConnSessions ==
    ASSUME IInv, SessionInv, NEW c \in Conns, CloseConn(c)
    PROVE  /\ hasSession' = hasSession /\ closed'[c]
           /\ \A d \in Conns : pc[d] = "ended" => closed'[d]
           /\ \A d \in Conns : closed'[d] /\ hasSession[d] =>
                                    sessionCloses'[d] = 1 \/ orphan'[d]
<1>1. CASE closed[c] /\ UNCHANGED connVars
  BY <1>1 DEF connVars, SessionInv, At
<1>2. CASE /\ ~closed[c]
           /\ closed' = [closed EXCEPT ![c] = TRUE]
           /\ sessionCloses' = IF hasSession[c]
                               THEN [sessionCloses EXCEPT ![c] = @ + 1]
                               ELSE sessionCloses
           /\ UNCHANGED <<hasSession, orphan>>
  <2>1. sessionCloses[c] = 0
    BY <1>2 DEF IInv, CloseInv
  <2>. QED
    BY <1>2, <2>1 DEF IInv, Types, SessionInv, At
<1>. QED
  BY <1>1, <1>2 DEF CloseConn

LEMMA ClosingStep ==
    ASSUME IInv, SessionInv, NEW c \in Conns, CloseConn(c),
           pc'[c] = pc[c] \/ pc'[c] \in {"remove", "ended"},
           \A d \in Conns \ {c} : pc'[d] = pc[d]
    PROVE  SessionInv'
<1>1. ASSUME NEW d \in Conns PROVE pc'[d] = "ended" => closed'[d]
  <2>1. CASE d = c
    BY <2>1, CloseConnSessions
  <2>2. CASE d # c
    BY <2>2, CloseConnSessions
  <2>. QED
    BY <2>1, <2>2
<1>2. ASSUME NEW d \in Conns, hasSession[d]
      PROVE  pc'[d] \in {"serve", "idle", "remove", "uncount", "ended"}
  BY <1>2 DEF SessionInv
<1>3. /\ hasSession' = hasSession
      /\ \A d \in Conns : closed'[d] /\ hasSession[d] =>
                              sessionCloses'[d] = 1 \/ orphan'[d]
  BY CloseConnSessions
<1>. QED
  BY <1>1, <1>2, <1>3 DEF SessionInv, At

LEMMA SessionStep ==
    ASSUME IInv, InHand, SessionInv, Next
    PROVE  SessionInv'
<1> USE DEF IInv, Types, serveVars, poolVars, connVars, At, Go
<1>1. ASSUME ServeStart \/ ServeEnd \/ ShutdownListeners \/ ShutdownConns
             \/ ShutdownReturn \/ \E c \in Conns : Disconnect(c) \/ IdleRead(c)
      PROVE  SessionInv'
  <2>1. UNCHANGED <<pc, closed, hasSession, sessionCloses, orphan>>
    BY Zenon, <1>1 DEF ServeStart, ServeEnd, ShutdownListeners, ShutdownConns,
                ShutdownReturn, Disconnect, IdleRead
  <2>. QED
    BY <2>1 DEF SessionInv
<1>2. ASSUME NEW c \in Conns, Connect(c) \/ Accept(c) \/ CheckLimit(c)
             \/ Register(c) \/ Count(c)
      PROVE  SessionInv'
  <2>1. UNCHANGED <<closed, hasSession, sessionCloses, orphan>>
    BY <1>2 DEF Connect, Accept, CheckLimit, Register, Count
  <2>2. ~hasSession[c] /\ pc'[c] # "ended" /\ \A d \in Conns \ {c} : pc'[d] = pc[d]
    BY <1>2 DEF Connect, Accept, CheckLimit, Register, Count, InHand, SessionInv
  <2>. QED
    BY <2>1, <2>2 DEF SessionInv
<1>3. ASSUME NEW c \in Conns, NewSession(c)
      PROVE  SessionInv'
  <2>1. UNCHANGED <<closed, sessionCloses>>
    BY <1>3 DEF NewSession
  <2>2. \A d \in Conns \ {c} : /\ pc'[d] = pc[d] /\ hasSession'[d] = hasSession[d]
                               /\ orphan'[d] = orphan[d]
    BY <1>3 DEF NewSession
  <2>3. \/ pc'[c] = "serve" /\ orphan'[c] = closed[c]
        \/ pc'[c] = "remove" /\ UNCHANGED <<hasSession, orphan>>
    BY <1>3 DEF NewSession
  <2>. QED
    BY <2>1, <2>2, <2>3 DEF SessionInv
<1>4. ASSUME NEW c \in Conns, Remove(c) \/ IdleStart(c) \/ IdleReturn(c)
      PROVE  SessionInv'
  <2>1. UNCHANGED <<closed, hasSession, sessionCloses, orphan>>
    BY <1>4 DEF Remove, IdleStart, IdleReturn
  <2>2. /\ pc'[c] \in {"serve", "idle", "uncount"}
        /\ \A d \in Conns \ {c} : pc'[d] = pc[d]
    BY <1>4 DEF Remove, IdleStart, IdleReturn
  <2>. QED
    BY <2>1, <2>2 DEF SessionInv
<1>5. ASSUME NEW c \in Conns, ServeConnEnds(c) \/ ShutdownClose(c) \/ Uncount(c)
      PROVE  SessionInv'
  <2>1. CloseConn(c)
    BY <1>5 DEF ServeConnEnds, ShutdownClose, Uncount
  <2>2. /\ pc'[c] = pc[c] \/ pc'[c] \in {"remove", "ended"}
        /\ \A d \in Conns \ {c} : pc'[d] = pc[d]
    BY <1>5 DEF ServeConnEnds, ShutdownClose, Uncount
  <2>. QED
    BY <2>1, <2>2, ClosingStep
<1>. QED
  BY <1>1, <1>2, <1>3, <1>4, <1>5 DEF Next, HandleConn, Shutdown

\* Every session is closed once, by the time its connection's goroutine has ended,
\* but for one that was set after Shutdown had closed the connection.
THEOREM SessionsClosed == Spec => []SessionsAreClosed
<1>1. Init => SessionInv
  BY DEF Init, SessionInv, At
<1>2. IInv /\ InHand /\ SessionInv /\ [Next]_vars => SessionInv'
  <2> SUFFICES ASSUME IInv, InHand, SessionInv, [Next]_vars PROVE SessionInv'
    OBVIOUS
  <2>1. CASE Next
    BY <2>1, SessionStep
  <2>2. CASE UNCHANGED vars
    BY <2>2 DEF vars, connVars, SessionInv, At
  <2>. QED
    BY <2>1, <2>2
<1>3. ClosedOnce /\ SessionInv => SessionsAreClosed
  BY DEF SessionInv, SessionsAreClosed
<1>. QED
  BY <1>1, <1>2, <1>3, AlwaysIInv, SessionClosedOnce, PTL DEF Spec
=============================================================================
