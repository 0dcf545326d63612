----------------------------- MODULE ServerConn -----------------------------
(***************************************************************************)
(* One connection of the server, from the line it reads to the tagged      *)
(* response it writes: the loop of conn.go, dispatch.go, the built-in      *)
(* handlers of server/commands, the connection's state machine (state/),   *)
(* and the middlewares that change how a handler runs: Timeout, Recovery   *)
(* and MetricsMiddleware, in the order given by chain.                     *)
(*                                                                         *)
(* A handler is the sequence of its steps, and a step may return early;    *)
(* what the steps do is defined once for all handlers. Arguments, response *)
(* data and the session (the backend) are abstract: arguments may be       *)
(* wrong, and a session's call may succeed, fail or panic.                 *)
(***************************************************************************)
EXTENDS Naturals, Sequences, FiniteSets, StateMachine

CONSTANTS Commands,      \* the commands that clients send
          Chains,        \* the orders of middlewares, the outermost first
          MaxCommands,   \* bound: commands sent on the connection
          MaxInput,      \* bound: lines sent and not yet read
          MaxLate        \* bound: handlers given up by Timeout

Tags == 1..MaxCommands
Middlewares == {"timeout", "recovery", "metrics"}

ASSUME ServerConnAssumption ==
    /\ MaxCommands \in Nat /\ MaxInput \in Nat /\ MaxLate \in Nat
    /\ Chains \subseteq Seq(Middlewares)

VARIABLES chain,     \* the middlewares applied to every handler
          input,     \* lines and literals the client sent, in order
          open,      \* the client has not hung up
          sent,      \* commands sent so far; the last one's tag
          cmd,       \* the command with each tag
          main,      \* the connection's goroutine: reads, waits for a handler, ended
          cur,       \* the command it waits for
          at,        \* the step each handler is at, 0 if it does not run
          ret,       \* what each handler returned
          reader,    \* IDLE's goroutine that waits for DONE
          connState, \* state.Machine
          named,     \* whether Conn.mailbox names a mailbox
          tls,       \* Conn.isTLS
          enabled,   \* whether Conn.enabled holds a capability
          active,    \* Metrics.ActiveCommands
          crashed,   \* a panic that nobody recovered ended the process
          answers,   \* ghost: the tagged responses to each command
          over,      \* ghost: commands that dispatch is done with
          late,      \* ghost: commands whose handlers Timeout gave up
          view       \* ghost: the state a client infers from the first answers

clientVars == <<input, open, sent, cmd>>
loopVars == <<main, cur, over, late>>
handlerVars == <<at, ret, reader>>
connVars == <<connState, named, tls, enabled>>
processVars == <<active, crashed>>
answerVars == <<answers, view>>
vars == <<chain, clientVars, loopVars, handlerVars, connVars, processVars, answerVars>>

-----------------------------------------------------------------------------
(* The handlers *)

\* Handlers that only answer.
Capability == <<"ok">>
Noop == <<"ok">>

\* Handlers that parse, call the session and answer.
Create == <<"args", "session", "ok">>
Delete == <<"args", "session", "ok">>
Rename == <<"args", "session", "ok">>
Subscribe == <<"args", "session", "ok">>
Unsubscribe == <<"args", "session", "ok">>
List == <<"args", "session", "ok">>
Lsub == <<"args", "session", "ok">>
Status == <<"args", "session", "ok">>
Expunge == <<"args", "session", "ok">>
Search == <<"args", "session", "ok">>
Store == <<"args", "session", "ok">>
Copy == <<"args", "session", "ok">>

\* FETCH reads a list of items, which it may never get to the end of.
Fetch == <<"items", "session", "ok">>

Enable == <<"args", "enable", "ok">>
AppendMessage == <<"args", "append", "ok">>

Login_Early == <<"secure", "args", "authenticated", "session", "ok">>

\* Handlers that change the state of the connection.
Login == <<"secure", "args", "session", "authenticated", "ok">>
Select == <<"args", "session", "name", "selected", "ok">>
Logout == <<"logout", "ok">>

Close == <<"expunge", "session", "unname", "authenticated", "ok">>
Unselect == <<"session", "unname", "authenticated", "ok">>

\* Handlers that talk to the client before they answer, or go on after it.
Idle == <<"idling", "idle", "done", "ok">>
StartTLS == <<"plaintext", "ok", "handshake">>

Program(c) ==
    CASE c = "CAPABILITY" -> Capability [] c = "NOOP" -> Noop [] c = "LOGOUT" -> Logout
      [] c = "STARTTLS" -> StartTLS [] c = "LOGIN" -> Login [] c = "ENABLE" -> Enable
      [] c \in {"SELECT", "EXAMINE"} -> Select [] c = "CREATE" -> Create
      [] c = "DELETE" -> Delete [] c = "RENAME" -> Rename
      [] c = "SUBSCRIBE" -> Subscribe [] c = "UNSUBSCRIBE" -> Unsubscribe
      [] c = "LIST" -> List [] c = "LSUB" -> Lsub [] c = "STATUS" -> Status
      [] c = "APPEND" -> AppendMessage [] c = "IDLE" -> Idle [] c = "CLOSE" -> Close
      [] c = "UNSELECT" -> Unselect [] c = "EXPUNGE" -> Expunge [] c = "SEARCH" -> Search
      [] c = "FETCH" -> Fetch [] c = "STORE" -> Store [] c = "COPY" -> Copy
      [] OTHER -> <<>>

\* A handler is registered for it. AUTHENTICATE, NAMESPACE, MOVE, SORT and THREAD
\* have a state to be allowed in, and a handler only if an extension brings it.
Handled(c) == Program(c) # <<>>

\* dispatch lets the command through to its handler. Where the package names no
\* state, the handler has to check it.
Admitted(c) ==
    /\ AllowedStates(c) = {} \/ connState \in AllowedStates(c)
    /\ Handled(c)

-----------------------------------------------------------------------------
(* The middlewares *)

Index(m) == CHOOSE i \in DOMAIN chain : chain[i] = m
Has(m) == \E i \in DOMAIN chain : chain[i] = m
Outside(m, n) == Has(m) /\ Has(n) /\ Index(m) < Index(n)

\* Timeout runs what is inside it in a goroutine of its own, and a panic ends
\* the process unless a function of the same goroutine recovers from it.
Recovers == Has("recovery") /\ ~Outside("recovery", "timeout")

\* MetricsMiddleware runs in the handler's goroutine; otherwise it is outside
\* Timeout, and returns with the connection's goroutine.
MetricsInside == Has("metrics") /\ ~Outside("metrics", "timeout")

\* A panic passes through MetricsMiddleware if Recovery is outside it.
SkipsMetrics == Outside("recovery", "metrics")

EnterMetrics == IF Has("metrics") THEN active + 1 ELSE active

-----------------------------------------------------------------------------
(* Answers *)

\* What a client makes of the first answer to a command.
Inferred(c, status, old) ==
    IF status # "OK" THEN old
    ELSE CASE c = "LOGIN" -> "auth"
           [] c \in {"SELECT", "EXAMINE"} -> "selected"
           [] c \in {"CLOSE", "UNSELECT"} -> "auth"
           [] c = "LOGOUT" -> "logout"
           [] OTHER -> old

\* A tagged response, which reaches the client while the connection is open.
Answer(t, status) ==
    IF main = "ended" THEN UNCHANGED answerVars
    ELSE /\ answers' = [answers EXCEPT ![t] = Append(@, status)]
         /\ view' = IF answers[t] = <<>> THEN Inferred(cmd[t], status, view) ELSE view

Init ==
    /\ chain \in Chains
    /\ input = <<>> /\ open = TRUE /\ sent = 0
    /\ cmd = [t \in Tags |-> "none"]
    /\ main = "read" /\ cur = 0
    /\ over = {} /\ late = {}
    /\ at = [t \in Tags |-> 0] /\ ret = [t \in Tags |-> "none"]
    /\ reader = [t \in Tags |-> "none"]
    /\ connState = "notauth" /\ named = FALSE /\ tls = FALSE /\ enabled = FALSE
    /\ active = 0 /\ crashed = FALSE
    /\ answers = [t \in Tags |-> <<>>] /\ view = "notauth"

-----------------------------------------------------------------------------
(* The client, which is external *)

Line(t) == [kind |-> "command", tag |-> t]
Other(kind) == [kind |-> kind, tag |-> 0]

\* A client sends APPEND's literal with its line (LITERAL+); a client that waits
\* for a continuation request first is not modelled here. It may send commands
\* before the last one is answered, but none during IDLE.
Send(c) ==
    /\ ~crashed /\ open /\ sent < MaxCommands /\ Len(input) < MaxInput
    /\ \A t \in Tags : cmd[t] = "IDLE" => answers[t] # <<>>
    /\ sent' = sent + 1
    /\ cmd' = [cmd EXCEPT ![sent + 1] = c]
    /\ input' = input \o IF c = "APPEND" THEN <<Line(sent + 1), Other("literal")>>
                         ELSE <<Line(sent + 1)>>
    /\ UNCHANGED <<chain, open, loopVars, handlerVars, connVars, processVars, answerVars>>

\* DONE ends an IDLE that has been granted.
SendDone ==
    /\ ~crashed /\ open
    /\ \E t \in Tags : reader[t] = "reading"
    /\ \A i \in DOMAIN input : input[i].kind # "done"
    /\ input' = Append(input, Other("done"))
    /\ UNCHANGED <<chain, open, sent, cmd, loopVars, handlerVars, connVars, processVars,
                   answerVars>>

HangUp ==
    /\ ~crashed /\ open
    /\ open' = FALSE
    /\ UNCHANGED <<chain, input, sent, cmd, loopVars, handlerVars, connVars, processVars,
                   answerVars>>

-----------------------------------------------------------------------------
(* The connection's goroutine: serve, readAndHandle, dispatch *)

\* The end of an iteration of serve's loop.
Again == main' = IF connState = "logout" THEN "ended" ELSE "read"

Reads == ~crashed /\ main = "read" /\ input # <<>>

\* A line that parseLine rejects (DONE, or a literal nobody has read) gets an
\* untagged BAD.
ReadGarbage ==
    /\ Reads /\ Head(input).kind # "command"
    /\ input' = Tail(input)
    /\ Again
    /\ UNCHANGED <<chain, open, sent, cmd, cur, over, late, handlerVars, connVars,
                   processVars, answerVars>>

\* dispatch answers BAD itself: unknown command, wrong state, no handler.
Reject ==
    LET t == Head(input).tag
    IN /\ Reads /\ Head(input).kind = "command"
       /\ ~Admitted(cmd[t])
       /\ input' = Tail(input)
       /\ Answer(t, "BAD")
       /\ over' = over \cup {t}
       /\ Again
       /\ UNCHANGED <<chain, open, sent, cmd, cur, late, handlerVars, connVars, processVars>>

\* dispatch calls the handler through the middlewares.
Dispatch ==
    LET t == Head(input).tag
    IN /\ Reads /\ Head(input).kind = "command"
       /\ Admitted(cmd[t])
       /\ input' = Tail(input)
       /\ main' = "wait" /\ cur' = t
       /\ at' = [at EXCEPT ![t] = 1]
       /\ active' = EnterMetrics
       /\ UNCHANGED <<chain, open, sent, cmd, over, late, ret, reader, connVars, crashed,
                      answerVars>>

LeaveMetricsOutside == IF Has("metrics") /\ ~MetricsInside THEN active - 1 ELSE active

Finish_Twice ==
    /\ ~crashed /\ main = "wait" /\ ret[cur] \in {"nil", "NO", "BAD"}
    /\ Answer(cur, IF ret[cur] = "nil" THEN "OK" ELSE ret[cur])
    /\ over' = over \cup {cur} /\ cur' = 0
    /\ ret' = [ret EXCEPT ![cur] = "none"]
    /\ active' = LeaveMetricsOutside
    /\ Again
    /\ UNCHANGED <<chain, clientVars, late, at, reader, connVars, crashed>>

\* The handler has returned: an error becomes the tagged response.
Finish ==
    /\ ~crashed /\ main = "wait" /\ ret[cur] \in {"nil", "NO", "BAD"}
    /\ IF ret[cur] = "nil" THEN UNCHANGED answerVars ELSE Answer(cur, ret[cur])
    /\ over' = over \cup {cur} /\ cur' = 0
    /\ ret' = [ret EXCEPT ![cur] = "none"]
    /\ active' = LeaveMetricsOutside
    /\ Again
    /\ UNCHANGED <<chain, clientVars, late, at, reader, connVars, crashed>>

\* An error of type BYE ends the connection without a tagged response.
FinishBye ==
    /\ ~crashed /\ main = "wait" /\ ret[cur] = "BYE"
    /\ main' = "ended" /\ cur' = 0
    /\ ret' = [ret EXCEPT ![cur] = "none"]
    /\ active' = LeaveMetricsOutside
    /\ UNCHANGED <<chain, clientVars, over, late, at, reader, connVars, crashed, answerVars>>

\* Timeout gives the handler up, which goes on, and returns NO in its place.
TimesOut ==
    /\ ~crashed /\ main = "wait" /\ Has("timeout") /\ Cardinality(late) < MaxLate
    /\ Answer(cur, "NO")
    /\ over' = over \cup {cur} /\ late' = late \cup {cur} /\ cur' = 0
    /\ active' = LeaveMetricsOutside
    /\ Again
    /\ UNCHANGED <<chain, clientVars, handlerVars, connVars, crashed>>

\* The client has gone and everything it sent has been read.
ReadError ==
    /\ ~crashed /\ main = "read" /\ input = <<>> /\ ~open
    /\ main' = "ended"
    /\ UNCHANGED <<chain, clientVars, cur, over, late, handlerVars, connVars, processVars,
                   answerVars>>

-----------------------------------------------------------------------------
(* The steps of the handlers *)

At(t, step) ==
    /\ ~crashed
    /\ at[t] \in DOMAIN Program(cmd[t]) /\ Program(cmd[t])[at[t]] = step

LeaveMetricsInside == IF MetricsInside THEN active - 1 ELSE active

Continue(t) ==
    /\ at' = [at EXCEPT ![t] = @ + 1]
    /\ UNCHANGED <<ret, processVars>>

Return_DropsErrors(t, r) ==
    /\ at' = [at EXCEPT ![t] = 0]
    /\ ret' = IF r = "nil" THEN [ret EXCEPT ![t] = r] ELSE ret
    /\ active' = LeaveMetricsInside
    /\ UNCHANGED crashed

\* The handler returns r, early unless it is nil.
Return(t, r) ==
    /\ at' = [at EXCEPT ![t] = 0]
    /\ ret' = [ret EXCEPT ![t] = r]
    /\ active' = LeaveMetricsInside
    /\ UNCHANGED crashed

EndOfHandler(t) ==
    /\ ~crashed /\ at[t] > Len(Program(cmd[t]))
    /\ Return(t, "nil")
    /\ UNCHANGED <<chain, clientVars, loopVars, reader, connVars, answerVars>>

\* Checks that end the handler or let it go on: LOGIN without TLS unless it is
\* allowed, STARTTLS with TLS or without a configuration, wrong arguments.
Checks(t) ==
    /\ \/ At(t, "secure") /\ (Continue(t) \/ (~tls /\ Return(t, "NO")))
       \/ At(t, "plaintext") /\ (IF tls THEN Return(t, "BAD")
                                 ELSE Continue(t) \/ Return(t, "NO"))
       \/ At(t, "args") /\ (Continue(t) \/ Return(t, "BAD"))
    /\ UNCHANGED <<chain, clientVars, loopVars, reader, connVars, answerVars>>

\* FETCH's arguments.
ReadItems(t) ==
    /\ At(t, "items") /\ ret[t] # "loops"
    /\ Continue(t) \/ Return(t, "BAD")
    /\ UNCHANGED <<chain, clientVars, loopVars, reader, connVars, answerVars>>

\* A partial <offset.count> that something follows, like the ) of the list: ReadAtom
\* takes it whole, finds no atom after it, and is called again for ever.
LoopInItems(t) ==
    /\ At(t, "items")
    /\ ret' = [ret EXCEPT ![t] = "loops"]
    /\ UNCHANGED <<chain, clientVars, loopVars, at, reader, connVars, processVars, answerVars>>

\* What dispatch makes of an error of the session, which has any type or none.
SessionErrors == {"NO", "BAD", "BYE"}

\* A call of the session. CLOSE ignores what Expunge returns.
CallSession(t) ==
    /\ \/ At(t, "session") /\ (Continue(t) \/ \E r \in SessionErrors : Return(t, r))
       \/ At(t, "expunge") /\ Continue(t)
    /\ UNCHANGED <<chain, clientVars, loopVars, reader, connVars, answerVars>>

InSession(t) == \E step \in {"session", "expunge", "append", "idle"} : At(t, step)

Panic_Leaks(t) ==
    /\ InSession(t)
    /\ at' = [at EXCEPT ![t] = 0]
    /\ ret' = [ret EXCEPT ![t] = "NO"]
    /\ UNCHANGED <<chain, clientVars, loopVars, reader, connVars, processVars, answerVars>>

\* A call of the session panics. IDLE's goroutine is left behind.
Panic(t) ==
    /\ InSession(t)
    /\ IF Recovers
       THEN /\ at' = [at EXCEPT ![t] = 0]
            /\ ret' = [ret EXCEPT ![t] = "NO"]
            /\ reader' = IF reader[t] = "reading" THEN [reader EXCEPT ![t] = "orphan"]
                         ELSE reader
            /\ active' = IF SkipsMetrics THEN active ELSE LeaveMetricsInside
            /\ UNCHANGED crashed
       ELSE crashed' = TRUE /\ UNCHANGED <<handlerVars, active>>
    /\ UNCHANGED <<chain, clientVars, loopVars, connVars, answerVars>>

\* Session.Append reads the literal, and the handler drains what it left: what
\* follows on the connection, or nothing if the client has gone, which is no error
\* to io.LimitReader.
CallAppend(t) ==
    /\ At(t, "append")
    /\ \/ input # <<>> /\ input' = Tail(input)
       \/ input = <<>> /\ ~open /\ UNCHANGED input
    /\ Continue(t) \/ \E r \in SessionErrors : Return(t, r)
    /\ UNCHANGED <<chain, open, sent, cmd, loopVars, reader, connVars, answerVars>>

Target(step) ==
    CASE step = "authenticated" -> "auth" [] step = "selected" -> "selected"
      [] step = "logout" -> "logout"

\* SetState, which fails if the state machine has no such transition.
SetState(t) ==
    \E step \in {"authenticated", "selected", "logout"} :
        /\ At(t, step)
        /\ IF CanTransition(connState, Target(step))
           THEN connState' = Target(step) /\ Continue(t)
           ELSE UNCHANGED connState /\ Return(t, "NO")
        /\ UNCHANGED <<chain, clientVars, loopVars, reader, named, tls, enabled, answerVars>>

\* SetMailbox, and Enabled().Add for the capabilities the server has.
SetConn(t) ==
    /\ \/ At(t, "name") /\ named' = TRUE /\ UNCHANGED enabled
       \/ At(t, "unname") /\ named' = FALSE /\ UNCHANGED enabled
       \/ At(t, "enable") /\ enabled' \in {enabled, TRUE} /\ UNCHANGED named
    /\ Continue(t)
    /\ UNCHANGED <<chain, clientVars, loopVars, reader, connState, tls, answerVars>>

WriteOK(t) ==
    /\ At(t, "ok")
    /\ Answer(t, "OK")
    /\ Continue(t)
    /\ UNCHANGED <<chain, clientVars, loopVars, reader, connVars>>

\* UpgradeTLS. Lines that the client sent before the handshake spoil it.
Handshake(t) ==
    /\ At(t, "handshake")
    /\ \/ input = <<>> /\ open /\ tls' = TRUE /\ Continue(t)
       \/ UNCHANGED tls /\ Return(t, "NO")
    /\ UNCHANGED <<chain, clientVars, loopVars, reader, connState, named, enabled, answerVars>>

\* IDLE sends the continuation request and starts the goroutine that reads DONE.
StartIdle(t) ==
    /\ At(t, "idling")
    /\ reader' = [reader EXCEPT ![t] = "reading"]
    /\ Continue(t)
    /\ UNCHANGED <<chain, clientVars, loopVars, connVars, answerVars>>

\* That goroutine reads a line. DONE closes stop, other lines are thrown away.
ReadDone(t) ==
    /\ ~crashed /\ reader[t] \in {"reading", "orphan"}
    /\ \/ /\ input # <<>> /\ Head(input).kind # "done"
          /\ input' = Tail(input) /\ UNCHANGED reader
       \/ /\ input # <<>> /\ Head(input).kind = "done"
          /\ input' = Tail(input)
          /\ reader' = [reader EXCEPT ![t] = IF @ = "orphan" THEN "gone" ELSE "stopped"]
       \/ /\ input = <<>> /\ ~open /\ UNCHANGED input
          /\ reader' = [reader EXCEPT ![t] = IF @ = "orphan" THEN "gone" ELSE "failed"]
    /\ UNCHANGED <<chain, open, sent, cmd, loopVars, at, ret, connVars, processVars,
                   answerVars>>

\* Session.Idle returns when stop is closed.
CallIdle(t) ==
    /\ At(t, "idle") /\ reader[t] = "stopped"
    /\ Continue(t)
    /\ UNCHANGED <<chain, clientVars, loopVars, reader, connVars, answerVars>>

\* It may return with an error at any time, which is kept until the reading
\* goroutine has ended, too.
IdleFails(t) ==
    /\ At(t, "idle")
    /\ ret' = [ret EXCEPT ![t] = "idle error"]
    /\ at' = [at EXCEPT ![t] = @ + 1]
    /\ UNCHANGED <<chain, clientVars, loopVars, reader, connVars, processVars, answerVars>>

AwaitReader(t) ==
    /\ At(t, "done") /\ reader[t] \in {"stopped", "failed"}
    /\ CASE ret[t] = "idle error" -> \E r \in SessionErrors : Return(t, r)
         [] ret[t] = "none" /\ reader[t] = "failed" -> Return(t, "BAD")
         [] OTHER -> Continue(t)
    /\ UNCHANGED <<chain, clientVars, loopVars, reader, connVars, answerVars>>

Steady(t) ==
    \/ EndOfHandler(t) \/ Checks(t) \/ ReadItems(t) \/ CallSession(t) \/ CallAppend(t)
    \/ SetState(t) \/ SetConn(t) \/ WriteOK(t) \/ Handshake(t) \/ StartIdle(t)
    \/ CallIdle(t) \/ AwaitReader(t)

Handler(t) == Steady(t) \/ LoopInItems(t) \/ Panic(t) \/ IdleFails(t)

Serving == ReadGarbage \/ Reject \/ Dispatch \/ Finish \/ FinishBye \/ ReadError

Loop == Serving \/ TimesOut

Next ==
    \/ \E c \in Commands : Send(c)
    \/ SendDone \/ HangUp
    \/ Loop
    \/ \E t \in Tags : Handler(t) \/ ReadDone(t)

Spec == Init /\ [][Next]_vars

\* The connection's goroutine waits for a handler that loops.
WaitsForLoop == main = "wait" /\ ret[cur] = "loops"

\* Goroutines that can run do, calls of the session return, but Idle only when it
\* is stopped, and a client ends its IDLE. Nobody has to panic, or to time out but
\* for a handler that loops: Timeout's timer does not wait for ever.
\* (A handler that does not run has no step to take, which is quick to see.)
Fairness ==
    /\ WF_vars(Serving) /\ WF_vars(SendDone) /\ WF_vars(WaitsForLoop /\ TimesOut)
    /\ \A t \in Tags : WF_vars(at[t] # 0 /\ Steady(t)) /\ WF_vars(ReadDone(t))

FairSpec == Spec /\ Fairness

-----------------------------------------------------------------------------
(* Properties *)

Results == {"none", "nil", "NO", "BAD", "BYE", "idle error", "loops"}

\* Every variable has its type; in particular ActiveCommands never falls below zero.
TypeOK ==
    /\ chain \in Chains
    /\ input \in Seq([kind : {"command", "literal", "done"}, tag : 0..MaxCommands])
    /\ open \in BOOLEAN /\ sent \in 0..MaxCommands
    /\ cmd \in [Tags -> Commands \cup {"none"}]
    /\ main \in {"read", "wait", "ended"} /\ cur \in 0..MaxCommands
    /\ over \subseteq Tags /\ late \subseteq over
    /\ at \in [Tags -> 0..6] /\ ret \in [Tags -> Results]
    /\ reader \in [Tags -> {"none", "reading", "stopped", "failed", "orphan", "gone"}]
    /\ connState \in ConnStates /\ view \in ConnStates
    /\ named \in BOOLEAN /\ tls \in BOOLEAN /\ enabled \in BOOLEAN
    /\ active \in Nat /\ crashed \in BOOLEAN
    /\ answers \in [Tags -> Seq({"OK", "NO", "BAD"})]

\* Every command that dispatch is done with has had exactly one tagged response,
\* and none has had two, whatever its handler returned and wherever it returned
\* early. Two kinds are excepted: a handler that Timeout gave up answers again,
\* and so does STARTTLS when the handshake fails after its OK.
AnsweredOnce ==
    \A t \in Tags \ late :
        /\ cmd[t] # "STARTTLS" => Len(answers[t]) <= 1
        /\ t \in over => answers[t] # <<>>

\* The commands whose handlers change the connection's state.
StateChanging == {"LOGIN", "SELECT", "EXAMINE", "CLOSE", "UNSELECT", "LOGOUT"}

\* Whenever the connection reads its next command, the server and a client that
\* goes by the first answer to each command agree on the connection's state, and
\* there is the name of a mailbox (Conn.Mailbox) just in the selected state; a
\* handler that Timeout gave up may change both behind the client's back.
StateAgrees ==
    main = "read" /\ (\A t \in late : cmd[t] \notin StateChanging) =>
        connState = view /\ (named <=> connState = "selected")

Executing == {t \in Tags : at[t] # 0}

\* ActiveCommands is the number of commands that are executing, if the metrics
\* are not outside Timeout and Recovery is not outside the metrics: outside
\* Timeout they do not count a handler that was given up, and a panic that
\* passes through them is never counted down.
ActiveIsExact ==
    MetricsInside /\ ~SkipsMetrics /\ ~crashed =>
        active = Cardinality(Executing)

\* Recovery "recovers from panics in command handlers", in any chain it is part of.
RecoveryRecovers == Has("recovery") => ~crashed

\* A handler that Timeout gave up, or IDLE's goroutine after a panic of its
\* handler, reads what the connection's goroutine should read.
Steals ==
    \E t \in Tags : \/ t \in late /\ cmd[t] \in {"IDLE", "APPEND"}
                    \/ reader[t] \in {"orphan", "gone"}

Unanswered == {t \in Tags : cmd[t] # "none" /\ answers[t] = <<>>}

\* All commands that are sent are answered in the end, unless the connection ends,
\* the client hangs up during IDLE (nothing tells Session.Idle to return), a
\* goroutine that was left behind takes their lines (Steals), or a FETCH loops in
\* its items and there is no Timeout to answer in its place (or none that may give
\* up another handler: MaxLate).
EveryCommandAnswered ==
    Unanswered # {} ~> \/ Unanswered = {} \/ main = "ended" \/ crashed \/ Steals
                       \/ \E t \in Tags : reader[t] = "failed"
                       \/ WaitsForLoop /\ ~(Has("timeout") /\ Cardinality(late) < MaxLate)
=============================================================================
