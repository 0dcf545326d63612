-------------------------- MODULE ServerConnProofs --------------------------
(***************************************************************************)
(* Proofs about ServerConn, for any commands, any order of middlewares and *)
(* any bounds: every command is answered once, ActiveCommands counts the   *)
(* handlers that run, server and client agree on the connection's state,   *)
(* and the type invariant.                                                 *)
(***************************************************************************)
EXTENDS ServerConn, FiniteSetTheorems, TLAPS

Steps == {"ok", "args", "items", "session", "enable", "append", "secure", "authenticated", "name",
          "unname", "selected", "logout", "expunge", "idling", "idle", "done", "plaintext",
          "handshake"}
Statuses == {"OK", "NO", "BAD"}
Items == [kind : {"command", "literal", "done"}, tag : 0..MaxCommands]

\* The types that the argument needs.
Types ==
    /\ input \in Seq(Items) /\ sent \in 0..MaxCommands
    /\ cmd \in [Tags -> Commands \cup {"none"}]
    /\ main \in {"read", "wait", "ended"} /\ cur \in 0..MaxCommands
    /\ over \subseteq Tags /\ late \subseteq Tags
    /\ at \in [Tags -> Nat] /\ ret \in [Tags -> Results]
    /\ answers \in [Tags -> Seq(Statuses)]

\* A place inside a program or past its end is not the place before its start.
LEMMA PastTheStart ==
    ASSUME NEW p \in Seq(Steps), NEW i, i \in DOMAIN p \/ i > Len(p)
    PROVE  i # 0
BY SMT

\* Every handler but STARTTLS's answers in its last step and only there; STARTTLS
\* answers in its second of three.
LEMMA OkIsLast ==
    ASSUME NEW c
    PROVE  /\ Program(c) \in Seq(Steps)
           /\ c # "STARTTLS" => \A i \in DOMAIN Program(c) :
                                   Program(c)[i] = "ok" <=> i = Len(Program(c))
           /\ c = "STARTTLS" => Program(c) = <<"plaintext", "ok", "handshake">>
<1>1. Program(c) \in {Capability, Noop, Logout, StartTLS, Login, Enable, Select, Create,
                      Delete, Rename, Subscribe, Unsubscribe, List, Lsub, Status,
                      AppendMessage, Idle, Close, Unselect, Expunge, Search, Fetch, Store,
                      Copy, <<>>}
  BY Zenon DEF Program
<1>2. c = "STARTTLS" <=> Program(c) = StartTLS
  BY Zenon DEF Program, Capability, Noop, Logout, StartTLS, Login, Enable, Select, Create,
         Delete, Rename, Subscribe, Unsubscribe, List, Lsub, Status, AppendMessage, Idle,
         Close, Unselect, Expunge, Search, Fetch, Store, Copy
<1>3. CASE c = "STARTTLS"
  <2>1. Program(c) = <<"plaintext", "ok", "handshake">>
    BY Zenon, <1>2, <1>3 DEF StartTLS
  <2>2. <<"plaintext", "ok", "handshake">> \in Seq(Steps)
    BY DEF Steps
  <2> QED
    BY Zenon, <2>1, <2>2, <1>3
<1>4. CASE c # "STARTTLS"
  <2>1. Program(c) \in {<<>>, <<"ok">>, <<"logout", "ok">>, <<"args", "session", "ok">>,
                        <<"items", "session", "ok">>,
                        <<"args", "enable", "ok">>, <<"args", "append", "ok">>,
                        <<"idling", "idle", "done", "ok">>,
                        <<"session", "unname", "authenticated", "ok">>,
                        <<"secure", "args", "session", "authenticated", "ok">>,
                        <<"args", "session", "name", "selected", "ok">>,
                        <<"expunge", "session", "unname", "authenticated", "ok">>}
    BY Zenon, <1>1, <1>2, <1>4 DEF Capability, Noop, Logout, StartTLS, Login, Enable, Select,
         Create, Delete, Rename, Subscribe, Unsubscribe, List, Lsub, Status,
         AppendMessage, Idle, Close, Unselect, Expunge, Search, Fetch, Store, Copy
  <2>2. CASE Program(c) = <<>>
    BY <2>2, <1>4 DEF Steps
  <2>3. CASE Program(c) = <<"ok">>
    BY <2>3, <1>4 DEF Steps
  <2>4. CASE Program(c) = <<"logout", "ok">>
    BY <2>4, <1>4 DEF Steps
  <2>5. CASE Program(c) = <<"args", "session", "ok">>
    BY <2>5, <1>4 DEF Steps
  <2>6. CASE Program(c) = <<"args", "enable", "ok">>
    BY <2>6, <1>4 DEF Steps
  <2>7. CASE Program(c) = <<"args", "append", "ok">>
    BY <2>7, <1>4 DEF Steps
  <2>8. CASE Program(c) = <<"idling", "idle", "done", "ok">>
    BY <2>8, <1>4 DEF Steps
  <2>9. CASE Program(c) = <<"session", "unname", "authenticated", "ok">>
    BY <2>9, <1>4 DEF Steps
  <2>10. CASE Program(c) = <<"secure", "args", "session", "authenticated", "ok">>
    BY <2>10, <1>4 DEF Steps
  <2>11. CASE Program(c) = <<"args", "session", "name", "selected", "ok">>
    BY <2>11, <1>4 DEF Steps
  <2>12. CASE Program(c) = <<"expunge", "session", "unname", "authenticated", "ok">>
    BY <2>12, <1>4 DEF Steps
  <2>13. CASE Program(c) = <<"items", "session", "ok">>
    BY <2>13, <1>4 DEF Steps
  <2> QED
    BY Zenon, <2>1, <2>2, <2>3, <2>4, <2>5, <2>6, <2>7, <2>8, <2>9, <2>10, <2>11, <2>12, <2>13
<1> QED
  BY Zenon, <1>3, <1>4

-----------------------------------------------------------------------------
(* The steps of a handler, by what they do to its answer *)

\* It goes on, or is ended by a panic, without an answer.
Goes(t) ==
    /\ at[t] \in DOMAIN Program(cmd[t]) /\ Program(cmd[t])[at[t]] # "ok"
    /\ at' = [at EXCEPT ![t] = @ + 1]
    /\ ret' = ret \/ ret' = [ret EXCEPT ![t] = "idle error"]
    /\ answers' = answers

\* It returns an error.
Stops(t) ==
    /\ at[t] \in DOMAIN Program(cmd[t]) /\ Program(cmd[t])[at[t]] # "ok"
    /\ at' = [at EXCEPT ![t] = 0]
    /\ \E r \in {"NO", "BAD", "BYE"} : ret' = [ret EXCEPT ![t] = r]
    /\ answers' = answers

\* It returns nil.
Ends(t) ==
    /\ at[t] > Len(Program(cmd[t]))
    /\ at' = [at EXCEPT ![t] = 0]
    /\ ret' = [ret EXCEPT ![t] = "nil"]
    /\ answers' = answers

\* It answers OK.
Says(t) ==
    /\ at[t] \in DOMAIN Program(cmd[t]) /\ Program(cmd[t])[at[t]] = "ok"
    /\ at' = [at EXCEPT ![t] = @ + 1]
    /\ ret' = ret
    /\ Answer(t, "OK")

\* It loops where it is.
Loops(t) ==
    /\ at[t] \in DOMAIN Program(cmd[t]) /\ at' = at
    /\ ret' = [ret EXCEPT ![t] = "loops"]
    /\ answers' = answers

HandlerShape(t) ==
    /\ sent' = sent /\ cmd' = cmd /\ UNCHANGED loopVars
    /\ input' = input \/ (input # <<>> /\ input' = Tail(input))
    /\ \/ Goes(t) \/ Stops(t) \/ Ends(t) \/ Says(t) \/ Loops(t)
       \/ at' = at /\ ret' = ret /\ answers' = answers

\* Every step of a handler is one of these.
LEMMA HandlerSteps ==
    ASSUME NEW t \in Tags, Handler(t)
    PROVE  HandlerShape(t)
<1> USE DEF HandlerShape, clientVars, answerVars, handlerVars, processVars
<1>1. CASE EndOfHandler(t)
  BY Zenon, <1>1 DEF EndOfHandler, Return, Ends
<1>2. CASE Checks(t)
  BY Zenon, <1>2 DEF Checks, At, Continue, Return, Goes, Stops
<1>3. CASE CallSession(t)
  BY Zenon, <1>3 DEF CallSession, SessionErrors, At, Continue, Return, Goes, Stops
<1>4. CASE Panic(t)
  BY Zenon, <1>4 DEF Panic, InSession, At, Stops
<1>5. CASE CallAppend(t)
  BY Zenon, <1>5 DEF CallAppend, SessionErrors, At, Continue, Return, Goes, Stops
<1>6. CASE SetState(t)
  BY Zenon, <1>6 DEF SetState, At, Continue, Return, Goes, Stops
<1>7. CASE SetConn(t)
  BY Zenon, <1>7 DEF SetConn, At, Continue, Goes
<1>8. CASE WriteOK(t)
  BY Zenon, <1>8 DEF WriteOK, At, Continue, Says
<1>9. CASE Handshake(t)
  BY Zenon, <1>9 DEF Handshake, At, Continue, Return, Goes, Stops
<1>10. CASE StartIdle(t)
  BY Zenon, <1>10 DEF StartIdle, At, Continue, Goes
<1>11. CASE CallIdle(t)
  BY Zenon, <1>11 DEF CallIdle, At, Continue, Goes
<1>12. CASE AwaitReader(t)
  BY Zenon, <1>12 DEF AwaitReader, SessionErrors, At, Continue, Return, Goes, Stops
<1>13. CASE IdleFails(t)
  BY Zenon, <1>13 DEF IdleFails, At, Goes
<1>14. CASE ReadItems(t)
  BY Zenon, <1>14 DEF ReadItems, At, Continue, Return, Goes, Stops
<1>15. CASE LoopInItems(t)
  BY Zenon, <1>15 DEF LoopInItems, At, Loops
<1> QED
  BY Zenon, <1>1, <1>2, <1>3, <1>4, <1>5, <1>6, <1>7, <1>8, <1>9, <1>10, <1>11, <1>12, <1>13,
     <1>14, <1>15 DEF Handler, Steady

-----------------------------------------------------------------------------
(* Every command is answered once *)

Unread(t) == \E i \in DOMAIN input : input[i].kind = "command" /\ input[i].tag = t

\* A command is on the wire at most once, and only if it was sent.
Lines ==
    /\ \A i \in DOMAIN input : input[i].kind = "command" => input[i].tag \in 1..sent
    /\ \A i, j \in DOMAIN input :
          /\ input[i].kind = "command" /\ input[j].kind = "command"
          /\ input[i].tag = input[j].tag
          => i = j

\* A command that was not sent or not read yet has left no trace.
Untouched(t) ==
    /\ at[t] = 0 /\ ret[t] = "none" /\ answers[t] = <<>>
    /\ t \notin over /\ t \notin late /\ cur # t

Fresh == \A t \in Tags : t > sent \/ Unread(t) => Untouched(t)

\* The connection's goroutine waits for the one handler that it did not give up.
Waits ==
    /\ main = "wait" => cur \in Tags /\ cur \notin over /\ cur \notin late
    /\ main # "wait" => cur = 0
    /\ late \subseteq over
    /\ \A t \in Tags : at[t] # 0 => t \in late \/ cur = t
    /\ \A t \in Tags : at[t] # 0 => ret[t] \in {"none", "idle error", "loops"}

\* What has been answered at each point of a handler, and after it.
Story(t) ==
    /\ cmd[t] # "STARTTLS" => Len(answers[t]) <= 1
    /\ at[t] # 0 /\ cmd[t] # "STARTTLS" =>
          /\ at[t] <= Len(Program(cmd[t])) + 1
          /\ at[t] <= Len(Program(cmd[t])) => answers[t] = <<>>
          /\ at[t] > Len(Program(cmd[t])) => answers[t] # <<>>
    /\ at[t] # 0 /\ cmd[t] = "STARTTLS" => (at[t] > 2 => answers[t] # <<>>)
    /\ ret[t] = "nil" => answers[t] # <<>>
    /\ ret[t] \in {"NO", "BAD"} /\ cmd[t] # "STARTTLS" => answers[t] = <<>>
    /\ t \in over => answers[t] # <<>>

AnswerInv == Types /\ Lines /\ Fresh /\ Waits /\ \A t \in Tags \ late : Story(t)

\* The invariant holds initially.
LEMMA TypesInit == Init => Types
  BY ServerConnAssumption DEF Init, Types, Tags, Results, Items, Statuses

LEMMA AnswerInit == Init => AnswerInv
<1> SUFFICES ASSUME Init PROVE AnswerInv
  BY Zenon
<1>1. Types
  BY Zenon, TypesInit
<1>2. Lines /\ Fresh /\ Waits
  BY ServerConnAssumption DEF Init, Lines, Fresh, Waits, Unread, Untouched, Tags
<1>3. \A t \in Tags : Story(t)
  BY DEF Init, Story
<1> QED
  BY Zenon, <1>1, <1>2, <1>3 DEF AnswerInv

\* Answering once more.
LEMMA AnswerAppended ==
    ASSUME NEW q \in Seq(Statuses), NEW r \in Statuses
    PROVE  /\ Append(q, r) \in Seq(Statuses) /\ Append(q, r) # <<>>
           /\ q = <<>> => Len(Append(q, r)) <= 1
  OBVIOUS

\* Reading one line.
LEMMA TailLines ==
    ASSUME Types, Lines, input # <<>>, input' = Tail(input), sent' = sent
    PROVE  /\ Lines' /\ input' \in Seq(Items)
           /\ Head(input) \in Items
           /\ \A t \in Tags : Unread(t)' => Unread(t)
           /\ Head(input).kind = "command" =>
                 /\ Head(input).tag \in Tags /\ Head(input).tag <= sent
                 /\ \A t \in Tags : t = Head(input).tag => Unread(t) /\ ~Unread(t)'
<1>1. /\ Len(input) \in Nat \ {0} /\ DOMAIN input = 1..Len(input)
      /\ input' \in Seq(Items) /\ DOMAIN input' = 1..(Len(input) - 1)
      /\ \A i \in DOMAIN input' : i + 1 \in DOMAIN input /\ input'[i] = input[i + 1]
      /\ Head(input) = input[1] /\ 1 \in DOMAIN input /\ Head(input) \in Items
  BY DEF Types
<1>2. Lines'
  BY <1>1 DEF Lines
<1>3. \A t \in Tags : Unread(t)' => Unread(t)
  BY Zenon, <1>1 DEF Unread
<1>4. ASSUME Head(input).kind = "command"
      PROVE  /\ Head(input).tag \in Tags /\ Head(input).tag <= sent
             /\ \A t \in Tags : t = Head(input).tag => Unread(t) /\ ~Unread(t)'
  <2>1. Head(input).tag \in 1..sent
    BY Zenon, <1>1, <1>4 DEF Lines
  <2>2. Head(input).tag \in Tags /\ Head(input).tag <= sent
    <3>1. sent \in 0..MaxCommands /\ MaxCommands \in Nat
      BY Zenon, ServerConnAssumption DEF Types
    <3> QED
      BY <2>1, <3>1 DEF Tags
  <2>3. \A t \in Tags : t = Head(input).tag => Unread(t)
    BY Zenon, <1>1, <1>4 DEF Unread
  <2>4. ASSUME NEW i \in DOMAIN input', input'[i].kind = "command",
               input'[i].tag = Head(input).tag
        PROVE  FALSE
    <3>1. i + 1 \in DOMAIN input /\ input[i + 1].kind = "command" /\ input[i + 1].tag = input[1].tag
      BY Zenon, <1>1, <2>4
    <3>2. i + 1 = 1
      BY Zenon, <3>1, <1>1, <1>4 DEF Lines
    <3> QED
      BY <3>2, <1>1
  <2> QED
    BY Zenon, <2>2, <2>3, <2>4 DEF Unread
<1> QED
  BY Zenon, <1>1, <1>2, <1>3, <1>4

\* A step that leaves the handlers and their answers alone. It may read a line, and
\* may end a connection that waits for no handler.
LEMMA QuietStep ==
    ASSUME AnswerInv, UNCHANGED <<sent, cmd, cur, over, late, at, ret, answers>>,
           main' = main \/ (main = "read" /\ main' \in {"read", "ended"}),
           input' = input \/ (input # <<>> /\ input' = Tail(input))
    PROVE  AnswerInv'
<1> USE DEF AnswerInv
<1>1. /\ Lines' /\ input' \in Seq(Items)
      /\ \A t \in Tags : Unread(t)' => Unread(t)
  <2>1. CASE input' = input
    BY Zenon, <2>1 DEF Lines, Unread, Types
  <2>2. CASE input # <<>> /\ input' = Tail(input)
    BY Zenon, <2>2, TailLines
  <2> QED
    BY Zenon, <2>1, <2>2
<1>2. Types'
  BY Zenon, <1>1 DEF Types
<1>3. Fresh'
  BY Zenon, <1>1 DEF Fresh, Untouched
<1>4. Waits'
  BY Zenon DEF Waits
<1>5. \A t \in Tags \ late' : Story(t)'
  BY Zenon DEF Story
<1> QED
  BY Zenon, <1>1, <1>2, <1>3, <1>4, <1>5

\* The client sends DONE.
LEMMA SendDoneStep ==
    ASSUME AnswerInv, SendDone
    PROVE  AnswerInv'
<1> USE DEF AnswerInv
<1>1. /\ input' = Append(input, Other("done"))
      /\ UNCHANGED <<sent, cmd, main, cur, over, late, at, ret, answers>>
  BY Zenon DEF SendDone, loopVars, handlerVars, answerVars
<1>2. Other("done") \in Items /\ Other("done").kind # "command"
  BY ServerConnAssumption DEF Other, Items
<1>3. /\ input' \in Seq(Items) /\ Len(input) \in Nat
      /\ DOMAIN input = 1..Len(input) /\ DOMAIN input' = 1..(Len(input) + 1)
      /\ \A i \in DOMAIN input : input'[i] = input[i]
      /\ input'[Len(input) + 1] = Other("done")
  BY <1>1, <1>2 DEF Types
<1>4. \A i \in DOMAIN input' : input'[i].kind = "command" =>
          i \in DOMAIN input /\ input'[i] = input[i]
  BY <1>2, <1>3
<1>5. Lines'
  BY <1>1, <1>4 DEF Lines
<1>6. \A t \in Tags : Unread(t)' => Unread(t)
  BY Zenon, <1>4 DEF Unread
<1>7. Types'
  BY Zenon, <1>1, <1>3 DEF Types
<1>8. Fresh'
  BY Zenon, <1>1, <1>6 DEF Fresh, Untouched
<1>9. Waits' /\ \A t \in Tags \ late' : Story(t)'
  BY Zenon, <1>1 DEF Waits, Story
<1> QED
  BY Zenon, <1>5, <1>7, <1>8, <1>9

\* The client sends a command.
LEMMA SendStep ==
    ASSUME AnswerInv, NEW c \in Commands, Send(c)
    PROVE  AnswerInv'
<1> USE DEF AnswerInv
<1>1. PICK n \in Tags : n = sent + 1
  BY ServerConnAssumption DEF Send, Types, Tags
<1>2. /\ sent' = n /\ cmd' = [cmd EXCEPT ![n] = c]
      /\ input' = input \o IF c = "APPEND" THEN <<Line(n), Other("literal")>> ELSE <<Line(n)>>
      /\ UNCHANGED <<main, cur, over, late, at, ret, answers>>
  BY Zenon, <1>1 DEF Send, loopVars, handlerVars, answerVars
<1>3. sent \in 0..MaxCommands /\ MaxCommands \in Nat /\ n \in 1..MaxCommands
  BY Zenon, ServerConnAssumption DEF Types, Tags
<1>4. /\ Line(n) \in Items /\ Other("literal") \in Items
      /\ Line(n).kind = "command" /\ Line(n).tag = n /\ Other("literal").kind # "command"
  BY <1>3 DEF Line, Other, Items
<1>5. PICK k \in {1, 2} :
        /\ input' \in Seq(Items) /\ Len(input') = Len(input) + k
        /\ \A i \in 1..Len(input) : input'[i] = input[i]
        /\ input'[Len(input) + 1] = Line(n)
        /\ k = 2 => input'[Len(input) + 2] = Other("literal")
  <2>1. CASE c = "APPEND"
    BY <1>2, <1>4, <2>1 DEF Types
  <2>2. CASE c # "APPEND"
    BY <1>2, <1>4, <2>2 DEF Types
  <2> QED
    BY Zenon, <2>1, <2>2
<1>6. /\ Len(input) \in Nat /\ DOMAIN input = 1..Len(input)
      /\ DOMAIN input' = 1..(Len(input) + k)
  BY <1>5 DEF Types
<1>7. \A i \in DOMAIN input' : input'[i].kind = "command" =>
          \/ i \in DOMAIN input /\ input'[i] = input[i] /\ input[i].tag \in 1..sent
          \/ i = Len(input) + 1 /\ input'[i].tag = n
  BY <1>4, <1>5, <1>6 DEF Lines
<1>8. Lines'
  <2>1. \A i \in DOMAIN input' : input'[i].kind = "command" => input'[i].tag \in 1..n
    BY <1>1, <1>3, <1>7
  <2>2. \A i, j \in DOMAIN input' :
           /\ input'[i].kind = "command" /\ input'[j].kind = "command"
           /\ input'[i].tag = input'[j].tag
           => i = j
    BY <1>1, <1>3, <1>7 DEF Lines
  <2> QED
    BY Zenon, <1>2, <2>1, <2>2 DEF Lines
<1>9. \A t \in Tags : Unread(t)' => Unread(t) \/ t = n
  BY Zenon, <1>7 DEF Unread
<1>10. Types'
  <2>1. sent' \in 0..MaxCommands /\ input' \in Seq(Items)
    BY <1>1, <1>2, <1>3, <1>5 DEF Tags
  <2>2. cmd' \in [Tags -> Commands \cup {"none"}]
    BY Zenon, <1>2, <1>3 DEF Types
  <2> QED
    BY Zenon, <1>2, <2>1, <2>2 DEF Types
<1>11. Untouched(n)
  BY <1>1, <1>3 DEF Fresh
<1>12. Fresh'
  <2>1. \A t \in Tags : t > sent' \/ Unread(t)' => t > sent \/ Unread(t)
    BY <1>1, <1>2, <1>3, <1>9 DEF Tags
  <2> QED
    BY Zenon, <1>2, <2>1 DEF Fresh, Untouched
<1>13. Waits'
  BY Zenon, <1>2 DEF Waits
<1>14. \A t \in Tags \ late' : Story(t)'
  <2>1. \A t \in Tags : t # n => cmd'[t] = cmd[t]
    BY Zenon, <1>2 DEF Types
  <2>2. \A t \in Tags \ late : t # n => Story(t)'
    BY Zenon, <1>2, <2>1 DEF Story
  <2>3. Story(n)'
    BY <1>2, <1>11 DEF Story, Untouched
  <2> QED
    BY Zenon, <1>2, <2>2, <2>3
<1> QED
  BY Zenon, <1>8, <1>10, <1>12, <1>13, <1>14

\* A command that dispatch answers itself was not touched before.
LEMMA RejectStep ==
    ASSUME AnswerInv, Reject
    PROVE  AnswerInv'
<1> USE DEF AnswerInv
<1>1. /\ main = "read" /\ input # <<>> /\ Head(input).kind = "command"
      /\ input' = Tail(input) /\ main' \in {"read", "ended"}
      /\ UNCHANGED <<sent, cmd, cur, late, at, ret>>
  BY Zenon DEF Reject, Reads, Again, handlerVars
<1>2. /\ Lines' /\ input' \in Seq(Items)
      /\ \A t \in Tags : Unread(t)' => Unread(t)
      /\ Head(input).tag \in Tags /\ Head(input).tag <= sent
      /\ \A t \in Tags : t = Head(input).tag => Unread(t) /\ ~Unread(t)'
  BY Zenon, <1>1, TailLines
<1>3. PICK h \in Tags : h = Head(input).tag
  BY Zenon, <1>2
<1>4. /\ Unread(h) /\ ~Unread(h)' /\ h <= sent
      /\ answers' = [answers EXCEPT ![h] = Append(@, "BAD")]
      /\ over' = over \cup {h}
  BY Zenon, <1>1, <1>2, <1>3 DEF Reject, Answer
<1>5. Untouched(h)
  BY Zenon, <1>4 DEF Fresh
<1>6. Append(answers[h], "BAD") \in Seq(Statuses) /\ Len(Append(answers[h], "BAD")) = 1
  BY <1>5 DEF Untouched, Statuses
<1>7. Types'
  BY Zenon, <1>1, <1>2, <1>4, <1>6 DEF Types
<1>8. Fresh'
  <2>1. \A t \in Tags : t > sent' \/ Unread(t)' => (t > sent \/ Unread(t)) /\ t # h
    BY <1>1, <1>2, <1>4 DEF Types, Tags
  <2> QED
    BY Zenon, <1>1, <1>4, <2>1 DEF Fresh, Untouched, Types
<1>9. Waits'
  BY Zenon, <1>1, <1>4 DEF Waits
<1>10. \A t \in Tags \ late' : Story(t)'
  <2>1. \A t \in Tags : t # h => answers'[t] = answers[t] /\ (t \in over' <=> t \in over)
    BY Zenon, <1>4 DEF Types
  <2>2. \A t \in Tags \ late : t # h => Story(t)'
    BY Zenon, <1>1, <2>1 DEF Story
  <2>3. answers'[h] # <<>> /\ Len(answers'[h]) = 1
    BY <1>4, <1>6 DEF Types
  <2>4. Story(h)'
    BY <1>1, <1>5, <2>3 DEF Story, Untouched
  <2> QED
    BY Zenon, <1>1, <2>2, <2>4
<1> QED
  BY Zenon, <1>2, <1>7, <1>8, <1>9, <1>10

\* A command whose handler is called was not touched before.
LEMMA DispatchStep ==
    ASSUME AnswerInv, Dispatch
    PROVE  AnswerInv'
<1> USE DEF AnswerInv
<1>1. /\ main = "read" /\ input # <<>> /\ Head(input).kind = "command"
      /\ input' = Tail(input) /\ main' = "wait"
      /\ UNCHANGED <<sent, cmd, over, late, ret, answers>>
  BY Zenon DEF Dispatch, Reads, answerVars
<1>2. /\ Lines' /\ input' \in Seq(Items)
      /\ \A t \in Tags : Unread(t)' => Unread(t)
      /\ Head(input).tag \in Tags /\ Head(input).tag <= sent
      /\ \A t \in Tags : t = Head(input).tag => Unread(t) /\ ~Unread(t)'
  BY Zenon, <1>1, TailLines
<1>3. PICK h \in Tags : h = Head(input).tag
  BY Zenon, <1>2
<1>4. /\ Unread(h) /\ ~Unread(h)' /\ h <= sent
      /\ cur' = h /\ at' = [at EXCEPT ![h] = 1] /\ Program(cmd[h]) # <<>>
  BY Zenon, <1>2, <1>3 DEF Dispatch, Admitted, Handled
<1>5. Untouched(h)
  BY Zenon, <1>4 DEF Fresh
<1>6. h \in 0..MaxCommands
  BY ServerConnAssumption DEF Tags
<1>7. Types'
  BY Zenon, <1>1, <1>2, <1>4, <1>6 DEF Types
<1>8. Fresh'
  <2>1. \A t \in Tags : t > sent' \/ Unread(t)' => (t > sent \/ Unread(t)) /\ t # h
    BY <1>1, <1>2, <1>4 DEF Types, Tags
  <2> QED
    BY Zenon, <1>1, <1>4, <2>1 DEF Fresh, Untouched, Types
<1>9. \A t \in Tags : t # h => at'[t] = at[t]
  BY Zenon, <1>4 DEF Types
<1>10. Waits'
  <2>1. cur = 0
    BY Zenon, <1>1 DEF Waits
  <2>2. \A t \in Tags : t # 0
    BY ServerConnAssumption DEF Tags
  <2> QED
    BY Zenon, <1>1, <1>4, <1>5, <1>9, <2>1, <2>2 DEF Waits, Untouched
<1>11. \A t \in Tags \ late' : Story(t)'
  <2>1. \A t \in Tags \ late : t # h => Story(t)'
    BY Zenon, <1>1, <1>9 DEF Story
  <2>2. Program(cmd[h]) \in Seq(Steps) /\ Len(Program(cmd[h])) >= 1
    BY <1>4, OkIsLast
  <2>3. at'[h] = 1
    BY Zenon, <1>4 DEF Types
  <2>4. Story(h)'
    BY <1>1, <1>5, <2>2, <2>3 DEF Story, Untouched
  <2> QED
    BY Zenon, <1>1, <2>1, <2>4
<1> QED
  BY Zenon, <1>2, <1>7, <1>8, <1>10, <1>11

\* The connection's goroutine is done with a handler that has returned, and may
\* have answered for it.
LEMMA FinishStep ==
    ASSUME AnswerInv, Finish \/ FinishBye
    PROVE  AnswerInv'
<1> USE DEF AnswerInv
<1>1. /\ main = "wait" /\ ret[cur] \in {"nil", "NO", "BAD", "BYE"}
      /\ main' \in {"read", "ended"} /\ cur' = 0
      /\ UNCHANGED <<input, sent, cmd, late, at>>
  BY Zenon DEF Finish, FinishBye, Again, clientVars
<1>2. PICK c \in Tags : c = cur
  BY Zenon, <1>1 DEF Waits
<1>3. /\ c \notin over /\ c \notin late /\ at[c] = 0
      /\ ret' = [ret EXCEPT ![c] = "none"]
  BY Zenon, <1>1, <1>2 DEF Waits, Finish, FinishBye
<1>4. Story(c) /\ answers[c] \in Seq(Statuses)
  BY Zenon, <1>3 DEF Types
<1>5. \/ over' = over \cup {c} /\ ret[c] = "nil" /\ answers' = answers
      \/ over' = over /\ ret[c] = "BYE" /\ answers' = answers
      \/ \E r \in {"NO", "BAD"} :
            /\ over' = over \cup {c} /\ ret[c] = r
            /\ answers' = [answers EXCEPT ![c] = Append(answers[c], r)]
  BY Zenon, <1>1, <1>2 DEF Finish, FinishBye, Answer, answerVars
<1>6. /\ answers' \in [Tags -> Seq(Statuses)]
      /\ \A t \in Tags : t # c => answers'[t] = answers[t] /\ (t \in over' <=> t \in over)
      /\ over' \subseteq Tags /\ over \subseteq over'
  <2>1. /\ answers \in [Tags -> Seq(Statuses)] /\ over \subseteq Tags
        /\ \A r \in {"NO", "BAD"} : Append(answers[c], r) \in Seq(Statuses)
    BY <1>4 DEF Types, Statuses
  <2> QED
    BY Zenon, <1>5, <2>1
<1>7. \A t \in Tags : t # c => ret'[t] = ret[t]
  BY Zenon, <1>3 DEF Types
<1>8. Types'
  <2>1. 0 \in 0..MaxCommands
    BY ServerConnAssumption
  <2>2. ret' \in [Tags -> Results]
    BY Zenon, <1>3 DEF Types, Results
  <2> QED
    BY Zenon, <1>1, <1>6, <2>1, <2>2 DEF Types
<1>9. Lines' /\ \A t \in Tags : Unread(t)' <=> Unread(t)
  BY Zenon, <1>1 DEF Lines, Unread
<1>10. \A t \in Tags : t # 0
  BY ServerConnAssumption DEF Tags
<1>11. Fresh'
  <2>1. \A t \in Tags : t > sent' \/ Unread(t)' => Untouched(t) /\ t # c
    BY Zenon, <1>1, <1>2, <1>9 DEF Fresh, Untouched
  <2> QED
    BY Zenon, <1>1, <1>6, <1>7, <1>10, <2>1 DEF Fresh, Untouched
<1>12. Waits'
  BY Zenon, <1>1, <1>2, <1>3, <1>6, <1>7 DEF Waits
<1>13. Story(c)'
  <2>1. ret'[c] = "none" /\ at'[c] = 0
    BY Zenon, <1>1, <1>3 DEF Types
  <2>2. CASE answers' = answers /\ (over' = over \/ ret[c] = "nil")
    BY Zenon, <1>1, <1>3, <1>4, <2>1, <2>2 DEF Story
  <2>3. ASSUME NEW r \in {"NO", "BAD"}, ret[c] = r,
               answers' = [answers EXCEPT ![c] = Append(answers[c], r)]
        PROVE  Story(c)'
    <3>1. answers'[c] # <<>> /\ (answers[c] = <<>> => Len(answers'[c]) <= 1)
      <4>1. answers'[c] = Append(answers[c], r)
        BY Zenon, <2>3 DEF Types
      <4>2. r \in Statuses
        BY Zenon DEF Statuses
      <4> QED
        BY Zenon, <1>4, <4>1, <4>2, AnswerAppended
    <3>2. cmd[c] # "STARTTLS" => answers[c] = <<>>
      BY Zenon, <1>4, <2>3 DEF Story
    <3>3. cmd[c] # "STARTTLS" => Len(answers'[c]) <= 1
      BY <3>1, <3>2, Zenon
    <3> HIDE DEF AnswerInv
    <3> QED
      BY Zenon, <1>1, <2>1, <3>1, <3>3 DEF Story
  <2> QED
    BY Zenon, <1>5, <2>2, <2>3
<1>14. \A t \in Tags \ late' : t # c => Story(t)'
  BY Zenon, <1>1, <1>6, <1>7 DEF Story
<1> QED
  BY Zenon, <1>8, <1>9, <1>11, <1>12, <1>13, <1>14

\* Timeout answers for a handler, which joins late.
LEMMA TimesOutStep ==
    ASSUME AnswerInv, TimesOut
    PROVE  AnswerInv'
<1> USE DEF AnswerInv
<1>1. /\ main = "wait" /\ main' \in {"read", "ended"} /\ cur' = 0
      /\ UNCHANGED <<input, sent, cmd, at, ret>>
  BY Zenon DEF TimesOut, Again, clientVars, handlerVars
<1>2. PICK c \in Tags : c = cur
  BY Zenon, <1>1 DEF Waits
<1>3. /\ over' = over \cup {c} /\ late' = late \cup {c}
      /\ answers' = [answers EXCEPT ![c] = Append(@, "NO")]
  BY Zenon, <1>1, <1>2 DEF TimesOut, Answer
<1>4. Append(answers[c], "NO") \in Seq(Statuses)
  BY DEF Types, Statuses
<1>5. Types'
  BY <1>1, <1>3, <1>4, ServerConnAssumption DEF Types
<1>6. \A t \in Tags : t # c => answers'[t] = answers[t]
  BY Zenon, <1>3 DEF Types
<1>7. Lines' /\ \A t \in Tags : Unread(t)' <=> Unread(t)
  BY Zenon, <1>1 DEF Lines, Unread
<1>8. Fresh'
  <2>1. \A t \in Tags : t > sent' \/ Unread(t)' => Untouched(t) /\ t # c
    BY Zenon, <1>1, <1>2, <1>7 DEF Fresh, Untouched
  <2>2. \A t \in Tags : t # 0
    BY ServerConnAssumption DEF Tags
  <2> QED
    BY Zenon, <1>1, <1>3, <1>6, <2>1, <2>2 DEF Fresh, Untouched
<1>9. Waits'
  BY ZenonT(30), <1>1, <1>2, <1>3 DEF Waits
<1>10. \A t \in Tags \ late' : Story(t)'
  BY Zenon, <1>1, <1>3, <1>6 DEF Story
<1> QED
  BY Zenon, <1>5, <1>7, <1>8, <1>9, <1>10

\* A step of a handler: if it was not given up, it is the one that is waited for.
LEMMA HandlerStep ==
    ASSUME AnswerInv, NEW h \in Tags, HandlerShape(h)
    PROVE  AnswerInv'
<1> USE DEF AnswerInv
<1>1. /\ UNCHANGED <<sent, cmd, main, cur, over, late>>
      /\ input' = input \/ (input # <<>> /\ input' = Tail(input))
  BY Zenon DEF HandlerShape, loopVars
<1>2. CASE at' = at /\ ret' = ret /\ answers' = answers
  BY Zenon, <1>1, <1>2, QuietStep
<1>3. CASE Goes(h) \/ Stops(h) \/ Ends(h) \/ Says(h)
  <2> DEFINE P == Program(cmd[h])
  <2>1. /\ P \in Seq(Steps) /\ Len(P) \in Nat /\ DOMAIN P = 1..Len(P)
        /\ cmd[h] # "STARTTLS" => \A i \in DOMAIN P : P[i] = "ok" <=> i = Len(P)
        /\ cmd[h] = "STARTTLS" => Len(P) = 3 /\ P[1] # "ok" /\ P[2] = "ok" /\ P[3] # "ok"
    BY OkIsLast
  <2>2. at[h] \in Nat \ {0}
    <3>1. at[h] \in Nat
      BY Zenon DEF Types
    <3>2. at[h] \in DOMAIN P \/ at[h] > Len(P)
      BY Zenon, <1>3 DEF Goes, Stops, Ends, Says
    <3> QED
      BY <2>1, <3>1, <3>2
  <2>3. h \in late \/ (cur = h /\ main = "wait" /\ h \notin over)
    <3>1. h # 0
      BY ServerConnAssumption DEF Tags
    <3> QED
      BY Zenon, <2>2, <3>1 DEF Waits
  <2>4. \A t \in Tags : t # h => at'[t] = at[t] /\ ret'[t] = ret[t] /\ answers'[t] = answers[t]
    BY Zenon, <1>3 DEF Goes, Stops, Ends, Says, Types, Answer, answerVars
  <2>5. at' \in [Tags -> Nat] /\ ret' \in [Tags -> Results]
    <3>1. at' = [at EXCEPT ![h] = at[h] + 1] \/ at' = [at EXCEPT ![h] = 0]
      BY Zenon, <1>3 DEF Goes, Stops, Ends, Says
    <3>2. ret' = ret \/ \E r \in Results : ret' = [ret EXCEPT ![h] = r]
      BY Zenon, <1>3 DEF Goes, Stops, Ends, Says, Results
    <3>3. at' \in [Tags -> Nat]
      <4>1. at[h] + 1 \in Nat /\ 0 \in Nat /\ at \in [Tags -> Nat]
        BY <2>2 DEF Types
      <4> QED
        BY Zenon, <3>1, <4>1
    <3>4. ret' \in [Tags -> Results]
      BY Zenon, <3>2 DEF Types
    <3> QED
      BY Zenon, <3>3, <3>4
  <2>6. answers' \in [Tags -> Seq(Statuses)]
    <3>1. answers' = answers \/ answers' = [answers EXCEPT ![h] = Append(answers[h], "OK")]
      BY Zenon, <1>3 DEF Goes, Stops, Ends, Says, Answer, answerVars
    <3>2. Append(answers[h], "OK") \in Seq(Statuses)
      BY DEF Types, Statuses
    <3> QED
      BY Zenon, <3>1, <3>2 DEF Types
  <2>7. /\ Lines' /\ input' \in Seq(Items)
        /\ \A t \in Tags : Unread(t)' => Unread(t)
    <3>1. CASE input' = input
      BY SMTT(20), <1>1, <3>1 DEF Lines, Unread, Types
    <3>2. CASE input # <<>> /\ input' = Tail(input)
      BY Zenon, <1>1, <3>2, TailLines
    <3> QED
      BY Zenon, <1>1, <3>1, <3>2
  <2>8. Types'
    BY Zenon, <1>1, <2>5, <2>6, <2>7 DEF Types
  <2>9. Fresh'
    BY Zenon, <1>1, <2>2, <2>4, <2>7 DEF Fresh, Untouched
  <2>10. at'[h] # 0 => at'[h] = at[h] + 1 /\ ret'[h] \in {"none", "idle error", "loops"}
    BY ZenonT(30), <1>3, <2>2 DEF Goes, Stops, Ends, Says, Types, Waits
  <2>11. Waits'
    BY Zenon, <1>1, <2>2, <2>4, <2>10 DEF Waits
  <2>12. ASSUME h \notin late PROVE Story(h)'
    <3>1. /\ Story(h) /\ answers[h] \in Seq(Statuses) /\ ret[h] \in {"none", "idle error", "loops"}
          /\ h \notin over' /\ cmd' = cmd
      BY ZenonT(30), <1>1, <2>2, <2>3, <2>12 DEF Types, Waits
    <3>2. /\ cmd[h] # "STARTTLS" =>
                /\ Len(answers[h]) <= 1 /\ at[h] <= Len(P) + 1
                /\ at[h] <= Len(P) => answers[h] = <<>>
                /\ at[h] > Len(P) => answers[h] # <<>>
          /\ cmd[h] = "STARTTLS" => (at[h] > 2 => answers[h] # <<>>)
      BY ZenonT(30), <2>2, <3>1 DEF Story
    <3>nat. Len(P) \in Nat /\ at[h] \in Nat
      BY Zenon, <2>1, <2>2
    <3> HIDE DEF AnswerInv, P
    <3>3. CASE Goes(h)
      <4>1. /\ at[h] \in 1..Len(P) /\ P[at[h]] # "ok" /\ at'[h] = at[h] + 1
            /\ answers' = answers /\ ret'[h] \in {"none", "idle error", "loops"}
        BY Zenon, <2>1, <3>1, <3>3 DEF Goes, Types, AnswerInv, P
      <4>next. at[h] <= Len(P) /\ at'[h] = at[h] + 1 /\ answers'[h] = answers[h]
        <5>1. at[h] \in 1..Len(P)
          BY Zenon, <4>1
        <5>2. at[h] <= Len(P)
          BY <3>nat, <5>1
        <5> QED
          BY Zenon, <4>1, <5>2
      <4>2. /\ cmd[h] # "STARTTLS" => at[h] + 1 <= Len(P)
            /\ cmd[h] = "STARTTLS" => (at[h] + 1 > 2 => at[h] > 2)
        <5>1. cmd[h] # "STARTTLS" => at[h] # Len(P)
          BY Zenon, <2>1, <4>1
        <5>2. cmd[h] = "STARTTLS" => at[h] # 2
          BY Zenon, <2>1, <4>1
        <5> QED
          BY <3>nat, <4>next, <5>1, <5>2
      <4>3. cmd[h] # "STARTTLS" =>
                /\ answers'[h] = <<>> /\ Len(answers'[h]) <= 1
                /\ at'[h] <= Len(P) /\ at'[h] <= Len(P) + 1 /\ ~(at'[h] > Len(P))
        <5>1. cmd[h] # "STARTTLS" =>
                 at[h] + 1 <= Len(P) /\ at[h] <= Len(P) /\ at[h] + 1 <= Len(P) + 1
          BY <3>nat, <4>2
        <5>2. cmd[h] # "STARTTLS" => answers[h] = <<>> /\ Len(answers[h]) <= 1
          BY <3>2, <5>1, Zenon
        <5> QED
          BY <3>nat, <4>next, <5>1, <5>2
      <4>4. cmd[h] = "STARTTLS" => (at'[h] > 2 => answers'[h] # <<>>)
        BY Zenon, <3>2, <4>1, <4>2
      <4> QED
        BY Zenon, <3>1, <4>1, <4>3, <4>4 DEF Story, P
    <3>4. CASE Stops(h)
      <4>1. /\ at[h] \in 1..Len(P) /\ at'[h] = 0
            /\ answers' = answers /\ ret'[h] \in {"NO", "BAD", "BYE"}
        BY Zenon, <2>1, <3>4 DEF Stops, Types, AnswerInv, P
      <4>2. cmd[h] # "STARTTLS" => answers[h] = <<>>
        BY <2>1, <3>2, <4>1
      <4> QED
        BY Zenon, <3>1, <3>2, <4>1, <4>2 DEF Story
    <3>5. CASE Ends(h)
      <4>1. /\ at[h] > Len(P) /\ at'[h] = 0 /\ answers' = answers /\ ret'[h] = "nil"
        BY Zenon, <3>5 DEF Ends, Types, AnswerInv, P
      <4>2. answers[h] # <<>>
        BY <2>1, <2>2, <3>2, <4>1
      <4> QED
        BY Zenon, <3>1, <3>2, <4>1, <4>2 DEF Story
    <3>6. CASE Says(h)
      <4>1. /\ at[h] \in 1..Len(P) /\ P[at[h]] = "ok" /\ at'[h] = at[h] + 1 /\ ret' = ret
            /\ answers' = [answers EXCEPT ![h] = Append(answers[h], "OK")]
        BY Zenon, <2>1, <2>3, <2>12, <3>6 DEF Says, Types, Answer, AnswerInv, P
      <4>2. answers'[h] = Append(answers[h], "OK")
        BY Zenon, <4>1 DEF Types, AnswerInv
      <4>3. /\ answers'[h] # <<>>
            /\ answers[h] = <<>> => Len(answers'[h]) <= 1
        BY Zenon, <3>1, <4>2, AnswerAppended DEF Statuses
      <4>4. cmd[h] # "STARTTLS" =>
                /\ Len(answers'[h]) <= 1 /\ at'[h] <= Len(P) + 1
                /\ ~(at'[h] <= Len(P))
        <5>1. cmd[h] # "STARTTLS" => at[h] = Len(P)
          BY Zenon, <2>1, <4>1
        <5>2. cmd[h] # "STARTTLS" => answers[h] = <<>>
          BY <2>1, <3>2, <5>1
        <5>3. cmd[h] # "STARTTLS" => Len(answers'[h]) <= 1
          BY <4>3, <5>2, Zenon
        <5> QED
          BY <2>1, <4>1, <5>1, <5>3
      <4>5. ret'[h] \in {"none", "idle error", "loops"}
        BY Zenon, <3>1, <4>1
      <4> QED
        BY Zenon, <3>1, <4>3, <4>4, <4>5 DEF Story, P
    <3> QED
      BY Zenon, <1>3, <3>3, <3>4, <3>5, <3>6
  <2>13. \A t \in Tags \ late' : t # h => Story(t)'
    BY Zenon, <1>1, <2>4 DEF Story
  <2> QED
    BY Zenon, <1>1, <2>7, <2>8, <2>9, <2>11, <2>12, <2>13
<1>4. CASE Loops(h)
  <2>1. /\ at' = at /\ answers' = answers /\ at[h] # 0
        /\ ret' = [ret EXCEPT ![h] = "loops"]
    <3>1. Program(cmd[h]) \in Seq(Steps)
      BY Zenon, OkIsLast
    <3>2. at[h] # 0
      BY Zenon, <1>4, <3>1, PastTheStart DEF Loops
    <3> QED
      BY Zenon, <1>4, <3>2 DEF Loops
  <2>2. /\ ret' \in [Tags -> Results] /\ ret'[h] = "loops"
        /\ \A t \in Tags : t # h => ret'[t] = ret[t]
    BY Zenon, <2>1 DEF Types, Results
  <2>3. /\ Lines' /\ input' \in Seq(Items)
        /\ \A t \in Tags : Unread(t)' => Unread(t)
    <3>1. CASE input' = input
      BY SMTT(20), <1>1, <3>1 DEF Lines, Unread, Types
    <3>2. CASE input # <<>> /\ input' = Tail(input)
      BY Zenon, <1>1, <3>2, TailLines
    <3> QED
      BY Zenon, <1>1, <3>1, <3>2
  <2>4. Types'
    BY Zenon, <1>1, <2>1, <2>2, <2>3 DEF Types
  <2>5. Fresh'
    BY Zenon, <1>1, <2>1, <2>2, <2>3 DEF Fresh, Untouched
  <2>6. Waits'
    BY Zenon, <1>1, <2>1, <2>2 DEF Waits
  <2>7. \A t \in Tags \ late' : Story(t)'
    BY Zenon, <1>1, <2>1, <2>2 DEF Story
  <2> QED
    BY Zenon, <2>3, <2>4, <2>5, <2>6, <2>7
<1> QED
  BY Zenon, <1>2, <1>3, <1>4 DEF HandlerShape

\* Every step keeps the invariant.
LEMMA AnswerStep ==
    AnswerInv /\ [Next]_vars => AnswerInv'
<1> SUFFICES ASSUME AnswerInv, [Next]_vars PROVE AnswerInv'
  BY Zenon
<1> USE DEF clientVars, loopVars, handlerVars, answerVars
<1>1. CASE \E c \in Commands : Send(c)
  BY Zenon, <1>1, SendStep
<1>2. CASE SendDone
  BY Zenon, <1>2, SendDoneStep
<1>3. CASE HangUp
  BY Zenon, <1>3, QuietStep DEF HangUp
<1>4. CASE ReadGarbage
  BY Zenon, <1>4, QuietStep DEF ReadGarbage, Reads, Again
<1>5. CASE Reject
  BY Zenon, <1>5, RejectStep
<1>6. CASE Dispatch
  BY Zenon, <1>6, DispatchStep
<1>7. CASE Finish \/ FinishBye
  BY Zenon, <1>7, FinishStep
<1>8. CASE TimesOut
  BY Zenon, <1>8, TimesOutStep
<1>9. CASE ReadError
  BY Zenon, <1>9, QuietStep DEF ReadError
<1>10. CASE \E t \in Tags : Handler(t)
  BY Zenon, <1>10, HandlerSteps, HandlerStep
<1>11. CASE \E t \in Tags : ReadDone(t)
  BY Zenon, <1>11, QuietStep DEF ReadDone
<1>12. CASE UNCHANGED vars
  BY Zenon, <1>12, QuietStep DEF vars
<1> QED
  BY Zenon, <1>1, <1>2, <1>3, <1>4, <1>5, <1>6, <1>7, <1>8, <1>9, <1>10, <1>11, <1>12 DEF Next, Loop, Serving

\* Whatever the commands, the middlewares and the bounds, every command that
\* dispatch is done with has one tagged response and none has two, but for the
\* handlers that Timeout gave up and for STARTTLS (AnsweredOnce).
THEOREM AnswersOnce == Spec => []AnsweredOnce
<1>1. AnswerInv => AnsweredOnce
  BY Zenon DEF AnswerInv, AnsweredOnce, Story
<1> QED
  BY <1>1, AnswerInit, AnswerStep, PTL DEF Spec

-----------------------------------------------------------------------------
(* ActiveCommands is exact *)

Counted == MetricsInside /\ ~SkipsMetrics

\* The middlewares never change.
LEMMA ChainConstant ==
    ASSUME [Next]_vars
    PROVE  chain' = chain
<1> USE DEF clientVars, loopVars, handlerVars, connVars, processVars, answerVars
<1>1. CASE \E c \in Commands : Send(c)
  BY Zenon, <1>1 DEF Send
<1>2. CASE SendDone \/ HangUp
  BY Zenon, <1>2 DEF SendDone, HangUp
<1>3. CASE ReadGarbage \/ Reject \/ Dispatch
  BY Zenon, <1>3 DEF ReadGarbage, Reject, Dispatch
<1>4. CASE Finish \/ FinishBye \/ TimesOut \/ ReadError
  BY Zenon, <1>4 DEF Finish, FinishBye, TimesOut, ReadError
<1>5. CASE \E t \in Tags : ReadDone(t)
  BY Zenon, <1>5 DEF ReadDone
<1>6. ASSUME NEW t \in Tags, Handler(t)
      PROVE  chain' = chain
  <2> USE DEF Continue, Return
  <2>1. CASE EndOfHandler(t) \/ Checks(t) \/ ReadItems(t) \/ CallSession(t) \/ CallAppend(t)
    BY Zenon, <2>1 DEF EndOfHandler, Checks, ReadItems, CallSession, CallAppend
  <2>2. CASE Panic(t)
    BY Zenon, <2>2 DEF Panic
  <2>3. CASE SetState(t) \/ SetConn(t) \/ WriteOK(t) \/ Handshake(t)
    BY Zenon, <2>3 DEF SetState, SetConn, WriteOK, Handshake
  <2>4. CASE StartIdle(t) \/ LoopInItems(t) \/ CallIdle(t) \/ IdleFails(t) \/ AwaitReader(t)
    BY Zenon, <2>4 DEF StartIdle, LoopInItems, CallIdle, IdleFails, AwaitReader
  <2> QED
    BY SMTT(20), <1>6, <2>1, <2>2, <2>3, <2>4 DEF Handler, Steady
<1>7. CASE UNCHANGED vars
  BY Zenon, <1>7 DEF vars
<1> QED
  BY SMTT(20), <1>1, <1>2, <1>3, <1>4, <1>5, <1>6, <1>7 DEF Next, Loop, Serving

\* What a step does to the handlers that run and to their number.
Same == active' = active /\ Executing' = Executing
Starts == \E h \in Tags \ Executing : Executing' = Executing \cup {h} /\ active' = active + 1
Leaves == \E h \in Executing : Executing' = Executing \ {h} /\ active' = active - 1

\* A step of one handler: it goes on, or leaves.
LEMMA OneHandler ==
    ASSUME at \in [Tags -> Nat], NEW h \in Tags, at[h] # 0,
           \/ at' = [at EXCEPT ![h] = @ + 1] /\ active' = active
           \/ at' = [at EXCEPT ![h] = 0] /\ active' = active - 1
    PROVE  Same \/ Leaves
<1>1. h \in Executing /\ \A t \in Tags : t # h => at'[t] = at[t]
  BY Zenon DEF Executing
<1>2. CASE at' = [at EXCEPT ![h] = @ + 1] /\ active' = active
  <2>1. at'[h] # 0
    BY <1>2
  <2> QED
    BY Zenon, <1>1, <1>2, <2>1 DEF Same, Executing
<1>3. CASE at' = [at EXCEPT ![h] = 0] /\ active' = active - 1
  <2>1. at'[h] = 0
    BY Zenon, <1>3
  <2>2. Executing' = Executing \ {h}
    BY Zenon, <1>1, <2>1 DEF Executing
  <2> QED
    BY Zenon, <1>1, <1>3, <2>2 DEF Leaves
<1> QED
  BY Zenon, <1>2, <1>3

\* Handlers start in Dispatch and leave where they return or panic, and the
\* metrics count both.
LEMMA ActiveSteps ==
    ASSUME AnswerInv, Counted, ~crashed', [Next]_vars
    PROVE  ~crashed /\ chain' = chain /\ (Same \/ Starts \/ Leaves)
<1> USE DEF clientVars, loopVars, handlerVars, connVars, processVars, answerVars
<1>1. at \in [Tags -> Nat]
  BY Zenon DEF AnswerInv, Types
<1>2. CASE \E c \in Commands : Send(c)
  BY Zenon, <1>2 DEF Send, Same, Executing
<1>3. CASE SendDone \/ HangUp
  BY Zenon, <1>3 DEF SendDone, HangUp, Same, Executing
<1>4. CASE ReadGarbage \/ Reject \/ ReadError
  BY Zenon, <1>4 DEF ReadGarbage, Reject, ReadError, Reads, Same, Executing
<1>5. CASE Dispatch
  <2>1. /\ ~crashed /\ chain' = chain /\ input # <<>> /\ input' = Tail(input) /\ sent' = sent
        /\ Head(input).kind = "command" /\ active' = active + 1
    BY ZenonT(30), <1>5 DEF Dispatch, Reads, EnterMetrics, Counted, MetricsInside
  <2>2. PICK h \in Tags : h = Head(input).tag /\ Unread(h)
    BY SMTT(20), <2>1, TailLines DEF AnswerInv
  <2>3. at[h] = 0 /\ at' = [at EXCEPT ![h] = 1]
    BY Zenon, <1>5, <2>2 DEF AnswerInv, Fresh, Untouched, Dispatch
  <2>4. h \notin Executing /\ Executing' = Executing \cup {h}
    BY <1>1, <2>3 DEF Executing
  <2> QED
    BY Zenon, <2>1, <2>4 DEF Starts
<1>6. CASE Finish \/ FinishBye \/ TimesOut
  BY Zenon, <1>6 DEF Finish, FinishBye, TimesOut, LeaveMetricsOutside, Counted, Same, Executing
<1>7. CASE \E t \in Tags : ReadDone(t)
  BY Zenon, <1>7 DEF ReadDone, Same, Executing
<1>8. ASSUME NEW h \in Tags, Handler(h)
      PROVE  ~crashed /\ chain' = chain /\ (Same \/ Leaves)
  <2>1. /\ ~crashed /\ chain' = chain
        /\ \/ at' = [at EXCEPT ![h] = @ + 1] /\ active' = active
           \/ at' = [at EXCEPT ![h] = 0] /\ active' = active - 1
           \/ at' = at /\ active' = active
    <3> USE DEF Continue, Return, LeaveMetricsInside, At, Counted
    <3>1. CASE EndOfHandler(h) \/ Checks(h) \/ ReadItems(h) \/ CallSession(h) \/ CallAppend(h)
      BY Zenon, <1>8, <3>1 DEF EndOfHandler, Checks, ReadItems, CallSession, CallAppend
    <3>2. CASE Panic(h)
      BY Zenon, <1>8, <3>2 DEF Panic, InSession
    <3>3. CASE SetState(h) \/ SetConn(h) \/ WriteOK(h) \/ Handshake(h)
      BY Zenon, <1>8, <3>3 DEF SetState, SetConn, WriteOK, Handshake
    <3>4. CASE StartIdle(h) \/ LoopInItems(h) \/ CallIdle(h) \/ IdleFails(h) \/ AwaitReader(h)
      BY Zenon, <1>8, <3>4 DEF StartIdle, LoopInItems, CallIdle, IdleFails, AwaitReader
    <3> QED
      BY SMTT(20), <1>8, <3>1, <3>2, <3>3, <3>4 DEF Handler, Steady
  <2>2. at[h] # 0
    <3>1. Program(cmd[h]) \in Seq(Steps)
      BY Zenon, OkIsLast
    <3>2. at[h] \in DOMAIN Program(cmd[h]) \/ at[h] > Len(Program(cmd[h]))
      BY Zenon, <1>8 DEF Handler, Steady, EndOfHandler, Checks, ReadItems, LoopInItems,
                  CallSession, CallAppend, Panic, InSession, SetState, SetConn, WriteOK,
                  Handshake, StartIdle, CallIdle, IdleFails, AwaitReader, At
    <3> QED
      BY Zenon, PastTheStart, <3>1, <3>2
  <2>3. at' = at /\ active' = active => Same
    BY Zenon DEF Same, Executing
  <2> QED
    BY Zenon, <1>1, <2>1, <2>2, <2>3, OneHandler
<1>9. CASE UNCHANGED vars
  BY Zenon, <1>9 DEF vars, Same, Executing
<1> QED
  BY Zenon, <1>2, <1>3, <1>4, <1>5, <1>6, <1>7, <1>8, <1>9 DEF Next, Loop, Serving

\* Whatever the commands and the bounds, Metrics.ActiveCommands is the number of
\* handlers that run, those that Timeout gave up included, in every chain in which
\* the metrics are not outside Timeout and not inside Recovery (ActiveIsExact).
THEOREM ActiveExact == Spec => []ActiveIsExact
<1>1. Init => ActiveIsExact
  <2> SUFFICES ASSUME Init PROVE active = Cardinality(Executing)
    BY Zenon DEF ActiveIsExact
  <2>1. Executing = {} /\ active = 0
    BY Zenon DEF Init, Executing
  <2> QED
    BY Zenon, <2>1, FS_EmptySet
<1>2. AnswerInv /\ ActiveIsExact /\ [Next]_vars => ActiveIsExact'
  <2> SUFFICES ASSUME AnswerInv, ActiveIsExact, [Next]_vars, Counted', ~crashed'
               PROVE  active' = Cardinality(Executing')
    BY Zenon DEF ActiveIsExact, Counted
  <2>1. chain' = chain
    BY Zenon, ChainConstant
  <2>2. Counted
    BY Zenon, <2>1 DEF Counted, MetricsInside, SkipsMetrics, Has, Outside, Index
  <2>3. ~crashed /\ (Same \/ Starts \/ Leaves)
    BY Zenon, <2>2, ActiveSteps
  <2>4. active = Cardinality(Executing)
    BY Zenon, <2>2, <2>3 DEF ActiveIsExact, Counted
  <2>5. IsFiniteSet(Executing)
    <3>1. IsFiniteSet(Tags)
      BY FS_Interval, ServerConnAssumption DEF Tags
    <3> QED
      BY Zenon, <3>1, FS_Subset DEF Executing
  <2>6. CASE Same
    BY Zenon, <2>4, <2>6 DEF Same
  <2>7. CASE Starts
    BY Zenon, <2>4, <2>5, <2>7, FS_AddElement DEF Starts
  <2>8. CASE Leaves
    BY Zenon, <2>4, <2>5, <2>8, FS_RemoveElement DEF Leaves
  <2> QED
    BY Zenon, <2>3, <2>6, <2>7, <2>8
<1> QED
  BY <1>1, <1>2, AnswerInit, AnswerStep, PTL DEF Spec
-----------------------------------------------------------------------------
(* Types *)

LEMMA ProgramsAreShort ==
    ASSUME NEW c
    PROVE  Len(Program(c)) \in 0..5 /\ DOMAIN Program(c) = 1..Len(Program(c))
<1>1. Program(c) \in {<<>>, <<"ok">>, <<"logout", "ok">>, <<"args", "session", "ok">>,
                      <<"items", "session", "ok">>,
                      <<"args", "enable", "ok">>, <<"args", "append", "ok">>,
                      <<"plaintext", "ok", "handshake">>,
                      <<"idling", "idle", "done", "ok">>,
                      <<"session", "unname", "authenticated", "ok">>,
                      <<"secure", "args", "session", "authenticated", "ok">>,
                      <<"args", "session", "name", "selected", "ok">>,
                      <<"expunge", "session", "unname", "authenticated", "ok">>}
  BY Zenon DEF Program, Capability, Noop, Logout, StartTLS, Login, Enable, Select, Create,
         Delete, Rename, Subscribe, Unsubscribe, List, Lsub, Status, AppendMessage, Idle,
         Close, Unselect, Expunge, Search, Fetch, Store, Copy
<1> QED
  BY <1>1

\* A handler is never behind the end of its steps.
InProgram == at \in [Tags -> 0..6]

LEMMA InProgramStep ==
    AnswerInv /\ InProgram /\ [Next]_vars => InProgram'
<1> SUFFICES ASSUME AnswerInv, InProgram, [Next]_vars PROVE InProgram'
  BY Zenon
<1> USE DEF InProgram, clientVars, loopVars, handlerVars
<1>1. CASE \E c \in Commands : Send(c)
  BY Zenon, <1>1 DEF Send
<1>2. CASE SendDone \/ HangUp \/ ReadGarbage \/ Reject \/ ReadError
  BY Zenon, <1>2 DEF SendDone, HangUp, ReadGarbage, Reject, ReadError
<1>3. CASE Dispatch
  <2>1. PICK t : at' = [at EXCEPT ![t] = 1]
    BY Zenon, <1>3 DEF Dispatch
  <2>2. 1 \in 0..6
    OBVIOUS
  <2> QED
    BY Zenon, <2>1, <2>2
<1>4. CASE Finish \/ FinishBye \/ TimesOut
  BY Zenon, <1>4 DEF Finish, FinishBye, TimesOut
<1>5. CASE \E t \in Tags : ReadDone(t)
  BY Zenon, <1>5 DEF ReadDone
<1>6. ASSUME NEW t \in Tags, Handler(t)
      PROVE  InProgram'
  <2>1. Len(Program(cmd[t])) \in 0..5 /\ DOMAIN Program(cmd[t]) = 1..Len(Program(cmd[t]))
    BY Zenon, ProgramsAreShort
  <2>2. \/ at[t] \in DOMAIN Program(cmd[t]) /\ at' = [at EXCEPT ![t] = @ + 1]
        \/ at' = [at EXCEPT ![t] = 0] \/ at' = at
    BY Zenon, <1>6, HandlerSteps DEF HandlerShape, Goes, Stops, Ends, Says, Loops
  <2>3. PICK n \in 0..6 : at' = [at EXCEPT ![t] = n] \/ at' = at
    <3>1. ASSUME at[t] \in DOMAIN Program(cmd[t]) PROVE at[t] + 1 \in 0..6
      <4>1. PICK k \in 0..5 : k = Len(Program(cmd[t])) /\ DOMAIN Program(cmd[t]) = 1..k
        BY Zenon, <2>1
      <4>2. at[t] \in 1..k
        BY Zenon, <3>1, <4>1
      <4> QED
        BY <4>2
    <3>2. 0 \in 0..6
      OBVIOUS
    <3>3. CASE at[t] \in DOMAIN Program(cmd[t]) /\ at' = [at EXCEPT ![t] = @ + 1]
      BY Zenon, <3>1, <3>3
    <3>4. CASE at' = [at EXCEPT ![t] = 0] \/ at' = at
      BY Zenon, <3>2, <3>4
    <3> QED
      BY Zenon, <2>2, <3>3, <3>4
  <2> QED
    BY Zenon, <2>3
<1>7. CASE UNCHANGED vars
  BY Zenon, <1>7 DEF vars
<1> QED
  BY Zenon, <1>1, <1>2, <1>3, <1>4, <1>5, <1>6, <1>7 DEF Next, Loop, Serving

\* The variables that the answers do not depend on.
ConnTypes ==
    /\ chain \in Chains /\ open \in BOOLEAN
    /\ reader \in [Tags -> {"none", "reading", "stopped", "failed", "orphan", "gone"}]
    /\ connState \in ConnStates /\ view \in ConnStates
    /\ named \in BOOLEAN /\ tls \in BOOLEAN /\ enabled \in BOOLEAN /\ crashed \in BOOLEAN

LEMMA ViewType ==
    ASSUME view \in ConnStates, NEW t, NEW status, Answer(t, status)
    PROVE  view' \in ConnStates
  BY Zenon DEF Answer, Inferred, ConnStates, answerVars

LEMMA ConnTypesStep ==
    ConnTypes /\ [Next]_vars => ConnTypes'
<1> SUFFICES ASSUME ConnTypes, [Next]_vars PROVE ConnTypes'
  BY Zenon
<1> USE DEF ConnTypes, clientVars, handlerVars, connVars, processVars, answerVars
<1>1. CASE \E c \in Commands : Send(c)
  BY Zenon, <1>1 DEF Send
<1>2. CASE SendDone \/ HangUp \/ ReadGarbage \/ Dispatch \/ ReadError \/ FinishBye
  BY Zenon, <1>2 DEF SendDone, HangUp, ReadGarbage, Dispatch, ReadError, FinishBye
<1>3. CASE Reject
  <2>1. view' \in ConnStates
    BY Zenon, <1>3, ViewType DEF Reject
  <2> QED
    BY Zenon, <1>3, <2>1 DEF Reject
<1>4. CASE Finish
  <2>1. view' \in ConnStates
    BY Zenon, <1>4, ViewType DEF Finish
  <2> QED
    BY Zenon, <1>4, <2>1 DEF Finish
<1>5. CASE TimesOut
  <2>1. view' \in ConnStates
    BY Zenon, <1>5, ViewType DEF TimesOut
  <2> QED
    BY Zenon, <1>5, <2>1 DEF TimesOut
<1>6. CASE \E t \in Tags : ReadDone(t)
  BY Zenon, <1>6 DEF ReadDone
<1>7. ASSUME NEW t \in Tags, Handler(t)
      PROVE  ConnTypes'
  <2> USE DEF Continue, Return
  <2>1. CASE EndOfHandler(t) \/ Checks(t) \/ ReadItems(t) \/ CallSession(t) \/ CallAppend(t)
    BY Zenon, <2>1 DEF EndOfHandler, Checks, ReadItems, CallSession, CallAppend
  <2>2. CASE Panic(t)
    BY Zenon, <2>2 DEF Panic
  <2>3. CASE SetState(t)
    BY <2>3 DEF SetState, Target, ConnStates
  <2>4. CASE SetConn(t) \/ Handshake(t)
    BY Zenon, <2>4 DEF SetConn, Handshake
  <2>5. CASE WriteOK(t)
    <3>1. view' \in ConnStates
      BY Zenon, <2>5, ViewType DEF WriteOK
    <3> QED
      BY Zenon, <2>5, <3>1 DEF WriteOK
  <2>6. CASE StartIdle(t) \/ LoopInItems(t) \/ CallIdle(t) \/ IdleFails(t) \/ AwaitReader(t)
    BY Zenon, <2>6 DEF StartIdle, LoopInItems, CallIdle, IdleFails, AwaitReader
  <2> QED
    BY SMTT(20), <1>7, <2>1, <2>2, <2>3, <2>4, <2>5, <2>6 DEF Handler, Steady
<1>8. CASE UNCHANGED vars
  BY Zenon, <1>8 DEF vars
<1> QED
  BY Zenon, <1>1, <1>2, <1>3, <1>4, <1>5, <1>6, <1>7, <1>8 DEF Next, Loop, Serving

\* ActiveCommands is never below what its middleware still has to count down: the
\* handlers that run, or the one that the connection's goroutine waits for.
Enough ==
    /\ active \in Nat
    /\ MetricsInside => active >= Cardinality(Executing)
    /\ Has("metrics") /\ ~MetricsInside /\ main = "wait" => active >= 1

\* What a step does to the counter, and to what it counts.
Keeps == active' = active /\ Executing' \subseteq Executing /\ (main' = "wait" => main = "wait")
Enters == \E h \in Tags : Executing' = Executing \cup {h} /\ active' = EnterMetrics
LeavesLoop ==
    /\ main = "wait" /\ main' # "wait"
    /\ Executing' = Executing /\ active' = LeaveMetricsOutside
LeavesHandler ==
    /\ \E h \in Executing : Executing' = Executing \ {h}
    /\ active' = LeaveMetricsInside /\ main' = main

LEMMA CounterSteps ==
    ASSUME AnswerInv, [Next]_vars
    PROVE  Keeps \/ Enters \/ LeavesLoop \/ LeavesHandler
<1> USE DEF clientVars, loopVars, handlerVars, connVars, processVars, answerVars
<1>1. at \in [Tags -> Nat]
  BY Zenon DEF AnswerInv, Types
<1>2. CASE \E c \in Commands : Send(c)
  BY Zenon, <1>2 DEF Send, Keeps, Executing
<1>3. CASE SendDone \/ HangUp
  BY Zenon, <1>3 DEF SendDone, HangUp, Keeps, Executing
<1>4. CASE ReadGarbage \/ Reject \/ ReadError
  BY Zenon, <1>4 DEF ReadGarbage, Reject, ReadError, Again, Keeps, Executing
<1>5. CASE Dispatch
  <2>1. /\ input # <<>> /\ input' = Tail(input) /\ sent' = sent
        /\ Head(input).kind = "command" /\ active' = EnterMetrics
    BY Zenon, <1>5 DEF Dispatch, Reads
  <2>2. PICK h \in Tags : h = Head(input).tag
    BY Zenon, <2>1, TailLines DEF AnswerInv
  <2>3. at' = [at EXCEPT ![h] = 1]
    BY Zenon, <1>5, <2>2 DEF Dispatch
  <2>4. Executing' = Executing \cup {h}
    BY <1>1, <2>3 DEF Executing
  <2> QED
    BY Zenon, <2>1, <2>4 DEF Enters
<1>6. CASE Finish \/ FinishBye \/ TimesOut
  BY Zenon, <1>6 DEF Finish, FinishBye, TimesOut, Again, LeavesLoop, Executing
<1>7. CASE \E t \in Tags : ReadDone(t)
  BY Zenon, <1>7 DEF ReadDone, Keeps, Executing
<1>8. ASSUME NEW h \in Tags, Handler(h)
      PROVE  Keeps \/ LeavesHandler
  <2>1. /\ main' = main
        /\ \/ at' = at /\ active' = active
           \/ at' = [at EXCEPT ![h] = @ + 1] /\ active' = active
           \/ at' = [at EXCEPT ![h] = 0] /\ active' \in {active, LeaveMetricsInside}
    <3> USE DEF Continue, Return
    <3>1. CASE EndOfHandler(h) \/ Checks(h) \/ ReadItems(h) \/ CallSession(h) \/ CallAppend(h)
      BY Zenon, <3>1 DEF EndOfHandler, Checks, ReadItems, CallSession, CallAppend
    <3>2. CASE Panic(h)
      BY Zenon, <3>2 DEF Panic
    <3>3. CASE SetState(h) \/ SetConn(h) \/ WriteOK(h) \/ Handshake(h)
      BY Zenon, <3>3 DEF SetState, SetConn, WriteOK, Handshake
    <3>4. CASE StartIdle(h) \/ LoopInItems(h) \/ CallIdle(h) \/ IdleFails(h) \/ AwaitReader(h)
      BY Zenon, <3>4 DEF StartIdle, LoopInItems, CallIdle, IdleFails, AwaitReader
    <3> QED
      BY SMTT(20), <1>8, <3>1, <3>2, <3>3, <3>4 DEF Handler, Steady
  <2>2. at[h] # 0
    <3>1. Program(cmd[h]) \in Seq(Steps)
      BY Zenon, OkIsLast
    <3>2. at[h] \in DOMAIN Program(cmd[h]) \/ at[h] > Len(Program(cmd[h]))
      BY Zenon, <1>8 DEF Handler, Steady, EndOfHandler, Checks, ReadItems, LoopInItems,
                  CallSession, CallAppend, Panic, InSession, SetState, SetConn, WriteOK,
                  Handshake, StartIdle, CallIdle, IdleFails, AwaitReader, At
    <3> QED
      BY Zenon, PastTheStart, <3>1, <3>2
  <2>3. h \in Executing /\ \A t \in Tags : t # h => at'[t] = at[t]
    BY Zenon, <1>1, <2>1, <2>2 DEF Executing
  <2>4. CASE at' = [at EXCEPT ![h] = 0] /\ active' = LeaveMetricsInside
    <3>1. at'[h] = 0
      BY Zenon, <1>1, <2>4
    <3>2. Executing' = Executing \ {h}
      BY Zenon, <2>3, <3>1 DEF Executing
    <3> QED
      BY Zenon, <2>1, <2>3, <2>4, <3>2 DEF LeavesHandler
  <2>5. CASE active' = active
    <3>1. Executing' \subseteq Executing
      BY Zenon, <2>3 DEF Executing
    <3> QED
      BY Zenon, <2>1, <2>5, <3>1 DEF Keeps
  <2> QED
    BY Zenon, <2>1, <2>4, <2>5
<1>9. CASE UNCHANGED vars
  BY Zenon, <1>9 DEF vars, Keeps, Executing
<1> QED
  BY Zenon, <1>2, <1>3, <1>4, <1>5, <1>6, <1>7, <1>8, <1>9 DEF Next, Loop, Serving

LEMMA EnoughStep ==
    AnswerInv /\ Enough /\ [Next]_vars => Enough'
<1> SUFFICES ASSUME AnswerInv, Enough, [Next]_vars PROVE Enough'
  BY Zenon
<1>1. /\ MetricsInside' = MetricsInside /\ Has("metrics")' = Has("metrics")
      /\ MetricsInside => Has("metrics")
  BY Zenon, ChainConstant DEF MetricsInside, Has, Outside, Index
<1>2. IsFiniteSet(Executing)
  <2>1. IsFiniteSet(Tags)
    BY FS_Interval, ServerConnAssumption DEF Tags
  <2> QED
    BY Zenon, <2>1, FS_Subset DEF Executing
<1>3. Cardinality(Executing) \in Nat
  BY Zenon, <1>2, FS_CardinalityType
<1>4. CASE Keeps
  <2>1. Cardinality(Executing') \in Nat /\ Cardinality(Executing') <= Cardinality(Executing)
    BY Zenon, <1>2, <1>4, FS_Subset, FS_CardinalityType DEF Keeps
  <2> QED
    BY <1>1, <1>3, <1>4, <2>1 DEF Enough, Keeps
<1>5. CASE Enters
  <2>1. PICK h \in Tags : Executing' = Executing \cup {h} /\ active' = EnterMetrics
    BY Zenon, <1>5 DEF Enters
  <2>2. /\ Cardinality(Executing') \in Nat
        /\ Cardinality(Executing') <= Cardinality(Executing) + 1
    BY SMTT(20), <1>2, <1>3, <2>1, FS_AddElement
  <2> QED
    BY <1>1, <1>3, <2>1, <2>2 DEF Enough, EnterMetrics
<1>6. CASE LeavesLoop
  BY <1>1, <1>3, <1>6 DEF Enough, LeavesLoop, LeaveMetricsOutside
<1>7. CASE LeavesHandler
  <2>1. PICK h \in Executing : Executing' = Executing \ {h}
    BY Zenon, <1>7 DEF LeavesHandler
  <2>2. Cardinality(Executing') = Cardinality(Executing) - 1 /\ Cardinality(Executing') \in Nat
    BY Zenon, <1>2, <2>1, FS_RemoveElement, FS_CardinalityType
  <2> QED
    BY <1>1, <1>3, <1>7, <2>2 DEF Enough, LeavesHandler, LeaveMetricsInside
<1> QED
  BY Zenon, <1>4, <1>5, <1>6, <1>7, CounterSteps

\* Whatever the commands, the middlewares and the bounds, the state of a connection
\* keeps its type: no handler runs past its last step, and ActiveCommands never goes
\* below zero, in whichever order the middlewares are (TypeOK).
THEOREM TypeCorrect == Spec => []TypeOK
<1>1. Init => InProgram /\ ConnTypes /\ Enough
  <2> SUFFICES ASSUME Init PROVE InProgram /\ ConnTypes /\ Enough
    BY Zenon
  <2>1. InProgram
    BY DEF Init, InProgram
  <2>2. ConnTypes
    BY Zenon DEF Init, ConnTypes, ConnStates
  <2>3. Executing = {} /\ active = 0 /\ main = "read"
    BY Zenon DEF Init, Executing
  <2>4. Enough
    BY <2>3, FS_EmptySet DEF Enough
  <2> QED
    BY Zenon, <2>1, <2>2, <2>4
<1>2. AnswerInv /\ InProgram /\ ConnTypes /\ Enough => TypeOK
  BY Zenon DEF AnswerInv, Types, Waits, InProgram, ConnTypes, Enough, TypeOK, Items, Statuses
<1> QED
  BY <1>1, <1>2, AnswerInit, AnswerStep, InProgramStep, ConnTypesStep, EnoughStep, PTL DEF Spec

-----------------------------------------------------------------------------
(* Server and client agree on the state *)

\* No handler that was given up can change the connection's state.
Calm == \A t \in late : cmd[t] \notin StateChanging

Agreed == connState = view /\ (named <=> connState = "selected")

\* The state that a handler sets just before it answers.
NewState(c) ==
    CASE c \in {"SELECT", "EXAMINE"} -> "selected"
      [] c = "LOGOUT" -> "logout"
      [] OTHER -> "auth"

\* What holds between the steps of a handler that changes the state: it names the
\* mailbox, or forgets it, then sets the state, then answers. LOGOUT forgets none.
Midway(c, p) ==
    LET n == Len(Program(c))
    IN IF c \notin StateChanging \/ p = 0 THEN connState = "logout" \/ Agreed
       ELSE /\ p < n - 1 => Agreed
            /\ p < n => connState = view /\ connState \in AllowedStates(c)
            /\ p >= n - 1 /\ c # "LOGOUT" => (named <=> NewState(c) = "selected")
            /\ p >= n => connState = NewState(c)
            /\ p > n => view = NewState(c)

StateInv ==
    Calm => /\ main = "read" => Agreed
            /\ main = "wait" => Midway(cmd[cur], at[cur])

SetSteps == {"authenticated", "selected", "logout"}
NameSteps == {"name", "unname"}

\* The order of the steps of handlers that change the state.
ChangesInOrder(c, p) ==
    /\ Len(p) \in 2..5
    /\ p[Len(p)] = "ok" /\ p[Len(p) - 1] \in SetSteps
    /\ Target(p[Len(p) - 1]) = NewState(c)
    /\ \A i \in 1..(Len(p) - 2) :
          /\ p[i] # "ok" /\ p[i] \notin SetSteps
          /\ p[i] \in NameSteps <=> (i = Len(p) - 2 /\ c \notin {"LOGIN", "LOGOUT"})
          /\ p[i] = "name" => NewState(c) = "selected"
          /\ p[i] = "unname" => NewState(c) # "selected"

\* They name, set the state and answer in this order, and the state they set can be
\* reached from every state they are allowed in.
LEMMA ChangingPrograms ==
    ASSUME NEW c \in StateChanging
    PROVE  /\ ChangesInOrder(c, Program(c))
           /\ \A s \in AllowedStates(c) : CanTransition(s, NewState(c))
<1>1. CASE c = "LOGIN"
  <2>1. Program(c) = <<"secure", "args", "session", "authenticated", "ok">>
    BY Zenon, <1>1 DEF Program, Login
  <2>2. NewState(c) = "auth" /\ AllowedStates(c) = {"notauth"}
    BY Zenon, <1>1 DEF NewState, AllowedStates
  <2>3. ChangesInOrder(c, Program(c))
    <3> DEFINE p == Program(c)
    <3>1. /\ Len(p) = 5
          /\ p[1] = "secure" /\ p[2] = "args" /\ p[3] = "session" /\ p[4] = "authenticated" /\ p[5] = "ok"
      BY <2>1
    <3> HIDE DEF p
    <3>2. \A i \in 1..(5 - 2) : i = 1 \/ i = 2 \/ i = 3
      OBVIOUS
    <3>3. Target(p[5 - 1]) = "auth"
      BY <3>1 DEF Target
    <3>4. \A i \in 1..(5 - 2) :
             /\ p[i] # "ok" /\ p[i] \notin SetSteps
             /\ p[i] \in NameSteps <=> (i = 5 - 2 /\ c \notin {"LOGIN", "LOGOUT"})
             /\ p[i] = "name" => NewState(c) = "selected"
             /\ p[i] = "unname" => NewState(c) # "selected"
      BY Zenon, <1>1, <2>2, <3>1, <3>2 DEF SetSteps, NameSteps
    <3>5. 5 \in 2..5 /\ p[5 - 1] \in SetSteps
      BY <3>1 DEF SetSteps
    <3>6. ChangesInOrder(c, p)
      BY Zenon, <2>2, <3>1, <3>3, <3>4, <3>5 DEF ChangesInOrder
    <3> QED
      BY Zenon, <3>6 DEF p
  <2>4. \A s \in AllowedStates(c) : CanTransition(s, NewState(c))
    BY Zenon, <2>2 DEF CanTransition, Transitions
  <2> QED
    BY Zenon, <2>3, <2>4
<1>2. CASE c \in {"SELECT", "EXAMINE"}
  <2>1. Program(c) = <<"args", "session", "name", "selected", "ok">>
    BY Zenon, <1>2 DEF Program, Select
  <2>2. NewState(c) = "selected" /\ AllowedStates(c) = {"auth", "selected"}
    BY Zenon, <1>2 DEF NewState, AllowedStates
  <2>3. ChangesInOrder(c, Program(c))
    <3> DEFINE p == Program(c)
    <3>1. /\ Len(p) = 5
          /\ p[1] = "args" /\ p[2] = "session" /\ p[3] = "name" /\ p[4] = "selected" /\ p[5] = "ok"
      BY <2>1
    <3> HIDE DEF p
    <3>2. \A i \in 1..(5 - 2) : i = 1 \/ i = 2 \/ i = 3
      OBVIOUS
    <3>3. Target(p[5 - 1]) = "selected"
      BY <3>1 DEF Target
    <3>4. \A i \in 1..(5 - 2) :
             /\ p[i] # "ok" /\ p[i] \notin SetSteps
             /\ p[i] \in NameSteps <=> (i = 5 - 2 /\ c \notin {"LOGIN", "LOGOUT"})
             /\ p[i] = "name" => NewState(c) = "selected"
             /\ p[i] = "unname" => NewState(c) # "selected"
      BY <1>2, <2>2, <3>1, <3>2 DEF SetSteps, NameSteps
    <3>5. 5 \in 2..5 /\ p[5 - 1] \in SetSteps
      BY <3>1 DEF SetSteps
    <3>6. ChangesInOrder(c, p)
      BY Zenon, <2>2, <3>1, <3>3, <3>4, <3>5 DEF ChangesInOrder
    <3> QED
      BY Zenon, <3>6 DEF p
  <2>4. \A s \in AllowedStates(c) : CanTransition(s, NewState(c))
    BY Zenon, <2>2 DEF CanTransition, Transitions
  <2> QED
    BY Zenon, <2>3, <2>4
<1>3. CASE c = "CLOSE"
  <2>1. Program(c) = <<"expunge", "session", "unname", "authenticated", "ok">>
    BY Zenon, <1>3 DEF Program, Close
  <2>2. NewState(c) = "auth" /\ AllowedStates(c) = {"selected"}
    BY Zenon, <1>3 DEF NewState, AllowedStates
  <2>3. ChangesInOrder(c, Program(c))
    <3> DEFINE p == Program(c)
    <3>1. /\ Len(p) = 5
          /\ p[1] = "expunge" /\ p[2] = "session" /\ p[3] = "unname" /\ p[4] = "authenticated" /\ p[5] = "ok"
      BY <2>1
    <3> HIDE DEF p
    <3>2. \A i \in 1..(5 - 2) : i = 1 \/ i = 2 \/ i = 3
      OBVIOUS
    <3>3. Target(p[5 - 1]) = "auth"
      BY <3>1 DEF Target
    <3>4. \A i \in 1..(5 - 2) :
             /\ p[i] # "ok" /\ p[i] \notin SetSteps
             /\ p[i] \in NameSteps <=> (i = 5 - 2 /\ c \notin {"LOGIN", "LOGOUT"})
             /\ p[i] = "name" => NewState(c) = "selected"
             /\ p[i] = "unname" => NewState(c) # "selected"
      BY <1>3, <2>2, <3>1, <3>2 DEF SetSteps, NameSteps
    <3>5. 5 \in 2..5 /\ p[5 - 1] \in SetSteps
      BY <3>1 DEF SetSteps
    <3>6. ChangesInOrder(c, p)
      BY Zenon, <2>2, <3>1, <3>3, <3>4, <3>5 DEF ChangesInOrder
    <3> QED
      BY Zenon, <3>6 DEF p
  <2>4. \A s \in AllowedStates(c) : CanTransition(s, NewState(c))
    BY Zenon, <2>2 DEF CanTransition, Transitions
  <2> QED
    BY Zenon, <2>3, <2>4
<1>4. CASE c = "UNSELECT"
  <2>1. Program(c) = <<"session", "unname", "authenticated", "ok">>
    BY Zenon, <1>4 DEF Program, Unselect
  <2>2. NewState(c) = "auth" /\ AllowedStates(c) = {"selected"}
    BY Zenon, <1>4 DEF NewState, AllowedStates
  <2>3. ChangesInOrder(c, Program(c))
    <3> DEFINE p == Program(c)
    <3>1. /\ Len(p) = 4
          /\ p[1] = "session" /\ p[2] = "unname" /\ p[3] = "authenticated" /\ p[4] = "ok"
      BY <2>1
    <3> HIDE DEF p
    <3>2. \A i \in 1..(4 - 2) : i = 1 \/ i = 2
      OBVIOUS
    <3>3. Target(p[4 - 1]) = "auth"
      BY <3>1 DEF Target
    <3>4. \A i \in 1..(4 - 2) :
             /\ p[i] # "ok" /\ p[i] \notin SetSteps
             /\ p[i] \in NameSteps <=> (i = 4 - 2 /\ c \notin {"LOGIN", "LOGOUT"})
             /\ p[i] = "name" => NewState(c) = "selected"
             /\ p[i] = "unname" => NewState(c) # "selected"
      BY <1>4, <2>2, <3>1, <3>2 DEF SetSteps, NameSteps
    <3>5. 4 \in 2..5 /\ p[4 - 1] \in SetSteps
      BY <3>1 DEF SetSteps
    <3>6. ChangesInOrder(c, p)
      BY Zenon, <2>2, <3>1, <3>3, <3>4, <3>5 DEF ChangesInOrder
    <3> QED
      BY Zenon, <3>6 DEF p
  <2>4. \A s \in AllowedStates(c) : CanTransition(s, NewState(c))
    BY Zenon, <2>2 DEF CanTransition, Transitions
  <2> QED
    BY Zenon, <2>3, <2>4
<1>5. CASE c = "LOGOUT"
  <2>1. Program(c) = <<"logout", "ok">>
    BY Zenon, <1>5 DEF Program, Logout
  <2>2. NewState(c) = "logout" /\ AllowedStates(c) = {"notauth", "auth", "selected"}
    BY Zenon, <1>5 DEF NewState, AllowedStates
  <2>3. ChangesInOrder(c, Program(c))
    <3> DEFINE p == Program(c)
    <3>1. /\ Len(p) = 2
          /\ p[1] = "logout" /\ p[2] = "ok"
      BY <2>1
    <3> HIDE DEF p
    <3>2. \A i \in 1..(2 - 2) : FALSE
      OBVIOUS
    <3>3. Target(p[2 - 1]) = "logout"
      BY <3>1 DEF Target
    <3>4. \A i \in 1..(2 - 2) :
             /\ p[i] # "ok" /\ p[i] \notin SetSteps
             /\ p[i] \in NameSteps <=> (i = 2 - 2 /\ c \notin {"LOGIN", "LOGOUT"})
             /\ p[i] = "name" => NewState(c) = "selected"
             /\ p[i] = "unname" => NewState(c) # "selected"
      BY Zenon, <1>5, <2>2, <3>1, <3>2 DEF SetSteps, NameSteps
    <3>5. 2 \in 2..5 /\ p[2 - 1] \in SetSteps
      BY <3>1 DEF SetSteps
    <3>6. ChangesInOrder(c, p)
      BY Zenon, <2>2, <3>1, <3>3, <3>4, <3>5 DEF ChangesInOrder
    <3> QED
      BY Zenon, <3>6 DEF p
  <2>4. \A s \in AllowedStates(c) : CanTransition(s, NewState(c))
    BY Zenon, <2>2 DEF CanTransition, Transitions
  <2> QED
    BY Zenon, <2>3, <2>4
<1> QED
  BY Zenon, <1>1, <1>2, <1>3, <1>4, <1>5 DEF StateChanging

\* The other handlers have no such steps.
LEMMA OtherPrograms ==
    ASSUME NEW c, c \notin StateChanging, NEW i \in DOMAIN Program(c)
    PROVE  Program(c)[i] \notin SetSteps /\ Program(c)[i] \notin NameSteps
<1>1. Program(c) \in {<<>>, <<"ok">>, <<"args", "session", "ok">>,
                      <<"items", "session", "ok">>,
                      <<"args", "enable", "ok">>, <<"args", "append", "ok">>,
                      <<"plaintext", "ok", "handshake">>,
                      <<"idling", "idle", "done", "ok">>}
  BY Zenon DEF StateChanging, Program, Capability, Noop, StartTLS, Enable, Create,
         Delete, Rename, Subscribe, Unsubscribe, List, Lsub, Status, AppendMessage, Idle,
         Expunge, Search, Fetch, Store, Copy
<1> QED
  BY <1>1 DEF SetSteps, NameSteps

\* What a step of a handler does to the state, by the step it is at.
At1(t) == at' = [at EXCEPT ![t] = @ + 1]
At0(t) == at' = [at EXCEPT ![t] = 0]
Step(t) == Program(cmd[t])[at[t]]
KeepsState == UNCHANGED <<connState, named, view>>
Passes(t) ==
    /\ at[t] \in DOMAIN Program(cmd[t])
    /\ Step(t) # "ok" /\ Step(t) \notin SetSteps /\ Step(t) \notin NameSteps
    /\ at' = at \/ At1(t) \/ At0(t)
    /\ KeepsState
Returns(t) == at[t] > Len(Program(cmd[t])) /\ At0(t) /\ KeepsState
Sets(t) ==
    /\ at[t] \in DOMAIN Program(cmd[t]) /\ Step(t) \in SetSteps
    /\ IF CanTransition(connState, Target(Step(t)))
       THEN connState' = Target(Step(t)) /\ At1(t)
       ELSE UNCHANGED connState /\ At0(t)
    /\ UNCHANGED <<named, view>>
NamesIt(t) ==
    /\ at[t] \in DOMAIN Program(cmd[t]) /\ Step(t) \in NameSteps
    /\ named' = (Step(t) = "name") /\ At1(t)
    /\ UNCHANGED <<connState, view>>
SaysOK(t) ==
    /\ at[t] \in DOMAIN Program(cmd[t]) /\ Step(t) = "ok"
    /\ Answer(t, "OK") /\ At1(t) /\ UNCHANGED <<connState, named>>
StateShape(t) ==
    /\ UNCHANGED <<cmd, main, cur, late>>
    /\ Passes(t) \/ Returns(t) \/ Sets(t) \/ NamesIt(t) \/ SaysOK(t)

\* Every step of a handler is one of these.
LEMMA StateSteps ==
    ASSUME NEW t \in Tags, Handler(t)
    PROVE  StateShape(t)
<1> USE DEF StateShape, clientVars, loopVars, answerVars, handlerVars, connVars, processVars,
            At1, At0, Step, KeepsState, SetSteps, NameSteps
<1>1. CASE EndOfHandler(t)
  BY Zenon, <1>1 DEF EndOfHandler, Return, Returns
<1>2. CASE Checks(t)
  BY Zenon, <1>2 DEF Checks, At, Continue, Return, Passes
<1>3. CASE CallSession(t)
  BY Zenon, <1>3 DEF CallSession, SessionErrors, At, Continue, Return, Passes
<1>4. CASE Panic(t)
  BY Zenon, <1>4 DEF Panic, InSession, At, Passes
<1>5. CASE CallAppend(t)
  BY Zenon, <1>5 DEF CallAppend, SessionErrors, At, Continue, Return, Passes
<1>6. CASE SetState(t)
  BY Zenon, <1>6 DEF SetState, At, Continue, Return, Sets
<1>7. CASE SetConn(t)
  <2>1. CASE At(t, "name") \/ At(t, "unname")
    BY Zenon, <1>7, <2>1 DEF SetConn, At, Continue, NamesIt
  <2>2. CASE At(t, "enable")
    BY Zenon, <1>7, <2>2 DEF SetConn, At, Continue, Passes
  <2> QED
    BY Zenon, <1>7, <2>1, <2>2 DEF SetConn
<1>8. CASE WriteOK(t)
  BY Zenon, <1>8 DEF WriteOK, At, Continue, SaysOK
<1>9. CASE Handshake(t)
  BY Zenon, <1>9 DEF Handshake, At, Continue, Return, Passes
<1>10. CASE StartIdle(t)
  BY Zenon, <1>10 DEF StartIdle, At, Continue, Passes
<1>11. CASE CallIdle(t)
  BY Zenon, <1>11 DEF CallIdle, At, Continue, Passes
<1>12. CASE AwaitReader(t)
  BY Zenon, <1>12 DEF AwaitReader, SessionErrors, At, Continue, Return, Passes
<1>13. CASE IdleFails(t)
  BY Zenon, <1>13 DEF IdleFails, At, Passes
<1>14. CASE ReadItems(t)
  BY Zenon, <1>14 DEF ReadItems, At, Continue, Return, Passes
<1>15. CASE LoopInItems(t)
  BY Zenon, <1>15 DEF LoopInItems, At, Passes
<1> QED
  BY Zenon, <1>1, <1>2, <1>3, <1>4, <1>5, <1>6, <1>7, <1>8, <1>9, <1>10, <1>11, <1>12, <1>13,
     <1>14, <1>15 DEF Handler, Steady

\* A step of a handler that is not one of those that change the state.
LEMMA OtherHandlersKeep ==
    ASSUME AnswerInv, NEW h \in Tags, StateShape(h), cmd[h] \notin StateChanging
    PROVE  KeepsState
<1>1. ~Sets(h) /\ ~NamesIt(h)
  BY Zenon, OtherPrograms DEF Sets, NamesIt, Step
<1>2. SaysOK(h) => view' = view
  BY Zenon DEF SaysOK, Answer, answerVars, Inferred, StateChanging
<1> QED
  BY Zenon, <1>1, <1>2 DEF StateShape, Passes, Returns, SaysOK, KeepsState
\* A step of the handler that is waited for.
LEMMA MidwayStep ==
    ASSUME AnswerInv, NEW h \in Tags, StateShape(h), main = "wait", h \notin late,
           Midway(cmd[h], at[h])
    PROVE  Midway(cmd[h], at[h])'
<1> DEFINE c == cmd[h]
           p == at[h]
           q == at'[h]
           n == Len(Program(c))
<1>1. /\ Program(c) \in Seq(Steps) /\ n \in Nat /\ DOMAIN Program(c) = 1..n
      /\ p \in Nat /\ cmd'[h] = c
  BY OkIsLast DEF AnswerInv, Types, StateShape
<1>2. /\ At1(h) => q = p + 1
      /\ At0(h) => q = 0
      /\ at' = at => q = p
  BY Zenon DEF AnswerInv, Types, At1, At0
<1>3. p \in 1..n \/ p > n
  BY Zenon, <1>1 DEF StateShape, Passes, Returns, Sets, NamesIt, SaysOK
<1>4. p # 0
  BY <1>1, <1>3
<1>5. c # "STARTTLS" /\ p <= n => answers[h] = <<>>
  BY Zenon, <1>4 DEF AnswerInv, Story
<1>6. CASE c \notin StateChanging
  <2>1. connState = "logout" \/ Agreed
    BY Zenon, <1>6 DEF Midway
  <2>2. KeepsState
    BY Zenon, <1>6, OtherHandlersKeep
  <2> QED
    BY Zenon, <1>1, <1>6, <2>1, <2>2 DEF Midway, Agreed, KeepsState
<1>7. CASE c \in StateChanging
  <2>1. /\ ChangesInOrder(c, Program(c))
        /\ \A s \in AllowedStates(c) : CanTransition(s, NewState(c))
    BY Zenon, <1>7, ChangingPrograms
  <2>2. /\ n \in 2..5
        /\ Program(c)[n] = "ok" /\ Program(c)[n - 1] \in SetSteps
        /\ Target(Program(c)[n - 1]) = NewState(c)
        /\ \A i \in 1..(n - 2) :
              /\ Program(c)[i] # "ok" /\ Program(c)[i] \notin SetSteps
              /\ Program(c)[i] \in NameSteps <=> (i = n - 2 /\ c \notin {"LOGIN", "LOGOUT"})
              /\ Program(c)[i] = "name" => NewState(c) = "selected"
              /\ Program(c)[i] = "unname" => NewState(c) # "selected"
    BY Zenon, <2>1 DEF ChangesInOrder
  <2>3. /\ p < n - 1 => Agreed
        /\ p < n => connState = view /\ connState \in AllowedStates(c)
        /\ p >= n - 1 /\ c # "LOGOUT" => (named <=> NewState(c) = "selected")
        /\ p >= n => connState = NewState(c)
        /\ p > n => view = NewState(c)
    BY Zenon, <1>4, <1>7 DEF Midway
  <2>4. ASSUME q = 0 \/ (/\ q < n - 1 => Agreed'
                         /\ q < n => connState' = view' /\ connState' \in AllowedStates(c)
                         /\ q >= n - 1 /\ c # "LOGOUT" => (named' <=> NewState(c) = "selected")
                         /\ q >= n => connState' = NewState(c)
                         /\ q > n => view' = NewState(c)),
               q = 0 => connState' = "logout" \/ Agreed'
        PROVE  Midway(cmd[h], at[h])'
    BY Zenon, <1>1, <1>7, <2>4 DEF Midway
  <2>5. "ok" \notin SetSteps /\ "ok" \notin NameSteps /\ \A x \in SetSteps : x \notin NameSteps /\ x # "ok"
    BY Zenon DEF SetSteps, NameSteps
  <2> DEFINE x == Step(h)
  <2>6. p <= n => /\ p = n => x = "ok"
                  /\ p = n - 1 => x \in SetSteps /\ Target(x) = NewState(c)
                  /\ p < n - 1 => /\ x # "ok" /\ x \notin SetSteps
                                  /\ x \in NameSteps <=> (p = n - 2 /\ c \notin {"LOGIN", "LOGOUT"})
                                  /\ x = "name" => NewState(c) = "selected"
                                  /\ x = "unname" => NewState(c) # "selected"
    <3>1. p < n - 1 => p \in 1..(n - 2)
      BY <1>1, <1>4
    <3> QED
      BY Zenon, <2>2, <3>1 DEF Step
  <2>7. p \in 1..n => p = n \/ p = n - 1 \/ p < n - 1
    BY <1>1
  <2> HIDE DEF x, n, p, q, c
  <2>8. CASE Passes(h)
    <3>1. p \in 1..n /\ x # "ok" /\ x \notin SetSteps /\ x \notin NameSteps /\ KeepsState
      BY Zenon, <1>1, <2>8 DEF Passes, x, p, n, c
    <3>2. p < n - 1 /\ (p = n - 2 => c \in {"LOGIN", "LOGOUT"})
      BY SMTT(20), <1>1, <2>6, <2>7, <3>1
    <3>3. Agreed /\ connState \in AllowedStates(c)
      BY <1>1, <2>3, <3>2
    <3>4. q = p \/ q = p + 1 \/ q = 0
      BY Zenon, <1>2, <2>8 DEF Passes
    <3>5. c = "LOGIN" => ~named /\ NewState(c) # "selected"
      BY Zenon, <3>3 DEF Agreed, AllowedStates, NewState
    <3>6. Agreed' /\ connState' = connState /\ view' = view /\ named' = named
      BY Zenon, <3>1, <3>3 DEF Agreed, KeepsState
    <3>7. q < n /\ ~(q >= n) /\ ~(q > n) /\ (q >= n - 1 => p = n - 2)
      BY <1>1, <3>2, <3>4
    <3>8. q >= n - 1 /\ c # "LOGOUT" => (named' <=> NewState(c) = "selected")
      BY Zenon, <3>2, <3>5, <3>6, <3>7
    <3>9. connState' = view' /\ connState' \in AllowedStates(c)
      BY Zenon, <3>3, <3>6 DEF Agreed
    <3> QED
      BY Zenon, <2>4, <3>6, <3>7, <3>8, <3>9
  <2>9. CASE Returns(h)
    <3>1. p > n /\ q = 0 /\ KeepsState
      BY Zenon, <1>2, <2>9 DEF Returns, p, n, c
    <3>2. connState = NewState(c) /\ view = NewState(c)
          /\ (c # "LOGOUT" => (named <=> NewState(c) = "selected"))
      BY <1>1, <2>2, <2>3, <3>1
    <3>3. c = "LOGOUT" => NewState(c) = "logout"
      BY Zenon DEF NewState
    <3> QED
      BY Zenon, <2>4, <3>1, <3>2, <3>3 DEF KeepsState, Agreed
  <2>10. CASE Sets(h)
    <3>1. p \in 1..n /\ x \in SetSteps /\ UNCHANGED <<named, view>>
      BY Zenon, <1>1, <2>10 DEF Sets, x, p, n, c
    <3>2. p = n - 1 /\ Target(x) = NewState(c)
      BY SMTT(20), <1>1, <2>5, <2>6, <2>7, <3>1
    <3>3. connState \in AllowedStates(c) /\ p < n
      BY <1>1, <2>3, <3>2
    <3>4. connState' = NewState(c) /\ q = p + 1
      BY Zenon, <1>2, <2>1, <2>10, <3>2, <3>3 DEF Sets, x
    <3>5. q = n /\ ~(q < n - 1) /\ ~(q < n) /\ ~(q > n) /\ p >= n - 1 /\ q # 0
      BY <1>1, <3>2, <3>4
    <3> QED
      BY Zenon, <2>3, <2>4, <3>1, <3>4, <3>5
  <2>11. CASE NamesIt(h)
    <3>1. p \in 1..n /\ x \in NameSteps /\ q = p + 1 /\ named' = (x = "name")
          /\ UNCHANGED <<connState, view>>
      BY Zenon, <1>1, <1>2, <2>11 DEF NamesIt, x, p, n, c
    <3>2. p = n - 2 /\ (x = "name" => NewState(c) = "selected")
                    /\ (x = "unname" => NewState(c) # "selected")
      BY <1>1, <2>5, <2>6, <2>7, <3>1
    <3>3. x = "name" \/ x = "unname"
      BY Zenon, <3>1 DEF NameSteps
    <3>4. p < n /\ ~(q < n - 1) /\ q < n /\ ~(q >= n) /\ ~(q > n) /\ q # 0
      BY <1>1, <3>1, <3>2
    <3>5. named' <=> NewState(c) = "selected"
      BY ZenonT(30), <3>1, <3>2, <3>3
    <3> QED
      BY Zenon, <2>3, <2>4, <3>1, <3>4, <3>5
  <2>12. CASE SaysOK(h)
    <3>1. p \in 1..n /\ x = "ok" /\ q = p + 1 /\ UNCHANGED <<connState, named>>
      BY Zenon, <1>1, <1>2, <2>12 DEF SaysOK, x, p, n, c
    <3>2. p = n
      BY <1>1, <2>5, <2>6, <2>7, <3>1
    <3>3. p <= n /\ p >= n - 1 /\ p >= n /\ ~(q < n - 1) /\ ~(q < n) /\ q # 0
      BY <1>1, <3>1, <3>2
    <3>4. answers[h] = <<>>
      BY SMTT(20), <1>5, <1>7, <3>3 DEF StateChanging
    <3>5. view' = Inferred(c, "OK", view)
      BY Zenon, <2>12, <3>4 DEF SaysOK, Answer, c
    <3>6. view' = NewState(c)
      BY Zenon, <1>7, <3>5 DEF Inferred, NewState, StateChanging
    <3> QED
      BY Zenon, <2>3, <2>4, <3>1, <3>3, <3>6
  <2> QED
    BY Zenon, <2>8, <2>9, <2>10, <2>11, <2>12 DEF StateShape
<1> QED
  BY Zenon, <1>6, <1>7


\* A step that leaves the state, the handlers and who waits for them alone.
LEMMA StateQuiet ==
    ASSUME StateInv, UNCHANGED <<cmd, cur, late, at, connState, named, view>>,
           main' = main \/ main' = "ended"
    PROVE  StateInv'
BY Zenon DEF StateInv, Calm, Agreed, Midway

\* Back to the loop, with an answer that is not OK, or none.
LEMMA BackToLoop ==
    ASSUME AnswerInv, Calm' => connState = "logout" \/ Agreed, Again,
           UNCHANGED <<connState, named, view>>
    PROVE  StateInv'
<1>1. main' # "wait"
  BY Zenon DEF Again
<1>2. main' = "read" => connState # "logout"
  BY Zenon DEF Again
<1> QED
  BY Zenon, <1>1, <1>2 DEF StateInv, Agreed

\* An answer that is not OK tells the client of no new state.
LEMMA NotOK ==
    ASSUME NEW t, NEW r, r # "OK", Answer(t, r)
    PROVE  view' = view
BY Zenon DEF Answer, answerVars, Inferred

\* A handler that has returned, or does not change the state, has left it agreed.
LEMMA Returned ==
    ASSUME StateInv, Calm, main = "wait", at[cur] = 0 \/ cmd[cur] \notin StateChanging
    PROVE  connState = "logout" \/ Agreed
BY Zenon DEF StateInv, Midway

\* Every step keeps the invariant.
LEMMA StateInvStep ==
    AnswerInv /\ StateInv /\ [Next]_vars => StateInv'
<1> SUFFICES ASSUME AnswerInv, StateInv, [Next]_vars PROVE StateInv'
  BY Zenon
<1> USE DEF clientVars, loopVars, handlerVars, connVars, processVars, answerVars
<1>1. ASSUME NEW c \in Commands, Send(c) PROVE StateInv'
  <2>1. PICK m \in Tags : m = sent + 1 /\ m > sent
    BY <1>1, ServerConnAssumption DEF Send, AnswerInv, Types, Tags
  <2>2. Untouched(m)
    BY Zenon, <2>1 DEF AnswerInv, Fresh
  <2>3. /\ cmd' = [cmd EXCEPT ![m] = c]
        /\ UNCHANGED <<main, cur, late, at, connState, named, view>>
    BY Zenon, <1>1, <2>1 DEF Send
  <2>4. \A t \in Tags : t # m => cmd'[t] = cmd[t]
    BY Zenon, <2>3 DEF AnswerInv, Types
  <2>5. m \notin late /\ cur # m /\ late \subseteq Tags /\ (main = "wait" => cur \in Tags)
    BY Zenon, <2>2 DEF Untouched, AnswerInv, Waits, Types
  <2>6. Calm' => Calm
    BY Zenon, <2>3, <2>4, <2>5 DEF Calm
  <2>7. main = "wait" => cmd'[cur] = cmd[cur]
    BY Zenon, <2>4, <2>5
  <2> QED
    BY Zenon, <2>3, <2>6, <2>7 DEF StateInv, Agreed, Midway
<1>2. CASE SendDone
  BY Zenon, <1>2, StateQuiet DEF SendDone
<1>3. CASE HangUp
  BY Zenon, <1>3, StateQuiet DEF HangUp
<1>4. CASE ReadError
  BY Zenon, <1>4, StateQuiet DEF ReadError
<1>5. CASE \E t \in Tags : ReadDone(t)
  BY Zenon, <1>5, StateQuiet DEF ReadDone
<1>6. CASE UNCHANGED vars
  BY Zenon, <1>6, StateQuiet DEF vars
<1>7. CASE ReadGarbage
  <2>1. main = "read" /\ Again /\ UNCHANGED <<cmd, late, connState, named, view>>
    BY Zenon, <1>7 DEF ReadGarbage, Reads
  <2>2. Calm' => connState = "logout" \/ Agreed
    BY Zenon, <2>1 DEF StateInv, Calm
  <2> QED
    BY Zenon, <2>1, <2>2, BackToLoop
<1>8. CASE Reject
  <2>1. /\ main = "read" /\ Again /\ UNCHANGED <<cmd, late, connState, named>>
        /\ Answer(Head(input).tag, "BAD")
    BY Zenon, <1>8 DEF Reject, Reads
  <2>2. Calm' => connState = "logout" \/ Agreed
    BY Zenon, <2>1 DEF StateInv, Calm
  <2>3. "BAD" # "OK"
    BY Zenon
  <2>4. view' = view
    BY Zenon, <2>1, <2>3, NotOK
  <2> QED
    BY Zenon, <2>1, <2>2, <2>4, BackToLoop
<1>9. CASE Dispatch
  <2>1. /\ main = "read" /\ input # <<>> /\ Head(input).kind = "command"
        /\ input' = Tail(input) /\ main' = "wait" /\ sent' = sent
        /\ UNCHANGED <<cmd, late, connState, named, view>>
    BY Zenon, <1>9 DEF Dispatch, Reads
  <2>2. PICK h \in Tags : h = Head(input).tag
    BY Zenon, <2>1, TailLines DEF AnswerInv
  <2>3. cur' = h /\ at' = [at EXCEPT ![h] = 1] /\ Admitted(cmd[h])
    BY Zenon, <1>9, <2>2 DEF Dispatch
  <2>4. at'[h] = 1 /\ cmd'[h] = cmd[h]
    BY Zenon, <2>1, <2>3 DEF AnswerInv, Types
  <2> SUFFICES ASSUME Calm' PROVE Midway(cmd[h], 1)'
    <3>1. main' # "read"
      BY Zenon, <2>1
    <3> QED
      BY Zenon, <2>3, <2>4, <3>1 DEF StateInv, Midway, Agreed
  <2>5. Agreed /\ Agreed'
    BY Zenon, <2>1 DEF StateInv, Calm, Agreed
  <2> DEFINE c == cmd[h]
             n == Len(Program(c))
  <2>6. CASE c \notin StateChanging
    BY Zenon, <2>4, <2>5, <2>6 DEF Midway
  <2>7. CASE c \in StateChanging
    <3>1. AllowedStates(c) # {} /\ connState \in AllowedStates(c)
      BY Zenon, <2>3, <2>7 DEF Admitted, StateChanging, AllowedStates
    <3>2. n \in 2..5
      BY Zenon, <2>7, ChangingPrograms DEF ChangesInOrder
    <3>3. n = 2 => c = "LOGOUT"
      BY <2>7 DEF StateChanging, Program, Login, Select, Close, Unselect
    <3> HIDE DEF n
    <3>4. 1 < n /\ ~(1 >= n) /\ ~(1 > n) /\ (1 >= n - 1 => n = 2)
      BY <3>2
    <3>5. connState' = view' /\ connState' \in AllowedStates(c)
      BY Zenon, <2>1, <2>5, <3>1 DEF Agreed
    <3> QED
      BY Zenon, <2>4, <2>5, <3>3, <3>4, <3>5 DEF Midway, n
  <2> QED
    BY Zenon, <2>6, <2>7
<1>10. CASE Finish
  <2>1. /\ main = "wait" /\ ret[cur] \in {"nil", "NO", "BAD"} /\ Again
        /\ UNCHANGED <<cmd, late, connState, named>>
        /\ IF ret[cur] = "nil" THEN UNCHANGED answerVars ELSE Answer(cur, ret[cur])
    BY Zenon, <1>10 DEF Finish
  <2>2. at[cur] = 0
    BY Zenon, <2>1 DEF AnswerInv, Waits
  <2>3. ret[cur] # "OK"
    BY Zenon, <2>1
  <2>4. view' = view
    BY Zenon, <2>1, <2>3, NotOK
  <2>5. Calm' => connState = "logout" \/ Agreed
    BY Zenon, <2>1, <2>2, Returned DEF Calm
  <2> QED
    BY Zenon, <2>1, <2>4, <2>5, BackToLoop
<1>11. CASE FinishBye
  <2>1. main' # "read" /\ main' # "wait"
    BY Zenon, <1>11 DEF FinishBye
  <2> QED
    BY Zenon, <2>1 DEF StateInv
<1>12. CASE TimesOut
  <2>1. /\ main = "wait" /\ Again /\ late' = late \cup {cur}
        /\ UNCHANGED <<cmd, connState, named>> /\ Answer(cur, "NO")
    BY Zenon, <1>12 DEF TimesOut
  <2>2. "NO" # "OK"
    BY Zenon
  <2>3. view' = view
    BY Zenon, <2>1, <2>2, NotOK
  <2>4. Calm' => Calm /\ cmd[cur] \notin StateChanging
    BY Zenon, <2>1 DEF Calm
  <2>5. Calm' => connState = "logout" \/ Agreed
    BY Zenon, <2>1, <2>4, Returned
  <2> QED
    BY Zenon, <2>1, <2>3, <2>5, BackToLoop
<1>13. ASSUME NEW h \in Tags, Handler(h) PROVE StateInv'
  <2>1. StateShape(h)
    BY Zenon, <1>13, StateSteps
  <2>2. UNCHANGED <<cmd, main, cur, late>>
    BY Zenon, <2>1 DEF StateShape
  <2> SUFFICES ASSUME Calm PROVE /\ main = "read" => Agreed'
                                 /\ main = "wait" => Midway(cmd[cur], at[cur])'
    BY Zenon, <2>2 DEF StateInv, Calm
  <2>3. at[h] # 0
    <3>1. Program(cmd[h]) \in Seq(Steps)
      BY Zenon, OkIsLast
    <3>2. at[h] \in DOMAIN Program(cmd[h]) \/ at[h] > Len(Program(cmd[h]))
      BY Zenon, <2>1 DEF StateShape, Passes, Returns, Sets, NamesIt, SaysOK
    <3> QED
      BY Zenon, PastTheStart, <3>1, <3>2
  <2>4. h \in late \/ cur = h
    BY Zenon, <2>3 DEF AnswerInv, Waits
  <2>5. h # 0
    BY ServerConnAssumption DEF Tags
  <2>6. CASE h \in late
    <3>1. KeepsState
      BY Zenon, <2>1, <2>6, OtherHandlersKeep DEF Calm
    <3>2. main = "wait" => cur \in Tags /\ cur # h
      BY Zenon, <2>6 DEF AnswerInv, Waits
    <3>3. \A t \in Tags : t # h => at'[t] = at[t]
      BY Zenon, <2>1 DEF AnswerInv, Types, StateShape, Passes, Returns, Sets, NamesIt, SaysOK,
                         At1, At0
    <3>4. main = "wait" => at'[cur] = at[cur]
      BY Zenon, <3>2, <3>3
    <3> QED
      BY Zenon, <2>2, <3>1, <3>4 DEF StateInv, KeepsState, Agreed, Midway
  <2>7. CASE h \notin late
    <3>1. cur = h
      BY Zenon, <2>4, <2>7
    <3>2. main = "wait"
      BY Zenon, <2>5, <3>1 DEF AnswerInv, Waits
    <3>3. main # "read"
      BY Zenon, <3>2
    <3>4. Midway(cmd[h], at[h])
      BY Zenon, <3>1, <3>2 DEF StateInv
    <3>5. Midway(cmd[h], at[h])'
      BY Zenon, <2>1, <2>7, <3>2, <3>4, MidwayStep
    <3> QED
      BY Zenon, <2>2, <3>1, <3>3, <3>5
  <2> QED
    BY Zenon, <2>6, <2>7
<1> QED
  BY Zenon, <1>1, <1>2, <1>3, <1>4, <1>5, <1>6, <1>7, <1>8, <1>9, <1>10, <1>11, <1>12, <1>13
     DEF Next, Loop, Serving

\* Whatever the commands, the middlewares and the bounds, whenever the connection
\* reads its next command, the state machine is in the state a client infers from
\* the answers, and Conn.mailbox is set just in the selected state (StateAgrees),
\* unless Timeout gave up a handler that changes the state. Such a handler sets the
\* mailbox and the state just before it writes OK, after all that can fail.
THEOREM StatesAgree == Spec => []StateAgrees
<1>1. Init => StateInv
  BY Zenon DEF Init, StateInv, Agreed
<1>2. StateInv => StateAgrees
  BY Zenon DEF StateInv, StateAgrees, Calm, Agreed
<1> QED
  BY <1>1, <1>2, AnswerInit, AnswerStep, StateInvStep, PTL DEF Spec

=============================================================================
