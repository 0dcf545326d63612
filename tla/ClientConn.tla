------------------------------ MODULE ClientConn ------------------------------
(***************************************************************************)
(* One client connection (package client): the goroutines that issue       *)
(* commands, the background reader, Close and the disconnect path, against *)
(* a server that keeps to the protocol but may close the connection at any *)
(* time.                                                                   *)
(*                                                                         *)
(* A command is a tag.  pending is the pendingCommands map, done[t] the    *)
(* buffered channel of command t, contCh the client's only continuation    *)
(* channel.  Critical sections of c.mu and pending.mu take no second lock  *)
(* and are part of one step each.  A caller's RawString and Flush are one  *)
(* step: wire.Encoder has no lock, so callers must not write at once.      *)
(***************************************************************************)
EXTENDS Naturals, Sequences, Functions

CONSTANTS
    Callers,            \* goroutines that issue commands or call Close
    Kinds,              \* the kinds of command they issue
    WaitInBackground,   \* whether IDLE is used as in the README's example: Wait
                        \* in a goroutine of its own and Done to stop it
    MaxTags             \* bound: commands issued altogether

AllKinds == {"plain", "data", "login", "select", "close", "logout", "idle",
             "append", "auth"}

ASSUME ClientAssumption ==
    /\ Kinds \subseteq AllKinds
    /\ WaitInBackground \in BOOLEAN
    /\ MaxTags \in Nat

Tags == 1..MaxTags
ConnStates == {"notauth", "auth", "selected", "logout"}
Results == {"OK", "NO", "err"}
Buffer == Results \cup {"none"}

VARIABLES
    nextTag,    \* tagGenerator.counter
    kind,       \* the kind of every command issued
    pending,    \* tags in pendingCommands.commands
    done,       \* contents of every command's done channel, of capacity 1
    contCh,     \* contents of continuationCh, of capacity 1
    untagged,   \* untaggedData: for every line the command it answers
    state,      \* c.state
    closed,     \* c.closed
    connOpen,   \* the client's end of the connection is open
    pc, tag,    \* where every caller is, and in which command
    waiter,     \* the goroutine that runs IdleCommand.Wait: its command
    waiterPc,   \* and where it is
    rd,         \* where the reader is
    once,       \* progress of disconnectOnce
    drain,      \* commands CompleteAll has still to send to
    toServer,   \* lines on their way to the server
    toClient,   \* lines on their way to the client
    serving,    \* server: the command it serves
    servingPc,  \* server: and where it is with it
    peerOpen,   \* server: its end of the connection is open
    sent,       \* ghost: results sent to every done channel so far
    late,       \* ghost: commands registered after CompleteAll took the map
    taken       \* ghost: <<t, u>> when t took a continuation or data sent for u

waiterVars == <<waiter, waiterPc>>
serverVars == <<serving, servingPc, peerOpen>>
discVars == <<once, drain, late>>
resultVars == <<pending, done, sent>>
vars == <<nextTag, kind, resultVars, contCh, untagged, state, closed, connOpen,
          pc, tag, waiterVars, rd, discVars, toServer, toClient, serverVars,
          taken>>

Line(t, what) == [tag |-> t, what |-> what]
Lines == [tag : Tags, what : {"command", "DONE", "literal", "response", "*"}]
\* That a continuation request or an untagged response names its command is a
\* ghost; the lines on the wire do not.
Replies == [tag : Tags, what : {"OK", "NO", "+", "data"}]
\* What continuationCh can hold; a buffer of one is full or empty.
Empty == [tag |-> 0, what |-> "none"]
Gone == [tag |-> 0, what |-> "err"]
Continuations == {Empty, Gone} \cup [tag : Tags, what : {"+"}]

Init ==
    /\ nextTag = 0
    /\ kind = [t \in Tags |-> "plain"]
    /\ pending = {}
    /\ done = [t \in Tags |-> "none"]
    /\ contCh = Empty
    /\ untagged = <<>>
    /\ state \in {"notauth", "auth"}    \* greeting OK or PREAUTH
    /\ closed = FALSE
    /\ connOpen = TRUE
    /\ pc = [c \in Callers |-> "ready"]
    /\ tag = [c \in Callers |-> 0]
    /\ waiter = 0 /\ waiterPc = "none"
    /\ rd = "run"
    /\ once = "no" /\ drain = {} /\ late = {}
    /\ toServer = <<>> /\ toClient = <<>>
    /\ serving = 0 /\ servingPc = "ready" /\ peerOpen = TRUE
    /\ sent = [t \in Tags |-> 0]
    /\ taken = {}

-----------------------------------------------------------------------------
(* Building blocks *)

At(c, where) == pc[c] = where
Go(c, where) == pc' = [pc EXCEPT ![c] = where]
Return(c) == Go(c, "ready")

\* cmd.done <- result, for a command just taken out of the map.
Send(t, r) ==
    /\ done[t] = "none"
    /\ done' = [done EXCEPT ![t] = r]
    /\ sent' = [sent EXCEPT ![t] = @ + 1]
    /\ pending' = pending \ {t}

\* pendingCommands.Complete(tag, result).
Complete(t, r) ==
    \/ t \in pending /\ Send(t, r)
    \/ t \notin pending /\ UNCHANGED resultVars

\* <-cmd.done yields r.
Receive(t, r) ==
    /\ done[t] = r
    /\ done' = [done EXCEPT ![t] = "none"]
    /\ UNCHANGED <<pending, sent>>

\* Flush succeeds: the bytes are on their way, or lost when the server has
\* closed its end.
Written(line) ==
    /\ connOpen
    /\ toServer' = IF peerOpen THEN Append(toServer, line) ELSE toServer

\* Flush fails.
WriteFails ==
    /\ ~connOpen \/ ~peerOpen
    /\ UNCHANGED toServer

\* Wait for a continuation after sending these.
Waits(k) == k \in {"idle", "append"}

\* The state a successful command leads to.
Effect(k, s) ==
    CASE k \in {"login", "auth", "close"} -> "auth"
      [] k = "select" -> "selected"
      [] OTHER -> s

-----------------------------------------------------------------------------
(* Commands: execute and its callers, Idle, Append, Authenticate *)

Add_KeepsData(c, k) ==
    LET t == nextTag + 1
    IN /\ At(c, "ready")
       /\ t <= MaxTags
       /\ nextTag' = t
       /\ kind' = [kind EXCEPT ![t] = k]
       /\ pending' = pending \cup {t}
       /\ late' = IF once = "no" THEN late ELSE late \cup {t}
       /\ tag' = [tag EXCEPT ![c] = t]
       /\ Go(c, "write")
       /\ UNCHANGED <<done, sent, contCh, untagged, state, closed, connOpen,
                      waiterVars, rd, once, drain, toServer, toClient,
                      serverVars, taken>>

\* tags.Next and pending.Add.  Fetch, Search, List and the like, and Select,
\* first throw away the untagged data collected so far.
Add(c, k) ==
    LET t == nextTag + 1
    IN /\ At(c, "ready")
       /\ t <= MaxTags
       /\ nextTag' = t
       /\ kind' = [kind EXCEPT ![t] = k]
       /\ pending' = pending \cup {t}
       /\ late' = IF once = "no" THEN late ELSE late \cup {t}
       /\ untagged' = IF k \in {"data", "select"} THEN <<>> ELSE untagged
       /\ tag' = [tag EXCEPT ![c] = t]
       /\ Go(c, "write")
       /\ UNCHANGED <<done, sent, contCh, state, closed, connOpen, waiterVars,
                      rd, once, drain, toServer, toClient, serverVars, taken>>

\* The command line goes out.  Authenticate waits for a continuation only to
\* send an initial response that it could not send with the command.
Write(c) ==
    /\ At(c, "write")
    /\ Written(Line(tag[c], "command"))
    /\ \/ Waits(kind[tag[c]]) /\ Go(c, "cont")
       \/ kind[tag[c]] = "auth" /\ (Go(c, "cont") \/ Go(c, "auth"))
       \/ kind[tag[c]] \notin {"idle", "append", "auth"} /\ Go(c, "wait")
    /\ UNCHANGED <<nextTag, kind, resultVars, contCh, untagged, state, closed,
                   connOpen, tag, waiterVars, rd, discVars, toClient,
                   serverVars, taken>>

\* Flush fails: the command is completed with the error, which nobody reads,
\* and the call returns it; Logout closes the connection first.
WriteError(c) ==
    /\ At(c, "write")
    /\ WriteFails
    /\ Complete(tag[c], "err")
    /\ IF kind[tag[c]] = "logout" THEN state' = "logout" /\ Go(c, "close")
       ELSE UNCHANGED state /\ Return(c)
    /\ UNCHANGED <<nextTag, kind, contCh, untagged, closed, connOpen, tag,
                   waiterVars, rd, discVars, toClient, serverVars, taken>>

\* Authenticate: mechanism.Start fails after pending.Add.
AuthStartError(c) ==
    /\ At(c, "write") /\ kind[tag[c]] = "auth"
    /\ Return(c)
    /\ UNCHANGED <<nextTag, kind, resultVars, contCh, untagged, state, closed,
                   connOpen, tag, waiterVars, rd, discVars, toServer, toClient,
                   serverVars, taken>>

\* The tagged response, or the disconnect error, reaches the call that waits
\* for it.  Fetch and its like then collect the untagged data; Logout closes
\* the connection whatever the answer.
Result(c) ==
    LET t == tag[c]  k == kind[t]
    IN /\ At(c, "wait")
       /\ \E r \in Results :
             /\ Receive(t, r)
             /\ state' = IF k = "logout" THEN "logout"
                         ELSE IF r = "OK" THEN Effect(k, state) ELSE state
             /\ \/ /\ k = "data" /\ r = "OK"
                   /\ taken' = taken \cup {<<t, u>> : u \in Range(untagged)}
                   /\ untagged' = <<>>
                \/ ~(k = "data" /\ r = "OK") /\ UNCHANGED <<taken, untagged>>
       /\ IF k = "logout" THEN Go(c, "close") ELSE Return(c)
       /\ UNCHANGED <<nextTag, kind, contCh, closed, connOpen, tag, waiterVars,
                      rd, discVars, toServer, toClient, serverVars>>

\* Taking what is in continuationCh.
TakeCont(c) ==
    /\ contCh # Empty
    /\ contCh' = Empty
    /\ taken' = IF contCh.what = "err" THEN taken
                ELSE taken \cup {<<tag[c], contCh.tag>>}

\* waitForContinuation: the select takes a continuation...
Continuation(c) ==
    /\ At(c, "cont")
    /\ TakeCont(c)
    /\ IF contCh.what = "err" THEN Return(c)
       ELSE Go(c, CASE kind[tag[c]] = "idle"   -> "idling"
                    [] kind[tag[c]] = "append" -> "literal"
                    [] OTHER -> "ir")
    /\ UNCHANGED <<nextTag, kind, resultVars, untagged, state, closed, connOpen,
                   tag, waiterVars, rd, discVars, toServer, toClient,
                   serverVars>>

\* ... or the command's result, which is an error to its caller even when it
\* is OK.
NoContinuation(c) ==
    /\ At(c, "cont")
    /\ \E r \in Results : Receive(tag[c], r)
    /\ Return(c)
    /\ UNCHANGED <<nextTag, kind, contCh, untagged, state, closed, connOpen,
                   tag, waiterVars, rd, discVars, toServer, toClient,
                   serverVars, taken>>

\* What a call sends once it may: APPEND its literal, AUTHENTICATE its initial
\* response.  A failed write returns and leaves the command pending.
Follow(c, where, what, next) ==
    /\ At(c, where)
    /\ \/ Written(Line(tag[c], what)) /\ Go(c, next)
       \/ WriteFails /\ Return(c)
    /\ UNCHANGED <<nextTag, kind, resultVars, contCh, untagged, state, closed,
                   connOpen, tag, waiterVars, rd, discVars, toClient,
                   serverVars, taken>>

AppendLiteral_NotFlushed(c) ==
    /\ At(c, "literal") /\ Go(c, "wait")
    /\ UNCHANGED <<nextTag, kind, resultVars, contCh, untagged, state, closed,
                   connOpen, tag, waiterVars, rd, discVars, toServer, toClient,
                   serverVars, taken>>

AppendLiteral(c) == Follow(c, "literal", "literal", "wait")
InitialResponse(c) == Follow(c, "ir", "response", "auth")

\* Authenticate's loop: a challenge is answered, or cancelled when it cannot be
\* decoded or the mechanism rejects it.
AuthChallenge(c) ==
    /\ At(c, "auth")
    /\ TakeCont(c)
    /\ \/ contCh.what = "err" /\ Return(c) /\ UNCHANGED toServer
       \/ /\ contCh.what = "+"
          /\ \/ Written(Line(tag[c], "response")) /\ UNCHANGED pc
             \/ WriteFails /\ Return(c)
             \/ Written(Line(tag[c], "*")) /\ Return(c)
    /\ UNCHANGED <<nextTag, kind, resultVars, untagged, state, closed, connOpen,
                   tag, waiterVars, rd, discVars, toClient, serverVars>>

AuthResult(c) ==
    /\ At(c, "auth")
    /\ \E r \in Results :
          /\ Receive(tag[c], r)
          /\ state' = IF r = "OK" THEN "auth" ELSE state
    /\ Return(c)
    /\ UNCHANGED <<nextTag, kind, contCh, untagged, closed, connOpen, tag,
                   waiterVars, rd, discVars, toServer, toClient, serverVars,
                   taken>>

-----------------------------------------------------------------------------
(* A running IDLE: IdleCommand.Wait and Done *)

\* IdleCommand.Done: DONE goes out, then Wait.  (One background goroutine is
\* modelled; an IDLE that begins while it is in use does without.)
IdleDone(c) ==
    /\ WaitInBackground => waiterPc # "none"
    /\ Follow(c, "idling", "DONE", "wait")

\* go func() { done <- idle.Wait() }()
StartWaiter(c) ==
    /\ WaitInBackground
    /\ At(c, "idling") /\ waiterPc = "none"
    /\ waiter' = tag[c] /\ waiterPc' = "wait"
    /\ UNCHANGED <<nextTag, kind, resultVars, contCh, untagged, state, closed,
                   connOpen, pc, tag, rd, discVars, toServer, toClient,
                   serverVars, taken>>

WaiterResult ==
    /\ waiterPc = "wait"
    /\ \E r \in Results : Receive(waiter, r)
    /\ waiterPc' = "returned"
    /\ UNCHANGED <<nextTag, kind, contCh, untagged, state, closed, connOpen, pc,
                   tag, waiter, rd, discVars, toServer, toClient, serverVars,
                   taken>>

\* The application's select sees that Wait has returned.
IdleOver(c) ==
    /\ At(c, "idling") /\ waiter = tag[c] /\ waiterPc = "returned"
    /\ waiter' = 0 /\ waiterPc' = "none"
    /\ Return(c)
    /\ UNCHANGED <<nextTag, kind, resultVars, contCh, untagged, state, closed,
                   connOpen, tag, rd, discVars, toServer, toClient, serverVars,
                   taken>>

-----------------------------------------------------------------------------
(* Close, the reader and handleDisconnect *)

\* Close, called on its own or by Logout: the second caller returns at once.
Close(c) ==
    /\ At(c, "ready") \/ At(c, "close")
    /\ closed' = TRUE
    /\ IF closed THEN Return(c) ELSE Go(c, "closing")
    /\ UNCHANGED <<nextTag, kind, resultVars, contCh, untagged, state, connOpen,
                   tag, waiterVars, rd, discVars, toServer, toClient,
                   serverVars, taken>>

CloseConn(c) ==
    /\ At(c, "closing")
    /\ connOpen' = FALSE
    /\ Go(c, "disc")
    /\ UNCHANGED <<nextTag, kind, resultVars, contCh, untagged, state, closed,
                   tag, waiterVars, rd, discVars, toServer, toClient,
                   serverVars, taken>>

\* The reader processes one line.  Lines that reached the decoder's buffer are
\* still processed after the connection is closed.
ReadLine ==
    LET m == Head(toClient)
    IN /\ rd = "run"
       /\ toClient # <<>>
       /\ toClient' = Tail(toClient)
       /\ \/ /\ m.what \in {"OK", "NO"}        \* processTagged
             /\ Complete(m.tag, m.what)
             /\ UNCHANGED <<contCh, untagged>>
          \/ /\ m.what = "+"                   \* handleContinuation
             /\ contCh' = IF contCh # Empty THEN contCh
                          ELSE [tag |-> m.tag, what |-> "+"]
             /\ UNCHANGED <<resultVars, untagged>>
          \/ /\ m.what = "data"                \* processUntagged
             /\ untagged' = Append(untagged, m.tag)
             /\ UNCHANGED <<resultVars, contCh>>
       /\ UNCHANGED <<nextTag, kind, state, closed, connOpen, pc, tag,
                      waiterVars, rd, discVars, toServer, serverVars, taken>>

ReadError_Silent ==
    /\ rd = "run"
    /\ ~connOpen \/ ~peerOpen
    /\ rd' = "stopped"
    /\ UNCHANGED <<nextTag, kind, resultVars, contCh, untagged, state, closed,
                   connOpen, pc, tag, waiterVars, discVars, toServer, toClient,
                   serverVars, taken>>

ReadError ==
    /\ rd = "run"
    /\ ~connOpen \/ ~peerOpen
    /\ rd' = "disc"
    /\ UNCHANGED <<nextTag, kind, resultVars, contCh, untagged, state, closed,
                   connOpen, pc, tag, waiterVars, discVars, toServer, toClient,
                   serverVars, taken>>

CompleteAll_KeepsMap ==
    /\ once = "no"
    /\ rd = "disc" \/ \E c \in Callers : At(c, "disc")
    /\ once' = "completing"
    /\ drain' = pending
    /\ UNCHANGED <<nextTag, kind, resultVars, contCh, untagged, state, closed,
                   connOpen, pc, tag, waiterVars, rd, late, toServer, toClient,
                   serverVars, taken>>

CompleteAll_Forgets ==
    /\ once = "no"
    /\ rd = "disc" \/ \E c \in Callers : At(c, "disc")
    /\ once' = "completing"
    /\ pending' = {}
    /\ UNCHANGED <<nextTag, kind, done, sent, contCh, untagged, state, closed,
                   connOpen, pc, tag, waiterVars, rd, drain, late, toServer,
                   toClient, serverVars, taken>>

\* handleDisconnect, whose body runs once: CompleteAll takes the map...
CompleteAll ==
    /\ once = "no"
    /\ rd = "disc" \/ \E c \in Callers : At(c, "disc")
    /\ once' = "completing"
    /\ drain' = pending
    /\ pending' = {}
    /\ UNCHANGED <<nextTag, kind, done, sent, contCh, untagged, state, closed,
                   connOpen, pc, tag, waiterVars, rd, late, toServer, toClient,
                   serverVars, taken>>

\* ... sends the error to every command that was in it...
CompleteNext(t) ==
    /\ t \in drain
    /\ Send(t, "err")
    /\ drain' = drain \ {t}
    /\ UNCHANGED <<nextTag, kind, contCh, untagged, state, closed, connOpen, pc,
                   tag, waiterVars, rd, once, late, toServer, toClient,
                   serverVars, taken>>

\* ... wakes a call that waits for a continuation, and closes disconnectCh.
Disconnected ==
    /\ once = "completing" /\ drain = {}
    /\ contCh' = IF contCh # Empty THEN contCh
                 ELSE Gone
    /\ once' = "done"
    /\ UNCHANGED <<nextTag, kind, resultVars, untagged, state, closed, connOpen,
                   pc, tag, waiterVars, rd, drain, late, toServer, toClient,
                   serverVars, taken>>

\* handleDisconnect returns to the reader, which ends, or to Close.
AfterDisconnect ==
    /\ once = "done"
    /\ \/ rd = "disc" /\ rd' = "stopped" /\ UNCHANGED pc
       \/ \E c \in Callers : At(c, "disc") /\ Return(c) /\ UNCHANGED rd
    /\ UNCHANGED <<nextTag, kind, resultVars, contCh, untagged, state, closed,
                   connOpen, tag, waiterVars, discVars, toServer, toClient,
                   serverVars, taken>>

-----------------------------------------------------------------------------
(* The server at the other end, as far as the protocol binds it.  It is     *)
(* modelled from what the client expects of any server.                     *)

clientVars == <<nextTag, kind, resultVars, contCh, untagged, state, closed,
                connOpen, pc, tag, waiterVars, rd, discVars, taken>>

Answer(what) == toClient' = Append(toClient, [tag |-> serving, what |-> what])

\* The next command; a line that is no command is refused without a tag.
ServerTake ==
    /\ peerOpen /\ servingPc = "ready" /\ toServer # <<>>
    /\ toServer' = Tail(toServer)
    /\ IF Head(toServer).what = "command"
       THEN serving' = Head(toServer).tag /\ servingPc' = "busy"
       ELSE UNCHANGED <<serving, servingPc>>
    /\ UNCHANGED <<clientVars, toClient, peerOpen>>

ServerData ==
    /\ peerOpen /\ servingPc = "busy" /\ kind[serving] = "data"
    /\ Answer("data")
    /\ servingPc' = "final"
    /\ UNCHANGED <<clientVars, toServer, serving, peerOpen>>

ServerContinue ==
    /\ peerOpen /\ servingPc = "busy" /\ kind[serving] \in {"idle", "append", "auth"}
    /\ Answer("+")
    /\ servingPc' = "await"
    /\ UNCHANGED <<clientVars, toServer, serving, peerOpen>>

\* After "+" the server takes what comes for what it asked for.
ServerInput ==
    /\ peerOpen /\ servingPc = "await" /\ toServer # <<>>
    /\ toServer' = Tail(toServer)
    /\ servingPc' = CASE kind[serving] = "auth" /\ Head(toServer).what # "*" -> "busy"
                      [] kind[serving] = "idle" /\ Head(toServer).what # "DONE" -> "await"
                      [] OTHER -> "final"
    /\ UNCHANGED <<clientVars, toClient, serving, peerOpen>>

\* IDLE and APPEND succeed only after "+"; a cancelled AUTHENTICATE fails.
ServerFinish ==
    /\ peerOpen /\ servingPc \in {"busy", "final"}
    /\ \/ Answer("NO")
       \/ /\ Waits(kind[serving]) => servingPc = "final"
          /\ kind[serving] = "auth" => servingPc = "busy"
          /\ Answer("OK")
    /\ servingPc' = "ready"
    /\ UNCHANGED <<clientVars, toServer, serving, peerOpen>>

ServerClose ==
    /\ peerOpen
    /\ peerOpen' = FALSE
    /\ UNCHANGED <<clientVars, toServer, toClient, serving, servingPc>>

Server == ServerTake \/ ServerData \/ ServerContinue \/ ServerInput
          \/ ServerFinish

-----------------------------------------------------------------------------
\* A call that has been started goes on.
CallStep(c) ==
    \/ Write(c) \/ WriteError(c) \/ AuthStartError(c) \/ Result(c)
    \/ Continuation(c) \/ NoContinuation(c) \/ AppendLiteral(c)
    \/ InitialResponse(c) \/ AuthChallenge(c) \/ AuthResult(c)
    \/ CloseConn(c) \/ (At(c, "close") /\ Close(c))

Disconnect == CompleteAll \/ (\E t \in Tags : CompleteNext(t))
              \/ Disconnected \/ AfterDisconnect

Next ==
    \/ \E c \in Callers :
          \/ \E k \in Kinds : Add(c, k)
          \/ CallStep(c) \/ IdleDone(c) \/ StartWaiter(c) \/ IdleOver(c)
          \/ Close(c)
    \/ WaiterResult \/ ReadLine \/ ReadError \/ Disconnect
    \/ Server \/ ServerClose

Spec == Init /\ [][Next]_vars

\* Goroutines are scheduled; the application stops its IDLE after a while (its
\* timer); nobody has to issue commands, to call Close or to close the
\* connection at the other end.
Fairness ==
    /\ \A c \in Callers : WF_vars(CallStep(c)) /\ WF_vars(IdleDone(c))
                          /\ WF_vars(StartWaiter(c)) /\ WF_vars(IdleOver(c))
    /\ WF_vars(WaiterResult) /\ WF_vars(ReadLine) /\ WF_vars(ReadError)
    /\ WF_vars(Disconnect)

FairSpec == Spec /\ Fairness

\* The server answers, too, and a SASL exchange comes to an end.
LiveSpec == FairSpec /\ WF_vars(Server) /\ SF_vars(ServerFinish)

-----------------------------------------------------------------------------
\* Every variable has its type; in particular the error continuation of a
\* disconnect is never taken for a server's continuation request.
TypeOK ==
    /\ nextTag \in 0..MaxTags
    /\ kind \in [Tags -> AllKinds]
    /\ pending \subseteq Tags
    /\ done \in [Tags -> Buffer]
    /\ contCh \in Continuations
    /\ untagged \in Seq(Tags)
    /\ state \in ConnStates
    /\ closed \in BOOLEAN /\ connOpen \in BOOLEAN /\ peerOpen \in BOOLEAN
    /\ pc \in [Callers -> {"ready", "write", "wait", "cont", "literal", "ir",
                           "auth", "idling", "close", "closing", "disc"}]
    /\ tag \in [Callers -> Tags \cup {0}]
    /\ waiter \in Tags \cup {0} /\ waiterPc \in {"none", "wait", "returned"}
    /\ rd \in {"run", "disc", "stopped"}
    /\ once \in {"no", "completing", "done"}
    /\ drain \subseteq Tags /\ late \subseteq Tags
    /\ toServer \in Seq(Lines) /\ toClient \in Seq(Replies)
    /\ serving \in Tags \cup {0}
    /\ servingPc \in {"ready", "busy", "await", "final"}
    /\ sent \in [Tags -> Nat]
    /\ taken \subseteq Tags \X Tags

\* A command gets one result at most, and one that is still to get it (it is in
\* the map, or CompleteAll has taken it from there) has got none.  So neither
\* the reader nor handleDisconnect ever blocks on a full done channel, however
\* a tagged response, a failed write and a disconnect fall together.
OneResult ==
    \A t \in Tags : /\ sent[t] <= 1
                    /\ t \in pending \cup drain => sent[t] = 0 /\ done[t] = "none"

\* The README's IDLE example runs Wait beside Done, and both receive from the
\* one channel of one result: Wait has taken the result of command t.
Stolen(t) == waiter = t /\ waiterPc = "returned"

\* A call that waits for its result waits for something that can come: its
\* command is still known, or the result is there, or it is the Done of an IDLE
\* whose Wait has taken the result, which then blocks.
WaitsForSomething ==
    \A c \in Callers :
        At(c, "wait") \/ At(c, "cont") \/ At(c, "auth") =>
            \/ tag[c] \in pending \cup drain
            \/ done[tag[c]] # "none"
            \/ Stolen(tag[c])

\* Continuation requests and untagged data carry no tag: a call takes what was
\* sent for it and nothing that was sent for another command.
\* (It needs one call at a time: continuationCh and untaggedData are shared.
\* And it needs a connection: a continuation that nobody took before a
\* disconnect is taken by the next IDLE or APPEND after it.)
TakesItsOwn == \A p \in taken : p[1] \in late \/ p[1] = p[2]

\* Every call registered before CompleteAll took the map returns once the
\* connection is gone: results, errors, IDLE, APPEND and AUTHENTICATE alike, but
\* for a Done whose result Wait has taken.
EarlyCallsReturn ==
    \A c \in Callers :
        ((~connOpen \/ ~peerOpen) /\ pc[c] # "ready" /\ tag[c] \notin late)
            ~> (pc[c] = "ready" \/ Stolen(tag[c]))

\* With a server that answers and stays, every call returns.
CallsReturn ==
    []peerOpen => \A c \in Callers : (pc[c] # "ready") ~> (pc[c] = "ready")
=============================================================================
