--------------------------- MODULE ClientConnProofs ---------------------------
(***************************************************************************)
(* Proofs about ClientConn, for any number of callers, any mix of command  *)
(* kinds and any number of commands: its types, that a command gets one    *)
(* result at most, that no call waits for a result nobody can send; and,   *)
(* for one caller at a time, that a call takes what was sent for it.       *)
(***************************************************************************)
EXTENDS ClientConn, TLAPS

\* A call that holds its command's done channel.
Active(c) == pc[c] \in {"write", "wait", "cont", "literal", "ir", "auth", "idling"}

\* A result is there, or somebody is still to send it.
Answerable(t) == t \in pending \cup drain \/ done[t] # "none"

\* Tags that tags.Next has not handed out are untouched.
Fresh ==
    \A t \in Tags : t > nextTag => /\ t \notin pending \cup drain
                                   /\ sent[t] = 0 /\ done[t] = "none"

\* What makes OneResult inductive: a command is in the map or in CompleteAll's
\* hands, never in both, and CompleteAll holds commands only while it runs.
Owned ==
    /\ OneResult
    /\ pending \cap drain = {}
    /\ once # "completing" => drain = {}

\* Whoever needs a command has one.
Named ==
    /\ \A c \in Callers : Active(c) => tag[c] \in 1..nextTag
    /\ waiterPc = "wait" => waiter \in Tags
    /\ servingPc # "ready" => serving \in Tags

\* The inductive invariant of the results.
IInv == TypeOK /\ Named /\ Fresh /\ Owned

\* What makes WaitsForSomething inductive: no two calls share a command, and
\* a call can be answered from the moment its command is registered, unless the
\* goroutine that runs Wait has taken its answer.
Calls ==
    \A c \in Callers : Active(c) =>
        /\ Answerable(tag[c]) \/ Stolen(tag[c])
        /\ \A d \in Callers \ {c} : Active(d) => tag[d] # tag[c]

USE ClientAssumption

\* No command is there when NewClient starts the reader.
LEMMA InitIInv == Init => IInv
<1> SUFFICES ASSUME Init PROVE IInv
  BY Zenon
<1> USE DEF Init, Tags
<1>1. nextTag \in 0..MaxTags /\ kind \in [Tags -> AllKinds] /\ pending \subseteq Tags
  BY DEF AllKinds
<1>2. done \in [Tags -> Buffer] /\ contCh \in Continuations /\ sent \in [Tags -> Nat]
  BY Zenon DEF Buffer, Results, Continuations, Empty, Gone
<1>3. untagged \in Seq(Tags) /\ toServer \in Seq(Lines) /\ toClient \in Seq(Replies)
  OBVIOUS
<1>4. state \in ConnStates
  BY Zenon DEF ConnStates
<1>5. tag \in [Callers -> Tags \cup {0}]
  BY Zenon
<1>6. pc \in [Callers -> {"ready", "write", "wait", "cont", "literal", "ir",
                           "auth", "idling", "close", "closing", "disc"}]
  BY Zenon
<1>7. TypeOK
  BY Zenon, <1>1, <1>2, <1>3, <1>4, <1>5, <1>6 DEF TypeOK
<1>8. Named /\ Fresh /\ Owned
  BY DEF Named, Active, Fresh, Owned, OneResult
<1>. QED
  BY Zenon, <1>7, <1>8 DEF IInv

-----------------------------------------------------------------------------
(* Types *)

\* TypeOK in three parts, so that a step is shown to keep each on its own.
ResultTypes ==
    /\ nextTag \in 0..MaxTags /\ kind \in [Tags -> AllKinds]
    /\ pending \subseteq Tags /\ drain \subseteq Tags /\ late \subseteq Tags
    /\ done \in [Tags -> Buffer] /\ sent \in [Tags -> Nat]
    /\ tag \in [Callers -> Tags \cup {0}]

\* ... the lines, the continuation channel and the server...
WireTypes ==
    /\ toServer \in Seq(Lines) /\ toClient \in Seq(Replies)
    /\ untagged \in Seq(Tags) /\ contCh \in Continuations
    /\ taken \subseteq Tags \X Tags
    /\ serving \in Tags \cup {0}
    /\ servingPc \in {"ready", "busy", "await", "final"}

\* ... the goroutines' program counters and the flags.
ControlTypes ==
    /\ state \in ConnStates
    /\ closed \in BOOLEAN /\ connOpen \in BOOLEAN /\ peerOpen \in BOOLEAN
    /\ pc \in [Callers -> {"ready", "write", "wait", "cont", "literal", "ir",
                           "auth", "idling", "close", "closing", "disc"}]
    /\ waiter \in Tags \cup {0} /\ waiterPc \in {"none", "wait", "returned"}
    /\ rd \in {"run", "disc", "stopped"}
    /\ once \in {"no", "completing", "done"}

\* The three parts are TypeOK...
LEMMA TypesInParts == TypeOK <=> ResultTypes /\ WireTypes /\ ControlTypes
  BY SMTT(20) DEF TypeOK, ResultTypes, WireTypes, ControlTypes

\* ... and after a step, too.
LEMMA TypesInPartsPrime == TypeOK' <=> ResultTypes' /\ WireTypes' /\ ControlTypes'
  BY SMTT(20) DEF TypeOK, ResultTypes, WireTypes, ControlTypes

-----------------------------------------------------------------------------
(* What a step does to the results *)

\* No command begins and handleDisconnect does not go on.
SameCommands == UNCHANGED <<nextTag, kind, drain, once, late, tag>>

\* Steps that neither register nor answer a command.
Quiet(c) ==
    \/ Write(c) \/ AuthStartError(c) \/ Continuation(c) \/ AppendLiteral(c)
    \/ InitialResponse(c) \/ AuthChallenge(c) \/ IdleDone(c) \/ StartWaiter(c)
    \/ IdleOver(c) \/ Close(c) \/ CloseConn(c)

\* They leave the map and the done channels alone.
LEMMA QuietStep ==
    ASSUME NEW c \in Callers, Quiet(c)
    PROVE  UNCHANGED resultVars /\ SameCommands
  BY Zenon DEF Quiet, Write, AuthStartError, Continuation, AppendLiteral, Follow,
         InitialResponse, AuthChallenge, IdleDone, StartWaiter, IdleOver, Close,
         CloseConn, discVars, SameCommands

\* The reader's errors, the end of the disconnect path and the server's steps
\* leave the results alone.
LEMMA OtherStep ==
    ASSUME ReadError \/ Disconnected \/ AfterDisconnect \/ Server \/ ServerClose
    PROVE  /\ UNCHANGED <<resultVars, nextTag, kind, drain, late, tag>>
           /\ once' = once \/ (drain = {} /\ once' = "done")
  BY Zenon DEF ReadError, Disconnected, AfterDisconnect, Server, ServerTake, ServerData,
         ServerContinue, ServerInput, ServerFinish, ServerClose, clientVars,
         discVars

\* Every step registers a command, answers one, reads an answer, moves the
\* commands to CompleteAll, answers one of those, or leaves the results alone.
LEMMA StepShape ==
    ASSUME TypeOK, Named, Next
    PROVE  \/ \E c \in Callers, k \in Kinds : Add(c, k)
           \/ \E t \in Tags, r \in Results : Complete(t, r) /\ SameCommands
           \/ \E t \in Tags, r \in Results : Receive(t, r) /\ SameCommands
           \/ CompleteAll
           \/ \E t \in Tags : CompleteNext(t)
           \/ /\ UNCHANGED <<resultVars, nextTag, kind, drain, late, tag>>
              /\ once' = once \/ (drain = {} /\ once' = "done")
<1>1. ASSUME NEW c \in Callers, Active(c)
      PROVE  tag[c] \in Tags
  BY <1>1 DEF TypeOK, Named, Tags
<1>2. ASSUME NEW c \in Callers, WriteError(c)
      PROVE  \E t \in Tags, r \in Results : Complete(t, r) /\ SameCommands
  BY Zenon, <1>1, <1>2 DEF WriteError, At, Active, Results, SameCommands, discVars
<1>3. ASSUME NEW c \in Callers, Result(c) \/ NoContinuation(c) \/ AuthResult(c)
      PROVE  \E t \in Tags, r \in Results : Receive(t, r) /\ SameCommands
  BY Zenon, <1>1, <1>3 DEF Result, NoContinuation, AuthResult, At, Active, SameCommands,
                    discVars
<1>4. ASSUME WaiterResult
      PROVE  \E t \in Tags, r \in Results : Receive(t, r) /\ SameCommands
  BY Zenon, <1>4 DEF WaiterResult, Named, SameCommands, discVars
<1>5. ASSUME ReadLine
      PROVE  \/ \E t \in Tags, r \in Results : Complete(t, r) /\ SameCommands
             \/ UNCHANGED resultVars /\ SameCommands
  <2>1. Head(toClient) \in Replies
    BY <1>5 DEF ReadLine, TypeOK
  <2>2. Head(toClient).tag \in Tags
    BY Zenon, <2>1 DEF Replies
  <2>. QED
    BY Zenon, <1>5, <2>2 DEF ReadLine, Results, SameCommands, discVars
<1>6. ASSUME NEW c \in Callers, Quiet(c)
      PROVE  UNCHANGED resultVars /\ SameCommands
  BY Zenon, <1>6, QuietStep
<1>. QED
  BY Zenon, <1>2, <1>3, <1>4, <1>5, <1>6, OtherStep
     DEF Next, CallStep, Disconnect, Quiet, SameCommands

-----------------------------------------------------------------------------
(* The inductive step *)

\* The map, CompleteAll's commands and the done channels stay as they must be.
LEMMA ResultsStep ==
    ASSUME IInv, Next
    PROVE  ResultTypes' /\ Fresh' /\ Owned'
<1> ResultTypes
  BY Zenon, TypesInParts DEF IInv
<1> USE DEF IInv, ResultTypes, Fresh, Owned, OneResult, Tags
<1>1. ASSUME NEW c \in Callers, NEW k \in Kinds, Add(c, k)
      PROVE  ResultTypes' /\ Fresh' /\ Owned'
  BY <1>1 DEF Add
<1>2. ASSUME NEW t \in Tags, NEW r \in Results, Complete(t, r), SameCommands
      PROVE  ResultTypes' /\ Fresh' /\ Owned'
  <2>1. CASE t \in pending /\ Send(t, r)
    <3>1. ResultTypes'
      BY <1>2, <2>1 DEF Send, SameCommands, Buffer
    <3>2. Fresh' /\ Owned'
      BY <1>2, <2>1 DEF Send, SameCommands
    <3>. QED
      BY Zenon, <3>1, <3>2
  <2>2. CASE UNCHANGED resultVars
    BY Zenon, <1>2, <2>2 DEF SameCommands, resultVars
  <2>. QED
    BY Zenon, <1>2, <2>1, <2>2 DEF Complete
<1>3. ASSUME NEW t \in Tags, NEW r \in Results, Receive(t, r), SameCommands
      PROVE  ResultTypes' /\ Fresh' /\ Owned'
  BY Zenon, <1>3 DEF Receive, SameCommands, Buffer
<1>4. ASSUME CompleteAll
      PROVE  ResultTypes' /\ Fresh' /\ Owned'
  BY Zenon, <1>4 DEF CompleteAll
<1>5. ASSUME NEW t \in Tags, CompleteNext(t)
      PROVE  ResultTypes' /\ Fresh' /\ Owned'
  BY <1>5 DEF CompleteNext, Send, Buffer, Results
<1>6. ASSUME UNCHANGED <<resultVars, nextTag, kind, drain, late, tag>>,
             once' = once \/ (drain = {} /\ once' = "done")
      PROVE  ResultTypes' /\ Fresh' /\ Owned'
  BY Zenon, <1>6 DEF resultVars
<1>. QED
  BY Zenon, <1>1, <1>2, <1>3, <1>4, <1>5, <1>6, StepShape

\* Taking a continuation keeps the channel's and the ghost's types.
LEMMA TakeContTypes ==
    ASSUME TypeOK, NEW c \in Callers, tag[c] \in Tags, TakeCont(c)
    PROVE  contCh' \in Continuations /\ taken' \subseteq Tags \X Tags
  BY DEF TypeOK, TakeCont, Continuations, Empty, Gone

\* A line that is written is one.
LEMMA WrittenTypes ==
    ASSUME TypeOK, NEW t \in Tags,
           NEW what \in {"command", "DONE", "literal", "response", "*"},
           Written(Line(t, what))
    PROVE  toServer' \in Seq(Lines)
<1>1. Line(t, what) \in Lines
  BY Zenon DEF Line, Lines
<1>2. toServer \in Seq(Lines)
  BY Zenon DEF TypeOK
<1>. QED
  BY <1>1, <1>2 DEF Written

\* Lines, channels and the server keep their types.
LEMMA WireStep ==
    ASSUME TypeOK, Named, Next
    PROVE  WireTypes'
<1> WireTypes
  BY Zenon, TypesInParts
<1>0. ASSUME NEW c \in Callers, Active(c)
      PROVE  tag[c] \in Tags
  BY <1>0 DEF TypeOK, Named, Tags
<1>1. ASSUME NEW c \in Callers, NEW k \in Kinds, Add(c, k)
      PROVE  WireTypes'
  BY <1>1 DEF Add, WireTypes, serverVars
<1>2. ASSUME NEW c \in Callers, Write(c)
      PROVE  WireTypes'
  BY Zenon, <1>0, <1>2, WrittenTypes DEF Write, At, Active, WireTypes, serverVars
<1>3. ASSUME NEW c \in Callers,
             WriteError(c) \/ AuthStartError(c) \/ NoContinuation(c)
             \/ AuthResult(c) \/ StartWaiter(c) \/ IdleOver(c) \/ Close(c)
             \/ CloseConn(c)
      PROVE  WireTypes'
  BY Zenon, <1>3 DEF WriteError, WriteFails, AuthStartError, NoContinuation, AuthResult,
              StartWaiter, IdleOver, Close, CloseConn, WireTypes, serverVars
<1>4. ASSUME NEW c \in Callers, Result(c)
      PROVE  WireTypes'
  <2>1. Range(untagged) \subseteq Tags
    BY SMTT(20) DEF WireTypes, Range
  <2>2. UNCHANGED <<contCh, toServer, toClient, serving, servingPc>>
    BY Zenon, <1>4 DEF Result, serverVars
  <2>3. untagged' \in Seq(Tags)
    <3>1. untagged' = untagged \/ untagged' = <<>>
      BY Zenon, <1>4 DEF Result
    <3>2. untagged \in Seq(Tags) /\ <<>> \in Seq(Tags)
      BY DEF WireTypes
    <3>. QED
      BY Zenon, <3>1, <3>2
  <2>4. taken' \subseteq Tags \X Tags
    <3>1. tag[c] \in Tags
      BY Zenon, <1>0, <1>4 DEF Result, At, Active
    <3>2. {<<tag[c], u>> : u \in Range(untagged)} \subseteq Tags \X Tags
      BY <2>1, <3>1
    <3>. QED
      BY Zenon, <1>4, <3>2 DEF Result, WireTypes
  <2>. QED
    BY Zenon, <2>2, <2>3, <2>4 DEF WireTypes
<1>5. ASSUME NEW c \in Callers, Continuation(c)
      PROVE  WireTypes'
  BY Zenon, <1>0, <1>5, TakeContTypes DEF Continuation, At, Active, WireTypes, serverVars
<1>6. ASSUME NEW c \in Callers, AppendLiteral(c) \/ InitialResponse(c) \/ IdleDone(c)
      PROVE  WireTypes'
  BY Zenon, <1>0, <1>6, WrittenTypes
     DEF AppendLiteral, InitialResponse, IdleDone, Follow, WriteFails, At, Active,
         WireTypes, serverVars
<1>7. ASSUME NEW c \in Callers, AuthChallenge(c)
      PROVE  WireTypes'
  BY Zenon, <1>0, <1>7, TakeContTypes, WrittenTypes
     DEF AuthChallenge, WriteFails, At, Active, WireTypes, serverVars
<1>8. ASSUME WaiterResult \/ ReadError \/ CompleteAll \/ AfterDisconnect
             \/ \E t \in Tags : CompleteNext(t)
      PROVE  WireTypes'
  BY Zenon, <1>8 DEF WaiterResult, ReadError, CompleteAll, CompleteNext, AfterDisconnect,
              WireTypes, serverVars
<1>9. ASSUME Disconnected
      PROVE  WireTypes'
  BY Zenon, <1>9 DEF Disconnected, WireTypes, serverVars, Continuations
<1>10. ASSUME ReadLine
       PROVE  WireTypes'
  <2>1. Head(toClient) \in Replies /\ toClient' \in Seq(Replies)
    BY <1>10 DEF ReadLine, WireTypes
  <2>2. Head(toClient).tag \in Tags
    BY Zenon, <2>1 DEF Replies
  <2>3. contCh' \in Continuations
    BY <1>10, <2>2 DEF ReadLine, WireTypes, Continuations
  <2>4. untagged' \in Seq(Tags)
    <3>1. untagged' = untagged \/ untagged' = Append(untagged, Head(toClient).tag)
      BY Zenon, <1>10 DEF ReadLine
    <3>2. untagged \in Seq(Tags)
      BY Zenon DEF WireTypes
    <3>. QED
      BY <2>2, <3>1, <3>2
  <2>5. UNCHANGED <<toServer, taken, serving, servingPc>>
    BY Zenon, <1>10 DEF ReadLine, serverVars
  <2>. QED
    BY Zenon, <2>1, <2>3, <2>4, <2>5 DEF WireTypes
<1>11. ASSUME Server \/ ServerClose
       PROVE  WireTypes'
  <2>1. ASSUME ServerTake PROVE WireTypes'
    <3>1. Head(toServer) \in Lines /\ toServer' \in Seq(Lines)
      BY <2>1 DEF ServerTake, WireTypes
    <3>2. Head(toServer).tag \in Tags
      BY Zenon, <3>1 DEF Lines
    <3>. QED
      BY Zenon, <2>1, <3>1, <3>2 DEF ServerTake, WireTypes, clientVars
  <2>2. ASSUME servingPc # "ready", NEW what \in {"OK", "NO", "+", "data"}, Answer(what)
        PROVE  toClient' \in Seq(Replies)
    BY <2>2 DEF Named, Answer, WireTypes, Replies
  <2>3. ASSUME ServerData \/ ServerContinue \/ ServerFinish PROVE WireTypes'
    BY Zenon, <2>2, <2>3 DEF ServerData, ServerContinue, ServerFinish, WireTypes, clientVars
  <2>4. ASSUME ServerInput PROVE WireTypes'
    BY <2>4 DEF ServerInput, WireTypes, clientVars
  <2>5. ASSUME ServerClose PROVE WireTypes'
    BY Zenon, <2>5 DEF ServerClose, WireTypes, clientVars
  <2>. QED
    BY Zenon, <1>11, <2>1, <2>3, <2>4, <2>5 DEF Server
<1>. QED
  BY Zenon, <1>1, <1>2, <1>3, <1>4, <1>5, <1>6, <1>7, <1>8, <1>9, <1>10, <1>11
     DEF Next, CallStep, Disconnect

\* Program counters and flags keep their types.
LEMMA ControlStep ==
    ASSUME TypeOK, Named, Next
    PROVE  ControlTypes'
<1> ControlTypes
  BY Zenon, TypesInParts
<1> USE DEF ControlTypes, Go, Return
<1>1. ASSUME NEW c \in Callers, NEW k \in Kinds, Add(c, k)
      PROVE  ControlTypes'
  BY Zenon, <1>1 DEF Add, serverVars, waiterVars
<1>2. ASSUME NEW c \in Callers,
             Write(c) \/ AuthStartError(c) \/ NoContinuation(c)
             \/ Continuation(c) \/ AppendLiteral(c) \/ InitialResponse(c)
             \/ IdleDone(c) \/ AuthChallenge(c)
      PROVE  ControlTypes'
  BY <1>2 DEF Write, AuthStartError, NoContinuation, Continuation,
              AppendLiteral, InitialResponse, IdleDone, Follow, AuthChallenge,
              serverVars, waiterVars, discVars
<1>3. ASSUME NEW c \in Callers, Result(c)
      PROVE  ControlTypes'
  <2>1. Effect(kind[tag[c]], state) \in ConnStates
    BY Zenon DEF Effect, ConnStates
  <2>2. state' \in ConnStates
    <3>1. state' \in {"logout", Effect(kind[tag[c]], state), state}
      BY Zenon, <1>3 DEF Result
    <3>. QED
      BY Zenon, <2>1, <3>1 DEF ConnStates
  <2>3. UNCHANGED <<closed, connOpen, waiterVars, rd, discVars, serverVars>>
    BY Zenon, <1>3 DEF Result
  <2>4. \E where \in {"ready", "close"} : pc' = [pc EXCEPT ![c] = where]
    BY Zenon, <1>3 DEF Result
  <2>. QED
    BY Zenon, <2>2, <2>3, <2>4 DEF serverVars, waiterVars, discVars
<1>4. ASSUME NEW c \in Callers, AuthResult(c)
      PROVE  ControlTypes'
  BY ZenonT(30), <1>4 DEF AuthResult, ConnStates, serverVars, waiterVars, discVars
<1>5. ASSUME NEW c \in Callers, StartWaiter(c) \/ IdleOver(c)
      PROVE  ControlTypes'
  BY Zenon, <1>5 DEF StartWaiter, IdleOver, TypeOK, serverVars, discVars
<1>6. ASSUME NEW c \in Callers, Close(c) \/ CloseConn(c)
      PROVE  ControlTypes'
  BY Zenon, <1>6 DEF Close, CloseConn, serverVars, waiterVars, discVars
<1>7. ASSUME WaiterResult \/ ReadLine \/ ReadError
      PROVE  ControlTypes'
  BY Zenon, <1>7 DEF WaiterResult, ReadLine, ReadError, serverVars, waiterVars, discVars
<1>8. ASSUME Disconnect
      PROVE  ControlTypes'
  BY ZenonT(30), <1>8 DEF Disconnect, CompleteAll, CompleteNext, Disconnected, AfterDisconnect,
              serverVars, waiterVars, discVars
<1>9. ASSUME Server \/ ServerClose
      PROVE  ControlTypes'
  <2>1. UNCHANGED clientVars /\ peerOpen' \in BOOLEAN
    BY Zenon, <1>9 DEF Server, ServerTake, ServerData, ServerContinue, ServerInput,
                ServerFinish, ServerClose
  <2>. QED
    BY Zenon, <2>1 DEF clientVars, waiterVars, discVars
<1>10. ASSUME NEW c \in Callers, WriteError(c)
       PROVE  ControlTypes'
  <2>1. \E where \in {"ready", "close"} : pc' = [pc EXCEPT ![c] = where]
    BY Zenon, <1>10 DEF WriteError
  <2>2. state' \in ConnStates
    BY Zenon, <1>10 DEF WriteError, ConnStates
  <2>3. UNCHANGED <<closed, connOpen, waiterVars, rd, discVars, serverVars>>
    BY Zenon, <1>10 DEF WriteError
  <2>. QED
    BY Zenon, <2>1, <2>2, <2>3 DEF serverVars, waiterVars, discVars
<1>. QED
  BY Zenon, <1>1, <1>2, <1>3, <1>4, <1>5, <1>6, <1>7, <1>8, <1>9, <1>10 DEF Next, CallStep

\* Whoever needs a command keeps having one.
LEMMA NamedStep ==
    ASSUME TypeOK, Named, Next
    PROVE  Named'
<1> USE DEF Named, Active
<1>1. ASSUME NEW c \in Callers, NEW k \in Kinds, Add(c, k)
      PROVE  Named'
  <2>1. /\ nextTag' = nextTag + 1 /\ tag' = [tag EXCEPT ![c] = nextTag + 1]
        /\ Go(c, "write") /\ UNCHANGED <<waiterVars, serverVars>>
    BY Zenon, <1>1 DEF Add
  <2>2. nextTag \in Nat /\ tag' \in [Callers -> Nat]
    BY <2>1 DEF TypeOK, Tags
  <2>3. ASSUME NEW d \in Callers, Active(d)' PROVE tag'[d] \in 1..nextTag'
    <3>1. CASE d = c
      BY <2>1, <2>2, <3>1 DEF TypeOK
    <3>2. CASE d # c
      <4>1. Active(d) /\ tag'[d] = tag[d]
        BY Zenon, <2>1, <2>3, <3>2 DEF Go, TypeOK
      <4>. QED
        BY <2>1, <2>2, <4>1
    <3>. QED
      BY Zenon, <3>1, <3>2
  <2>. QED
    BY Zenon, <2>1, <2>3 DEF serverVars, waiterVars
<1>2. ASSUME NEW c \in Callers,
             Write(c) \/ WriteError(c) \/ AuthStartError(c) \/ Continuation(c)
             \/ NoContinuation(c) \/ AppendLiteral(c) \/ InitialResponse(c)
             \/ AuthChallenge(c) \/ AuthResult(c) \/ IdleDone(c)
      PROVE  Named'
  BY Zenon, <1>2 DEF Write, WriteError, AuthStartError, Continuation, NoContinuation,
              AppendLiteral, InitialResponse, AuthChallenge, AuthResult, IdleDone,
              Follow, At, Go, Return, TypeOK, serverVars, waiterVars
<1>3. ASSUME NEW c \in Callers, Result(c)
      PROVE  Named'
  <2>1. UNCHANGED <<nextTag, tag, waiterVars, serverVars>>
    BY Zenon, <1>3 DEF Result
  <2>2. At(c, "wait") /\ (Go(c, "close") \/ Return(c))
    BY Zenon, <1>3 DEF Result
  <2>. QED
    BY Zenon, <2>1, <2>2 DEF At, Go, Return, TypeOK, serverVars, waiterVars
<1>4. ASSUME NEW c \in Callers,
             StartWaiter(c) \/ IdleOver(c) \/ Close(c) \/ CloseConn(c)
      PROVE  Named'
  <2>1. ASSUME StartWaiter(c) PROVE Named'
    <3>1. Active(c) /\ waiter' = tag[c]
          /\ UNCHANGED <<nextTag, pc, tag, serverVars>>
      BY Zenon, <2>1 DEF StartWaiter, At
    <3>2. tag[c] \in Tags
      BY <3>1 DEF TypeOK, Tags
    <3>. QED
      BY Zenon, <3>1, <3>2 DEF serverVars
  <2>2. ASSUME IdleOver(c) \/ Close(c) \/ CloseConn(c) PROVE Named'
    <3>1. /\ UNCHANGED <<nextTag, tag, serverVars>>
          /\ waiterPc' # "wait" \/ UNCHANGED waiterVars
      BY Zenon, <2>2 DEF IdleOver, Close, CloseConn, waiterVars
    <3>2. \E where \in {"ready", "closing", "disc"} : pc' = [pc EXCEPT ![c] = where]
      BY Zenon, <2>2 DEF IdleOver, Close, CloseConn, At, Go, Return
    <3>. QED
      BY Zenon, <3>1, <3>2 DEF TypeOK, serverVars, waiterVars
  <2>. QED
    BY Zenon, <1>4, <2>1, <2>2
<1>5. ASSUME WaiterResult \/ ReadLine \/ ReadError
      PROVE  Named'
  BY Zenon, <1>5 DEF WaiterResult, ReadLine, ReadError, serverVars, waiterVars
<1>6. ASSUME Disconnect
      PROVE  Named'
  BY Zenon, <1>6 DEF Disconnect, CompleteAll, CompleteNext, Disconnected, AfterDisconnect,
              At, Return, Go, TypeOK, serverVars, waiterVars
<1>7. ASSUME Server \/ ServerClose
      PROVE  Named'
  <2>1. servingPc' # "ready" => serving' \in Tags
    <3>1. ASSUME ServerTake PROVE Head(toServer) \in Lines
      BY <3>1 DEF ServerTake, TypeOK
    <3>2. ASSUME ServerTake PROVE Head(toServer).tag \in Tags
      BY Zenon, <3>1, <3>2 DEF Lines
    <3>. QED
      BY Zenon, <1>7, <3>2 DEF Server, ServerTake, ServerData, ServerContinue,
         ServerInput, ServerFinish, ServerClose
  <2>2. UNCHANGED <<nextTag, tag, pc, waiter, waiterPc>>
    BY Zenon, <1>7 DEF Server, ServerTake, ServerData, ServerContinue, ServerInput,
                ServerFinish, ServerClose, clientVars, waiterVars
  <2>. QED
    BY Zenon, <2>1, <2>2
<1>. QED
  BY Zenon, <1>1, <1>2, <1>3, <1>4, <1>5, <1>6, <1>7 DEF Next, CallStep

\* IInv is inductive.
LEMMA NextIInv == IInv /\ [Next]_vars => IInv'
<1> SUFFICES ASSUME IInv, [Next]_vars PROVE IInv'
  BY Zenon
<1>1. CASE Next
  <2>1. ResultTypes' /\ Fresh' /\ Owned'
    BY Zenon, <1>1, ResultsStep
  <2>2. WireTypes' /\ ControlTypes' /\ Named'
    BY Zenon, <1>1, WireStep, ControlStep, NamedStep DEF IInv
  <2>. QED
    BY Zenon, <2>1, <2>2, TypesInPartsPrime DEF IInv
<1>2. CASE UNCHANGED vars
  BY <1>2 DEF vars, waiterVars, serverVars, discVars, resultVars, IInv, TypeOK,
              Named, Active, Fresh, Owned, OneResult
<1>. QED
  BY Zenon, <1>1, <1>2

\* The model's types hold throughout; above all a disconnect's error is never
\* taken for a continuation request.
THEOREM TypeCorrect == Spec => []TypeOK
<1>1. IInv => TypeOK
  BY Zenon DEF IInv
<1>. QED
  BY <1>1, InitIInv, NextIInv, PTL DEF Spec

\* A command is answered once at most, so no sender ever blocks on a done
\* channel, whatever order a tagged response, a failed write and a disconnect
\* come in.
THEOREM AnsweredOnce == Spec => []OneResult
<1>1. IInv => OneResult
  BY Zenon DEF IInv, Owned
<1>. QED
  BY <1>1, InitIInv, NextIInv, PTL DEF Spec

-----------------------------------------------------------------------------
(* No call waits in vain *)

\* Steps of a call that neither start nor answer it.
LEMMA QuietCalls ==
    ASSUME IInv, Calls, NEW c \in Callers, Quiet(c)
    PROVE  Calls'
<1>1. UNCHANGED <<resultVars, drain, tag>>
  BY Zenon, QuietStep DEF SameCommands
<1>2. \A d \in Callers : Active(d)' => Active(d)
  BY Zenon DEF Quiet, Write, AuthStartError, Continuation, AppendLiteral, Follow,
         InitialResponse, AuthChallenge, IdleDone, StartWaiter, IdleOver, Close,
         CloseConn, At, Go, Return, Active, IInv, TypeOK
<1>3. CASE IdleOver(c)
  <2>1. Active(c) /\ Stolen(tag[c]) /\ ~Active(c)'
    BY Zenon, <1>3 DEF IdleOver, At, Go, Return, Active, Stolen, IInv, TypeOK
  <2>2. \A d \in Callers \ {c} : Active(d) => Answerable(tag[d])
    BY Zenon, <2>1 DEF Calls, Stolen
  <2>. QED
    BY Zenon, <1>1, <1>2, <2>1, <2>2 DEF Calls, Answerable, resultVars
<1>4. CASE ~IdleOver(c)
  <2>1. \A t \in Tags : Stolen(t) => Stolen(t)'
    BY Zenon, <1>4 DEF Quiet, Write, AuthStartError, Continuation, AppendLiteral,
       Follow, InitialResponse, AuthChallenge, IdleDone, StartWaiter, Close,
       CloseConn, waiterVars, Stolen
  <2>. QED
    BY <1>1, <1>2, <2>1 DEF Calls, Answerable, resultVars, IInv, Named, TypeOK,
       Tags
<1>. QED
  BY Zenon, <1>3, <1>4

\* Whatever the step, an active call's result is there or is still owed.
LEMMA CallsStep ==
    ASSUME IInv, Calls, Next
    PROVE  Calls'
<1>1. ASSUME NEW c \in Callers, NEW k \in Kinds, Add(c, k)
      PROVE  Calls'
  BY <1>1 DEF Add, Go, Calls, Answerable, Stolen, Active, IInv, TypeOK, Named,
              waiterVars
<1>2. ASSUME NEW c \in Callers, WriteError(c)
      PROVE  Calls'
  <2>1. \A d \in Callers : Active(d)' => Active(d) /\ d # c
    BY Zenon, <1>2 DEF WriteError, Return, Go, Active, IInv, TypeOK
  <2>2. \A t \in Tags : Answerable(t) => Answerable(t)'
    BY Zenon, <1>2 DEF WriteError, Complete, Send, Answerable, resultVars, discVars, IInv,
                TypeOK
  <2>3. UNCHANGED <<tag, waiter, waiterPc>>
    BY Zenon, <1>2 DEF WriteError, waiterVars
  <2>. QED
    BY <2>1, <2>2, <2>3 DEF Calls, Stolen, IInv, Named, TypeOK, Tags
<1>3. ASSUME NEW c \in Callers, Result(c) \/ NoContinuation(c) \/ AuthResult(c)
      PROVE  Calls'
  <2>1. \A d \in Callers : Active(d)' => Active(d) /\ d # c
    BY Zenon, <1>3 DEF Result, NoContinuation, AuthResult, Return, Go, Active, IInv, TypeOK
  <2>2. Active(c) /\ \E r \in Results : Receive(tag[c], r)
    BY ZenonT(30), <1>3 DEF Result, NoContinuation, AuthResult, At, Active
  <2>3. UNCHANGED <<tag, drain, waiter, waiterPc>>
    BY Zenon, <1>3 DEF Result, NoContinuation, AuthResult, discVars, waiterVars
  <2>4. \A d \in Callers \ {c} : Active(d) => tag[d] # tag[c]
    BY Zenon, <2>2 DEF Calls
  <2>5. \A d \in Callers : Active(d)' => (Answerable(tag[d]) \/ Stolen(tag[d]))'
    BY <2>1, <2>2, <2>3, <2>4 DEF Calls, Answerable, Stolen, Receive, IInv, TypeOK
  <2>. QED
    BY Zenon, <2>1, <2>3, <2>5 DEF Calls
<1>4. ASSUME ReadLine
      PROVE  Calls'
  <2>1. UNCHANGED <<pc, tag, drain, waiter, waiterPc>>
    BY Zenon, <1>4 DEF ReadLine, discVars, waiterVars
  <2>2. \/ \E t \in Tags, r \in Results : Complete(t, r)
        \/ UNCHANGED resultVars
    <3>1. Head(toClient) \in Replies
      BY <1>4 DEF ReadLine, IInv, TypeOK
    <3>2. Head(toClient).tag \in Tags
      BY Zenon, <3>1 DEF Replies
    <3>. QED
      BY Zenon, <1>4, <3>2 DEF ReadLine, Results
  <2>3. \A t \in Tags : Answerable(t) => Answerable(t)'
    BY Zenon, <2>1, <2>2 DEF Answerable, Complete, Send, Results, resultVars, IInv, TypeOK
  <2>. QED
    BY <2>1, <2>3 DEF Calls, Stolen, Active, IInv, Named, TypeOK, Tags
<1>5. ASSUME CompleteAll
      PROVE  Calls'
  <2>1. drain = {}
    BY Zenon, <1>5 DEF CompleteAll, IInv, Owned
  <2>. QED
    BY Zenon, <1>5, <2>1 DEF CompleteAll, Calls, Active, Answerable, Stolen, waiterVars
<1>6. ASSUME NEW t \in Tags, CompleteNext(t)
      PROVE  Calls'
  BY <1>6 DEF CompleteNext, Send, Calls, Active, Answerable, Stolen, waiterVars,
              IInv, TypeOK
<1>7. ASSUME ReadError \/ Disconnected \/ AfterDisconnect \/ Server \/ ServerClose
      PROVE  Calls'
  <2>1. UNCHANGED <<resultVars, drain, tag>>
    BY Zenon, <1>7, OtherStep
  <2>2. /\ UNCHANGED <<waiter, waiterPc>>
        /\ \A d \in Callers : Active(d)' => Active(d)
    BY Zenon, <1>7 DEF ReadError, Disconnected, AfterDisconnect, Server, ServerTake,
       ServerData, ServerContinue, ServerInput, ServerFinish, ServerClose,
       clientVars, waiterVars, Return, Go, Active, IInv, TypeOK
  <2>. QED
    BY Zenon, <2>1, <2>2 DEF Calls, Answerable, Stolen, resultVars
<1>8. ASSUME WaiterResult
      PROVE  Calls'
  <2>1. UNCHANGED <<pc, tag, pending, drain, waiter>> /\ waiterPc' = "returned"
    BY Zenon, <1>8 DEF WaiterResult, Receive, discVars
  <2>2. waiterPc = "wait" /\ \A t \in Tags \ {waiter} : done'[t] = done[t]
    BY Zenon, <1>8 DEF WaiterResult, Receive, IInv, TypeOK
  <2>3. \A t \in Tags : Answerable(t) => (Answerable(t) \/ Stolen(t))'
    BY Zenon, <2>1, <2>2 DEF Answerable, Stolen
  <2>4. \A c \in Callers : Active(c) => Answerable(tag[c]) /\ tag[c] \in Tags
    BY <2>2 DEF Calls, Stolen, IInv, Named, TypeOK, Tags
  <2>. QED
    BY Zenon, <2>1, <2>3, <2>4 DEF Calls, Active
<1>. QED
  BY Zenon, <1>1, <1>2, <1>3, <1>4, <1>5, <1>6, <1>7, <1>8, QuietCalls
     DEF Next, CallStep, Disconnect, Quiet

\* A call that waits for its result waits for one that is there or that the
\* reader or handleDisconnect still owes it; only Done can wait in vain, when
\* Wait runs on the same IDLE and has taken the result.
THEOREM NobodyWaitsInVain == Spec => []WaitsForSomething
<1> DEFINE Inv == IInv /\ Calls
<1>1. Init => Inv
  <2>1. Init => Calls
    BY Zenon DEF Init, Calls, Active
  <2>. QED
    BY Zenon, <2>1, InitIInv
<1>2. Inv /\ [Next]_vars => Inv'
  <2>1. CASE Next
    BY Zenon, <2>1, NextIInv, CallsStep
  <2>2. CASE UNCHANGED vars
    <3>1. Calls => Calls'
      BY Zenon, <2>2 DEF vars, waiterVars, discVars, resultVars, Calls, Active,
                  Answerable, Stolen
    <3>. QED
      BY Zenon, <2>2, <3>1, NextIInv
  <2>. QED
    BY Zenon, <2>1, <2>2
<1>3. Inv => WaitsForSomething
  BY Zenon DEF Calls, WaitsForSomething, At, Active, Answerable
<1>. QED
  BY <1>1, <1>2, <1>3, PTL DEF Spec

-----------------------------------------------------------------------------
(* One call at a time takes what was sent for it *)

\* The commands that wait for a continuation request, and the tagged answers.
Continued == {"idle", "append", "auth"}
Answers == {"OK", "NO"}

\* The connection is there, or c is in a call that began when it was.
InTime(c) == once = "no" \/ (Active(c) /\ tag[c] \notin late)

\* A line or a continuation for the call that c is in.
For(c, m) == Active(c) /\ m.tag = tag[c]

\* No such line is on its way to c.
NoLines(c, whats) ==
    \A i \in 1..Len(toClient) : toClient[i].what \in whats => ~For(c, toClient[i])

\* Where c can be in a command of each kind.
PcFits(c) ==
    LET k == kind[tag[c]]
    IN /\ pc[c] = "cont" => k \in Continued
       /\ pc[c] \in {"auth", "ir"} => k = "auth"
       /\ pc[c] = "literal" => k = "append"
       /\ pc[c] = "idling" => k = "idle"
       /\ pc[c] = "wait" => k # "auth"

\* A line on its way that names no command is for the call that c is in, and so
\* are at most the data before its last line.
Incoming(c, i) ==
    /\ toClient[i].what = "+" =>
           /\ For(c, toClient[i]) /\ i = Len(toClient)
           /\ pc[c] \in {"cont", "auth"} /\ contCh.what # "+"
    /\ toClient[i].what = "data" => For(c, toClient[i]) /\ pc[c] = "wait"
    /\ toClient[i].what \in Answers /\ For(c, toClient[i]) =>
           /\ i = Len(toClient)
           /\ pc[c] \in {"cont", "auth", "wait"} /\ contCh.what # "+"

\* What the client holds is for the call that c is in, and once it has the answer
\* nothing else is on its way.
Held(c) ==
    /\ contCh.what = "+" => For(c, contCh) /\ pc[c] \in {"cont", "auth"}
    /\ contCh.what = "err" => once # "no"
    /\ ~connOpen => pc[c] = "disc" \/ once = "done"

\* The same for its done channel and for the untagged data kept for it.
Kept(c) ==
    Active(c) =>
        /\ done[tag[c]] \in Answers =>
              /\ pc[c] \in {"cont", "auth", "wait"} /\ contCh.what # "+"
              /\ \A i \in 1..Len(toClient) : toClient[i].what \in Answers
        /\ done[tag[c]] = "err" => once # "no"
        /\ waiter = tag[c] => pc[c] \in {"idling", "wait"}
        /\ pc[c] = "idling" /\ Stolen(tag[c]) => once # "no"
        /\ kind[tag[c]] = "data" => \A i \in 1..Len(untagged) : untagged[i] = tag[c]

\* The server has said nothing yet that c has not answered.
Unheard(c) ==
    /\ pc[c] \in {"cont", "auth", "wait"}
    /\ pc[c] = "wait" => kind[tag[c]] \notin Continued
    /\ contCh.what # "+" /\ done[tag[c]] \notin Answers
    /\ NoLines(c, {"OK", "NO", "+", "data"})

\* The server is at the command that c is in.
Serves(c) == Active(c) /\ serving = tag[c]

\* The command that c has sent waits for the server.
Queue(c, q) == q = <<>> \/ (q = <<Line(tag[c], "command")>> /\ Unheard(c))

\* A continuation request is on its way to c, or c has it and is to answer it.
Asked(c) ==
    \/ contCh.what = "+"
    \/ pc[c] \in {"literal", "ir", "idling"}
    \/ \E i \in 1..Len(toClient) : toClient[i].what = "+"

\* The answer of c to a continuation request.
Reply(c, k) == Line(tag[c], CASE k = "idle" -> "DONE" [] k = "append" -> "literal"
                              [] OTHER -> "response")

\* The server waits for what c sends, or has it.
Awaits(c) ==
    /\ kind[serving] \in Continued
    /\ done[tag[c]] \notin Answers /\ NoLines(c, Answers)
    /\ \/ toServer = <<>> /\ pc[c] \in {"cont", "auth", "literal", "ir", "idling"}
       \/ /\ toServer = <<Reply(c, kind[serving])>>
          /\ pc[c] \in {"auth", "wait"} /\ ~Asked(c)

\* The server has all it needs to answer.
Answering(c) ==
    /\ toServer = <<>> /\ pc[c] = "wait"
    /\ done[tag[c]] \notin Answers /\ NoLines(c, Answers)

\* The server is done with a cancelled AUTHENTICATE or will be with the next line.
\* (The command that c sent meanwhile, if any, waits.)
Cancelled(c) ==
    /\ NoLines(c, Answers)
    /\ \/ servingPc = "final" /\ Queue(c, toServer)
       \/ /\ servingPc = "await" /\ kind[serving] = "auth"
          /\ \E x \in Lines :
                /\ x.what = "*"
                /\ \/ toServer = <<x>>
                   \/ toServer = <<x, Line(tag[c], "command")>> /\ Unheard(c)

\* Where the server is, and what c has heard of it.
Serving(c) ==
    /\ Asked(c) => Serves(c) /\ servingPc = "await" /\ toServer = <<>>
    /\ \/ servingPc = "ready" /\ Queue(c, toServer)
       \/ servingPc = "busy" /\ Serves(c) /\ toServer = <<>> /\ Unheard(c)
       \/ servingPc = "final" /\ Serves(c) /\ Answering(c)
       \/ servingPc = "await" /\ Serves(c) /\ Awaits(c)
       \/ ~Serves(c) /\ Cancelled(c)

\* All of what c and the server have said to each other.
Exchange(c) ==
    /\ PcFits(c) /\ Held(c) /\ Kept(c)
    /\ \A i \in 1..Len(toClient) : Incoming(c, i)
    /\ peerOpen => Serving(c)

\* The tags of the lines under way have been handed out.
Known ==
    /\ \A i \in 1..Len(toClient) : toClient[i].tag <= nextTag
    /\ \A i \in 1..Len(toServer) : toServer[i].tag <= nextTag
    /\ servingPc # "ready" => serving <= nextTag
    /\ waiter <= nextTag

\* What makes TakesItsOwn inductive, with IInv, for one caller.
TakenInv ==
    /\ Known /\ TakesItsOwn
    /\ \A c \in Callers : InTime(c) => Exchange(c)

\* Between two calls nothing is on its way to c but answers, and the server has
\* nothing to say.
Quiescent(c) ==
    /\ \A i \in 1..Len(toClient) : toClient[i].what \in Answers
    /\ contCh.what # "+" /\ Held(c)
    /\ peerOpen =>
          \/ servingPc \in {"ready", "final"} /\ toServer = <<>>
          \/ /\ servingPc = "await" /\ kind[serving] = "auth"
             /\ \E x \in Lines : x.what = "*" /\ toServer = <<x>>

\* A line is appended to another one.
LEMMA AppendToOne ==
    ASSUME NEW S, NEW x \in S, NEW y \in S
    PROVE  Append(<<x>>, y) = <<x, y>>
<1> DEFINE a == Append(<<x>>, y)
           b == <<x, y>>
<1>1. <<x>> \in Seq(S) /\ Len(<<x>>) = 1 /\ <<x>>[1] = x
  OBVIOUS
<1>2. a \in Seq(S) /\ Len(a) = 2 /\ a[1] = x /\ a[2] = y
  BY <1>1
<1>3. b \in Seq(S) /\ Len(b) = 2 /\ b[1] = x /\ b[2] = y
  OBVIOUS
<1> HIDE DEF a, b
<1>4. a \in [1..2 -> S] /\ b \in [1..2 -> S]
  BY <1>2, <1>3
<1>5. a = b
  BY <1>2, <1>3, <1>4
<1> QED
  BY Zenon, <1>5 DEF a, b

\* What a line can be.
LEMMA LineTypes ==
    ASSUME TypeOK
    PROVE  /\ Len(toClient) \in Nat
           /\ \A i \in 1..Len(toClient) : /\ toClient[i].what \in {"OK", "NO", "+", "data"}
                                          /\ toClient[i].tag \in Tags
<1>1. toClient \in Seq(Replies)
  BY Zenon DEF TypeOK
<1>2. \A i \in 1..Len(toClient) : toClient[i] \in Replies
  BY <1>1
<1> QED
  BY <1>1, <1>2 DEF Replies

\* What a call sends is a line.
LEMMA LineOf ==
    ASSUME IInv, NEW c \in Callers, Active(c),
           NEW what \in {"command", "DONE", "literal", "response", "*"}
    PROVE  Line(tag[c], what) \in Lines
<1>1. tag[c] \in Tags
  BY DEF IInv, TypeOK, Named, Tags
<1> QED
  BY Zenon, <1>1 DEF Line, Lines

\* A caller that is in no call, or has sent nothing yet, is between two calls.
LEMMA BetweenCalls ==
    ASSUME TypeOK, NEW c, ~Active(c) \/ pc[c] = "write", Exchange(c)
    PROVE  Quiescent(c)
<1>0. pc[c] \notin {"cont", "auth", "wait", "literal", "ir", "idling"}
  BY Zenon DEF Active
<1>1. \A i \in 1..Len(toClient) : toClient[i].what \in Answers
  <2> SUFFICES ASSUME NEW i \in 1..Len(toClient) PROVE toClient[i].what \in Answers
    BY Zenon
  <2>1. Incoming(c, i)
    BY Zenon DEF Exchange
  <2>2. toClient[i].what \in {"OK", "NO", "+", "data"}
    BY Zenon, LineTypes
  <2> QED
    BY Zenon, <1>0, <2>1, <2>2 DEF Incoming, Answers
<1>2. contCh.what # "+" /\ Held(c)
  BY Zenon, <1>0 DEF Exchange, Held
<1>3. ~Unheard(c) /\ \A q : Queue(c, q) => q = <<>>
  BY Zenon, <1>0 DEF Queue, Unheard
<1>4. ASSUME peerOpen
      PROVE  \/ servingPc \in {"ready", "final"} /\ toServer = <<>>
             \/ /\ servingPc = "await" /\ kind[serving] = "auth"
                /\ \E x \in Lines : x.what = "*" /\ toServer = <<x>>
  <2>1. Serving(c)
    BY Zenon, <1>4 DEF Exchange
  <2>2. \/ servingPc = "ready" /\ Queue(c, toServer)
        \/ Cancelled(c)
    BY Zenon, <1>0, <2>1 DEF Serving, Unheard, Answering, Awaits
  <2> QED
    BY Zenon, <1>3, <2>2 DEF Cancelled
<1> QED
  BY Zenon, <1>1, <1>2, <1>4 DEF Quiescent

\* The call that gets its answer is over.
LEMMA Answered ==
    ASSUME TypeOK, NEW c, Active(c), done[tag[c]] \in Answers, Exchange(c)
    PROVE  Quiescent(c)
<1>1. /\ \A i \in 1..Len(toClient) : toClient[i].what \in Answers
      /\ contCh.what # "+" /\ Held(c) /\ pc[c] \in {"cont", "auth", "wait"}
  BY Zenon DEF Exchange, Kept
<1>3. ~Unheard(c) /\ \A q : Queue(c, q) => q = <<>>
  BY Zenon DEF Queue, Unheard
<1>4. ASSUME peerOpen
      PROVE  \/ servingPc \in {"ready", "final"} /\ toServer = <<>>
             \/ /\ servingPc = "await" /\ kind[serving] = "auth"
                /\ \E x \in Lines : x.what = "*" /\ toServer = <<x>>
  <2>1. Serving(c)
    BY Zenon, <1>4 DEF Exchange
  <2>2. \/ servingPc = "ready" /\ Queue(c, toServer)
        \/ Cancelled(c)
    BY Zenon, <2>1 DEF Serving, Unheard, Answering, Awaits
  <2> QED
    BY Zenon, <1>3, <2>2 DEF Cancelled
<1> QED
  BY Zenon, <1>1, <1>4 DEF Quiescent

\* The other way round: who is in no call has only to be between two of them.
LEMMA OutOfCall ==
    ASSUME TypeOK', NEW c, ~Active(c)', Quiescent(c)'
    PROVE  Exchange(c)'
<1>0. /\ pc'[c] \notin {"cont", "auth", "wait", "literal", "ir", "idling"}
      /\ \A m : ~For(c, m)' /\ ~Serves(c)'
  BY Zenon DEF Active, For, Serves
<1>1. PcFits(c)' /\ Held(c)' /\ Kept(c)'
  BY Zenon, <1>0 DEF PcFits, Kept, Quiescent
<1>2. \A i \in 1..Len(toClient)' : toClient'[i].what \in Answers
  BY Zenon DEF Quiescent
<1>3. \A i \in 1..Len(toClient)' : Incoming(c, i)'
  BY Zenon, <1>0, <1>2 DEF Incoming, Answers
<1>4. ASSUME peerOpen' PROVE Serving(c)'
  <2>1. ~Asked(c)'
    BY Zenon, <1>0, <1>2 DEF Asked, Quiescent, Answers
  <2>2. NoLines(c, Answers)'
    BY Zenon, <1>0 DEF NoLines
  <2>3. (servingPc' = "ready" /\ Queue(c, toServer)') \/ Cancelled(c)'
    BY Zenon, <1>4, <2>2 DEF Quiescent, Cancelled, Queue
  <2> QED
    BY Zenon, <1>0, <2>1, <2>3 DEF Serving
<1> QED
  BY Zenon, <1>1, <1>3, <1>4 DEF Exchange

-----------------------------------------------------------------------------
(* The steps of a call *)

\* A call begins with a tag that nothing under way has.
LEMMA AddExchange ==
    ASSUME IInv, IInv', Known, NEW c \in Callers, NEW k \in Kinds, Add(c, k),
           InTime(c) => Exchange(c), InTime(c)'
    PROVE  Exchange(c)'
<1> DEFINE t == nextTag + 1
<1>1. /\ pc[c] = "ready" /\ pc'[c] = "write" /\ tag'[c] = t /\ t \in Tags /\ nextTag \in Nat
      /\ kind' = [kind EXCEPT ![t] = k]
      /\ late' = (IF once = "no" THEN late ELSE late \cup {t})
      /\ untagged' = (IF k \in {"data", "select"} THEN <<>> ELSE untagged)
      /\ UNCHANGED <<done, contCh, connOpen, waiter, waiterPc, once, toServer, toClient,
                     serving, servingPc, peerOpen>>
  BY DEF Add, At, Go, IInv, TypeOK, Tags, waiterVars, serverVars
<1>2. once = "no"
  BY Zenon, <1>1 DEF InTime
<1>3. Quiescent(c)
  BY Zenon, <1>1, <1>2, BetweenCalls DEF InTime, Active, IInv
<1>4. done[t] = "none" /\ \A i \in 1..Len(toClient) : toClient[i].tag # t
  BY <1>1, LineTypes DEF IInv, Fresh, Known, Tags
<1> HIDE DEF t
<1>5. PcFits(c)' /\ Held(c)'
  BY ZenonT(30), <1>1, <1>3 DEF PcFits, Held, Quiescent
<1>6. Kept(c)'
  <2>1. kind'[t] = k
    BY Zenon, <1>1 DEF IInv, TypeOK
  <2>2. waiter # t
    BY <1>1 DEF IInv, TypeOK, Known, t, Tags
  <2> QED
    BY <1>1, <1>4, <2>1, <2>2 DEF Kept, Answers
<1>7. \A i \in 1..Len(toClient)' : toClient'[i].what \in Answers /\ ~For(c, toClient[i])'
  BY Zenon, <1>1, <1>3, <1>4 DEF Quiescent, For
<1>8. \A i \in 1..Len(toClient)' : Incoming(c, i)'
  BY Zenon, <1>1, <1>7 DEF Incoming, Answers
<1>9. ASSUME peerOpen' PROVE Serving(c)'
  <2>1. ~Asked(c)'
    BY Zenon, <1>1, <1>3, <1>7 DEF Asked, Quiescent, Answers
  <2>2. NoLines(c, Answers)'
    BY Zenon, <1>7 DEF NoLines
  <2>3. servingPc # "ready" => ~Serves(c)' /\ kind'[serving] = kind[serving]
    <3>1. servingPc # "ready" => serving \in Tags /\ serving # t
      BY <1>1 DEF IInv, Named, Known, t, Tags
    <3> QED
      BY Zenon, <1>1, <3>1 DEF Serves, IInv, TypeOK
  <2>4. \/ servingPc' = "ready" /\ Queue(c, toServer)'
        \/ ~Serves(c)' /\ Cancelled(c)'
    BY Zenon, <1>1, <1>3, <1>9, <2>2, <2>3 DEF Quiescent, Cancelled, Queue
  <2> QED
    BY Zenon, <2>1, <2>4 DEF Serving
<1> QED
  BY Zenon, <1>5, <1>6, <1>8, <1>9 DEF Exchange

\* A step that ends the call of c, or is outside of one, and changes nothing else
\* that the server or the other lines depend on.
LEMMA EndExchange ==
    ASSUME IInv', NEW c \in Callers, Quiescent(c), ~Active(c)',
           ~connOpen' => connOpen = connOpen' \/ pc'[c] = "disc",
           pc[c] = "disc" => pc'[c] = "disc" \/ once = "done",
           UNCHANGED <<contCh, once, toServer, toClient, serving, servingPc, peerOpen, kind>>
    PROVE  Exchange(c)'
<1>1. Held(c)'
  BY Zenon DEF Quiescent, Held
<1>2. Quiescent(c)'
  BY Zenon, <1>1 DEF Quiescent
<1> QED
  BY Zenon, <1>2, OutOfCall DEF IInv

\* A call that could not begin, for its command could not be written or its SASL
\* mechanism not be started, is over.
LEMMA NotBegun ==
    ASSUME IInv, IInv', NEW c \in Callers, WriteError(c) \/ AuthStartError(c),
           InTime(c) => Exchange(c), InTime(c)'
    PROVE  Exchange(c)'
<1>1. /\ pc[c] = "write" /\ pc'[c] \in {"ready", "close"}
      /\ UNCHANGED <<contCh, once, toServer, toClient, serving, servingPc, peerOpen, kind,
                     connOpen, late, tag>>
  <2>1. Return(c) \/ Go(c, "close")
    BY Zenon DEF WriteError, AuthStartError
  <2>2. pc'[c] \in {"ready", "close"}
    BY Zenon, <2>1 DEF Return, Go, IInv, TypeOK
  <2> QED
    BY Zenon, <2>2 DEF WriteError, WriteFails, AuthStartError, At, discVars, serverVars
<1>2. InTime(c)
  BY Zenon, <1>1 DEF InTime, Active
<1>3. Quiescent(c) /\ ~Active(c)'
  BY Zenon, <1>1, <1>2, BetweenCalls DEF Active, IInv
<1> QED
  BY Zenon, <1>1, <1>3, EndExchange

\* A call that takes its result is over.
LEMMA ResultExchange ==
    ASSUME IInv, IInv', NEW c \in Callers, Result(c) \/ NoContinuation(c) \/ AuthResult(c),
           InTime(c) => Exchange(c), InTime(c)'
    PROVE  Exchange(c)'
<1>1. /\ pc[c] \in {"wait", "cont", "auth"}
      /\ UNCHANGED <<contCh, once, toServer, toClient, serving, servingPc, peerOpen, kind,
                     connOpen, late, tag>>
  BY Zenon DEF Result, NoContinuation, AuthResult, At, discVars, serverVars
<1>2. pc'[c] \in {"ready", "close"}
  <2>1. Return(c) \/ Go(c, "close")
    BY Zenon DEF Result, NoContinuation, AuthResult
  <2> QED
    BY Zenon, <2>1 DEF Return, Go, IInv, TypeOK
<1>3. Active(c) /\ ~Active(c)' /\ once = "no" /\ InTime(c)
  BY Zenon, <1>1, <1>2 DEF Active, InTime
<1>4. done[tag[c]] \in Results
  BY Zenon DEF Result, NoContinuation, AuthResult, Receive
<1>5. done[tag[c]] # "err"
  BY Zenon, <1>3 DEF Exchange, Kept
<1>6. Quiescent(c)
  <2>1. done[tag[c]] \in Answers
    BY Zenon, <1>4, <1>5 DEF Results, Answers
  <2> QED
    BY Zenon, <1>3, <2>1, Answered DEF IInv
<1>7. pc[c] # "disc"
  BY Zenon, <1>1
<1> QED
  BY Zenon, <1>1, <1>3, <1>6, <1>7, EndExchange

\* Close, outside of a call.
LEMMA CloseExchange ==
    ASSUME IInv, IInv', NEW c \in Callers, Close(c) \/ CloseConn(c),
           InTime(c) => Exchange(c), InTime(c)'
    PROVE  Exchange(c)'
<1>1. /\ pc[c] \in {"ready", "close", "closing"} /\ pc'[c] \in {"ready", "closing", "disc"}
      /\ connOpen' = connOpen \/ pc'[c] = "disc"
      /\ UNCHANGED <<contCh, once, toServer, toClient, serving, servingPc, peerOpen, kind,
                     late, tag>>
  BY Zenon DEF Close, CloseConn, At, Return, Go, IInv, TypeOK, discVars, serverVars
<1>2. ~Active(c) /\ ~Active(c)' /\ InTime(c)
  BY Zenon, <1>1 DEF Active, InTime
<1>3. Quiescent(c)
  BY Zenon, <1>2, BetweenCalls DEF IInv
<1> QED
  BY Zenon, <1>1, <1>2, <1>3, EndExchange

\* The command is on its way, and nothing has been heard of it.
LEMMA WriteExchange ==
    ASSUME IInv, IInv', NEW c \in Callers, Write(c),
           InTime(c) => Exchange(c), InTime(c)'
    PROVE  Exchange(c)'
<1>1. /\ pc[c] = "write" /\ pc'[c] \in {"cont", "auth", "wait"}
      /\ pc'[c] = "cont" => kind[tag[c]] \in Continued
      /\ pc'[c] = "auth" => kind[tag[c]] = "auth"
      /\ pc'[c] = "wait" => kind[tag[c]] \notin Continued
      /\ peerOpen => toServer' = Append(toServer, Line(tag[c], "command"))
      /\ UNCHANGED <<contCh, once, toClient, serving, servingPc, peerOpen, kind, connOpen,
                     late, tag, done, untagged, waiter, waiterPc>>
  BY Zenon DEF Write, Written, Waits, At, Go, IInv, TypeOK, Continued, resultVars, discVars,
         serverVars, waiterVars
<1>2. Active(c) /\ Active(c)' /\ InTime(c) /\ Exchange(c)
  BY Zenon, <1>1 DEF InTime, Active
<1>3. Quiescent(c)
  BY Zenon, <1>1, <1>2, BetweenCalls DEF IInv
<1>4. /\ done[tag[c]] \notin Answers
      /\ \A i \in 1..Len(toClient) : ~For(c, toClient[i]) /\ toClient[i].what \in Answers
  <2>1. done[tag[c]] \notin Answers
    BY Zenon, <1>1, <1>2 DEF Exchange, Kept
  <2>2. ASSUME NEW i \in 1..Len(toClient), For(c, toClient[i]) PROVE FALSE
    <3>1. Incoming(c, i) /\ toClient[i].what \in Answers
      BY Zenon, <1>2, <1>3 DEF Exchange, Quiescent
    <3> QED
      BY Zenon, <1>1, <2>2, <3>1 DEF Incoming
  <2> QED
    BY Zenon, <1>3, <2>1, <2>2 DEF Quiescent
<1>5. PcFits(c)'
  BY Zenon, <1>1 DEF PcFits, Continued
<1>6. Held(c)' /\ Kept(c)'
  BY Zenon, <1>1, <1>2, <1>3, <1>4 DEF Quiescent, Held, Exchange, Kept
<1>7. \A i \in 1..Len(toClient)' : ~For(c, toClient[i])' /\ toClient'[i].what \in Answers
  BY Zenon, <1>1, <1>2, <1>4 DEF For
<1>8. \A i \in 1..Len(toClient)' : Incoming(c, i)'
  BY Zenon, <1>7 DEF Incoming, Answers
<1>9. ASSUME peerOpen' PROVE Serving(c)'
  <2>1. ~Asked(c)'
    BY Zenon, <1>1, <1>3, <1>7 DEF Asked, Quiescent, Answers
  <2>2. NoLines(c, Answers)' /\ Unheard(c)'
    BY Zenon, <1>1, <1>3, <1>4, <1>7 DEF NoLines, Unheard, Quiescent
  <2>3. Queue(c, <<Line(tag[c], "command")>>)'
    BY Zenon, <1>1, <2>2 DEF Queue, Line
  <2>4. (~Serves(c) /\ ~Serves(c)') \/ servingPc = "ready"
    <3>1. Serving(c)
      BY Zenon, <1>1, <1>2, <1>9 DEF Exchange
    <3>2. servingPc = "ready" \/ ~Serves(c)
      BY Zenon, <1>1, <3>1 DEF Serving, Unheard, Answering, Awaits
    <3> QED
      BY Zenon, <1>1, <1>2, <3>2 DEF Serves
  <2>5. \/ servingPc \in {"ready", "final"} /\ toServer' = <<Line(tag[c], "command")>>
        \/ /\ servingPc = "await" /\ kind[serving] = "auth"
           /\ \E x \in Lines : x.what = "*" /\ toServer' = <<x, Line(tag[c], "command")>>
    <3> DEFINE l == Line(tag[c], "command")
    <3>1. toServer' = Append(toServer, l)
      BY Zenon, <1>1, <1>9
    <3> HIDE DEF l
    <3>2. toServer = <<>> => toServer' = <<l>>
      BY <3>1
    <3>3. \A x \in Lines : toServer = <<x>> => toServer' = <<x, l>>
      BY Zenon, <1>2, <3>1, LineOf, AppendToOne DEF l
    <3> QED
      BY Zenon, <1>1, <1>3, <1>9, <3>2, <3>3 DEF Quiescent, l
  <2>6. \/ servingPc' = "ready" /\ Queue(c, toServer)'
        \/ servingPc' # "ready" /\ Cancelled(c)'
    <3> DEFINE l == Line(tag[c], "command")
    <3>1. \A q : q = <<l>> => Queue(c, q)'
      BY Zenon, <1>1, <2>2 DEF Queue, Line
    <3> HIDE DEF l
    <3>2. servingPc' = servingPc /\ kind'[serving'] = kind[serving]
      BY Zenon, <1>1
    <3>3. "ready" # "final" /\ "ready" # "await"
      BY Zenon
    <3> QED
      BY Zenon, <1>1, <2>2, <2>5, <3>1, <3>2, <3>3 DEF Cancelled, l, Queue, Line
  <2> QED
    BY Zenon, <1>1, <2>1, <2>4, <2>6 DEF Serving
<1> QED
  BY Zenon, <1>5, <1>6, <1>8, <1>9 DEF Exchange

\* A call that takes a continuation takes its own, and nothing else is on its way
\* to a call that has been asked for its reply.
LEMMA Taking ==
    ASSUME IInv, NEW c \in Callers, Active(c), Exchange(c),
           contCh.what = "+" \/ pc[c] \in {"literal", "ir", "idling"}
    PROVE  /\ contCh.what = "+" => contCh.tag = tag[c] /\ pc[c] \in {"cont", "auth"}
           /\ done[tag[c]] \notin Answers
           /\ \A i \in 1..Len(toClient) : toClient[i].what \in Answers /\ ~For(c, toClient[i])
           /\ peerOpen => /\ Serves(c) /\ servingPc = "await" /\ toServer = <<>>
                          /\ kind[tag[c]] \in Continued
<1>1. contCh.what = "+" => contCh.tag = tag[c] /\ pc[c] \in {"cont", "auth"}
  BY Zenon DEF Exchange, Held, For
<1>2. done[tag[c]] \notin Answers
  BY Zenon DEF Exchange, Kept
<1>3. ASSUME NEW i \in 1..Len(toClient)
      PROVE  toClient[i].what \in Answers /\ ~For(c, toClient[i])
  <2>1. Incoming(c, i)
    BY Zenon DEF Exchange
  <2>2. toClient[i].what \in {"OK", "NO", "+", "data"}
    BY Zenon, LineTypes DEF IInv
  <2> QED
    BY Zenon, <1>1, <2>1, <2>2 DEF Incoming, Answers
<1>4. ASSUME peerOpen
      PROVE  /\ Serves(c) /\ servingPc = "await" /\ toServer = <<>>
             /\ kind[tag[c]] \in Continued
  <2>1. Serves(c) /\ servingPc = "await" /\ toServer = <<>> /\ Serving(c)
    BY Zenon, <1>4 DEF Exchange, Serving, Asked
  <2>2. Awaits(c)
    BY Zenon, <2>1 DEF Serving
  <2> QED
    BY Zenon, <2>1, <2>2 DEF Awaits, Serves
<1> QED
  BY Zenon, <1>1, <1>2, <1>3, <1>4

\* waitForContinuation returns: the call has what it needs to go on.
LEMMA ContinuationExchange ==
    ASSUME IInv, IInv', NEW c \in Callers, Continuation(c),
           InTime(c) => Exchange(c), InTime(c)'
    PROVE  Exchange(c)'
<1>1. /\ pc[c] = "cont" /\ contCh # Empty /\ contCh' = Empty
      /\ IF contCh.what = "err" THEN Return(c)
         ELSE Go(c, CASE kind[tag[c]] = "idle"   -> "idling"
                      [] kind[tag[c]] = "append" -> "literal"
                      [] OTHER -> "ir")
      /\ UNCHANGED <<once, toServer, toClient, serving, servingPc, peerOpen, kind, connOpen,
                     late, tag, done, untagged, waiter, waiterPc>>
  BY Zenon DEF Continuation, TakeCont, At, discVars, serverVars, resultVars, waiterVars
<1>2. Active(c) /\ InTime(c) /\ Exchange(c)
  BY Zenon, <1>1 DEF Active, InTime
<1>3. contCh.what = "+"
  <2>1. contCh.what \in {"err", "+"}
    BY <1>1 DEF IInv, TypeOK, Continuations, Empty, Gone
  <2>2. ASSUME contCh.what = "err" PROVE FALSE
    <3>1. ~Active(c)'
      BY Zenon, <1>1, <2>2 DEF Return, Go, Active, IInv, TypeOK
    <3> QED
      BY Zenon, <1>1, <1>2, <2>2, <3>1 DEF Exchange, Held, InTime
  <2> QED
    BY Zenon, <2>1, <2>2
<1>4. /\ pc'[c] \in {"idling", "literal", "ir"}
      /\ pc'[c] = "idling" <=> kind[tag[c]] = "idle"
      /\ pc'[c] = "literal" <=> kind[tag[c]] = "append"
  BY Zenon, <1>1, <1>3 DEF Go, IInv, TypeOK
<1>5. kind[tag[c]] \in Continued
  BY Zenon, <1>1, <1>2 DEF Exchange, PcFits
<1>6. /\ done[tag[c]] \notin Answers /\ contCh'.what = "none"
      /\ \A i \in 1..Len(toClient) : toClient[i].what \in Answers /\ ~For(c, toClient[i])
      /\ peerOpen => Serves(c) /\ servingPc = "await" /\ toServer = <<>>
  BY Zenon, <1>1, <1>2, <1>3, Taking DEF Empty
<1>7. Active(c)' /\ PcFits(c)' /\ Held(c)'
  BY Zenon, <1>1, <1>2, <1>4, <1>5, <1>6 DEF Active, PcFits, Held, Continued, Exchange
<1>8. Kept(c)'
  <2>1. Kept(c)
    BY Zenon, <1>2 DEF Exchange
  <2>2. waiter # tag[c] /\ kind[tag[c]] # "data"
    BY Zenon, <1>1, <1>2, <1>5, <2>1 DEF Kept, Continued
  <2> QED
    BY Zenon, <1>1, <1>2, <1>6, <2>1, <2>2 DEF Kept, Stolen
<1>9. \A i \in 1..Len(toClient)' : ~For(c, toClient[i])' /\ toClient'[i].what \in Answers
  BY Zenon, <1>1, <1>2, <1>6 DEF For
<1>10. \A i \in 1..Len(toClient)' : Incoming(c, i)'
  BY Zenon, <1>9 DEF Incoming, Answers
<1>11. ASSUME peerOpen' PROVE Serving(c)'
  <2>1. Serves(c)' /\ servingPc' = "await" /\ toServer' = <<>>
    BY Zenon, <1>1, <1>6, <1>7, <1>11 DEF Serves
  <2>2. NoLines(c, Answers)'
    BY Zenon, <1>9 DEF NoLines
  <2>3. kind'[serving'] \in Continued /\ done'[tag'[c]] \notin Answers
    BY Zenon, <1>1, <1>5, <1>6, <1>11 DEF Serves
  <2>4. Awaits(c)'
    BY Zenon, <1>4, <2>1, <2>2, <2>3 DEF Awaits
  <2> QED
    BY Zenon, <2>1, <2>4 DEF Serving
<1> QED
  BY Zenon, <1>7, <1>8, <1>10, <1>11 DEF Exchange

\* c has been asked for its reply.
HasTurn(c) ==
    \/ pc[c] \in {"literal", "ir", "idling"} /\ contCh' = contCh
    \/ pc[c] = "auth" /\ contCh.what = "+" /\ contCh' = Empty

\* The continuation channel has no continuation afterwards.
LEMMA TurnTaken ==
    ASSUME IInv, NEW c \in Callers, Active(c), Exchange(c), HasTurn(c)
    PROVE  contCh'.what # "+" /\ (contCh'.what = "err" => contCh.what = "err")
<1>1. pc[c] \in {"literal", "ir", "idling"} => contCh.what # "+"
  BY Zenon DEF Exchange, Held
<1> QED
  BY <1>1 DEF HasTurn, Empty

\* The reply is sent.
LEMMA ReplyExchange ==
    ASSUME IInv, IInv', NEW c \in Callers, Active(c), Exchange(c), HasTurn(c),
           pc'[c] = (IF kind[tag[c]] = "auth" THEN "auth" ELSE "wait"),
           peerOpen => toServer' = Append(toServer, Reply(c, kind[tag[c]])),
           UNCHANGED <<once, toClient, serving, servingPc, peerOpen, kind, connOpen,
                       late, tag, done, untagged, waiter, waiterPc>>
    PROVE  Exchange(c)'
<1>1. /\ done[tag[c]] \notin Answers
      /\ \A i \in 1..Len(toClient) : toClient[i].what \in Answers /\ ~For(c, toClient[i])
      /\ peerOpen => /\ Serves(c) /\ servingPc = "await" /\ toServer = <<>>
                     /\ kind[tag[c]] \in Continued
  BY Zenon, Taking DEF HasTurn
<1>2. contCh'.what # "+" /\ (contCh'.what = "err" => contCh.what = "err")
  BY Zenon, TurnTaken
<1>3. Active(c)' /\ PcFits(c)' /\ Held(c)'
  BY Zenon, <1>2 DEF Active, PcFits, Held, Exchange, Continued
<1>4. Kept(c)'
  <2>1. kind[tag[c]] = "auth" => pc[c] \notin {"idling", "wait", "literal"}
    BY Zenon DEF Exchange, PcFits
  <2> QED
    BY Zenon, <1>1, <2>1 DEF Kept, Exchange
<1>5. \A i \in 1..Len(toClient)' : ~For(c, toClient[i])' /\ toClient'[i].what \in Answers
  BY Zenon, <1>1 DEF For
<1>6. \A i \in 1..Len(toClient)' : Incoming(c, i)'
  BY Zenon, <1>5 DEF Incoming, Answers
<1>7. ASSUME peerOpen' PROVE Serving(c)'
  <2>1. Serves(c)' /\ servingPc' = "await" /\ serving = tag[c] /\ toServer = <<>>
    BY Zenon, <1>1, <1>3, <1>7 DEF Serves
  <2>2. ~Asked(c)'
    BY Zenon, <1>2, <1>5 DEF Asked, Answers
  <2>3. Awaits(c)'
    <3>1. toServer' = <<Reply(c, kind[serving])>>'
      <4>1. toServer' = Append(<<>>, Reply(c, kind[tag[c]]))
        BY Zenon, <1>7, <2>1
      <4>2. toServer' = <<Reply(c, kind[tag[c]])>>
        BY <4>1
      <4> QED
        BY Zenon, <2>1, <4>2 DEF Reply, Line
    <3>2. NoLines(c, Answers)'
      BY Zenon, <1>5 DEF NoLines
    <3>3. kind'[serving'] \in Continued /\ done'[tag'[c]] \notin Answers
      BY Zenon, <1>1, <1>7, <2>1
    <3> QED
      BY Zenon, <2>2, <3>1, <3>2, <3>3 DEF Awaits
  <2> QED
    BY Zenon, <2>1, <2>2, <2>3 DEF Serving
<1> QED
  BY Zenon, <1>3, <1>4, <1>6, <1>7 DEF Exchange

\* The reply cannot be sent, and the call returns.
LEMMA GiveUpExchange ==
    ASSUME IInv, IInv', NEW c \in Callers, Active(c), InTime(c)', Exchange(c), HasTurn(c),
           pc'[c] = "ready", ~connOpen \/ ~peerOpen,
           UNCHANGED <<once, toServer, toClient, serving, servingPc, peerOpen, kind, connOpen,
                       late, tag>>
    PROVE  Exchange(c)'
<1>1. \A i \in 1..Len(toClient) : toClient[i].what \in Answers
  BY Zenon, Taking DEF HasTurn
<1>2. contCh'.what # "+" /\ (contCh'.what = "err" => contCh.what = "err")
  BY Zenon, TurnTaken
<1>3. ~Active(c)' /\ once = "no" /\ pc[c] # "disc"
  BY Zenon DEF Active, InTime
<1>4. connOpen /\ ~peerOpen /\ Held(c)
  BY Zenon, <1>3 DEF Exchange, Held
<1>5. Quiescent(c)'
  BY Zenon, <1>1, <1>2, <1>4 DEF Quiescent, Held
<1> QED
  BY Zenon, <1>3, <1>5, OutOfCall DEF IInv

\* The challenge is refused, and the call returns before its command is answered.
LEMMA CancelExchange ==
    ASSUME IInv, IInv', NEW c \in Callers, Active(c), InTime(c)', Exchange(c), HasTurn(c),
           kind[tag[c]] = "auth", pc'[c] = "ready",
           peerOpen => toServer' = Append(toServer, Line(tag[c], "*")),
           UNCHANGED <<once, toClient, serving, servingPc, peerOpen, kind, connOpen,
                       late, tag>>
    PROVE  Exchange(c)'
<1>1. /\ \A i \in 1..Len(toClient) : toClient[i].what \in Answers
      /\ peerOpen => serving = tag[c] /\ servingPc = "await" /\ toServer = <<>>
  BY Zenon, Taking DEF HasTurn, Serves
<1>2. contCh'.what # "+" /\ (contCh'.what = "err" => contCh.what = "err")
  BY Zenon, TurnTaken
<1>3. ~Active(c)' /\ pc[c] # "disc"
  BY Zenon DEF Active
<1>4. Held(c)'
  BY Zenon, <1>2, <1>3 DEF Exchange, Held
<1>5. ASSUME peerOpen'
      PROVE  /\ servingPc' = "await" /\ kind'[serving'] = "auth"
             /\ \E x \in Lines : x.what = "*" /\ toServer' = <<x>>
  <2> DEFINE x == Line(tag[c], "*")
  <2>1. x \in Lines
    BY Zenon, LineOf
  <2>2. x.what = "*"
    BY Zenon DEF Line
  <2> HIDE DEF x
  <2>3. toServer' = Append(<<>>, x)
    BY Zenon, <1>1, <1>5 DEF x
  <2>4. toServer' = <<x>>
    BY <2>3
  <2> QED
    BY Zenon, <1>1, <1>5, <2>1, <2>2, <2>4
<1>6. Quiescent(c)'
  BY Zenon, <1>1, <1>2, <1>4, <1>5 DEF Quiescent
<1> QED
  BY Zenon, <1>3, <1>6, OutOfCall DEF IInv

\* A step that leaves alone all that the rest of Exchange depends on.
LEMMA SameExchange ==
    ASSUME NEW c, Exchange(c), Kept(c)',
           pc'[c] = pc[c], tag'[c] = tag[c], done'[tag[c]] \in Answers => done[tag[c]] \in Answers,
           once = "no" \/ once' # "no", once = "done" => once' = "done",
           UNCHANGED <<toClient, toServer, serving, servingPc, kind, connOpen, contCh>>,
           peerOpen' => peerOpen
    PROVE  Exchange(c)'
<1>1. /\ \A m : For(c, m)' <=> For(c, m)
      /\ Serves(c)' <=> Serves(c)
  BY Zenon DEF For, Active, Serves
<1>2. \A whats : NoLines(c, whats) => NoLines(c, whats)'
  BY Zenon, <1>1 DEF NoLines, For
<1>3. PcFits(c)' /\ Held(c)'
  <2>1. PcFits(c)'
    BY Zenon DEF Exchange, PcFits
  <2>2. Held(c)'
    BY Zenon, <1>1 DEF Exchange, Held, For
  <2> QED
    BY Zenon, <2>1, <2>2
<1>4. \A i \in 1..Len(toClient)' : Incoming(c, i)'
  BY Zenon, <1>1 DEF Exchange, Incoming, For
<1>5. ASSUME peerOpen' PROVE Serving(c)'
  <2>1. Asked(c)' <=> Asked(c)
    BY Zenon DEF Asked
  <2>2. Unheard(c) => Unheard(c)'
    BY Zenon, <1>2 DEF Unheard
  <2>3. Queue(c, toServer) => Queue(c, toServer)'
    BY Zenon, <2>2 DEF Queue, Line
  <2>4. Answering(c) => Answering(c)'
    BY Zenon, <1>2 DEF Answering
  <2>5. Awaits(c) => Awaits(c)'
    BY Zenon, <1>2, <2>1 DEF Awaits, Reply, Line
  <2>6. Cancelled(c) => Cancelled(c)'
    BY Zenon, <1>2, <2>2, <2>3 DEF Cancelled, Line
  <2> QED
    BY Zenon, <1>1, <1>5, <2>1, <2>2, <2>3, <2>4, <2>5, <2>6 DEF Exchange, Serving
<1> QED
  BY Zenon, <1>3, <1>4, <1>5 DEF Exchange

\* APPEND sends its literal, AUTHENTICATE its initial response, IDLE its DONE.
LEMMA FollowExchange ==
    ASSUME IInv, IInv', NEW c \in Callers,
           AppendLiteral(c) \/ InitialResponse(c) \/ IdleDone(c),
           InTime(c) => Exchange(c), InTime(c)'
    PROVE  Exchange(c)'
<1>1. PICK where, what, next :
          /\ <<where, what, next>> \in {<<"literal", "literal", "wait">>,
                                        <<"ir", "response", "auth">>,
                                        <<"idling", "DONE", "wait">>}
          /\ Follow(c, where, what, next)
  BY DEF AppendLiteral, InitialResponse, IdleDone
<1>2. /\ pc[c] = where /\ where \in {"literal", "ir", "idling"}
      /\ UNCHANGED <<once, toClient, serving, servingPc, peerOpen, kind, connOpen,
                     late, tag, done, untagged, waiter, waiterPc, contCh>>
  BY Zenon, <1>1 DEF Follow, At, discVars, serverVars, resultVars, waiterVars
<1>3. Active(c) /\ InTime(c) /\ Exchange(c) /\ HasTurn(c)
  BY Zenon, <1>2 DEF Active, InTime, HasTurn
<1>4. CASE WriteFails /\ Return(c)
  <2>1. pc'[c] = "ready" /\ (~connOpen \/ ~peerOpen) /\ UNCHANGED toServer
    BY Zenon, <1>4 DEF WriteFails, Return, Go, IInv, TypeOK
  <2> QED
    BY Zenon, <1>2, <1>3, <2>1, GiveUpExchange
<1>5. CASE Written(Line(tag[c], what)) /\ Go(c, next)
  <2>1. \/ kind[tag[c]] = "append" /\ where = "literal"
        \/ kind[tag[c]] = "auth" /\ where = "ir"
        \/ kind[tag[c]] = "idle" /\ where = "idling"
    BY Zenon, <1>2, <1>3 DEF Exchange, PcFits
  <2>2. pc'[c] = (IF kind[tag[c]] = "auth" THEN "auth" ELSE "wait")
    BY Zenon, <1>1, <1>5, <2>1 DEF Go, IInv, TypeOK
  <2>3. Line(tag[c], what) = Reply(c, kind[tag[c]])
    BY Zenon, <1>1, <2>1 DEF Reply
  <2>4. peerOpen => toServer' = Append(toServer, Reply(c, kind[tag[c]]))
    BY Zenon, <1>5, <2>3 DEF Written
  <2> QED
    BY Zenon, <1>2, <1>3, <2>2, <2>4, ReplyExchange
<1> QED
  BY Zenon, <1>1, <1>4, <1>5 DEF Follow

\* A challenge is answered or refused.
LEMMA ChallengeExchange ==
    ASSUME IInv, IInv', NEW c \in Callers, AuthChallenge(c),
           InTime(c) => Exchange(c), InTime(c)'
    PROVE  Exchange(c)'
<1>1. /\ pc[c] = "auth" /\ contCh # Empty /\ contCh' = Empty
      /\ UNCHANGED <<once, toClient, serving, servingPc, peerOpen, kind, connOpen,
                     late, tag, done, untagged, waiter, waiterPc>>
  BY Zenon DEF AuthChallenge, TakeCont, At, discVars, serverVars, resultVars, waiterVars
<1>2. Active(c) /\ InTime(c) /\ Exchange(c)
  BY Zenon, <1>1 DEF Active, InTime
<1>3. kind[tag[c]] = "auth"
  BY Zenon, <1>1, <1>2 DEF Exchange, PcFits
<1>4. Return(c) => pc'[c] = "ready" /\ ~Active(c)'
  BY Zenon DEF Return, Go, IInv, TypeOK, Active
<1>5. ASSUME contCh.what = "err", Return(c) PROVE FALSE
  BY Zenon, <1>1, <1>2, <1>4, <1>5 DEF Exchange, Held, InTime
<1>6. ASSUME contCh.what = "+" PROVE HasTurn(c)
  BY Zenon, <1>1, <1>6 DEF HasTurn
<1>7. ASSUME contCh.what = "+", Written(Line(tag[c], "response")), UNCHANGED pc
      PROVE  Exchange(c)'
  <2>1. Reply(c, kind[tag[c]]) = Line(tag[c], "response")
    BY Zenon, <1>3 DEF Reply
  <2>2. pc'[c] = (IF kind[tag[c]] = "auth" THEN "auth" ELSE "wait")
    BY Zenon, <1>1, <1>3, <1>7
  <2>3. peerOpen => toServer' = Append(toServer, Reply(c, kind[tag[c]]))
    BY Zenon, <1>7, <2>1 DEF Written
  <2> QED
    BY Zenon, <1>1, <1>2, <1>6, <1>7, <2>2, <2>3, ReplyExchange
<1>8. ASSUME contCh.what = "+", WriteFails, Return(c)
      PROVE  Exchange(c)'
  <2>1. pc'[c] = "ready" /\ (~connOpen \/ ~peerOpen) /\ UNCHANGED toServer
    BY Zenon, <1>4, <1>8 DEF WriteFails
  <2> QED
    BY Zenon, <1>1, <1>2, <1>6, <1>8, <2>1, GiveUpExchange
<1>9. ASSUME contCh.what = "+", Written(Line(tag[c], "*")), Return(c)
      PROVE  Exchange(c)'
  <2>1. pc'[c] = "ready" /\ (peerOpen => toServer' = Append(toServer, Line(tag[c], "*")))
    BY Zenon, <1>4, <1>9 DEF Written
  <2> QED
    BY Zenon, <1>1, <1>2, <1>3, <1>6, <1>9, <2>1, CancelExchange
<1> QED
  BY Zenon, <1>5, <1>7, <1>8, <1>9 DEF AuthChallenge

\* The steps of Wait beside the call that is in IDLE.
LEMMA IdleExchange ==
    ASSUME IInv, IInv', NEW c \in Callers, StartWaiter(c) \/ IdleOver(c),
           InTime(c) => Exchange(c), InTime(c)'
    PROVE  Exchange(c)'
<1>1. /\ pc[c] = "idling"
      /\ UNCHANGED <<once, toClient, toServer, serving, servingPc, peerOpen, kind, connOpen,
                     late, tag, done, untagged, contCh>>
  BY Zenon DEF StartWaiter, IdleOver, At, discVars, serverVars, resultVars
<1>2. Active(c) /\ InTime(c) /\ Exchange(c)
  BY Zenon, <1>1 DEF Active, InTime
<1>3. ~IdleOver(c)
  <2> SUFFICES ASSUME IdleOver(c) PROVE FALSE
    BY Zenon
  <2>1. ~Active(c)' /\ Stolen(tag[c])
    BY Zenon DEF IdleOver, Return, Go, Active, Stolen, IInv, TypeOK
  <2> QED
    BY Zenon, <1>1, <1>2, <2>1 DEF Exchange, Kept, InTime
<1>4. pc' = pc /\ waiterPc' = "wait"
  BY Zenon, <1>3 DEF StartWaiter
<1>5. Kept(c)'
  <2>1. Kept(c) /\ Active(c)'
    BY Zenon, <1>2, <1>4 DEF Exchange, Active
  <2>2. ~Stolen(tag[c])'
    BY Zenon, <1>4 DEF Stolen
  <2> QED
    BY Zenon, <1>1, <1>2, <1>4, <2>1, <2>2 DEF Kept
<1>6. \A m : For(c, m)' <=> For(c, m)
  BY Zenon, <1>1, <1>4 DEF For, Active
<1> QED
  BY Zenon, <1>1, <1>2, <1>4, <1>5, SameExchange

-----------------------------------------------------------------------------
(* The steps of the others *)

\* Wait takes the result, the reader fails, or handleDisconnect goes on.
LEMMA DisconnectExchange ==
    ASSUME IInv, IInv', NEW c \in Callers,
           \/ WaiterResult \/ ReadError \/ CompleteAll \/ (\E t \in Tags : CompleteNext(t))
           \/ AfterDisconnect \/ ServerClose,
           InTime(c) => Exchange(c), InTime(c)'
    PROVE  Exchange(c)'
<1>1. /\ UNCHANGED <<toClient, toServer, serving, servingPc, kind, connOpen, contCh, tag,
                     untagged, late, waiter>>
      /\ waiterPc' = waiterPc \/ WaiterResult
      /\ peerOpen' => peerOpen
      /\ once = "no" \/ once' # "no"
      /\ once = "done" => once' = "done"
  <2>1. /\ UNCHANGED <<toClient, toServer, serving, servingPc, kind, connOpen, contCh, tag,
                       untagged, late, waiter>>
    BY Zenon DEF WaiterResult, ReadError, CompleteAll, CompleteNext, AfterDisconnect,
           ServerClose, serverVars, discVars, waiterVars, clientVars
  <2>4. WaiterResult \/ waiterPc' = waiterPc
    BY Zenon DEF ReadError, CompleteAll, CompleteNext, AfterDisconnect, ServerClose,
                 waiterVars, clientVars
  <2>5. peerOpen' = peerOpen \/ ServerClose
    BY Zenon DEF WaiterResult, ReadError, CompleteAll, CompleteNext, AfterDisconnect, serverVars
  <2>6. peerOpen' => peerOpen
    BY Zenon, <2>5 DEF ServerClose
  <2>2. once' = once \/ once = "no"
    BY Zenon DEF WaiterResult, ReadError, CompleteAll, CompleteNext, AfterDisconnect,
                 ServerClose, discVars, clientVars
  <2>3. "done" # "no"
    BY Zenon
  <2> QED
    BY Zenon, <2>1, <2>2, <2>3, <2>4, <2>6
<1>2. pc'[c] = pc[c]
  <2>1. CASE AfterDisconnect
    <3>1. once = "done" /\ once' = once /\ (pc' = pc \/ \E d \in Callers : At(d, "disc") /\ Return(d))
      BY Zenon, <2>1 DEF AfterDisconnect, discVars
    <3>2. "done" # "no"
      BY Zenon
    <3>3. Active(c)'
      BY Zenon, <3>1, <3>2 DEF InTime
    <3> QED
      BY Zenon, <3>1, <3>3 DEF At, Return, Go, Active, IInv, TypeOK
  <2>2. CASE ~AfterDisconnect
    BY Zenon, <2>2 DEF WaiterResult, ReadError, CompleteAll, CompleteNext, ServerClose, clientVars
  <2> QED
    BY Zenon, <2>1, <2>2
<1>3. InTime(c) /\ Exchange(c) /\ (Active(c)' <=> Active(c))
  BY Zenon, <1>1, <1>2 DEF InTime, Active
<1>4. ASSUME Active(c)
      PROVE  /\ done'[tag[c]] \in Answers => done[tag[c]] \in Answers
             /\ done'[tag[c]] = "err" => done[tag[c]] = "err" \/ once' # "no"
             /\ WaiterResult /\ waiter = tag[c] => done[tag[c]] \in Results
  <2>1. tag[c] \in Tags
    BY <1>4 DEF IInv, Named, TypeOK, Tags
  <2>2. CASE WaiterResult
    <3>1. \E r \in Results : Receive(waiter, r)
      BY Zenon, <2>2 DEF WaiterResult
    <3> QED
      BY ZenonT(30), <2>1, <3>1 DEF Receive, IInv, TypeOK, Answers
  <2>3. ASSUME NEW t \in Tags, CompleteNext(t)
        PROVE  /\ ~WaiterResult
               /\ done'[tag[c]] \in Answers => done[tag[c]] \in Answers
               /\ done'[tag[c]] = "err" => once' # "no"  \/ done[tag[c]] = "err"
    <3>1. once' = "completing" /\ done' = [done EXCEPT ![t] = "err"] /\ drain' # drain
      BY Zenon, <2>3 DEF CompleteNext, Send, IInv, Owned
    <3>2. ~WaiterResult
      BY Zenon, <3>1 DEF WaiterResult, discVars
    <3> QED
      BY Zenon, <2>1, <3>1, <3>2 DEF Answers, IInv, TypeOK
  <2>4. CASE ~WaiterResult /\ ~\E t \in Tags : CompleteNext(t)
    BY Zenon, <2>4 DEF ReadError, CompleteAll, AfterDisconnect, ServerClose, clientVars, resultVars
  <2> QED
    BY Zenon, <2>2, <2>3, <2>4
<1>5. Kept(c)'
  <2> SUFFICES ASSUME Active(c) PROVE Kept(c)'
    BY Zenon, <1>3 DEF Kept
  <2>1. Kept(c)
    BY Zenon, <1>3 DEF Exchange
  <2>2. done'[tag[c]] = "err" => once' # "no"
    BY Zenon, <1>1, <1>4, <2>1 DEF Kept
  <2>3. pc'[c] = "idling" /\ Stolen(tag[c])' => once' # "no"
    <3> SUFFICES ASSUME pc[c] = "idling", waiter = tag[c], waiterPc' = "returned"
                 PROVE  once' # "no"
      BY Zenon, <1>1, <1>2 DEF Stolen
    <3>1. CASE WaiterResult
      <4>1. done[tag[c]] \in Results /\ done[tag[c]] \notin Answers
        BY Zenon, <1>4, <2>1, <3>1 DEF Kept
      <4>2. done[tag[c]] = "err"
        BY Zenon, <4>1 DEF Results, Answers
      <4> QED
        BY Zenon, <1>1, <2>1, <4>2 DEF Kept
    <3>2. CASE ~WaiterResult
      BY Zenon, <1>1, <2>1, <3>2 DEF Kept, Stolen
    <3> QED
      BY Zenon, <3>1, <3>2
  <2>4. /\ done'[tag[c]] \in Answers =>
              /\ pc[c] \in {"cont", "auth", "wait"} /\ contCh.what # "+"
              /\ \A i \in 1..Len(toClient) : toClient[i].what \in Answers
        /\ waiter = tag[c] => pc[c] \in {"idling", "wait"}
        /\ kind[tag[c]] = "data" => \A i \in 1..Len(untagged) : untagged[i] = tag[c]
    BY Zenon, <1>4, <2>1 DEF Kept
  <2> QED
    BY Zenon, <1>1, <1>2, <2>2, <2>3, <2>4 DEF Kept
<1>6. CASE Active(c)
  BY Zenon, <1>1, <1>2, <1>3, <1>4, <1>5, <1>6, SameExchange
<1>7. CASE ~Active(c)
  <2>1. Quiescent(c)
    BY Zenon, <1>3, <1>7, BetweenCalls DEF IInv
  <2>2. Quiescent(c)'
    BY Zenon, <1>1, <1>2, <2>1 DEF Quiescent, Held, For, Active
  <2> QED
    BY Zenon, <1>3, <1>7, <2>2, OutOfCall DEF IInv
<1> QED
  BY Zenon, <1>6, <1>7

\* handleDisconnect puts the error where a call may wait for a continuation.
LEMMA GoneExchange ==
    ASSUME IInv, IInv', NEW c \in Callers, Disconnected,
           InTime(c) => Exchange(c), InTime(c)'
    PROVE  Exchange(c)'
<1>1. /\ once' = "done" /\ contCh' = (IF contCh # Empty THEN contCh ELSE Gone)
      /\ UNCHANGED <<toClient, toServer, serving, servingPc, kind, connOpen, tag, peerOpen,
                     untagged, late, waiter, waiterPc, pc, done>>
  BY Zenon DEF Disconnected, serverVars, discVars, waiterVars, resultVars
<1>2. /\ Active(c) /\ Active(c)' /\ InTime(c) /\ Exchange(c)
      /\ \A m : For(c, m)' <=> For(c, m)
      /\ Serves(c)' <=> Serves(c)
  BY Zenon, <1>1 DEF InTime, Active, For, Serves
<1>3. contCh'.what = "+" <=> contCh.what = "+"
  BY <1>1 DEF Empty, Gone
<1>4. contCh.what = "+" => contCh' = contCh
  BY <1>1 DEF Empty
<1>5. \A whats : NoLines(c, whats) => NoLines(c, whats)'
  BY Zenon, <1>1, <1>2 DEF NoLines
<1>6. PcFits(c)' /\ Held(c)'
  BY Zenon, <1>1, <1>2, <1>3, <1>4 DEF PcFits, Held, Exchange, For, Active
<1>7. Kept(c)'
  <2>1. Kept(c) /\ once' # "no"
    BY Zenon, <1>1, <1>2 DEF Exchange
  <2> QED
    BY Zenon, <1>1, <1>2, <1>3, <2>1 DEF Kept
<1>8. \A i \in 1..Len(toClient)' : Incoming(c, i)'
  BY Zenon, <1>1, <1>2, <1>3 DEF Exchange, Incoming, For
<1>9. ASSUME peerOpen' PROVE Serving(c)'
  <2>1. Asked(c)' <=> Asked(c)
    BY Zenon, <1>1, <1>3 DEF Asked
  <2>2. Unheard(c) => Unheard(c)'
    BY Zenon, <1>1, <1>3, <1>5 DEF Unheard
  <2>3. Queue(c, toServer) => Queue(c, toServer)'
    BY Zenon, <1>1, <2>2 DEF Queue, Line
  <2>4. Answering(c) => Answering(c)'
    BY Zenon, <1>1, <1>5 DEF Answering
  <2>5. Awaits(c) => Awaits(c)'
    BY Zenon, <1>1, <1>5, <2>1 DEF Awaits, Reply, Line
  <2>6. Cancelled(c) => Cancelled(c)'
    BY Zenon, <1>1, <1>5, <2>2, <2>3 DEF Cancelled, Line
  <2> QED
    BY Zenon, <1>1, <1>2, <1>9, <2>1, <2>2, <2>3, <2>4, <2>5, <2>6 DEF Exchange, Serving
<1> QED
  BY Zenon, <1>6, <1>7, <1>8, <1>9 DEF Exchange

\* The reader takes the first line.
LEMMA ReadExchange ==
    ASSUME IInv, IInv', NEW c \in Callers, ReadLine,
           InTime(c) => Exchange(c), InTime(c)'
    PROVE  Exchange(c)'
<1> DEFINE m == toClient[1]
           n == Len(toClient)
<1>1. /\ toClient # <<>> /\ toClient' = Tail(toClient)
      /\ \/ /\ m.what \in {"OK", "NO"}
            /\ Complete(m.tag, m.what)
            /\ UNCHANGED <<contCh, untagged>>
         \/ /\ m.what = "+"
            /\ contCh' = (IF contCh # Empty THEN contCh ELSE [tag |-> m.tag, what |-> "+"])
            /\ UNCHANGED <<resultVars, untagged>>
         \/ /\ m.what = "data"
            /\ untagged' = Append(untagged, m.tag)
            /\ UNCHANGED <<resultVars, contCh>>
      /\ UNCHANGED <<toServer, serving, servingPc, kind, connOpen, tag, peerOpen, late, waiter,
                     waiterPc, pc, once>>
  <2>1. toClient # <<>> /\ toClient \in Seq(Replies)
    BY Zenon DEF ReadLine, IInv, TypeOK
  <2>2. Head(toClient) = m
    BY <2>1
  <2> HIDE DEF m
  <2> QED
    BY Zenon, <2>2 DEF ReadLine, serverVars, discVars, waiterVars
<1>2. /\ n \in Nat /\ n >= 1 /\ Len(toClient') = n - 1
      /\ \A i \in 1..Len(toClient') : toClient'[i] = toClient[i + 1] /\ i + 1 \in 1..n
      /\ 1 \in 1..n /\ m.tag \in Tags
  <2>1. toClient \in Seq(Replies) /\ toClient # <<>>
    BY Zenon, <1>1 DEF IInv, TypeOK
  <2>2. n \in Nat /\ n >= 1 /\ Len(toClient') = n - 1
        /\ \A i \in 1..Len(toClient') : toClient'[i] = toClient[i + 1]
    BY <1>1, <2>1
  <2>3. m.tag \in Tags
    BY <2>1, <2>2, LineTypes DEF IInv
  <2> QED
    BY <2>2, <2>3
<1> HIDE DEF m, n
<1>3. /\ (Active(c)' <=> Active(c)) /\ InTime(c) /\ Exchange(c)
      /\ \A x : For(c, x)' <=> For(c, x)
      /\ Serves(c)' <=> Serves(c)
  BY Zenon, <1>1 DEF InTime, Active, For, Serves
<1>4. Incoming(c, 1) /\ \A i \in 1..Len(toClient') : Incoming(c, i + 1)
  BY Zenon, <1>2, <1>3 DEF Exchange, n
<1>5. \A whats : NoLines(c, whats) => NoLines(c, whats)'
  BY Zenon, <1>2, <1>3 DEF NoLines, For, n
<1>6. contCh'.what = "+" => \/ contCh' = contCh /\ m.what # "+"
                            \/ m.what = "+" /\ contCh'.tag = m.tag
  <2>1. m.what = "+" => contCh.what # "+"
    BY ZenonT(30), <1>4 DEF Incoming, m
  <2> QED
    BY <1>1, <2>1
<1>7. /\ contCh'.what = "err" => contCh.what = "err"
      /\ PcFits(c)'
  BY <1>1, <1>3 DEF PcFits, Exchange
<1>8. CASE m.what = "+"
  <2>1. /\ For(c, m) /\ n = 1 /\ pc[c] \in {"cont", "auth"} /\ contCh.what # "+"
        /\ done' = done /\ untagged' = untagged
    BY Zenon, <1>1, <1>4, <1>8 DEF Incoming, m, n, resultVars
  <2>2. toClient' = <<>> /\ \A i : i \notin 1..Len(toClient')
    <3>1. toClient' \in Seq(Replies) /\ Len(toClient') = 0
      BY <1>2, <2>1 DEF IInv, TypeOK
    <3> QED
      BY SMTT(20), <3>1
  <2>3. Held(c)'
    BY Zenon, <1>1, <1>3, <1>6, <1>7, <1>8, <2>1 DEF Exchange, Held, For, Active
  <2>4. Kept(c)'
    <3>1. Active(c) /\ m = toClient[1] /\ m.what \notin Answers
      BY Zenon, <1>8, <2>1 DEF For, m, Answers
    <3>2. Kept(c) /\ done[tag[c]] \notin Answers
      BY Zenon, <1>2, <1>3, <3>1 DEF Exchange, Kept, n
    <3> QED
      BY Zenon, <1>1, <1>3, <2>1, <3>2 DEF Kept, Stolen
  <2>5. ASSUME peerOpen' PROVE Serving(c)'
    <3>1. Asked(c)
      BY Zenon, <1>2, <1>8 DEF Asked, m, n
    <3>2. Serves(c) /\ servingPc = "await" /\ toServer = <<>> /\ Serving(c)
      BY Zenon, <1>1, <1>3, <2>5, <3>1 DEF Exchange, Serving
    <3>3. Awaits(c)
      BY Zenon, <3>2 DEF Serving
    <3>4. Awaits(c)'
      BY Zenon, <1>1, <1>5, <2>1, <3>2, <3>3 DEF Awaits
    <3> QED
      BY Zenon, <1>1, <1>3, <3>2, <3>4 DEF Serving
  <2> QED
    BY Zenon, <1>7, <2>2, <2>3, <2>4, <2>5 DEF Exchange
<1>9. CASE m.what # "+"
  <2>1. contCh' = contCh
    BY Zenon, <1>1, <1>9
  <2>2. Held(c)'
    BY Zenon, <1>1, <1>3, <2>1 DEF Exchange, Held, For, Active
  <2>3. \A i \in 1..Len(toClient') : Incoming(c, i)'
    <3> SUFFICES ASSUME NEW i \in 1..Len(toClient') PROVE Incoming(c, i)'
      BY Zenon
    <3>1. Incoming(c, i + 1) /\ toClient'[i] = toClient[i + 1]
      BY Zenon, <1>2, <1>4
    <3>2. i + 1 = n => i = Len(toClient')
      BY <1>2
    <3> QED
      BY Zenon, <1>1, <1>3, <2>1, <3>1, <3>2 DEF Incoming, n, For, Active
  <2>4. ASSUME Active(c)
        PROVE  \/ done'[tag[c]] = done[tag[c]]
               \/ done'[tag[c]] = m.what /\ m.what \in Answers /\ m.tag = tag[c]
    <3>1. tag[c] \in Tags
      BY <2>4 DEF IInv, Named, TypeOK, Tags
    <3>2. \/ done' = done
          \/ done' = [done EXCEPT ![m.tag] = m.what] /\ m.what \in Answers
      BY Zenon, <1>1 DEF Complete, Send, Answers, resultVars
    <3> QED
      BY Zenon, <1>2, <3>1, <3>2 DEF IInv, TypeOK
  <2>5. m.what \in Answers /\ For(c, m) =>
            /\ toClient' = <<>> /\ Len(toClient') = 0
            /\ pc[c] \in {"cont", "auth", "wait"} /\ contCh.what # "+"
    <3> SUFFICES ASSUME m.what \in Answers, For(c, m)
                 PROVE  /\ toClient' = <<>> /\ Len(toClient') = 0
                        /\ pc[c] \in {"cont", "auth", "wait"} /\ contCh.what # "+"
      BY Zenon
    <3>1. n = 1 /\ pc[c] \in {"cont", "auth", "wait"} /\ contCh.what # "+"
      BY Zenon, <1>4 DEF Incoming, m, n
    <3>2. toClient' \in Seq(Replies) /\ Len(toClient') = 0
      BY <1>2, <3>1 DEF IInv, TypeOK
    <3> QED
      BY <3>1, <3>2
  <2>6. Kept(c)'
    <3> SUFFICES ASSUME Active(c) PROVE Kept(c)'
      BY Zenon, <1>3 DEF Kept
    <3>1. Kept(c)
      BY Zenon, <1>3 DEF Exchange
    <3>2. done'[tag[c]] \in Answers =>
              /\ pc[c] \in {"cont", "auth", "wait"} /\ contCh.what # "+"
              /\ \A i \in 1..Len(toClient') : toClient'[i].what \in Answers
      <4>1. CASE done'[tag[c]] = done[tag[c]]
        BY Zenon, <1>2, <3>1, <4>1 DEF Kept, n
      <4>2. CASE m.what \in Answers /\ m.tag = tag[c]
        <5>1. For(c, m)
          BY Zenon, <4>2 DEF For
        <5> QED
          BY <2>5, <4>2, <5>1
      <4> QED
        BY Zenon, <2>4, <4>1, <4>2
    <3>3. done'[tag[c]] = "err" => once # "no"
      BY Zenon, <2>4, <3>1 DEF Kept, Answers
    <3>4. kind[tag[c]] = "data" => \A i \in 1..Len(untagged') : untagged'[i] = tag[c]
      <4>1. CASE m.what # "data"
        BY Zenon, <1>1, <1>9, <3>1, <4>1 DEF Kept
      <4>2. CASE m.what = "data"
        <5>1. m.tag = tag[c] /\ untagged' = Append(untagged, m.tag) /\ untagged \in Seq(Tags)
          BY Zenon, <1>1, <1>4, <4>2 DEF Incoming, For, m, IInv, TypeOK
        <5> QED
          BY <1>2, <3>1, <5>1 DEF Kept
      <4> QED
        BY Zenon, <4>1, <4>2
    <3> QED
      BY Zenon, <1>1, <2>1, <3>1, <3>2, <3>3, <3>4 DEF Kept, Stolen
  <2>7. ASSUME peerOpen' PROVE Serving(c)'
    <3>1. Serving(c)
      BY Zenon, <1>1, <1>3, <2>7 DEF Exchange
    <3>2. Asked(c)' => Asked(c)
      BY Zenon, <1>1, <1>2, <2>1 DEF Asked, n
    <3>3. ASSUME NoLines(c, Answers), Active(c), done[tag[c]] \notin Answers
          PROVE  done'[tag[c]] \notin Answers
      BY Zenon, <1>2, <2>4, <3>3 DEF NoLines, For, m, n
    <3>4. Unheard(c) => Unheard(c)'
      <4> SUFFICES ASSUME Unheard(c) PROVE Unheard(c)'
        BY Zenon
      <4>1. NoLines(c, Answers)
        BY Zenon DEF Unheard, NoLines, Answers
      <4>2. Active(c)
        BY Zenon DEF Unheard, Active
      <4> QED
        BY Zenon, <1>1, <1>5, <2>1, <3>3, <4>1, <4>2 DEF Unheard
    <3>5. Queue(c, toServer) => Queue(c, toServer)'
      BY Zenon, <1>1, <3>4 DEF Queue, Line
    <3>6. Serves(c) /\ Answering(c) => Answering(c)'
      BY Zenon, <1>1, <1>5, <3>3 DEF Answering, Serves
    <3>7. Serves(c) /\ Awaits(c) => Awaits(c)'
      BY Zenon, <1>1, <1>5, <3>2, <3>3 DEF Awaits, Reply, Line, Serves
    <3>8. Cancelled(c) => Cancelled(c)'
      BY Zenon, <1>1, <1>5, <3>4, <3>5 DEF Cancelled, Line
    <3> QED
      BY Zenon, <1>1, <1>3, <3>1, <3>2, <3>4, <3>5, <3>6, <3>7, <3>8 DEF Serving
  <2> QED
    BY Zenon, <1>7, <2>2, <2>3, <2>6, <2>7 DEF Exchange
<1> QED
  BY Zenon, <1>8, <1>9

\* A line is added to those on their way to the client.
LEMMA AnswerLines ==
    ASSUME IInv, NEW what, Answer(what), servingPc # "ready", what \in {"OK", "NO", "+", "data"}
    PROVE  /\ Len(toClient) \in Nat /\ Len(toClient') = Len(toClient) + 1
           /\ \A i \in 1..Len(toClient) : toClient'[i] = toClient[i]
           /\ toClient'[Len(toClient')].tag = serving /\ toClient'[Len(toClient')].what = what
<1> DEFINE l == [tag |-> serving, what |-> what]
<1>1. l \in Replies /\ toClient \in Seq(Replies)
  BY Zenon DEF IInv, TypeOK, Named, Replies
<1>2. toClient' = Append(toClient, l)
  BY Zenon DEF Answer
<1>3. l.tag = serving /\ l.what = what
  BY Zenon
<1> HIDE DEF l
<1>4. /\ Len(toClient) \in Nat /\ Len(toClient') = Len(toClient) + 1
      /\ \A i \in 1..Len(toClient) : toClient'[i] = toClient[i]
      /\ toClient'[Len(toClient')] = l
  BY <1>1, <1>2
<1> QED
  BY Zenon, <1>3, <1>4

\* The server takes a line: nothing changes for the client.
LEMMA TakeExchange ==
    ASSUME IInv, IInv', NEW c \in Callers, ServerTake \/ ServerInput,
           InTime(c) => Exchange(c), InTime(c)'
    PROVE  Exchange(c)'
<1>1. /\ UNCHANGED <<pc, tag, kind, done, contCh, untagged, once, late, connOpen, waiter, waiterPc,
                     peerOpen, toClient>>
      /\ toServer # <<>> /\ toServer' = Tail(toServer) /\ peerOpen
  BY Zenon DEF ServerTake, ServerInput, clientVars, resultVars, waiterVars, discVars
<1>2. InTime(c) /\ Exchange(c) /\ Serving(c)
  BY Zenon, <1>1 DEF InTime, Active, Exchange
<1>3. /\ \A m : For(c, m)' <=> For(c, m)
      /\ Active(c)' <=> Active(c)
  BY Zenon, <1>1 DEF For, Active
<1>4. \A whats : NoLines(c, whats) => NoLines(c, whats)'
  BY Zenon, <1>1, <1>3 DEF NoLines
<1>5. PcFits(c)' /\ Held(c)' /\ Kept(c)' /\ \A i \in 1..Len(toClient)' : Incoming(c, i)'
  <2>1. PcFits(c)' /\ Kept(c)'
    BY Zenon, <1>1, <1>2 DEF Exchange, PcFits, Kept, Active, Stolen
  <2>2. Held(c)' /\ \A i \in 1..Len(toClient)' : Incoming(c, i)'
    BY Zenon, <1>1, <1>2 DEF Exchange, Held, Incoming, For, Active
  <2> QED
    BY Zenon, <2>1, <2>2
<1>6. (Unheard(c) => Unheard(c)') /\ (Asked(c)' => Asked(c)) /\ ~Asked(c)
  <2>1. Unheard(c) => Unheard(c)'
    BY Zenon, <1>1, <1>4 DEF Unheard
  <2>2. Asked(c)' => Asked(c)
    BY Zenon, <1>1 DEF Asked
  <2>3. ~Asked(c)
    BY Zenon, <1>1, <1>2 DEF Serving
  <2> QED
    BY Zenon, <2>1, <2>2, <2>3
<1>7. ASSUME ServerTake PROVE Serving(c)'
  <2>1. servingPc = "ready"
    BY Zenon, <1>7 DEF ServerTake
  <2>2. toServer = <<Line(tag[c], "command")>> /\ Unheard(c)
    BY Zenon, <1>1, <1>2, <2>1 DEF Serving, Queue, Cancelled
  <2>3. Head(toServer) = Line(tag[c], "command") /\ Tail(toServer) = <<>>
    BY <2>2
  <2>4. Line(tag[c], "command").what = "command" /\ Line(tag[c], "command").tag = tag[c]
    BY Zenon DEF Line
  <2>5. serving' = tag[c] /\ servingPc' = "busy" /\ toServer' = <<>>
    BY Zenon, <1>1, <1>7, <2>3, <2>4 DEF ServerTake
  <2>6. Active(c)
    BY Zenon, <2>2 DEF Unheard, Active
  <2> QED
    BY Zenon, <1>1, <1>3, <1>6, <2>2, <2>5, <2>6 DEF Serving, Serves
<1>8. ASSUME ServerInput PROVE Serving(c)'
  <2>1. /\ servingPc = "await" /\ serving' = serving
        /\ servingPc' = CASE kind[serving] = "auth" /\ Head(toServer).what # "*" -> "busy"
                          [] kind[serving] = "idle" /\ Head(toServer).what # "DONE" -> "await"
                          [] OTHER -> "final"
    BY Zenon, <1>8 DEF ServerInput
  <2>2. Serves(c)' <=> Serves(c)
    BY Zenon, <1>1, <1>3, <2>1 DEF Serves
  <2>3. CASE Serves(c)
    <3> DEFINE r == Reply(c, kind[serving])
    <3>1. Awaits(c)
      BY Zenon, <1>2, <2>1, <2>3 DEF Serving
    <3>2. /\ toServer = <<r>> /\ pc[c] \in {"auth", "wait"} /\ serving = tag[c]
          /\ kind[serving] \in Continued /\ done[tag[c]] \notin Answers /\ NoLines(c, Answers)
      BY Zenon, <1>1, <2>3, <3>1 DEF Awaits, Serves
    <3>3. /\ kind[serving] = "idle" => r.what = "DONE"
          /\ kind[serving] = "auth" => r.what = "response"
      BY Zenon DEF Reply, Line
    <3> HIDE DEF r
    <3>4. Head(toServer) = r /\ toServer' = <<>>
      BY <1>1, <3>2
    <3>5. CASE kind[serving] = "auth"
      <4>1. servingPc' = "busy"
        BY Zenon, <2>1, <3>3, <3>4, <3>5
      <4>2. pc[c] = "auth"
        BY Zenon, <1>2, <3>2, <3>5 DEF Exchange, PcFits
      <4>3. contCh.what # "+" /\ \A i \in 1..Len(toClient) : toClient[i].what # "+"
        BY Zenon, <1>6 DEF Asked
      <4>4. NoLines(c, {"OK", "NO", "+", "data"})
        <5> SUFFICES ASSUME NEW i \in 1..Len(toClient), For(c, toClient[i]),
                            toClient[i].what \in {"OK", "NO", "+", "data"}
                     PROVE  FALSE
          BY Zenon DEF NoLines
        <5>1. Incoming(c, i) /\ toClient[i].what \notin Answers
          BY Zenon, <1>2, <3>2 DEF Exchange, NoLines
        <5> QED
          BY Zenon, <4>2, <4>3, <5>1 DEF Incoming, Answers
      <4>5. Unheard(c)
        BY Zenon, <3>2, <4>2, <4>3, <4>4 DEF Unheard
      <4> QED
        BY Zenon, <1>6, <2>2, <2>3, <3>4, <4>1, <4>5 DEF Serving
    <3>6. CASE kind[serving] # "auth"
      <4>1. servingPc' = "final"
        BY Zenon, <2>1, <3>3, <3>4, <3>6
      <4>2. pc[c] = "wait"
        BY Zenon, <1>2, <3>2, <3>6 DEF Exchange, PcFits
      <4>3. Answering(c)'
        BY Zenon, <1>1, <1>4, <3>2, <3>4, <4>2 DEF Answering
      <4> QED
        BY Zenon, <1>6, <2>2, <2>3, <4>1, <4>3 DEF Serving
    <3> QED
      BY Zenon, <3>5, <3>6
  <2>4. CASE ~Serves(c)
    <3>1. Cancelled(c)
      BY Zenon, <1>2, <2>1, <2>4 DEF Serving
    <3>2. PICK x \in Lines : /\ x.what = "*"
                             /\ \/ toServer = <<x>>
                                \/ toServer = <<x, Line(tag[c], "command")>> /\ Unheard(c)
      BY Zenon, <2>1, <3>1 DEF Cancelled
    <3>3. kind[serving] = "auth" /\ NoLines(c, Answers)
      BY Zenon, <2>1, <3>1 DEF Cancelled
    <3>4. /\ Head(toServer) = x
          /\ \/ toServer' = <<>>
             \/ toServer' = <<Line(tag[c], "command")>> /\ Unheard(c)
      <4> DEFINE l == Line(tag[c], "command")
      <4>1. Head(<<x>>) = x /\ Tail(<<x>>) = <<>>
        OBVIOUS
      <4>2. Head(<<x, l>>) = x /\ Tail(<<x, l>>) = <<l>>
        OBVIOUS
      <4> HIDE DEF l
      <4> QED
        BY Zenon, <1>1, <3>2, <4>1, <4>2 DEF l
    <3>5. servingPc' = "final"
      BY Zenon, <2>1, <3>2, <3>3, <3>4
    <3>6. Queue(c, toServer)'
      BY Zenon, <1>1, <1>6, <3>4 DEF Queue, Line
    <3> QED
      BY Zenon, <1>4, <1>6, <2>2, <2>4, <3>3, <3>5, <3>6 DEF Serving, Cancelled
  <2> QED
    BY Zenon, <2>3, <2>4
<1> QED
  BY Zenon, <1>5, <1>7, <1>8 DEF Exchange

\* The server says something: what it says is for the call that c is in, if it
\* serves it, and an answer to a command that has been given up, if not.
LEMMA SpeakExchange ==
    ASSUME IInv, IInv', NEW c \in Callers, ServerData \/ ServerContinue \/ ServerFinish,
           InTime(c) => Exchange(c), InTime(c)'
    PROVE  Exchange(c)'
<1>1. /\ UNCHANGED <<pc, tag, kind, done, contCh, untagged, once, late, connOpen, waiter, waiterPc,
                     peerOpen, toServer, serving>>
      /\ peerOpen /\ servingPc \in {"busy", "final"}
      /\ \E what \in {"OK", "NO", "+", "data"} :
            /\ Answer(what)
            /\ \/ what = "data" /\ servingPc = "busy" /\ kind[serving] = "data" /\ servingPc' = "final"
               \/ what = "+" /\ servingPc = "busy" /\ kind[serving] \in Continued /\ servingPc' = "await"
               \/ what \in Answers /\ servingPc' = "ready"
  BY Zenon DEF ServerData, ServerContinue, ServerFinish, clientVars, resultVars, waiterVars, discVars,
         Continued, Answers
<1>2. PICK what \in {"OK", "NO", "+", "data"} :
            /\ Answer(what)
            /\ \/ what = "data" /\ servingPc = "busy" /\ kind[serving] = "data" /\ servingPc' = "final"
               \/ what = "+" /\ servingPc = "busy" /\ kind[serving] \in Continued /\ servingPc' = "await"
               \/ what \in Answers /\ servingPc' = "ready"
  BY Zenon, <1>1
<1>3. InTime(c) /\ Exchange(c) /\ Serving(c)
  BY Zenon, <1>1 DEF InTime, Active, Exchange
<1>4. /\ \A m : For(c, m)' <=> For(c, m)
      /\ (Active(c)' <=> Active(c)) /\ (Serves(c)' <=> Serves(c))
  BY Zenon, <1>1 DEF For, Active, Serves
<1> DEFINE n == Len(toClient)
           last == toClient'[Len(toClient')]
<1>5. /\ n \in Nat /\ Len(toClient') = n + 1
      /\ \A i \in 1..n : toClient'[i] = toClient[i]
      /\ last.tag = serving /\ last.what = what
  <2>1. servingPc # "ready"
    BY Zenon, <1>1
  <2> QED
    BY Zenon, <1>2, <2>1, AnswerLines
<1>6. \A i \in 1..Len(toClient') : (i \in 1..n /\ toClient'[i] = toClient[i])
                                   \/ (i = Len(toClient') /\ toClient'[i] = last)
  BY <1>5
<1> HIDE DEF n, last
<1>7. ~Asked(c) /\ contCh.what # "+" /\ \A i \in 1..n : toClient[i].what # "+"
  <2>1. ~Asked(c)
    BY Zenon, <1>1, <1>3 DEF Serving
  <2> QED
    BY Zenon, <2>1 DEF Asked, n
<1>8. PcFits(c)' /\ Held(c)'
  BY Zenon, <1>1, <1>3 DEF Exchange, PcFits, Held, For, Active
<1>9. For(c, last) <=> Serves(c)
  BY Zenon, <1>5 DEF For, Serves
<1>10. NoLines(c, Answers)
  <2>1. Unheard(c) => NoLines(c, Answers)
    BY Zenon DEF Unheard, NoLines, Answers
  <2> QED
    BY Zenon, <1>1, <1>3, <2>1 DEF Serving, Cancelled, Answering
<1>11. CASE Serves(c)
  <2>1. \/ servingPc = "busy" /\ toServer = <<>> /\ Unheard(c)
        \/ servingPc = "final" /\ Answering(c)
    BY Zenon, <1>1, <1>3, <1>11 DEF Serving
  <2>2. /\ toServer = <<>> /\ pc[c] \in {"cont", "auth", "wait"} /\ done[tag[c]] \notin Answers
        /\ Active(c) /\ serving = tag[c]
    BY Zenon, <1>11, <2>1 DEF Unheard, Answering, Serves
  <2>3. Kept(c)'
    BY Zenon, <1>1, <1>3, <1>4, <2>2 DEF Exchange, Kept, Stolen
  <2>4. ASSUME what = "data"
        PROVE  pc[c] = "wait"
    <3>1. kind[tag[c]] = "data"
      BY Zenon, <1>2, <2>2, <2>4 DEF Answers
    <3> QED
      BY Zenon, <1>3, <2>2, <3>1 DEF Exchange, PcFits, Continued
  <2>5. ASSUME what = "+"
        PROVE  pc[c] \in {"cont", "auth"} /\ kind[serving] \in Continued /\ servingPc' = "await"
    BY Zenon, <1>2, <2>1, <2>2, <2>5 DEF Unheard, Answers
  <2>6. ASSUME NEW i \in 1..Len(toClient') PROVE Incoming(c, i)'
    <3>1. CASE i \in 1..n /\ toClient'[i] = toClient[i]
      <4>1. /\ Incoming(c, i) /\ toClient[i].what # "+"
            /\ ~(toClient[i].what \in Answers /\ For(c, toClient[i]))
        BY Zenon, <1>3, <1>7, <1>10, <3>1 DEF Exchange, NoLines, n
      <4> QED
        BY Zenon, <1>1, <1>4, <3>1, <4>1 DEF Incoming, For, Active
    <3>2. CASE i = Len(toClient') /\ toClient'[i] = last
      <4>1. For(c, toClient[i])'
        BY Zenon, <1>1, <1>4, <1>9, <1>11, <3>2 DEF For, Active
      <4>2. toClient'[i].what = what
        BY Zenon, <1>5, <3>2
      <4> HIDE DEF For
      <4> QED
        BY Zenon, <1>1, <1>7, <2>2, <2>4, <2>5, <3>2, <4>1, <4>2 DEF Incoming
    <3> QED
      BY Zenon, <1>6, <3>1, <3>2
  <2>7. what \notin Answers => NoLines(c, Answers)'
    BY Zenon, <1>1, <1>4, <1>5, <1>6, <1>10 DEF NoLines, n, For, Active
  <2>8. what # "+" => ~Asked(c)'
    BY Zenon, <1>1, <1>5, <1>6, <1>7 DEF Asked, n
  <2>9. Serving(c)'
    <3>1. CASE what \in Answers
      BY Zenon, <1>1, <1>2, <2>2, <2>8, <3>1 DEF Serving, Queue, Answers
    <3>2. CASE what = "data"
      <4>1. servingPc' = "final" /\ what \notin Answers /\ what # "+"
        BY Zenon, <1>2, <3>2 DEF Answers
      <4>2. Answering(c)'
        BY Zenon, <1>1, <2>2, <2>4, <2>7, <3>2, <4>1 DEF Answering
      <4> QED
        BY Zenon, <1>4, <1>11, <2>8, <4>1, <4>2 DEF Serving
    <3>3. CASE what = "+"
      <4>1. servingPc' = "await" /\ what \notin Answers
        BY Zenon, <1>2, <3>3 DEF Answers
      <4>2. Awaits(c)'
        BY Zenon, <1>1, <2>2, <2>5, <2>7, <3>3, <4>1 DEF Awaits
      <4> QED
        BY Zenon, <1>1, <1>4, <1>11, <2>2, <4>1, <4>2 DEF Serving
    <3> QED
      BY Zenon, <3>1, <3>2, <3>3 DEF Answers
  <2> QED
    BY Zenon, <1>8, <2>3, <2>6, <2>9 DEF Exchange
<1>12. CASE ~Serves(c)
  <2>1. servingPc = "final" /\ Cancelled(c) /\ what \in Answers /\ servingPc' = "ready"
    <3>1. servingPc # "busy" /\ Cancelled(c)
      BY Zenon, <1>1, <1>3, <1>12 DEF Serving, Cancelled
    <3> QED
      BY Zenon, <1>1, <1>2, <3>1
  <2>2. Queue(c, toServer)
    BY Zenon, <2>1 DEF Cancelled
  <2>3. ~For(c, last)
    BY Zenon, <1>9, <1>12
  <2>4. \A whats : NoLines(c, whats) => NoLines(c, whats)'
    BY Zenon, <1>1, <1>6, <2>3 DEF NoLines, n, For, Active
  <2>5. Kept(c)'
    <3>1. Kept(c)
      BY Zenon, <1>3 DEF Exchange
    <3>2. (\A i \in 1..n : toClient[i].what \in Answers) =>
              \A i \in 1..Len(toClient') : toClient'[i].what \in Answers
      BY Zenon, <1>5, <1>6, <2>1
    <3> QED
      BY Zenon, <1>1, <3>1, <3>2 DEF Kept, Stolen, Active, n
  <2>6. ASSUME NEW i \in 1..Len(toClient') PROVE Incoming(c, i)'
    <3>1. CASE i \in 1..n /\ toClient'[i] = toClient[i]
      <4>1. /\ Incoming(c, i) /\ toClient[i].what # "+"
            /\ ~(toClient[i].what \in Answers /\ For(c, toClient[i]))
        BY Zenon, <1>3, <1>7, <1>10, <3>1 DEF Exchange, NoLines, n
      <4> QED
        BY Zenon, <1>1, <1>4, <3>1, <4>1 DEF Incoming, For, Active
    <3>2. CASE i = Len(toClient') /\ toClient'[i] = last
      <4>1. ~For(c, toClient[i])'
        BY Zenon, <1>1, <2>3, <3>2 DEF For, Active
      <4>2. toClient'[i].what \in Answers
        BY Zenon, <1>5, <2>1, <3>2
      <4>3. toClient'[i].what # "+" /\ toClient'[i].what # "data"
        BY Zenon, <4>2 DEF Answers
      <4> QED
        BY Zenon, <4>1, <4>3 DEF Incoming
    <3> QED
      BY Zenon, <1>6, <3>1, <3>2
  <2>7. ~Asked(c)'
    <3>1. last.what # "+"
      BY Zenon, <1>5, <2>1 DEF Answers
    <3> QED
      BY Zenon, <1>1, <1>6, <1>7, <3>1 DEF Asked, n
  <2>8. Queue(c, toServer)'
    <3>1. Unheard(c) => Unheard(c)'
      BY Zenon, <1>1, <2>4 DEF Unheard
    <3> QED
      BY Zenon, <1>1, <2>2, <3>1 DEF Queue, Line
  <2> QED
    BY Zenon, <1>8, <2>1, <2>5, <2>6, <2>7, <2>8 DEF Exchange, Serving
<1> QED
  BY Zenon, <1>11, <1>12

-----------------------------------------------------------------------------
(* All together *)

\* Nothing under way has a tag that has not been handed out.
LEMMA KnownStep ==
    ASSUME IInv, Known, Next
    PROVE  Known'
<1>1. nextTag \in Nat /\ (nextTag' = nextTag \/ nextTag' = nextTag + 1)
  <2>1. nextTag \in Nat
    BY DEF IInv, TypeOK
  <2> QED
    BY Zenon, <2>1, StepShape DEF Add, SameCommands, CompleteAll, CompleteNext, IInv
<1>2. ASSUME NEW c \in Callers, Active(c)
      PROVE  tag[c] \in Tags /\ tag[c] <= nextTag
  BY <1>2 DEF IInv, Named, TypeOK, Tags
<1>3. /\ toServer \in Seq(Lines) /\ toClient \in Seq(Replies)
      /\ \A x \in Lines : x.tag \in Nat
      /\ \A x \in Replies : x.tag \in Nat
      /\ serving \in Nat /\ waiter \in Nat
  BY DEF IInv, TypeOK, Lines, Replies, Tags
<1>4. \/ toClient' = toClient
      \/ toClient # <<>> /\ toClient' = Tail(toClient)
      \/ servingPc # "ready" /\ \E what \in {"OK", "NO", "+", "data"} : Answer(what)
  <2>1. CASE Server
    BY Zenon, <2>1 DEF Server, ServerTake, ServerInput, ServerData, ServerContinue, ServerFinish
  <2>2. CASE ~Server
    BY ZenonT(30), <2>2 DEF Next, CallStep, Disconnect, Add, Write, WriteError, AuthStartError, Result,
       Continuation, NoContinuation, AppendLiteral, InitialResponse, IdleDone, Follow,
       AuthChallenge, AuthResult, CloseConn, Close, StartWaiter, IdleOver, WaiterResult, ReadLine,
       ReadError, CompleteAll, CompleteNext, Disconnected, AfterDisconnect, ServerClose
  <2> QED
    BY Zenon, <2>1, <2>2
<1>5. \/ toServer' = toServer
      \/ toServer # <<>> /\ toServer' = Tail(toServer)
      \/ \E c \in Callers, what \in {"command", "DONE", "literal", "response", "*"} :
            Active(c) /\ toServer' = Append(toServer, Line(tag[c], what))
  <2>1. ASSUME NEW c \in Callers,
               Write(c) \/ AppendLiteral(c) \/ InitialResponse(c) \/ IdleDone(c) \/ AuthChallenge(c)
        PROVE  \/ toServer' = toServer
               \/ \E what \in {"command", "DONE", "literal", "response", "*"} :
                     Active(c) /\ toServer' = Append(toServer, Line(tag[c], what))
    BY Zenon, <2>1 DEF Write, AppendLiteral, InitialResponse, IdleDone, Follow, AuthChallenge, Written,
                WriteFails, At, Active
  <2>2. CASE Server \/ ServerClose
    BY Zenon, <2>2 DEF Server, ServerTake, ServerInput, ServerData, ServerContinue, ServerFinish,
                       ServerClose
  <2>3. CASE \/ \E c \in Callers :
                  \/ \E k \in Kinds : Add(c, k)
                  \/ WriteError(c) \/ AuthStartError(c) \/ Result(c) \/ Continuation(c)
                  \/ NoContinuation(c) \/ AuthResult(c) \/ CloseConn(c) \/ Close(c)
                  \/ StartWaiter(c) \/ IdleOver(c)
             \/ WaiterResult \/ ReadLine \/ ReadError \/ Disconnect
    BY Zenon, <2>3 DEF Disconnect, Add, WriteError, WriteFails, AuthStartError, Result,
       Continuation, NoContinuation, AuthResult, CloseConn, Close, StartWaiter, IdleOver,
       WaiterResult, ReadLine, ReadError, CompleteAll, CompleteNext, Disconnected, AfterDisconnect
  <2> QED
    BY Zenon, <2>1, <2>2, <2>3 DEF Next, CallStep
<1>6. \/ servingPc' = "ready"
      \/ serving' = serving /\ servingPc # "ready"
      \/ toServer # <<>> /\ serving' = Head(toServer).tag
  <2>1. CASE Server
    BY Zenon, <2>1 DEF Server, ServerTake, ServerInput, ServerData, ServerContinue, ServerFinish
  <2>2. CASE ~Server
    <3>1. UNCHANGED <<serving, servingPc>>
      BY ZenonT(30), <2>2 DEF Next, CallStep, Disconnect, Add, Write, WriteError, AuthStartError,
         Result, Continuation, NoContinuation, AppendLiteral, InitialResponse, IdleDone, Follow,
         AuthChallenge, AuthResult, CloseConn, Close, StartWaiter, IdleOver, WaiterResult,
         ReadLine, ReadError, CompleteAll, CompleteNext, Disconnected, AfterDisconnect,
         ServerClose, serverVars
    <3> QED
      BY Zenon, <3>1
  <2> QED
    BY Zenon, <2>1, <2>2
<1>7. waiter' = waiter \/ waiter' = 0 \/ \E c \in Callers : Active(c) /\ waiter' = tag[c]
  <2>1. ASSUME NEW c \in Callers, StartWaiter(c)
        PROVE  Active(c) /\ waiter' = tag[c]
    BY Zenon, <2>1 DEF StartWaiter, At, Active
  <2>2. CASE Server \/ ServerClose
    BY Zenon, <2>2 DEF Server, ServerTake, ServerInput, ServerData, ServerContinue, ServerFinish,
                       ServerClose, clientVars, waiterVars
  <2>3. CASE ~Server /\ ~ServerClose /\ ~\E c \in Callers : StartWaiter(c)
    BY ZenonT(30), <2>3 DEF Next, CallStep, Disconnect, Add, Write, WriteError, AuthStartError, Result,
       Continuation, NoContinuation, AppendLiteral, InitialResponse, IdleDone, Follow,
       AuthChallenge, AuthResult, CloseConn, Close, IdleOver, WaiterResult, ReadLine,
       ReadError, CompleteAll, CompleteNext, Disconnected, AfterDisconnect, waiterVars
  <2> QED
    BY Zenon, <2>1, <2>2, <2>3
<1>8. \A i \in 1..Len(toClient') : toClient'[i].tag <= nextTag
  <2>1. CASE toClient' = toClient
    BY Zenon, <2>1 DEF Known
  <2>2. CASE toClient # <<>> /\ toClient' = Tail(toClient)
    BY <1>3, <2>2 DEF Known
  <2>3. ASSUME servingPc # "ready", NEW what \in {"OK", "NO", "+", "data"}, Answer(what)
        PROVE  \A i \in 1..Len(toClient') : toClient'[i].tag <= nextTag
    <3>1. /\ Len(toClient) \in Nat /\ Len(toClient') = Len(toClient) + 1
          /\ \A i \in 1..Len(toClient) : toClient'[i] = toClient[i]
          /\ toClient'[Len(toClient')].tag = serving
      BY Zenon, <2>3, AnswerLines
    <3>2. serving <= nextTag
      BY Zenon, <2>3 DEF Known
    <3>3. \A i \in 1..Len(toClient') : i \in 1..Len(toClient) \/ i = Len(toClient')
      BY <3>1
    <3> QED
      BY Zenon, <3>1, <3>2, <3>3 DEF Known
  <2> QED
    BY Zenon, <1>4, <2>1, <2>2, <2>3
<1>9. \A i \in 1..Len(toServer') : toServer'[i].tag <= nextTag
  <2>1. CASE toServer' = toServer
    BY Zenon, <2>1 DEF Known
  <2>2. CASE toServer # <<>> /\ toServer' = Tail(toServer)
    BY <1>3, <2>2 DEF Known
  <2>3. ASSUME NEW c \in Callers, NEW what \in {"command", "DONE", "literal", "response", "*"},
               Active(c), toServer' = Append(toServer, Line(tag[c], what))
        PROVE  \A i \in 1..Len(toServer') : toServer'[i].tag <= nextTag
    <3> DEFINE l == Line(tag[c], what)
    <3>1. l \in Lines /\ toServer' = Append(toServer, l)
      BY Zenon, <2>3, LineOf
    <3>2. l.tag <= nextTag
      BY Zenon, <1>2, <2>3 DEF Line
    <3> HIDE DEF l
    <3> QED
      BY <1>3, <3>1, <3>2 DEF Known
  <2> QED
    BY Zenon, <1>5, <2>1, <2>2, <2>3
<1>10. servingPc' # "ready" => serving' <= nextTag
  <2>1. toServer # <<>> => Head(toServer).tag <= nextTag
    BY <1>3 DEF Known
  <2> QED
    BY Zenon, <1>6, <2>1 DEF Known
<1>11. waiter' <= nextTag
  <2>1. 0 <= nextTag
    BY <1>1
  <2> QED
    BY Zenon, <1>2, <1>7, <2>1 DEF Known
<1> QED
  <2>1. \A k \in Nat : k <= nextTag => k <= nextTag'
    BY <1>1
  <2>2. (\A i \in 1..Len(toClient') : toClient'[i].tag \in Nat)
        /\ (\A i \in 1..Len(toServer') : toServer'[i].tag \in Nat)
        /\ serving' \in Nat /\ waiter' \in Nat
    <3>1. IInv'
      BY Zenon, NextIInv
    <3>2. toServer' \in Seq(Lines) /\ toClient' \in Seq(Replies)
      BY Zenon, <3>1 DEF IInv, TypeOK, Lines, Replies
    <3>3. serving' \in Nat /\ waiter' \in Nat
      BY SMTT(20), <3>1 DEF IInv, TypeOK, Tags
    <3> QED
      BY <1>3, <3>2, <3>3
  <2> QED
    BY Zenon, <1>8, <1>9, <1>10, <1>11, <2>1, <2>2 DEF Known

\* A call that is not late takes what was sent for it.
LEMMA OwnStep ==
    ASSUME IInv, TakenInv, Next
    PROVE  TakesItsOwn'
<1>1. late \subseteq late'
  BY Zenon, StepShape DEF Add, SameCommands, CompleteAll, CompleteNext, IInv
<1>2. ASSUME NEW c \in Callers, Active(c), tag[c] \notin late
      PROVE  Exchange(c)
  BY Zenon, <1>2 DEF TakenInv, InTime
<1>3. ASSUME NEW c \in Callers, TakeCont(c), Active(c)
      PROVE  \A p \in taken' : p \in taken \/ p[1] \in late \/ p[1] = p[2]
  <2>1. \/ taken' = taken
        \/ taken' = taken \cup {<<tag[c], contCh.tag>>} /\ contCh.what # "err"
    BY Zenon, <1>3 DEF TakeCont
  <2>2. contCh.what # "err" /\ tag[c] \notin late => contCh.tag = tag[c]
    <3> SUFFICES ASSUME contCh.what # "err", tag[c] \notin late PROVE contCh.tag = tag[c]
      BY Zenon
    <3>1. contCh.what = "+"
      BY <1>3 DEF TakeCont, IInv, TypeOK, Continuations, Empty, Gone
    <3> QED
      BY Zenon, <1>2, <1>3, <3>1 DEF Exchange, Held, For
  <2> QED
    BY <2>1, <2>2
<1>4. ASSUME NEW c \in Callers, Result(c)
      PROVE  \A p \in taken' : p \in taken \/ p[1] \in late \/ p[1] = p[2]
  <2>1. Active(c)
    BY Zenon, <1>4 DEF Result, At, Active
  <2>2. \/ taken' = taken
        \/ /\ kind[tag[c]] = "data"
           /\ taken' = taken \cup {<<tag[c], u>> : u \in Range(untagged)}
    BY Zenon, <1>4 DEF Result
  <2>3. kind[tag[c]] = "data" /\ tag[c] \notin late => \A u \in Range(untagged) : u = tag[c]
    <3> SUFFICES ASSUME kind[tag[c]] = "data", tag[c] \notin late, NEW u \in Range(untagged)
                 PROVE  u = tag[c]
      BY Zenon
    <3>1. \A i \in 1..Len(untagged) : untagged[i] = tag[c]
      BY Zenon, <1>2, <2>1 DEF Exchange, Kept
    <3>2. PICK i \in 1..Len(untagged) : u = untagged[i]
      BY DEF Range, IInv, TypeOK
    <3> QED
      BY Zenon, <3>1, <3>2
  <2> QED
    BY <2>2, <2>3
<1>5. CASE ~\E c \in Callers : Active(c) /\ (TakeCont(c) \/ Result(c))
  <2>1. \A c \in Callers : ~Result(c) /\ ~Continuation(c) /\ ~AuthChallenge(c)
    BY Zenon, <1>5 DEF Result, Continuation, AuthChallenge, At, Active
  <2>2. taken' = taken
    <3>1. CASE Server \/ ServerClose
      BY Zenon, <3>1 DEF Server, ServerTake, ServerInput, ServerData, ServerContinue,
                         ServerFinish, ServerClose, clientVars
    <3>2. CASE ~(Server \/ ServerClose)
      BY ZenonT(30), <2>1, <3>2 DEF Next, CallStep, Disconnect, Add, Write, WriteError,
         AuthStartError, NoContinuation, AppendLiteral, InitialResponse, IdleDone, Follow,
         AuthResult, CloseConn, Close, StartWaiter, IdleOver, WaiterResult,
         ReadLine, ReadError, CompleteAll, CompleteNext, Disconnected, AfterDisconnect
    <3> QED
      BY Zenon, <3>1, <3>2
  <2> QED
    BY Zenon, <1>1, <2>2 DEF TakenInv, TakesItsOwn
<1>6. CASE \E c \in Callers : Active(c) /\ (TakeCont(c) \/ Result(c))
  BY Zenon, <1>1, <1>3, <1>4, <1>6 DEF TakenInv, TakesItsOwn
<1> QED
  BY Zenon, <1>5, <1>6

\* A step, whoever takes it, leaves the only call in order.
LEMMA ExchangeStep ==
    ASSUME IInv, IInv', Known, Next, NEW c \in Callers, \A d \in Callers : d = c,
           InTime(c) => Exchange(c), InTime(c)'
    PROVE  Exchange(c)'
<1>1. \/ \E k \in Kinds : Add(c, k)
      \/ WriteError(c) \/ AuthStartError(c)
      \/ Result(c) \/ NoContinuation(c) \/ AuthResult(c)
      \/ Close(c) \/ CloseConn(c)
      \/ Write(c) \/ Continuation(c) \/ AuthChallenge(c)
      \/ AppendLiteral(c) \/ InitialResponse(c) \/ IdleDone(c)
      \/ StartWaiter(c) \/ IdleOver(c)
      \/ WaiterResult \/ ReadError \/ CompleteAll \/ (\E t \in Tags : CompleteNext(t))
      \/ AfterDisconnect \/ ServerClose
      \/ Disconnected \/ ReadLine
      \/ ServerTake \/ ServerInput \/ ServerData \/ ServerContinue \/ ServerFinish
  BY Zenon DEF Next, CallStep, Disconnect, Server
<1>2. (\E k \in Kinds : Add(c, k)) => Exchange(c)'
  BY Zenon, AddExchange
<1>3. WriteError(c) \/ AuthStartError(c) => Exchange(c)'
  BY Zenon, NotBegun
<1>4. Result(c) \/ NoContinuation(c) \/ AuthResult(c) => Exchange(c)'
  BY Zenon, ResultExchange
<1>5. Close(c) \/ CloseConn(c) => Exchange(c)'
  BY Zenon, CloseExchange
<1>6. Write(c) => Exchange(c)'
  BY Zenon, WriteExchange
<1>7. Continuation(c) => Exchange(c)'
  BY Zenon, ContinuationExchange
<1>8. AuthChallenge(c) => Exchange(c)'
  BY Zenon, ChallengeExchange
<1>9. AppendLiteral(c) \/ InitialResponse(c) \/ IdleDone(c) => Exchange(c)'
  BY Zenon, FollowExchange
<1>10. StartWaiter(c) \/ IdleOver(c) => Exchange(c)'
  BY Zenon, IdleExchange
<1>11. \/ WaiterResult \/ ReadError \/ CompleteAll \/ (\E t \in Tags : CompleteNext(t))
       \/ AfterDisconnect \/ ServerClose
       => Exchange(c)'
  BY Zenon, DisconnectExchange
<1>12. Disconnected => Exchange(c)'
  BY Zenon, GoneExchange
<1>13. ReadLine => Exchange(c)'
  BY Zenon, ReadExchange
<1>14. ServerTake \/ ServerInput => Exchange(c)'
  BY Zenon, TakeExchange
<1>15. ServerData \/ ServerContinue \/ ServerFinish => Exchange(c)'
  BY Zenon, SpeakExchange
<1> QED
  BY Zenon, <1>1, <1>2, <1>3, <1>4, <1>5, <1>6, <1>7, <1>8, <1>9, <1>10, <1>11, <1>12, <1>13,
     <1>14, <1>15

\* Every step preserves the invariant, as long as only one goroutine calls.
LEMMA TakenInvStep ==
    ASSUME \A c, d \in Callers : c = d, IInv, TakenInv, [Next]_vars
    PROVE  TakenInv'
<1>1. CASE Next
  <2>1. IInv'
    BY Zenon, <1>1, NextIInv
  <2>2. Known'
    BY Zenon, <1>1, KnownStep DEF TakenInv
  <2>3. TakesItsOwn'
    BY Zenon, <1>1, OwnStep
  <2>4. ASSUME NEW c \in Callers, InTime(c)'
        PROVE  Exchange(c)'
    <3>1. Known /\ (InTime(c) => Exchange(c)) /\ \A d \in Callers : d = c
      BY Zenon DEF TakenInv
    <3> QED
      BY Zenon, <1>1, <2>1, <2>4, <3>1, ExchangeStep
  <2> QED
    BY Zenon, <2>2, <2>3, <2>4 DEF TakenInv
<1>2. CASE UNCHANGED vars
  <2>1. Known' /\ TakesItsOwn'
    <3>1. UNCHANGED <<toClient, toServer, serving, servingPc, waiter, nextTag, taken, late>>
      BY Zenon, <1>2 DEF vars, waiterVars, serverVars, resultVars, discVars
    <3> QED
      BY Zenon, <3>1 DEF TakenInv, Known, TakesItsOwn
  <2>2. ASSUME NEW c \in Callers, InTime(c)'
        PROVE  Exchange(c)'
    <3>1. Exchange(c)
      BY Zenon, <1>2, <2>2 DEF vars, resultVars, discVars, TakenInv, InTime, Active
    <3>2. Kept(c)'
      BY Zenon, <1>2, <3>1 DEF vars, resultVars, discVars, waiterVars, Exchange, Kept, Active,
                               Stolen
    <3> QED
      BY Zenon, <1>2, <3>1, <3>2, SameExchange DEF vars, resultVars, discVars, serverVars
  <2> QED
    BY Zenon, <2>1, <2>2 DEF TakenInv
<1> QED
  BY Zenon, <1>1, <1>2

\* A goroutine that has the connection to itself takes the continuations and the
\* untagged data that the server sent for the command it is in: none is left over
\* from a command before it, whatever of that went wrong and wherever the
\* connection ended meanwhile. (Calls that began after the connection was gone
\* are told so; they are the late ones.)
THEOREM OwnAnswersTaken ==
    ASSUME \A c, d \in Callers : c = d
    PROVE  Spec => []TakesItsOwn
<1> DEFINE Inv == IInv /\ TakenInv
<1>1. Init => Inv
  <2> SUFFICES ASSUME Init PROVE TakenInv
    BY Zenon, InitIInv
  <2>1. Known /\ TakesItsOwn
    BY DEF Init, Known, TakesItsOwn
  <2>2. ASSUME NEW c \in Callers
        PROVE  Exchange(c)
    BY DEF Init, Exchange, PcFits, Held, Kept, Active, Empty, Serving, Asked, Queue
  <2> QED
    BY Zenon, <2>1, <2>2 DEF TakenInv
<1>2. Inv /\ [Next]_vars => Inv'
  <2>1. Inv /\ [Next]_vars => IInv'
    BY Zenon, NextIInv
  <2> QED
    BY Zenon, <2>1, TakenInvStep
<1>3. Inv => TakesItsOwn
  BY Zenon DEF TakenInv
<1> QED
  BY <1>1, <1>2, <1>3, PTL DEF Spec
=============================================================================
