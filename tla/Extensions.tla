----------------------------- MODULE Extensions -----------------------------
(***************************************************************************)
(* A connection of a server on which some of the packages under            *)
(* extensions/ are installed.                                              *)
(*                                                                         *)
(* Installing an extension registers the handlers it provides and wraps    *)
(* those it extends (package extension, server/dispatch.go); the program   *)
(* that uses the library does so in the order of Resolve.  A request       *)
(* runs the outermost handler of its command; a handler is a sequence of   *)
(* steps (module Handlers), which may call the handler it wraps.  The      *)
(* session behind the handlers is not under src/: a call to it succeeds or *)
(* fails as it likes.                                                      *)
(***************************************************************************)
EXTENDS Handlers, StateMachine, FiniteSets, Functions

CONSTANTS
    Installations,   \* sets of extensions that are installed together
    Requests         \* what a client may send: [cmd, uid, has, tail]

\* What may follow the line of an APPEND or a REPLACE: a message, two that stand
\* for any number, or one with the ) of a list after it.
Tails == {<<>>, <<"literal", "crlf">>, <<"literal", "literal", "crlf">>,
          <<"literal", ")", "crlf">>}

\* A request without arguments uses no syntax, and only the lists of CATENATE and
\* UTF8 are closed after a literal.
WellFormed(r) ==
    /\ "nothing" \in r.has => r.has = {"nothing"}
    /\ r.tail \in Tails /\ (r.tail # <<>> => r.cmd \in {"APPEND", "REPLACE"})
    /\ r.tail = <<"literal", ")", "crlf">> => "catenate" \in r.has \/ "utf8" \in r.has

ASSUME RequestsAssumption == \A r \in Requests : WellFormed(r)

\* A registry holds finitely many extensions.
ASSUME InstallationsAssumption == \A es \in Installations : Cardinality(es) \in Nat

VARIABLES
    order,           \* the installed extensions, in the order of Registry.Resolve
    ifaces,          \* the optional interfaces that the session implements
    connState,       \* Conn: state machine
    named,           \* Conn: a mailbox name is set
    enabled,         \* Conn: Enabled()
    user,            \* session: it is logged in
    saved,           \* session: it holds a search result
    phase,           \* "idle", "run": in a handler, "done": the last request is answered
    req,             \* the request last read
    from,            \* the connection's state when it was read
    level,           \* how many wrappers have called the handler they wrap
    todo,            \* the steps left
    rest,            \* what follows the request's line and is not read yet
    calls,           \* session methods that returned without error, for this request
    numSet,          \* the message set: the client's ("given"), the saved one, or a cast of it
    answers,         \* tagged responses written, for this request
    strays,          \* BADs written since, for lines that are no commands
    closed,          \* the session answered BYE
    crashed          \* the handler panicked

conn == <<connState, named, enabled>>
session == <<user, saved>>
handler == <<req, from, level>>
vars == <<order, ifaces, conn, session, phase, handler, todo, rest, calls, numSet, answers,
          strays, closed, crashed>>

Installed == Range(order)

-----------------------------------------------------------------------------
(* Installing *)

BuiltinCommands == {"LOGIN", "SELECT", "EXAMINE", "UNSELECT", "ENABLE", "CREATE", "LIST",
                    "APPEND", "SEARCH", "FETCH", "STORE", "COPY", "EXPUNGE"}

\* Register overwrites, Wrap is for commands that have a handler.
Install(chain, e, cmd) ==
    IF cmd \in Provides(e) THEN <<e>>
    ELSE IF cmd \in Wraps(e) /\ chain # <<>> THEN <<e>> \o chain
    ELSE chain

\* The handlers of a command, outermost first.
Chain(cmd) ==
    LET upTo[n \in 0..Len(order)] ==
            IF n = 0 THEN IF cmd \in BuiltinCommands THEN <<"BUILTIN">> ELSE <<>>
            ELSE Install(upTo[n - 1], order[n], cmd)
    IN upTo[Len(order)]

\* An order in which nothing comes before what it depends on (module LoadOrder).
InOrder(seq) ==
    \A i \in 1..Len(seq) : Dependencies(seq[i]) \subseteq Range(SubSeq(seq, 1, i - 1))

NoRequest == [cmd |-> "none", uid |-> FALSE, has |-> {}, tail |-> <<>>]

AllInterfaces(es) == UNION {Interfaces(e) : e \in es}

Fresh ==
    /\ connState = "notauth" /\ named = FALSE /\ enabled = {} /\ user = FALSE
    /\ saved = FALSE /\ phase = "idle" /\ req = NoRequest /\ from = "notauth" /\ level = 1
    /\ todo = <<>> /\ rest = <<>> /\ calls = <<>> /\ numSet = "given" /\ answers = <<>>
    /\ strays = 0 /\ closed = FALSE /\ crashed = FALSE

\* The session implements all of the interfaces, all but one, or none.
Init ==
    /\ \E es \in Installations :
           /\ order \in {seq \in Bijection(1..Cardinality(es), es) : InOrder(seq)}
           /\ LET all == AllInterfaces(es)
              IN  ifaces \in {all, {}} \cup {all \ {i} : i \in all}
    /\ Fresh

-----------------------------------------------------------------------------
(* Requests *)

\* What a handler reads when it is called.
Ctx(r) == [cmd |-> r.cmd, uid |-> r.uid, has |-> r.has, tail |-> r.tail,
           ifaces |-> ifaces, state |-> connState, enabled |-> enabled]

\* Requests for commands that no installed extension touches say nothing new,
\* but for those that move the connection from state to state.
Touched ==
    UNION {Provides(e) \cup Wraps(e) : e \in Installed}
        \cup {"LOGIN", "SELECT", "UNSELECT", "ENABLE"}

\* Commands that the state machine does not know check the state themselves.
Allowed(cmd) == AllowedStates(cmd) = {} \/ connState \in AllowedStates(cmd)

\* The connection reads a request and dispatches it.
Receive(r) ==
    /\ phase = "idle" /\ r.cmd \in Touched
    /\ req' = r /\ from' = connState /\ rest' = r.tail
    /\ IF Allowed(r.cmd) /\ Chain(r.cmd) # <<>>
       THEN /\ phase' = "run" /\ todo' = Program(Chain(r.cmd)[1], Ctx(r))
            /\ UNCHANGED answers
       ELSE phase' = "done" /\ answers' = <<"BAD">> /\ UNCHANGED todo
    /\ UNCHANGED <<order, ifaces, conn, session, level, calls, numSet, strays, closed, crashed>>

\* dispatch returns, and the connection reads on.  What the handler left is read as a
\* line and refused: the end of the line after a message is an empty command, which
\* parseLine answers with an untagged BAD; a message, of one line here, is no
\* command either.
ReadLeftover ==
    /\ phase = "done" /\ ~closed /\ rest # <<>>
    /\ rest' = Tail(rest) /\ strays' = strays + 1
    /\ UNCHANGED <<order, ifaces, conn, session, phase, handler, todo, calls, numSet, answers,
                   closed, crashed>>

\* Nothing is left but the next command, whole or torn: a command without its first
\* bytes is carried out, too, and answered under what is left of its tag.
ReadOn ==
    /\ phase = "done" /\ ~closed /\ rest \in {<<>>, <<"torn">>}
    /\ phase' = "idle" /\ req' = NoRequest /\ from' = connState /\ level' = 1
    /\ rest' = <<>> /\ calls' = <<>> /\ numSet' = "given" /\ answers' = <<>> /\ strays' = 0
    /\ UNCHANGED <<order, ifaces, conn, session, todo, closed, crashed>>

\* The next connection has a session of its own.
Reconnect ==
    /\ closed \/ crashed
    /\ connState' = "notauth" /\ named' = FALSE /\ enabled' = {} /\ user' = FALSE
    /\ saved' = FALSE /\ phase' = "idle" /\ req' = NoRequest /\ from' = "notauth"
    /\ level' = 1 /\ todo' = <<>> /\ rest' = <<>> /\ calls' = <<>> /\ numSet' = "given"
    /\ answers' = <<>> /\ strays' = 0 /\ closed' = FALSE /\ crashed' = FALSE
    /\ UNCHANGED <<order, ifaces>>

-----------------------------------------------------------------------------
(* Steps *)

Running(dos) == phase = "run" /\ ~crashed /\ Head(todo).do \in dos

Advance_StaysRunning == todo' = Tail(todo) /\ phase' = "run"

\* The step is done; after the last one the handler returns nil.
Advance ==
    /\ todo' = Tail(todo)
    /\ phase' = IF Len(todo) = 1 THEN "done" ELSE "run"

\* The handler returns: the wrappers around it pass an error on, and dispatch
\* answers with it.
Return(status) ==
    /\ todo' = <<>> /\ phase' = "done"
    /\ answers' = IF status = "BYE" THEN answers ELSE Append(answers, status)
    /\ closed' = (status = "BYE")

ParseArgs ==
    /\ Running({"args"})
    /\ \/ Advance /\ UNCHANGED <<answers, closed>>
       \/ Return("BAD")
    /\ UNCHANGED <<order, ifaces, conn, session, handler, rest, calls, numSet, strays, crashed>>

\* PeekByte sees what ReadAtom does not take.
LoopForever ==
    /\ Running({"endless"})
    /\ UNCHANGED vars

ReadLiteral ==
    /\ Running({"literal"})
    /\ rest # <<>> /\ Head(rest) = "literal" /\ rest' = Tail(rest) /\ Advance
    /\ UNCHANGED <<order, ifaces, conn, session, handler, calls, numSet, answers, strays,
                   closed, crashed>>

ReadClose ==
    /\ Running({"close"})
    /\ IF rest # <<>> /\ Head(rest) = ")"
       THEN rest' = Tail(rest) /\ Advance /\ UNCHANGED <<answers, closed>>
       ELSE Return("BAD") /\ UNCHANGED rest
    /\ UNCHANGED <<order, ifaces, conn, session, handler, calls, numSet, strays, crashed>>

\* The client sends a line, which closes the list, or which the handler refuses
\* once it has taken its first bytes.
ReadMore ==
    /\ Running({"more"})
    /\ \/ rest' = <<"crlf">> /\ Advance /\ UNCHANGED <<answers, closed>>
       \/ rest' = <<"torn">> /\ Return("BAD")
    /\ UNCHANGED <<order, ifaces, conn, session, handler, calls, numSet, strays, crashed>>

WriteOK ==
    /\ Running({"OK"})
    /\ answers' = Append(answers, "OK") /\ Advance
    /\ UNCHANGED <<order, ifaces, conn, session, handler, rest, calls, numSet, strays, closed,
                   crashed>>

ReturnError ==
    /\ Running({"NO", "BAD"})
    /\ Return(Head(todo).do)
    /\ UNCHANGED <<order, ifaces, conn, session, handler, rest, calls, numSet, strays, crashed>>

UseNilDecoder ==
    /\ Running({"crash"})
    /\ crashed' = TRUE
    /\ UNCHANGED <<order, ifaces, conn, session, phase, handler, todo, rest, calls, numSet,
                   answers, strays, closed>>

CallOriginal_Same ==
    /\ Running({"original"})
    /\ todo' = Program(Chain(req.cmd)[level], Ctx(req))
    /\ UNCHANGED <<order, ifaces, conn, session, phase, req, from, level, rest, calls, numSet,
                   answers, strays, closed, crashed>>

CallOriginal ==
    /\ Running({"original"})
    /\ level' = level + 1
    /\ todo' = Program(Chain(req.cmd)[level + 1], Ctx(req)) \o Tail(todo)
    /\ UNCHANGED <<order, ifaces, conn, session, phase, req, from, rest, calls, numSet, answers,
                   strays, closed, crashed>>

\* What a session keeps of a call.
SessionAfter(method) ==
    /\ user' = CASE method = "Login" -> TRUE [] method = "Unauthenticate" -> FALSE
                 [] OTHER -> user
    /\ saved' = CASE method = "SaveSearchResult" -> TRUE
                  [] method \in {"Login", "Unauthenticate"} -> FALSE
                  [] OTHER -> saved

CallSession ==
    /\ Running({"try", "tryNO", "get", "resolve"})
    /\ LET step == Head(todo)
           errors == CASE step.do = "tryNO" -> {"NO"} [] step.do = "get" -> {"BAD"}
                       [] OTHER -> {"NO", "BAD", "BYE"}
       IN  \/ /\ step.do = "resolve" => saved
              /\ calls' = Append(calls, step.call)
              /\ SessionAfter(step.call)
              /\ numSet' = IF step.do = "resolve" THEN "saved" ELSE numSet
              /\ Advance
              /\ UNCHANGED <<answers, closed>>
           \/ /\ \E status \in errors : Return(status)
              /\ UNCHANGED <<session, calls, numSet>>
    /\ UNCHANGED <<order, ifaces, conn, handler, rest, strays, crashed>>

CastSet ==
    /\ Running({"cast"})
    /\ numSet' = "cast" /\ Advance
    /\ UNCHANGED <<order, ifaces, conn, session, handler, rest, calls, answers, strays, closed,
                   crashed>>

\* A session that is told of a capability once the client has its OK.
TellSession ==
    /\ Running({"tryIf"})
    /\ \/ /\ Advance
          /\ calls' = IF Head(todo).cap \in enabled THEN Append(calls, Head(todo).call)
                      ELSE calls
          /\ UNCHANGED <<answers, closed>>
       \/ /\ Head(todo).cap \in enabled
          /\ \E status \in {"NO", "BAD", "BYE"} : Return(status)
          /\ UNCHANGED calls
    /\ UNCHANGED <<order, ifaces, conn, session, handler, rest, numSet, strays, crashed>>

\* A transition that the state machine refuses is an error, which becomes NO.
SetState ==
    /\ Running({"state", "stateNO"})
    /\ IF CanTransition(connState, Head(todo).call)
       THEN connState' = Head(todo).call /\ Advance /\ UNCHANGED <<answers, closed>>
       ELSE Return("NO") /\ UNCHANGED connState
    /\ UNCHANGED <<order, ifaces, named, enabled, session, handler, rest, calls, numSet, strays,
                   crashed>>

SetMailbox ==
    /\ Running({"name", "unname"})
    /\ named' = (Head(todo).do = "name") /\ Advance
    /\ UNCHANGED <<order, ifaces, connState, enabled, session, handler, rest, calls, numSet,
                   answers, strays, closed, crashed>>

\* Of the capabilities that are asked for those that the server has are enabled,
\* here those of the extensions installed; a list without any is BAD.
Enable ==
    /\ Running({"enable"})
    /\ IF req.has # {}
       THEN /\ enabled' = enabled \cup (req.has \cap Installed)
            /\ Advance
            /\ UNCHANGED <<answers, closed>>
       ELSE Return("BAD") /\ UNCHANGED enabled
    /\ UNCHANGED <<order, ifaces, connState, named, session, handler, rest, calls, numSet,
                   strays, crashed>>

HandlerStep ==
    \/ ParseArgs \/ LoopForever \/ ReadLiteral \/ ReadClose \/ WriteOK \/ ReturnError
    \/ UseNilDecoder \/ CallOriginal \/ CallSession \/ CastSet \/ TellSession \/ SetState
    \/ SetMailbox \/ Enable

Next ==
    \/ \E r \in Requests : Receive(r)
    \/ ReadLeftover \/ ReadOn
    \/ Reconnect
    \/ HandlerStep \/ ReadMore

\* A handler runs on its connection's goroutine, and the session's methods return.
\* A client does not have to send another line.
Spec == Init /\ [][Next]_vars /\ WF_vars(HandlerStep)

-----------------------------------------------------------------------------
(* Properties *)

Done == phase = "done"
Answer == IF answers = <<>> THEN "none" ELSE answers[Len(answers)]
Outermost(e) == Chain(req.cmd) # <<>> /\ Chain(req.cmd)[1] = e
Asks(what) == what \in req.has

\* The shapes of the variables: a handler that runs has a step to take, and the
\* wrapper that runs is one of the command's chain.
TypeOK ==
    /\ InOrder(order) /\ ifaces \subseteq AllInterfaces(Installed)
    /\ connState \in ConnStates /\ enabled \subseteq Installed
    /\ {named, user, saved, closed, crashed} \subseteq BOOLEAN
    /\ phase \in {"idle", "run", "done"} /\ (phase = "run" <=> todo # <<>>)
    /\ req \in Requests \cup {NoRequest} /\ from \in ConnStates
    /\ level = 1 \/ level <= Len(Chain(req.cmd))
    /\ \/ \E i \in 0..Len(req.tail) : rest = SubSeq(req.tail, i + 1, Len(req.tail))
       \/ Asks("open") /\ rest \in {<<"crlf">>, <<"torn">>}
    /\ numSet \in {"given", "saved", "cast"} /\ strays \in Nat
    /\ Range(answers) \subseteq {"OK", "NO", "BAD"}

\* Commands whose handlers check neither the state nor, but for REPLACE and ID,
\* that there are arguments.
Unchecked == Provides("ACL") \cup Provides("QUOTA") \cup Provides("METADATA")

\* The STORE that CONDSTORE does not answer.
Silent == req.cmd = "STORE" /\ Conditional(req) /\ "CondStore" \notin ifaces

\* However the handlers of a command are stacked, a request gets one tagged
\* response, unless the session closes the connection.  The code has three
\* exceptions: a conditional STORE that CONDSTORE passes to a session without
\* StoreConditional gets none; an ENABLE that the session refuses, once the
\* built-in handler has answered OK, gets a second one; and without arguments the
\* handlers of ACL, QUOTA, METADATA, SORT and THREAD use a Decoder that is nil.
OneResponse ==
    /\ crashed => req.cmd \in Unchecked \cup {"SORT", "THREAD"}
    /\ Done =>
          IF closed \/ Silent THEN Len(answers) <= 1
          ELSE \/ Len(answers) = 1
               \/ req.cmd = "ENABLE" /\ answers \in {<<"OK", "NO">>, <<"OK", "BAD">>}

\* Session methods that change mail, mailboxes, settings or the session itself.
Changing ==
    {"Login", "Select", "SelectQResync", "Unselect", "Create", "CreateSpecialUse", "Append",
     "AppendCatenate", "AppendMulti", "AppendBinary", "Replace", "Store", "StoreConditional",
     "Copy", "CopyUIDs", "Move", "Expunge", "ExpungeUIDs", "SetACL", "DeleteACL", "SetQuota",
     "SetMetadata", "ResetKey", "Notify", "CancelNotify", "SetFilter", "Compress",
     "Unauthenticate"}

\* The calls of this request that have changed something.
Changes == {i \in DOMAIN calls : calls[i] \in Changing}

\* Wrapped or not, the operation of a command is done at most once, by one of
\* the handlers of its chain, and a command that is refused has changed nothing.
\* The code has two exceptions: UNAUTHENTICATE with a mailbox selected logs the
\* session out and then cannot change the connection's state, and an APPEND
\* (UTF8 ...) whose list is not closed is appended before that is noticed.
OnceOrNotAtAll ==
    /\ \A i, j \in Changes : i = j
    /\ Done /\ Answer \in {"NO", "BAD"} /\ Changes # {} =>
           \/ req.cmd = "UNAUTHENTICATE" /\ from = "selected"
           \/ Asks("utf8") /\ ")" \notin Range(req.tail)

\* A request that is answered OK has been carried out as it was asked:
\*  - UNCHANGEDSINCE through StoreConditional, if the session has it; the STORE
\*    of SEARCHRES drops it, and all of them drop UNCHANGEDSINCE 0 and store
\*    unconditionally;
\*  - $ as a message set by the messages of the saved result, if the command goes
\*    by sequence numbers; a UID command takes the saved sequence numbers for UIDs;
\*  - SAVE by saving the result, if SEARCHRES is the outermost handler and the
\*    session can save it; other handlers of SEARCH drop SAVE.
AsAsked ==
    Done /\ answers = <<"OK">> =>
        /\ req.cmd = "STORE" /\ Conditional(req) /\ "CondStore" \in ifaces =>
               "StoreConditional" \in Range(calls) \/ Asks("$")
        /\ req.cmd \in {"FETCH", "STORE", "COPY", "MOVE"} /\ Asks("$") =>
               saved /\ (~req.uid => numSet = "saved")
        /\ Asks("SAVE") /\ Outermost("SEARCHRES") /\ "SearchRes" \in ifaces => saved

\* The session is asked for nothing before the client has logged in, for nothing
\* about messages before it has selected a mailbox, and for nothing by sequence
\* numbers once it has enabled UIDONLY.  The last needs UIDONLY's wrapper to be
\* the outermost: one that is installed after it, and does not call the handler
\* it wraps, undoes it.
RunsWhenAllowed ==
    calls # <<>> =>
        /\ from = "notauth" => req.cmd \in {"LOGIN", "ID", "REPLACE"} \cup Unchecked
        /\ from = "auth" => req.cmd \notin {"FETCH", "STORE", "COPY", "MOVE", "SEARCH",
                                            "EXPUNGE", "SORT", "THREAD", "CONVERT",
                                            "CANCELUPDATE"}
        /\ "UIDONLY" \in enabled /\ Outermost("UIDONLY")
           /\ req.cmd \in {"FETCH", "STORE", "COPY", "MOVE", "SEARCH", "SORT", "THREAD"} =>
               req.uid

\* Between requests the connection and the session agree on whether someone is
\* logged in, and a mailbox is named exactly while one is selected: every copy
\* of SELECT, UNSELECT and LOGIN makes its changes in an order that keeps this
\* when one of them fails.  UNAUTHENTICATE with a mailbox selected leaves the
\* connection in that state with a session that is logged out.
ConnAgrees ==
    phase # "run" /\ ~closed =>
        /\ named <=> connState = "selected"
        /\ connState = "notauth" => ~user
        /\ connState # "notauth" => user \/ "UNAUTHENTICATE" \in Installed

\* The end of a line that is left when the literals before it have been read.
LeavesEnd == req.tail # <<>> \/ Asks("open")

\* After a command is answered OK no part of it but the end of its line is read as
\* a command: nothing is, so that the next line is the next command, unless the
\* command ended in a literal. Then no handler reads the end of the line, and the
\* client gets one untagged BAD for an empty command before its next command is
\* read. MULTIAPPEND sees to that for a session that cannot append several
\* messages, too; every other handler cuts an APPEND of several messages after the
\* first, and leaves the others to be read as commands.
InStep ==
    /\ Done
    /\ \/ Answer = "OK"
       \/ /\ Outermost("MULTIAPPEND") /\ "MultiAppend" \notin ifaces
          /\ Answer = "NO" /\ req.has = {}
    /\ Several(req) => Outermost("MULTIAPPEND")
    => strays + Len(rest) = IF LeavesEnd THEN 1 ELSE 0

\* Requests whose handlers need not end: a FETCH with a partial that something
\* follows, and a CATENATE list that is left open, for which the client has to send
\* another line.
Endures ==
    \/ req.cmd = "FETCH" /\ Asks("partial")
    \/ req.cmd = "APPEND" /\ Asks("open") /\ Outermost("CATENATE")

\* A handler ends: however they are stacked, wrappers do not call each other in
\* circles, and none of them waits for what the request does not have, but for
\* the two that Endures names.
RequestEnds == phase = "run" /\ ~Endures ~> phase # "run" \/ crashed
=============================================================================
