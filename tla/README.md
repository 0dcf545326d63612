# TLA+ models of imap-go

This directory holds TLA+ specifications of imap-go, the TLC configurations that
model-check them, and TLAPS proofs about them. Every definition is a translation
of source code; `PROJECT.json` names the lines (`map`), lists the runs, the
mutants that show that each property can fail, the hazards of the code, and what
the runs found.

- [The system](#the-system)
- [What is modelled](#what-is-modelled)
- [Runs](#runs)
- [Proofs](#proofs)
- [What the models leave out](#what-the-models-leave-out)
- [Plan](#plan)

## The system

imap-go is an IMAP4rev2 client and server library in Go, with about fifty
extensions. Its parts:

| Part | Sources | What it does | State and concurrency |
|---|---|---|---|
| Client | `client/` | issues tagged commands, matches responses to them, collects untagged data | callers, a reader goroutine, Close; `c.mu`, `pending.mu`, channels of capacity 1 |
| Client pool | `client/pool` | keeps idle clients | one mutex |
| Server lifecycle | `server/server.go`, `server/conn.go` | Serve, one goroutine per connection, Shutdown | `srv.mu`, `c.mu`, an atomic count |
| Dispatch | `server/dispatch.go`, `server/handler.go`, `state/` | reads a line, checks the connection's state, calls the handler, answers | state machine under an RWMutex |
| Command handlers | `server/commands/` | parse arguments, call the session, write responses | IDLE starts a goroutine; the others run in the connection's |
| Tracker | `server/tracker.go` | tells sessions what others did to their mailbox | `t.mu` and `st.mu` |
| In-memory backend | `server/memserver/` | users, mailboxes, messages, sessions | `u.mu`, one mutex per mailbox |
| Wire | `wire/` | tokens, literals, modified UTF-7 | sequential |
| Root package | `*.go` | number sets, capabilities, plain data | sequential |
| Extensions | `extension/`, `extensions/` | registry with dependencies; handlers and session interfaces | registry under an RWMutex |
| Middleware | `middleware/` | timeout, rate limit, metrics, recovery, logging | timeout leaves a handler running |
| SASL | `auth/` | client and server side of seven mechanisms | sequential exchanges |
| Test harness, examples | `imaptest/`, `examples/` | | |

A client and a server exchange lines over a connection. The server's connection
goroutine hands each command to a handler, the handler calls the session (the
backend), and the backend's sessions share mailboxes; a tracker passes changes of
a mailbox from the session that made them to the others.

## What is modelled

| Module | Component | Instances | Proofs |
|---|---|---|---|
| `MailboxTracker` | `server/tracker.go` | `MCMailboxTracker` | `MailboxTrackerProofs` |
| `ClientConn` | `client/`: commands, reader, IDLE, disconnect | `MCClientConn` | `ClientConnProofs` |
| `ServerLifecycle` | `server/server.go`, `conn.go`, IDLE's goroutines | `MCServerLifecycle` | `ServerLifecycleProofs` |
| `ServerConn` | `server/conn.go`, `dispatch.go`, `server/commands`, `state/`, Timeout, Recovery, Metrics | `MCServerConn` | `ServerConnProofs` |
| `MemStore` | `server/memserver` under `server/commands` | `MCMemStore` | `MemStoreProofs` |
| `Registry`, `LoadOrder` | `extension/registry.go`, and what it promises | `MCRegistry` | `RegistryProofs` |
| `Handlers` | the handlers of the packages in `extensions/` | `MCExtensions` | |
| `Extensions` | a connection of a server with extensions installed | `MCExtensions` | |
| `NumSets` | `numset.go`, `numSetContains`, `ReadAtom` | `MCSearch` | |
| `Search` | `server/commands/search.go`, memserver's search and message sets | `MCSearch` | |
| `StateMachine` | `state/`, shared by `ServerConn` and `Extensions` | | |

Each module's next-state relation is a disjunction of the operations of one
component, split where another goroutine can come in between: at a lock, a
channel, or a write. A critical section that takes no second lock is one step.

### MailboxTracker

State: `numMessages` and `sessions` of every `MailboxTracker`, `mailbox` and
`updates` of every `SessionTracker`, who holds `t.mu` for reading (`readers`) and
`st.mu` (`stMu`), and where each goroutine is. `QueueExpunge`, `QueueNewMessage`
and `QueueFlagsUpdate` start a producer's call; `RLock`, `queueUpdate` (once per
session) and `RUnlock` are `QueueUpdate`. `Select` and `Unselect` lock `st.mu`,
`Leave` is the rest of their critical section, `addSession` follows it. `Flush`
takes the updates, and drops expunges if it may not send them. Two ghosts: `view`
is the message count the session's client knows; `quiet` says that since the
session registered, and at that moment, no two calls that count its mailbox have
overlapped, and that no expunge of its was dropped.

### ClientConn

State: the pending map (`pending`), every command's `done` channel, the one
continuation channel (`contCh`), `untaggedData`, the connection state, and where
every caller, the reader, `disconnectOnce` and the goroutine of the README's IDLE
example are. `Add`, `Write`, `WriteError`, `Result` are `execute` (a `Logout` goes on to
set the state and to close the client, also when the write failed); `Continuation`
and `NoContinuation` are the select of `waitForContinuation`; `AppendLiteral`,
`InitialResponse`, `AuthChallenge`, `AuthResult`, `IdleDone` follow it. `Close`
and `CloseConn` are `Close`; `ReadLine` and `ReadError` the reader;
`CompleteAll`, `CompleteNext`, `Disconnected` are `handleDisconnect`. The server
(`ServerTake` to `ServerClose`) is external: it may answer as the protocol lets
it and may close the connection at any time. That a continuation or an untagged
line names its command is a ghost, used to say who took what was meant for whom.

### ServerLifecycle

State: `isShutdown`, the listener, `conns`, `connCount`, and for every connection
where its goroutine is, `closed`, whether `c.session` is set, and both ends of
the socket. `ServeStart`, `Accept`, `CheckLimit`, `ServeEnd` are `Serve`;
`Register`, `Count`, `NewSession`, `ServeConnEnds`, `Remove`, `Uncount` are
`handleConn` and `serve`; `ShutdownListeners` to `ShutdownReturn` are `Shutdown`,
which holds `srv.mu` over its loop; `IdleStart`, `IdleRead`, `IdleReturn` are the
handler of IDLE and its reading goroutine, over a session whose `Idle` waits for
`stop`, as memserver's does. Ghosts: calls of `session.Close`, and `orphan`, that
a connection was closed before `c.session` was set.

### MemStore

State: one user's `u.Mailboxes` (`mailboxes`), each mailbox's `name`, `msgs`,
`uidNext` and lock, and for every connection its state, `userData`,
`selectedMailbox` and `selectedReadOnly`. A command is one action with the
handler's state check as a guard; SELECT, EXAMINE, DELETE, APPEND and COPY look a
mailbox up and work on it in a later step, and COPY takes its two locks one after
the other, in the order of addresses (a box is a number). Messages are records of
UID, flags and a body whose only purpose is to tell messages apart. `Expunge`
computes the reported sequence numbers as the code does, adjusted one by one.

### ServerConn

One connection from the line it reads to the tagged response it writes. State:
the lines the client has sent (`input`), the connection's goroutine (`main`,
`cur`), for every command its handler's next step (`at`) and what it returned
(`ret`), IDLE's reading goroutine (`reader`), the state machine, `Conn.mailbox`
(`named`), `isTLS`, `enabled` and `Metrics.ActiveCommands`. A handler is a sequence
of steps, one definition for each file of `server/commands`; what a step does
(check the arguments, call the session, change the state, answer) is defined once,
with its early returns. FETCH's items are a step of their own: `ReadItems` gets to the
end of them or refuses them, `LoopInItems` is the loop over a partial
`<offset.count>` that something follows, which never ends (`fetch.go:256`, `390`).
`ReadGarbage`, `Reject`, `Dispatch`, `Finish`, `FinishBye`,
`TimesOut`, `ReadError` are `serve`, `readAndHandle` and `dispatch`. `chain` is the
order of the middlewares: it decides in which goroutine a panic and the counting of
active commands happen. The session is abstract: a call succeeds, fails with any
kind of error, or panics. The client is external: it pipelines commands, except
during IDLE, and sends APPEND's literal with the line. Ghosts: the tagged responses
to each command (`answers`), the commands dispatch is done with (`over`), those
whose handler Timeout gave up (`late`), and the state a client infers from the
first answers (`view`).

### Registry and LoadOrder

State of the registry: `extensions`, `order`, the dependencies of each extension,
and the local variables of a `Resolve` that runs (`inDegree`, `queue`, `sorted`).
`Register`, `RemoveExt` and the parts of `Resolve` are actions: the check for
missing dependencies, the start, one turn of the loop, the end. Go's maps are
iterated in random order, so the extensions that get free in one turn are queued
in any order. `LoadOrder` says what a caller may rely on: extensions are loaded
one by one, each after those it depends on, until all are; and a refusal means
that some extensions wait for each other or for one that is missing. `Registry`
implements it (`KeepsPromise`, with `sorted` as what is loaded).

### Handlers and Extensions

`Handlers` has one definition for each handler of `extensions/`, a sequence of
steps for a request, with its early returns, the interfaces it asks the session
for and the calls it makes; `Provides`, `Wraps`, `Dependencies` and `Interfaces`
are the tables that the extensions declare. `Extensions` says what a step does. A
server has some extensions installed (`order`, any order that `Resolve` may
return; the program that uses the library installs them, there is no such code in
the library): each registers its commands and wraps those of others as
`Dispatcher.Register` and `Wrap` do, which makes a `Chain` of handlers for every
command. `Receive` is `dispatch` with its checks; the step actions run the outermost
handler, which may call the one it wraps (`CallOriginal`). A request names its command,
whether UID precedes it, the syntax elements that some handler treats in its own
way (`has`), and what follows the line on the connection (`tail`: literals, a
closing parenthesis, the end of the line); other arguments are right or wrong by choice.
What a handler leaves of the tail is read as lines and refused (`ReadLeftover`), with an
untagged BAD each, which `strays` counts. `LoopForever` is the endless loop over a
partial, `ReadMore` the CATENATE handler that goes on reading from the connection.
`numSet` says whose message set the session is called with: the client's, the saved
one of `$`, or the saved sequence numbers cast to UIDs (`CastSet`). The session
is external: it implements all interfaces of the installed extensions, all but
one, or none, and may refuse any call. It is asked for nothing else, but it remembers
whether someone is logged in and whether a search result is saved.

### NumSets and Search

`NumSets` has number sets as sequences of ranges, their printing, parsing and
membership, over texts of one-digit numbers. `Search` handles one request: `ReadKey`,
`ReadNot`, `ReadList` and `EndNot` are the loop of `parseSearchCriteria` with a stack
for its recursion, `SearchMessages` is memserver's search, `MatchMessages` the message
set of FETCH, STORE, COPY and MOVE. The request's keys are a sequence of records;
`Reference` says, in sets of messages, what they mean in IMAP. `YOUNGER` stands for the
keys that WITHIN announces and the parser does not know: the key is skipped and its number
read as a key of its own, a sequence set.

## Runs

`expect: pass` runs check what the code does right; `expect: violation` runs show
a place where the code does something else than a comment, a document or a
message of the repository says. `tlc -config <cfg> <module>` runs one.

| Run | Checks | Shows |
|---|---|---|
| `tracker` | `NoStaleUpdates`, `RegisteredWhereSelected`, `ViewConverges`, `CallsReturn` | no update reaches a session that has gone to another mailbox; a mailbox knows exactly its watchers; a client that has got all updates knows the mailbox's count, unless calls overlapped or expunges were dropped; nothing but the lock cycle can hang a call |
| `client_calls` | `WaitsForSomething`, `TakesItsOwn`, `CallsReturn` | one call at a time, every kind of command: it waits for something, takes its own continuations and data, and with a server that answers it returns |
| `client_race` | `OneResult`, `EarlyCallsReturn` | two callers, the README's IDLE goroutine and a disconnect: no command is sent two results, and calls that were pending at the disconnect return |
| `lifecycle` | `CountIsExact`, `SessionsAreClosed`, `LeavesWithClient`, `ShutdownDrains` | a session is closed once, `connCount` is exact, a connection ends when its client leaves outside IDLE; Shutdown, Serve and the connections Shutdown found end |
| `store_two` | `NoLockCycle`, `OnlySelectedHasMailbox`, `OneNamePerMailbox`, `HandlersReturn` | COPYs do not deadlock, a mailbox is reachable only in the selected state, a mailbox has one name, every handler returns |
| `store_mail` | `TypeOK`, `UidsAscend`, `ExpungeReplays`, `UidsNameOneMessage`, `ExamineKeepsFlags` | UIDs ascend below UIDNext and never name a second message; the reported sequence numbers, replayed, give the mailbox; STORE and FETCH respect EXAMINE |
| `server_conn` | `AnsweredOnce`, `StateAgrees`, `ActiveIsExact`, `EveryCommandAnswered` | every command gets one tagged response, whatever its handler returns and wherever; client and server agree on the connection's state whenever the next command is read, and the mailbox's name with it; ActiveCommands is exact; all commands are answered, a FETCH that loops if there is a Timeout |
| `registry` | `OrderLists`, `CountsWhatIsLeft`, `ResolveReturns`, `KeepsPromise` | map and order of the registry agree; Resolve keeps Kahn's invariant, ends, returns a correct order, and refuses only what has none |
| `extensions` | `TypeOK`, `OneResponse`, `OnceOrNotAtAll`, `AsAsked`, `RunsWhenAllowed`, `ConnAgrees`, `InStep`, `RequestEnds` | however extensions are stacked and whatever the session lacks or refuses: one answer, the operation once and as asked, nothing changed by a refused command, connection and session in agreement, the input read to the command's end but for the end of a line after a literal, and every handler ends but two |
| `search` | `SearchExact`, `SetExact` | the parser and the matcher together find the messages the keys mean; dates, lists and second sets only make the answer larger; a message set names its messages |
| `tracker_deadlock` | `NoLockCycle` | **violated**: `Select` (st.mu, then t.mu) against `QueueUpdate` (t.mu, then st.mu) |
| `server_panic` | `RecoveryRecovers` | **violated**: in the README's chain Recovery is outside Timeout, which runs the handler in another goroutine, and a panic there ends the process |

Where TLAPS proves a type invariant no run repeats it; MemStore's and that of
`Extensions` are checked by TLC, and `Search`, which handles one request and stops, has
none.

### Exceptions in the properties

Some properties of passing runs make an exception for a case in which the code
does not do what one would like. Each exception is as narrow as TLC lets it be:
without it the property is violated, and the trace is the case named here.

- `ViewConverges` (`quiet`): two producers may queue their updates in another
  order than they counted in, because the count and the queue are two critical
  sections (`tracker.go:60-69`); a session may register between them; and `Flush`
  loses expunges it may not send (`tracker.go:138`).
- `WaitsForSomething`, `EarlyCallsReturn` (`Stolen`): in the README's IDLE example
  `Wait` and `Done` receive from a channel that gets one result. If the server
  ends the IDLE, `Wait` takes it and a `Done` called then never returns.
- `TakesItsOwn` is checked with one caller. Continuations carry no tag and untagged
  data is kept in one list, so two callers may take each other's.
- `SessionsAreClosed` (`orphan`): Shutdown may close a connection before its
  goroutine sets `c.session`; that session is never closed.
- `LeavesWithClient`, `ShutdownDrains` except IDLE: the handler's goroutine that
  reads DONE reports an error to `doneCh` but does not close `stop`.
  `ShutdownDrains` is about the connections Shutdown found: one that was accepted
  before and registers later is served.
- `OnlySelectedHasMailbox` is one direction only: after a DELETE of the selected
  mailbox the connection is in the selected state without one.
- `OneNamePerMailbox` assumes that INBOX is written in capitals: RENAME deletes
  the name it was given from the map, and INBOX is found under any spelling.
- `AnsweredOnce`, `StateAgrees` except commands that timed out: their handlers go on
  (`timeout.go:22-29`), answer a second time and may change the state later; `StateAgrees`
  excepts only those of commands that change it. `AnsweredOnce` lets STARTTLS answer
  twice, OK and then NO if the handshake fails (`starttls.go:22-26`).
- `ActiveIsExact` is about chains in which the metrics are not outside Timeout
  (there they do not count a handler that was given up) and Recovery is not outside
  the metrics (a panic then skips `ActiveCommands.Add(-1)`, `metrics.go:103`).
- `EveryCommandAnswered` (`Steals`): after a timeout or a panic during IDLE its
  reading goroutine goes on and takes lines of later commands (`idle.go:26-41`), and
  so does an APPEND that timed out. A client that hangs up during IDLE leaves a
  handler whose `Session.Idle` nothing stops. A FETCH whose items have a partial before
  the end of a list loops for ever (`WaitsForLoop`): it is answered only if the chain has
  a Timeout, which then leaves the loop running.
- `EarlyCallsReturn` is about commands registered before `handleDisconnect` took the
  map. `execute` does not look whether that has happened: a command registered
  later, and written without an error, waits for ever (`client.go:203`), although
  the README promises that pending commands fail promptly.
- `CountIsExact` does not make `MaxConnections` a bound: `Serve` compares it with a
  count that `handleConn` raises later (`server.go:118` and `202`).
- `ExamineKeepsFlags` is about flags: `Session.Expunge` does not look at
  `selectedReadOnly`, so EXPUNGE and CLOSE remove messages after EXAMINE.
- `OneResponse`: a STORE with UNCHANGEDSINCE that CONDSTORE passes to a session
  without `StoreConditional` is not answered (`condstore/extension.go:216`); an ENABLE
  that the session refuses is answered twice (`uidonly/extension.go:147`); without
  arguments the handlers of ACL, QUOTA, METADATA, SORT and THREAD use a nil Decoder.
- `OnceOrNotAtAll`, `ConnAgrees`: UNAUTHENTICATE logs the session out before the state
  machine refuses to leave the selected state (`unauthenticate/extension.go:76`).
  `OnceOrNotAtAll` also excepts an APPEND (UTF8 ...) whose list is not closed, which is
  noticed after the append (`utf8accept/extension.go:244`).
- `AsAsked`: the STORE of SEARCHRES drops UNCHANGEDSINCE, every STORE drops
  `UNCHANGEDSINCE 0` and stores unconditionally (`condstore/extension.go:213`,
  `uidonly/extension.go:376`), and handlers of SEARCH other than SEARCHRES's drop SAVE. A
  UID command takes the saved sequence numbers of `$` for UIDs
  (`searchres/extension.go:250`).
- `RunsWhenAllowed`: the handlers of ACL, QUOTA, METADATA, REPLACE and ID do not ask for
  the state. UIDONLY holds if its wrapper is the outermost: most wrappers replace the
  handler they wrap, so one installed later undoes it.
- `InStep` allows one untagged BAD after a command that ends in a literal: no handler
  reads the end of the line there (`append.go:113-135`, `replace/extension.go:191-206`),
  and `parseLine` calls it an empty command. It is about commands answered OK, and about
  what MULTIAPPEND refuses for a session that cannot append several messages. Other
  refused APPENDs may leave their literal on the connection, and only MULTIAPPEND reads a
  second one.
- `RequestEnds` (`Endures`): a FETCH with a partial that something follows loops, under
  the built-in handler and under every wrapper (`fetch.go:256`,
  `condstore/extension.go:505`, `634`), and an APPEND with a CATENATE list that its line
  does not close waits for another line of the client (`catenate/extension.go:286`).
- `SearchExact` is exact for requests the parser reads as they are meant (`Understood`):
  no OR, list, date, age or `*`, NOT only before the last key, no two sets or sizes of a
  kind, no size of 0. In the others keys are skipped, or the last of a kind counts, which
  makes the answer larger as long as there is no NOT and no OR, and no YOUNGER or OLDER,
  whose number becomes a sequence set (`search.go:327`): matching messages are then
  missed.
- `SetExact`: sets with `*` are refused, because `ReadAtom` stops before it
  (`wire/decoder.go:370`).

### Bounds

- Tracker: `MaxCalls` bounds the calls of all producers. With three calls of two
  producers over two mailboxes two calls overlap and a third follows them, while a
  session selects, flushes and leaves. Sessions meet only in `t.mu`, which each
  holds for one step; one is enough for the lock order and the queue.
- Client: `MaxTags` bounds the commands. In `client_calls` a leftover of the first
  command meets the second, for every pair of kinds; in `client_race` two callers
  race with each other, the reader, Close, the background Wait and the disconnect.
- Lifecycle: two connections against a limit of one: one is served while the
  other is checked, and one leaves while the other is counted.
- Store: `MaxBoxes` mailboxes ever made and `MaxUid` UIDs per mailbox. Two
  sessions, two mailboxes and one message have all lock orders; two sessions and
  three UIDs in one mailbox have an expunge between two appends, and expunges of
  every set of positions of up to three messages.
- Connection: `MaxCommands` commands, `MaxInput` lines on the way, `MaxLate` handlers
  given up. Three commands take a connection through LOGIN, SELECT and a third command, or
  let a given-up handler meet two others. `EachProgram` has one command for each sequence
  of steps (FETCH, which does what they do and may loop, stands for the twelve that parse,
  call the session and answer as well) and one, AUTHENTICATE, that is known but has no
  handler; the chains have Recovery inside Timeout, with the metrics outside or between,
  or no Timeout; the theorems hold for all commands and chains.
- Registry: every graph of dependencies among three extensions, so that two get free at
  once, and there are chains, cycles of one to three, and missing ones.
- Extensions: groups of up to four (`Groups`), which put together extensions that share
  a command, in every order their dependencies allow, and the others by twos and threes.
  Two literals stand for several, one syntax element for its list.
- Search: `MaxKeys` keys, mailboxes of up to three messages with gaps in their UIDs, sets
  of up to two ranges: backwards, overlapping, to `*`, and beyond the last message. Three
  keys have a key, a NOT and what follows it.

Deadlock is checked in the runs of the store, the registry and the extensions. In the
others a system may stop: all connections ended, all commands issued (`MaxTags`, `MaxCommands`), all calls made
(`MaxCalls`), the one request of `search` handled, or, in the tracker, the lock cycle,
which `tracker_deadlock` reports.

Symmetry is used in `store_mail` only, over sessions, which the code treats alike.

### Fairness

Goroutines that can run do (weak fairness). Taking a mutex is strongly fair where
others may take it again and again: Go's mutexes hand the lock to a goroutine
that has waited for a millisecond, and a waiting writer stops new readers. No
caller has to call, no client has to send or to stay, except: the README's
application stops its IDLE (a timer), an APPEND's client sends its literal or
goes away, and in `client_calls` only the server answers, and a SASL exchange ends.
In `server_conn` calls of the session return, `Idle` only once it is stopped, and
the client sends DONE; no handler has to time out but one that loops, since the timer of
Timeout runs out. `Resolve` is a loop over
memory, which runs; in `extensions` a handler's steps are taken and calls of the session
return, while no client has to send anything, not even the rest of a list.

## Proofs

TLAPS proves these for every value of the constants, from the `ASSUME` of the
module and, where it says so, one more assumption.

| Theorem | States |
|---|---|
| `MailboxTrackerProofs!TypeCorrect` | `Spec => []TypeOK` |
| `MailboxTrackerProofs!PendingUpdatesAreCurrent` | `Spec => []NoStaleUpdates` |
| `MailboxTrackerProofs!WatchersAreSelectors` | `Spec => []RegisteredWhereSelected` |
| `MailboxTrackerProofs!ViewsConverge` | `Spec => []ViewConverges` |
| `ClientConnProofs!TypeCorrect` | `Spec => []TypeOK` |
| `ClientConnProofs!AnsweredOnce` | `Spec => []OneResult` |
| `ClientConnProofs!NobodyWaitsInVain` | `Spec => []WaitsForSomething` |
| `ClientConnProofs!OwnAnswersTaken` | one caller: `Spec => []TakesItsOwn` |
| `ServerLifecycleProofs!TypeCorrect` | `Spec => []TypeOK` |
| `ServerLifecycleProofs!SessionClosedOnce` | `Spec => []ClosedOnce` |
| `ServerLifecycleProofs!CountExact` | `Spec => []CountIsExact` |
| `ServerLifecycleProofs!SessionsClosed` | `Spec => []SessionsAreClosed` |
| `ServerConnProofs!AnswersOnce` | `Spec => []AnsweredOnce` |
| `ServerConnProofs!ActiveExact` | `Spec => []ActiveIsExact` |
| `ServerConnProofs!TypeCorrect` | `Spec => []TypeOK` |
| `ServerConnProofs!StatesAgree` | `Spec => []StateAgrees` |
| `MemStoreProofs!CopiesDoNotDeadlock` | `Spec => []NoLockCycle` |
| `MemStoreProofs!SelectionAgrees` | `Spec => []OnlySelectedHasMailbox` |
| `MemStoreProofs!NamesAreUnique` | no name `inbox`: `Spec => []OneNamePerMailbox` |
| `MemStoreProofs!StoreTypes` | `Spec => []TypeOK` |
| `MemStoreProofs!UidsStayInOrder` | `Spec => []UidsAscend` |
| `MemStoreProofs!UidsAreNotReused` | `Spec => UidsNameOneMessage` |
| `MemStoreProofs!ExamineChangesNothing` | `Spec => ExamineKeepsFlags` |
| `MemStoreProofs!ExpungesReplay` | `Spec => []ExpungeReplays` |
| `RegistryProofs!TypeCorrect` | `Spec => []TypeOK` |
| `RegistryProofs!OrderCorrect` | `Spec => []OrderLists` |
| `RegistryProofs!CountsCorrect` | `Spec => []CountsWhatIsLeft` |
| `RegistryProofs!ResultCorrect` | `Spec => []ResolvedInOrder` |
| `RegistryProofs!Refinement` | `Spec => KeepsPromise`, that is `LoadOrder!Spec` |

The arguments:

- **Tracker.** A producer ranges over a subset of the sessions registered when it
  took `t.mu`, and nobody registers or leaves while it is held. `Locking` says
  so: a ranging producer is in `readers` of its mailbox, its `todo` is a subset
  of the mailbox's sessions, and `stMu` is set exactly in `Leave`'s state. With
  `RegisteredWhereSelected` an update is appended only to a session whose mailbox
  it is about, and `Leave` empties the queue as the mailbox changes. `ViewConverges` is
  about a mailbox no call is at; `ViewInv` says what holds during a call (`Told`): there
  is one at most, and the mailbox's count is what the session has been told, with the
  call's update on top as long as the call has still to queue it (`Owes`). What a client
  makes of a queue (`ApplyAll`) is a loop, and `Append` and `Flush` add and take rounds.
- **Client.** A command's result is sent by whoever takes it out of the map. The
  invariant says that a tag not issued yet is nowhere (`Fresh`), that a command
  in `pending` or in `drain`, which are disjoint, has got nothing and others one
  result at most (`Owned`), and that tags in use have been issued (`Named`).
  `StepShape` sorts the steps into those that move results and those that do
  not. `Calls` adds that a waiting call's command is still owed a result, has it
  in its channel, or is the one whose result the background Wait took.
  `TakesItsOwn` needs the whole conversation: `Exchange` says of a call what may be on
  the wire in both directions, in `continuationCh` and in `untaggedData`, and where the
  server is, depending on each other. While the server has said nothing, the command is
  all there is; a continuation request, on its way or taken, means that the server waits
  for this call and that nothing else is under way; after the answer, nothing is. A
  cancelled AUTHENTICATE may leave its `*` and the next command in the server's buffer
  (`Cancelled`), which is harmless because the server answers `*` with a tagged line.
  `Known` says that the tags under way have been handed out, so a new call's is not
  among them. With two callers it is false, and TLC shows it in a few steps.
- **Lifecycle.** `connCount` is the cardinality of the connections between
  `Count` and `Uncount`; every step adds one connection, removes one or changes
  none. `InHand` says that a connection Serve holds has not started yet.
  `CloseInv` counts session closes under `closed`. `SessionInv` says that an
  ended connection is closed, and that a closed one with a session has had it
  closed once or is an orphan; `ClosingStep` covers the three places that close.
- **Connection.** `AnswerInv` says that a command is on the wire at most once
  (`Lines`), that one not read yet has left no trace (`Fresh`), that a handler that
  runs is the one waited for or was given up (`Waits`), and what has been answered
  at each point of a handler and after it (`Story`). `OkIsLast` is the fact about the
  handlers that it rests on: all but STARTTLS's answer in their last step and only
  there, so that an early return finds no answer and dispatch gives the one.
  `HandlerSteps` sorts a handler's steps into those that go on, stop with an
  error, end, or answer. For ActiveCommands every step adds a running handler,
  removes one or changes none (`ActiveSteps`); that Dispatch adds one needs
  `Fresh`. The types add that no handler runs past its steps (`InProgram`), and that
  ActiveCommands is at least what the middleware, in whichever goroutine it runs, has
  still to count down (`Enough`), so that it never goes below zero. For `StatesAgree`,
  `ChangesInOrder` is the fact about the handlers: one that changes the state does so in
  its last step but one, after the mailbox's name, and all that can fail comes before.
  `Midway` says how far state, name and the client's view are at each of these steps.
- **Store.** `Held` says which locks a COPY holds at each step; since the first
  lock's address is lower than the second's, a cycle would need a < b < a.
  `Logged` says that only logged-in connections are past the first state.
  `Registered` adds to `OneNamePerMailbox` that a mailbox number not yet used is
  under no name. Messages: `MailShape` sorts all steps into expunges, changes of flags,
  appends and steps that leave messages alone. `StoreInv` is the types, in three parts,
  and `UidsAscend`, which is inductive with them: an append numbers from UIDNext on, and
  what `Collected` keeps of a list is a subsequence of it. The two action properties
  follow from that invariant. `ExpungeReplays` is a fact about every mailbox and every set
  of UIDs: after k of the reported numbers the replayed list is what was left of the
  mailbox up to the k-th expunged message, with the rest of the mailbox unchanged.
- **Registry.** The inductive invariant is `TypeOK`, `OrderLists`, `CountsWhatIsLeft`,
  `Sorting` (while Resolve runs nothing registered is missing, and what is sorted so far
  lists extensions once, each after its dependencies) and `Returned` (the same for a
  result). A turn of the loop lowers the counter of exactly those that depend on the
  extension taken, by one, which is the cardinality of what is left without it; those
  that reach zero join the queue. For the refinement a turn is `Load`, and the end with
  fewer extensions than there are is `Refuse`: with an empty queue every extension left
  has a dependency that is left, which is what `Impossible` asks for.

Loops (`Collected`, `Replayed`, `ApplyAll`) are recursive functions of their round, with
the property to prove given as a set of rounds: `SequenceFacts` proves induction over such
a set from the well-foundedness of `<`, and that a loop has a value after each round
(`LoopHasRounds`).

What only TLC checks: all liveness (fairness and ENABLED are beyond the prover); all of
`Extensions`, whose handlers are sequences built case by case; and `Search`, whose parser
and matcher are RECURSIVE operators, which the prover does not take.

## What the models leave out

Parsing and formatting of lines and arguments, but for number sets and search keys;
logging; TLS, of which only STARTTLS's outcome at the server is modelled; the announcing
of capabilities; message contents. A write to a client never blocks. In `ServerConn`
literals come with their line (LITERAL+), and there are no middlewares but Timeout,
Recovery and Metrics, of which only `ActiveCommands` is kept. In `ClientConn` a command
line is written in one step, although `wire.Encoder` is not locked. In `MemStore` a
connection ends between commands, message sets are arbitrary sets of positions, flag
lists name no flag twice, and UIDVALIDITY, which is always 1, does not appear. In
`Extensions` one request runs at a time, without middlewares, and untagged responses
do not appear.

Not modelled:

- the client pool, RateLimit, SASL mechanisms: planned, see below;
- seventeen extensions without handlers: they announce a capability;
- `server/writers.go`, `wire/encoder.go`, plain types: formatting and data;
- modified UTF-7 and the tokenizer: pure conversions of characters, which tests cover
  better than a small alphabet would.

Hazards we know of that no module reaches yet:

- two callers of a client write through one encoder, in two calls (`client/client.go:196`);
- the client's APPEND waits for a continuation request, and the server's handler waits
  for the literal and sends none (`client/mailbox.go:645`, `server/commands/append.go:113`);
- StartTLS hands the socket over while the old reader still reads (`client/starttls.go:25`);
- a pooled client may have been disconnected while it was idle, and `Get` dials under
  `p.mu` (`client/pool/pool.go:39`);
- a second Shutdown closes a closed channel (`server/server.go:157`), and Shutdown writes
  BYE under `srv.mu` to clients that may not read (`server/server.go:168`);
- FETCH and STORE write under the mailbox lock (`memserver/session.go:405`);
- Shutdown closes a session between a handler's check and its use
  (`memserver/session.go:552`);
- UIDVALIDITY is 1 for every mailbox, so that after DELETE and CREATE a UID names another
  message (`memserver/mailbox.go:45`);
- a literal cut off by a disconnect is appended as far as it came
  (`server/commands/append.go:113`).

## Plan

1. **ClientServer**: `ClientConn` and `ServerConn` over one connection instead of
   the external client and server: APPEND's two sides waiting for each other,
   STARTTLS, agreement of the client's state with the server's. Abstract
   specification: every command is answered once, in order; refinement by INSTANCE.
2. **Pool** and **RateLimit**: their bounds under concurrency.
3. **ServerConn**: AUTHENTICATE with its SASL exchange; the literal reader.
4. **MemStore**: UIDVALIDITY, STATUS, LIST, subscriptions, a session closed during a
   handler.
5. **Proofs**: `OneResponse` of `Extensions` along the lines of ServerConn's `OkIsLast`;
   `SetExact` with the number sets as recursive functions.
