--------------------------- MODULE MailboxTracker ---------------------------
(***************************************************************************)
(* The update tracker of the server package (server/tracker.go).           *)
(*                                                                         *)
(* A MailboxTracker t counts the messages of one mailbox and knows the     *)
(* sessions that watch it, under the RWMutex t.mu.  A SessionTracker st    *)
(* knows the mailbox its session has selected and the updates that wait    *)
(* for it, under the Mutex st.mu.  Producers call QueueExpunge,            *)
(* QueueNewMessage and QueueFlagsUpdate; each session's own goroutine      *)
(* calls Select, Unselect and Flush.                                       *)
(*                                                                         *)
(* A critical section that takes no second lock is one step.  Two are not: *)
(* QueueUpdate takes st.mu while it holds t.mu for reading, and Select and *)
(* Unselect take t.mu for writing while they hold st.mu.  So the model     *)
(* keeps who holds t.mu for reading and whether st.mu is held, and the     *)
(* write lock of t.mu is only ever held inside a step.                     *)
(***************************************************************************)
EXTENDS Naturals, Sequences

CONSTANTS
    Mailboxes,      \* the MailboxTrackers
    Sessions,       \* the SessionTrackers, each driven by one goroutine
    Producers,      \* goroutines that report changes
    NoMailbox,      \* Go's nil *MailboxTracker
    AllowExpunge,   \* the values of Flush's allowExpunge argument
    MaxCalls        \* bound: calls the producers make altogether

ASSUME TrackerAssumption ==
    /\ NoMailbox \notin Mailboxes
    /\ AllowExpunge \subseteq BOOLEAN
    /\ MaxCalls \in Nat

VARIABLES
    numMessages,    \* t.numMessages
    sessions,       \* t.sessions
    readers,        \* producers that hold t.mu for reading
    stMu,           \* whether st.mu is held by the session's goroutine
    mailbox,        \* st.mailbox
    updates,        \* st.updates
    session,        \* control state of each session's goroutine
    producer,       \* control state of each producer
    calls,          \* calls producers have made
    view,           \* ghost: the message count the session's client knows
    quiet           \* ghost: since the session registered, and then, no two calls
                    \* that count its mailbox overlapped and no expunge was dropped

vars == <<numMessages, sessions, readers, stMu, mailbox, updates, session,
          producer, calls, view, quiet>>

\* An update names its mailbox, which the code does not record: a ghost field.
Update == [type : {"EXISTS", "EXPUNGE", "FETCH"}, of : Mailboxes, num : Nat]

Exists_CountBefore(m, n) == [type |-> "EXISTS", of |-> m, num |-> n - 1]

Exists(m, n) == [type |-> "EXISTS", of |-> m, num |-> n]
Expunge(m)   == [type |-> "EXPUNGE", of |-> m, num |-> 0]
Fetch(m)     == [type |-> "FETCH", of |-> m, num |-> 0]

MaybeMailbox == Mailboxes \cup {NoMailbox}

\* A session is idle, inside Select or Unselect with st.mu held, or after the
\* unlock and before addSession.
SessionState ==
    [pc : {"idle", "locked", "adding"}, arg : MaybeMailbox]

\* A producer is idle, between the count's critical section and QueueUpdate, or
\* ranging over the sessions it has not told yet.
ProducerState ==
    [pc : {"idle"}]
        \cup [pc : {"queue", "range"}, upd : Update, todo : SUBSET Sessions]

Idle == [pc |-> "idle"]

\* The guarded decrement of QueueExpunge.
Dec(n) == IF n > 0 THEN n - 1 ELSE n

\* What a client makes of an untagged response, given the count it knows.
Apply(u, n) ==
    CASE u.type = "EXISTS"  -> u.num
      [] u.type = "EXPUNGE" -> Dec(n)
      [] u.type = "FETCH"   -> n

ApplyAll(us, n) ==
    LET after[i \in 0..Len(us)] == IF i = 0 THEN n ELSE Apply(us[i], after[i - 1])
    IN after[Len(us)]

Init ==
    /\ numMessages = [m \in Mailboxes |-> 0]
    /\ sessions = [m \in Mailboxes |-> {}]
    /\ readers = [m \in Mailboxes |-> {}]
    /\ stMu = [s \in Sessions |-> FALSE]
    /\ mailbox = [s \in Sessions |-> NoMailbox]
    /\ updates = [s \in Sessions |-> <<>>]
    /\ session = [s \in Sessions |-> [pc |-> "idle", arg |-> NoMailbox]]
    /\ producer = [p \in Producers |-> Idle]
    /\ calls = 0
    /\ view = [s \in Sessions |-> 0]
    /\ quiet = [s \in Sessions |-> FALSE]

-----------------------------------------------------------------------------
(* Producers *)

CanLock_Ignored(m) == TRUE

\* t.mu.Lock succeeds.  Writers hold it only inside a step.
CanLock(m) == readers[m] = {}

StartCall(p) ==
    /\ producer[p].pc = "idle"
    /\ calls < MaxCalls
    /\ calls' = calls + 1

\* The producers inside QueueExpunge or QueueNewMessage on mailbox m.
CallsAbout(m) ==
    {p \in Producers : /\ producer[p].pc # "idle"
                       /\ producer[p].upd.of = m
                       /\ producer[p].upd.type # "FETCH"}

\* A counting call on m begins: if it overlaps another, m's sessions may end up
\* with an old count.
Overlap(m) ==
    quiet' = [s \in Sessions |->
                quiet[s] /\ (mailbox[s] = m => CallsAbout(m) = {})]

Busy(pc, u, todo) == [pc |-> pc, upd |-> u, todo |-> todo]

\* QueueUpdate is about to run with update u.
ToQueue(p, u) == producer' = [producer EXCEPT ![p] = Busy("queue", u, {})]

QueueExpunge(p, m) ==
    /\ StartCall(p)
    /\ CanLock(m)
    /\ numMessages' = [numMessages EXCEPT ![m] = Dec(@)]
    /\ ToQueue(p, Expunge(m))
    /\ Overlap(m)
    /\ UNCHANGED <<sessions, readers, stMu, mailbox, updates, session, view>>

QueueNewMessage(p, m) ==
    /\ StartCall(p)
    /\ CanLock(m)
    /\ numMessages' = [numMessages EXCEPT ![m] = @ + 1]
    /\ ToQueue(p, Exists(m, numMessages[m] + 1))
    /\ Overlap(m)
    /\ UNCHANGED <<sessions, readers, stMu, mailbox, updates, session, view>>

QueueFlagsUpdate(p, m) ==
    /\ StartCall(p)
    /\ ToQueue(p, Fetch(m))
    /\ UNCHANGED <<numMessages, sessions, readers, stMu, mailbox, updates,
                   session, view, quiet>>

\* QueueUpdate: t.mu.RLock.
RLock(p) ==
    /\ producer[p].pc = "queue"
    /\ LET m == producer[p].upd.of
       IN /\ readers' = [readers EXCEPT ![m] = @ \cup {p}]
          /\ producer' = [producer EXCEPT ![p] =
                             Busy("range", producer[p].upd, sessions[m])]
    /\ UNCHANGED <<numMessages, sessions, stMu, mailbox, updates, session,
                   calls, view, quiet>>

\* One iteration of QueueUpdate's range: st.queueUpdate(update).
queueUpdate(p, s) ==
    /\ producer[p].pc = "range"
    /\ s \in producer[p].todo
    /\ ~stMu[s]
    /\ updates' = [updates EXCEPT ![s] = Append(@, producer[p].upd)]
    /\ producer' = [producer EXCEPT ![p] =
                       Busy("range", producer[p].upd, producer[p].todo \ {s})]
    /\ UNCHANGED <<numMessages, sessions, readers, stMu, mailbox, session,
                   calls, view, quiet>>

RUnlock_StaysLocked(p) ==
    /\ producer[p].pc = "range"
    /\ producer[p].todo = {}
    /\ producer' = [producer EXCEPT ![p] = Idle]
    /\ UNCHANGED <<numMessages, sessions, readers, stMu, mailbox, updates,
                   session, calls, view, quiet>>

\* QueueUpdate: the deferred t.mu.RUnlock.
RUnlock(p) ==
    /\ producer[p].pc = "range"
    /\ producer[p].todo = {}
    /\ readers' = [readers EXCEPT ![producer[p].upd.of] = @ \ {p}]
    /\ producer' = [producer EXCEPT ![p] = Idle]
    /\ UNCHANGED <<numMessages, sessions, stMu, mailbox, updates, session,
                   calls, view, quiet>>

-----------------------------------------------------------------------------
(* Sessions *)

\* Select(mbox): st.mu.Lock.
Select(s, m) ==
    /\ session[s].pc = "idle"
    /\ ~stMu[s]
    /\ stMu' = [stMu EXCEPT ![s] = TRUE]
    /\ session' = [session EXCEPT ![s] = [pc |-> "locked", arg |-> m]]
    /\ UNCHANGED <<numMessages, sessions, readers, mailbox, updates, producer,
                   calls, view, quiet>>

\* Unselect(): st.mu.Lock.
Unselect(s) == Select(s, NoMailbox)

removeSession_Forgotten(s) == sessions

removeSession(s) ==
    [m \in Mailboxes |->
        IF m = mailbox[s] THEN sessions[m] \ {s} ELSE sessions[m]]

\* The rest of the critical section of Select and Unselect: removeSession,
\* which needs t.mu for writing, then the assignments and st.mu.Unlock.
Leave(s) ==
    /\ session[s].pc = "locked"
    /\ mailbox[s] # NoMailbox => CanLock(mailbox[s])
    /\ sessions' = removeSession(s)
    /\ mailbox' = [mailbox EXCEPT ![s] = session[s].arg]
    /\ updates' = [updates EXCEPT ![s] = <<>>]
    /\ stMu' = [stMu EXCEPT ![s] = FALSE]
    /\ session' = [session EXCEPT ![s] =
                      [pc  |-> IF session[s].arg = NoMailbox THEN "idle"
                               ELSE "adding",
                       arg |-> session[s].arg]]
    /\ UNCHANGED <<numMessages, readers, producer, calls, view, quiet>>

\* Select's mbox.addSession(st), after st.mu.Unlock.  The count that the
\* session's client is told for the newly selected mailbox is the one of this
\* moment.
addSession(s) ==
    /\ session[s].pc = "adding"
    /\ CanLock(session[s].arg)
    /\ sessions' = [sessions EXCEPT ![session[s].arg] = @ \cup {s}]
    /\ view' = [view EXCEPT ![s] = numMessages[session[s].arg]]
    /\ quiet' = [quiet EXCEPT ![s] = CallsAbout(session[s].arg) = {}]
    /\ session' = [session EXCEPT ![s] = [pc |-> "idle", arg |-> NoMailbox]]
    /\ UNCHANGED <<numMessages, readers, stMu, mailbox, updates, producer, calls>>

\* Flush(w, allowExpunge): the updates it takes reach the client, except that
\* the expunges among them are dropped when allowExpunge is false.
Flushed(s, allow) ==
    IF allow THEN updates[s]
    ELSE SelectSeq(updates[s], LAMBDA u : u.type # "EXPUNGE")

Flush(s, allow) ==
    /\ session[s].pc = "idle"
    /\ ~stMu[s]
    /\ updates' = [updates EXCEPT ![s] = <<>>]
    /\ view' = [view EXCEPT ![s] = ApplyAll(Flushed(s, allow), @)]
    /\ quiet' = [quiet EXCEPT ![s] = @ /\ Flushed(s, allow) = updates[s]]
    /\ UNCHANGED <<numMessages, sessions, readers, stMu, mailbox, session,
                   producer, calls>>

-----------------------------------------------------------------------------
ProducerCall(p) ==
    \E m \in Mailboxes : \/ QueueExpunge(p, m)
                         \/ QueueNewMessage(p, m)
                         \/ QueueFlagsUpdate(p, m)

Next ==
    \/ \E p \in Producers : \/ ProducerCall(p)
                            \/ RLock(p)
                            \/ RUnlock(p)
                            \/ \E s \in Sessions : queueUpdate(p, s)
    \/ \E s \in Sessions : \/ \E m \in MaybeMailbox : Select(s, m)
                           \/ Unselect(s)
                           \/ Leave(s)
                           \/ addSession(s)
                           \/ \E allow \in AllowExpunge : Flush(s, allow)

Spec == Init /\ [][Next]_vars

\* A goroutine inside a call keeps running, and Go's mutexes starve neither a
\* waiting writer nor a waiting locker.  Nothing obliges a caller to call.
Fairness ==
    /\ \A p \in Producers :
          SF_vars(RLock(p) \/ RUnlock(p) \/ \E s \in Sessions : queueUpdate(p, s))
    /\ \A s \in Sessions : SF_vars(Leave(s) \/ addSession(s))

FairSpec == Spec /\ Fairness

-----------------------------------------------------------------------------
(* Properties *)

\* The variables other than the ghosts keep the types the structs of tracker.go
\* declare: a message count in particular never falls below zero.
TypeOK ==
    /\ numMessages \in [Mailboxes -> Nat]
    /\ sessions \in [Mailboxes -> SUBSET Sessions]
    /\ readers \in [Mailboxes -> SUBSET Producers]
    /\ stMu \in [Sessions -> BOOLEAN]
    /\ mailbox \in [Sessions -> MaybeMailbox]
    /\ updates \in [Sessions -> Seq(Update)]
    /\ session \in [Sessions -> SessionState]
    /\ producer \in [Producers -> ProducerState]
    /\ calls \in Nat

\* Select and Unselect clear st.updates under the lock under which they leave
\* the old mailbox, so that no update of a mailbox reaches a session that has
\* since selected another one, however producers and sessions interleave.
NoStaleUpdates ==
    \A s \in Sessions : \A i \in DOMAIN updates[s] :
        updates[s][i].of = mailbox[s]

\* A mailbox tells exactly the sessions that have it selected: a session is
\* registered with the mailbox in st.mailbox and with no other, except between
\* Select's unlock and its addSession, when it is registered nowhere.
RegisteredWhereSelected ==
    \A s \in Sessions : \A m \in Mailboxes :
        s \in sessions[m] <=> m = mailbox[s] /\ session[s].pc # "adding"

\* Once the calls about its mailbox have returned, the updates a session has
\* been sent and those that wait in st.updates bring its client to the
\* mailbox's message count.  It takes three things, which quiet records: the
\* session did not register between the two critical sections of QueueExpunge
\* or QueueNewMessage (it would count that change twice or not at all), no two
\* of these calls overlapped (they may queue in another order than they counted
\* in), and no Flush dropped an expunge.
ViewConverges ==
    \A s \in Sessions : \A m \in Mailboxes :
        /\ s \in sessions[m]
        /\ session[s].pc = "idle"
        /\ quiet[s]
        /\ CallsAbout(m) = {}
        => ApplyAll(updates[s], view[s]) = numMessages[m]

\* A producer ranges over a mailbox that session s waits to leave, and waits
\* for the st.mu that s holds.
LockCycle ==
    \E s \in Sessions, p \in Producers :
        /\ session[s].pc = "locked"
        /\ producer[p].pc = "range"
        /\ producer[p].upd.of = mailbox[s]
        /\ s \in producer[p].todo

\* The two lock orders, t.mu then st.mu in QueueUpdate and st.mu then t.mu in
\* Select and Unselect, never meet.
NoLockCycle == ~LockCycle

\* The meeting of the two lock orders is all that can hang the tracker: where
\* it does not happen every call of a producer and every Select and Unselect
\* returns.
CallsReturn ==
    []NoLockCycle =>
        /\ \A p \in Producers : producer[p].pc # "idle" ~> producer[p].pc = "idle"
        /\ \A s \in Sessions : session[s].pc # "idle" ~> session[s].pc = "idle"
=============================================================================
