------------------------ MODULE MailboxTrackerProofs ------------------------
(***************************************************************************)
(* For every set of mailboxes, sessions and producers, and however many    *)
(* calls they make: a session's pending updates come from the mailbox it   *)
(* has selected, a mailbox tells exactly the sessions that selected it,    *)
(* and the updates bring its client to the mailbox's count.                *)
(***************************************************************************)
EXTENDS MailboxTracker, SequenceFacts, TLAPS

USE DEF Busy

\* NoStaleUpdates is not inductive alone.  A producer appends to the sessions
\* it found registered when it took t.mu for reading; that they are still
\* registered when it reaches them needs the lock to keep Leave out, and that
\* its update is theirs needs registered sessions to have the mailbox selected.
Locking ==
    /\ \A s \in Sessions : stMu[s] <=> session[s].pc = "locked"
    /\ \A s \in Sessions : session[s].pc = "adding" =>
           session[s].arg \in Mailboxes /\ mailbox[s] = session[s].arg
    /\ \A p \in Producers : producer[p].pc = "range" =>
           /\ p \in readers[producer[p].upd.of]
           /\ producer[p].todo \subseteq sessions[producer[p].upd.of]

IInv == TypeOK /\ Locking /\ RegisteredWhereSelected /\ NoStaleUpdates

\* Nothing is registered, queued or pending when the tracker is made.
LEMMA InitIInv == Init => IInv
  BY TrackerAssumption
  DEF Init, IInv, TypeOK, Locking, RegisteredWhereSelected, NoStaleUpdates,
      MaybeMailbox, SessionState, ProducerState, Idle

\* The state of a producer inside a call.
LEMMA BusyProducer ==
  ASSUME TypeOK, NEW p \in Producers, producer[p].pc # "idle"
  PROVE  /\ producer[p].pc \in {"queue", "range"}
         /\ producer[p].upd \in Update
         /\ producer[p].upd.of \in Mailboxes
         /\ producer[p].todo \in SUBSET Sessions
         /\ producer[p] \in [pc : {"queue", "range"}, upd : Update,
                             todo : SUBSET Sessions]
  BY DEF TypeOK, ProducerState, Update

\* A call starts: nothing changes but the count and the producer, who now
\* carries an update.
LEMMA StartCallStep ==
  ASSUME IInv, NEW p \in Producers, NEW u \in Update,
         StartCall(p), ToQueue(p, u),
         numMessages' \in [Mailboxes -> Nat],
         UNCHANGED <<sessions, readers, stMu, mailbox, updates, session>>
  PROVE  IInv'
  <1>1. TypeOK'
    BY DEF IInv, TypeOK, StartCall, ToQueue, ProducerState
  <1>2. Locking'
    BY DEF IInv, TypeOK, Locking, ToQueue
  <1>3. RegisteredWhereSelected' /\ NoStaleUpdates'
    BY DEF IInv, RegisteredWhereSelected, NoStaleUpdates
  <1> QED BY <1>1, <1>2, <1>3 DEF IInv

\* QueueExpunge, QueueNewMessage and QueueFlagsUpdate up to their Unlock.
LEMMA ProducerCallStep ==
  ASSUME IInv, NEW p \in Producers, ProducerCall(p)
  PROVE  IInv'
  <1> PICK m \in Mailboxes : \/ QueueExpunge(p, m)
                             \/ QueueNewMessage(p, m)
                             \/ QueueFlagsUpdate(p, m)
    BY DEF ProducerCall
  <1> numMessages[m] \in Nat /\ numMessages \in [Mailboxes -> Nat]
    BY DEF IInv, TypeOK
  <1>1. CASE QueueExpunge(p, m)
    <2>1. Expunge(m) \in Update
      BY DEF Expunge, Update
    <2>2. numMessages' \in [Mailboxes -> Nat]
      BY <1>1 DEF QueueExpunge, Dec
    <2> QED BY <1>1, <2>1, <2>2, StartCallStep DEF QueueExpunge
  <1>2. CASE QueueNewMessage(p, m)
    <2>1. Exists(m, numMessages[m] + 1) \in Update
      BY DEF Exists, Update
    <2>2. numMessages' \in [Mailboxes -> Nat]
      BY <1>2 DEF QueueNewMessage
    <2> QED BY <1>2, <2>1, <2>2, StartCallStep DEF QueueNewMessage
  <1>3. CASE QueueFlagsUpdate(p, m)
    <2>1. Fetch(m) \in Update
      BY DEF Fetch, Update
    <2> QED BY <1>3, <2>1, StartCallStep DEF QueueFlagsUpdate
  <1> QED BY <1>1, <1>2, <1>3

\* queueUpdate's RLock: the sessions it will tell are those registered now.
LEMMA RLockStep ==
  ASSUME IInv, NEW p \in Producers, RLock(p)
  PROVE  IInv'
  <1> DEFINE m == producer[p].upd.of
  <1>1. m \in Mailboxes /\ producer[p].upd \in Update
    BY BusyProducer DEF IInv, RLock
  <1>2. producer' = [producer EXCEPT ![p] =
                       [pc |-> "range", upd |-> producer[p].upd,
                        todo |-> sessions[m]]]
    BY BusyProducer DEF IInv, RLock
  <1>3. TypeOK'
    BY <1>1, <1>2 DEF IInv, TypeOK, RLock, ProducerState
  <1>4. Locking'
    BY <1>1, <1>2, BusyProducer DEF IInv, TypeOK, Locking, RLock
  <1>5. RegisteredWhereSelected' /\ NoStaleUpdates'
    BY DEF IInv, RegisteredWhereSelected, NoStaleUpdates, RLock
  <1> QED BY <1>3, <1>4, <1>5 DEF IInv

\* The heart of the argument: the session told of an update is registered with
\* the update's mailbox, hence has it selected.
LEMMA QueueUpdateStep ==
  ASSUME IInv, NEW p \in Producers, NEW s \in Sessions, queueUpdate(p, s)
  PROVE  IInv'
  <1> DEFINE u == producer[p].upd
  <1>1. u \in Update /\ u.of \in Mailboxes /\ producer[p].todo \subseteq Sessions
    BY BusyProducer DEF IInv, queueUpdate
  <1>2. producer' = [producer EXCEPT ![p] =
                       [pc |-> "range", upd |-> u,
                        todo |-> producer[p].todo \ {s}]]
    BY BusyProducer DEF IInv, queueUpdate
  <1>3. mailbox[s] = u.of
    BY <1>1 DEF IInv, queueUpdate, Locking, RegisteredWhereSelected
  <1>4. updates' = [updates EXCEPT ![s] = Append(updates[s], u)]
    BY DEF queueUpdate
  <1>5. TypeOK'
    BY <1>1, <1>2, <1>4 DEF IInv, TypeOK, queueUpdate, ProducerState
  <1>6. Locking'
    BY <1>1, <1>2 DEF IInv, TypeOK, Locking, queueUpdate
  <1>7. RegisteredWhereSelected'
    BY DEF IInv, RegisteredWhereSelected, queueUpdate
  <1>8. NoStaleUpdates'
    BY <1>1, <1>3, <1>4 DEF IInv, TypeOK, NoStaleUpdates, queueUpdate
  <1> QED BY <1>5, <1>6, <1>7, <1>8 DEF IInv

\* The call returns.
LEMMA RUnlockStep ==
  ASSUME IInv, NEW p \in Producers, RUnlock(p)
  PROVE  IInv'
  <1>1. producer[p].upd.of \in Mailboxes
    BY BusyProducer DEF IInv, RUnlock
  <1>2. TypeOK'
    BY <1>1 DEF IInv, TypeOK, RUnlock, ProducerState, Idle
  <1>3. Locking'
    BY <1>1, BusyProducer DEF IInv, TypeOK, Locking, RUnlock, Idle
  <1>4. RegisteredWhereSelected' /\ NoStaleUpdates'
    BY DEF IInv, RegisteredWhereSelected, NoStaleUpdates, RUnlock
  <1> QED BY <1>2, <1>3, <1>4 DEF IInv

\* Select and Unselect take st.mu, and nothing else.
LEMMA SelectStep ==
  ASSUME IInv, NEW s \in Sessions, NEW m \in MaybeMailbox, Select(s, m)
  PROVE  IInv'
  <1>1. TypeOK'
    BY DEF IInv, TypeOK, Select, SessionState
  <1>2. Locking'
    BY DEF IInv, TypeOK, Locking, Select
  <1>3. RegisteredWhereSelected' /\ NoStaleUpdates'
    BY DEF IInv, TypeOK, RegisteredWhereSelected, NoStaleUpdates, Select
  <1> QED BY <1>1, <1>2, <1>3 DEF IInv

\* No producer ranges over the mailbox that is left, since t.mu is free.
LEMMA LeaveStep ==
  ASSUME IInv, NEW s \in Sessions, Leave(s)
  PROVE  IInv'
  <1> USE TrackerAssumption
  <1>1. session[s].arg \in MaybeMailbox /\ mailbox[s] \in MaybeMailbox
    BY DEF IInv, TypeOK, SessionState
  <1>2. session' = [session EXCEPT ![s] =
                      [pc |-> IF session[s].arg = NoMailbox THEN "idle"
                              ELSE "adding",
                       arg |-> session[s].arg]]
    BY DEF IInv, TypeOK, SessionState, Leave
  <1>3. TypeOK'
    BY <1>1, <1>2
    DEF IInv, TypeOK, Leave, SessionState, removeSession, MaybeMailbox
  <1>4. Locking'
    <2>1. \A t \in Sessions : stMu'[t] <=> session'[t].pc = "locked"
      BY <1>2 DEF IInv, TypeOK, Locking, Leave
    <2>2. \A t \in Sessions : session'[t].pc = "adding" =>
             session'[t].arg \in Mailboxes /\ mailbox'[t] = session'[t].arg
      BY <1>1, <1>2 DEF IInv, TypeOK, Locking, Leave, MaybeMailbox
    <2>3. ASSUME NEW p \in Producers, producer[p].pc = "range"
          PROVE  /\ p \in readers[producer[p].upd.of]
                 /\ producer[p].todo \subseteq sessions'[producer[p].upd.of]
      <3>1. p \in readers[producer[p].upd.of] /\ producer[p].upd.of \in Mailboxes
        BY <2>3, BusyProducer DEF IInv, Locking
      <3>2. producer[p].upd.of # mailbox[s]
        BY <3>1 DEF Leave, CanLock
      <3> QED BY <2>3, <3>1, <3>2 DEF IInv, Locking, Leave, removeSession
    <2> QED BY <2>1, <2>2, <2>3 DEF Locking, Leave
  <1>5. RegisteredWhereSelected'
    BY <1>1, <1>2
    DEF IInv, TypeOK, RegisteredWhereSelected, Leave, removeSession, MaybeMailbox
  <1>6. NoStaleUpdates'
    BY DEF IInv, TypeOK, NoStaleUpdates, Leave
  <1> QED BY <1>3, <1>4, <1>5, <1>6 DEF IInv

\* addSession registers a session with the mailbox it has selected.
LEMMA AddSessionStep ==
  ASSUME IInv, NEW s \in Sessions, addSession(s)
  PROVE  IInv'
  <1>1. session[s].arg \in Mailboxes /\ mailbox[s] = session[s].arg
    BY DEF IInv, Locking, addSession
  <1>2. TypeOK'
    BY <1>1 DEF IInv, TypeOK, addSession, SessionState, MaybeMailbox
  <1>3. Locking'
    BY <1>1 DEF IInv, TypeOK, Locking, addSession
  <1>4. RegisteredWhereSelected'
    BY <1>1 DEF IInv, TypeOK, RegisteredWhereSelected, addSession
  <1>5. NoStaleUpdates'
    BY DEF IInv, NoStaleUpdates, addSession
  <1> QED BY <1>2, <1>3, <1>4, <1>5 DEF IInv

\* Flush empties st.updates.
LEMMA FlushStep ==
  ASSUME IInv, NEW s \in Sessions, NEW allow \in AllowExpunge, Flush(s, allow)
  PROVE  IInv'
  <1>1. TypeOK'
    BY DEF IInv, TypeOK, Flush
  <1>2. Locking' /\ RegisteredWhereSelected'
    BY DEF IInv, Locking, RegisteredWhereSelected, Flush
  <1>3. NoStaleUpdates'
    BY DEF IInv, TypeOK, NoStaleUpdates, Flush
  <1> QED BY <1>1, <1>2, <1>3 DEF IInv

\* Every step keeps the invariant.
LEMMA NextIInv == IInv /\ [Next]_vars => IInv'
  <1> SUFFICES ASSUME IInv, [Next]_vars
               PROVE  IInv'
    OBVIOUS
  <1>1. ASSUME NEW p \in Producers,
               \/ ProducerCall(p)
               \/ RLock(p)
               \/ RUnlock(p)
               \/ \E s \in Sessions : queueUpdate(p, s)
        PROVE  IInv'
    BY <1>1, ProducerCallStep, RLockStep, RUnlockStep, QueueUpdateStep
  <1>2. ASSUME NEW s \in Sessions,
               \/ \E m \in MaybeMailbox : Select(s, m)
               \/ Unselect(s)
               \/ Leave(s)
               \/ addSession(s)
               \/ \E allow \in AllowExpunge : Flush(s, allow)
        PROVE  IInv'
    <2>1. Unselect(s) => IInv'
      BY SelectStep DEF Unselect, MaybeMailbox
    <2> QED BY <1>2, <2>1, SelectStep, LeaveStep, AddSessionStep, FlushStep
  <1>3. CASE UNCHANGED vars
    BY <1>3
    DEF vars, IInv, TypeOK, Locking, RegisteredWhereSelected, NoStaleUpdates
  <1> QED BY <1>1, <1>2, <1>3 DEF Next

\* The invariant holds in every reachable state.
LEMMA Invariance == Spec => []IInv
  BY InitIInv, NextIInv, PTL DEF Spec

\* tracker.go's variables keep their declared types.
THEOREM TypeCorrect == Spec => []TypeOK
  <1>1. IInv => TypeOK
    BY DEF IInv
  <1> QED BY <1>1, Invariance, PTL

\* Whatever producers do while a session moves between mailboxes, the updates
\* that wait for it are those of the mailbox it has selected.
THEOREM PendingUpdatesAreCurrent == Spec => []NoStaleUpdates
  <1>1. IInv => NoStaleUpdates
    BY DEF IInv
  <1> QED BY <1>1, Invariance, PTL

\* A mailbox tells exactly the sessions that have it selected.
THEOREM WatchersAreSelectors == Spec => []RegisteredWhereSelected
  <1>1. IInv => RegisteredWhereSelected
    BY DEF IInv
  <1> QED BY <1>1, Invariance, PTL

-----------------------------------------------------------------------------
(* What the updates bring a client to *)

\* The rounds of the loop that ApplyAll stands for.
AppliedUpTo(after, us, v) ==
    /\ after[0] = v
    /\ \A i \in 1..Len(us) : after[i] = Apply(us[i], after[i - 1])

\* The loop has a value after every round, and ApplyAll is the last one.
LEMMA ApplyAllRounds ==
    ASSUME NEW us, NEW v, Len(us) \in Nat
    PROVE  \E after : AppliedUpTo(after, us, v) /\ ApplyAll(us, v) = after[Len(us)]
<1> DEFINE L == Len(us)
           Loop(k, g) ==
              /\ DOMAIN g = 0..k
              /\ g[0] = v
              /\ \A i \in 1..k : g[i] = Apply(us[i], g[i - 1])
           G == {k \in 0..L : \E g : Loop(k, g)}
<1> HIDE DEF L
<1>0. L \in Nat
  BY DEF L
<1>1. 0 \in G
  <2>1. Loop(0, [i \in 0..0 |-> v])
    OBVIOUS
  <2> HIDE DEF Loop
  <2> QED
    BY <1>0, <2>1
<1>2. \A k \in 0..(L - 1) : k \in G => k + 1 \in G
  <2> SUFFICES ASSUME NEW k \in 0..(L - 1), NEW g, Loop(k, g)
               PROVE  k + 1 \in G
    BY Zenon
  <2> DEFINE h == [i \in 0..(k + 1) |-> IF i = k + 1 THEN Apply(us[k + 1], g[k]) ELSE g[i]]
  <2>k. k \in Nat /\ k + 1 \in 0..L
    BY <1>0
  <2>1. h[0] = v
    BY <2>k
  <2>2. ASSUME NEW i \in 1..(k + 1)
        PROVE  h[i] = Apply(us[i], h[i - 1])
    <3>1. h[i - 1] = g[i - 1] /\ i - 1 \in 0..k
      BY <2>k
    <3>2. CASE i = k + 1
      <4>1. h[i] = Apply(us[k + 1], g[k]) /\ i - 1 = k
        BY <2>k, <3>2
      <4> HIDE DEF h
      <4> QED
        BY Zenon, <3>1, <3>2, <4>1
    <3>3. CASE i # k + 1
      <4>1. h[i] = g[i] /\ i \in 1..k
        BY <2>k, <3>3
      <4> HIDE DEF h
      <4> QED
        BY Zenon, <3>1, <4>1
    <3> QED
      BY <3>2, <3>3
  <2>3. DOMAIN h = 0..(k + 1)
    OBVIOUS
  <2> HIDE DEF h
  <2>4. Loop(k + 1, h)
    BY Zenon, <2>1, <2>2, <2>3
  <2> HIDE DEF Loop
  <2> QED
    BY Zenon, <2>k, <2>4
<1>3. \A k \in 0..L : k \in G
  <2> HIDE DEF G
  <2> QED BY <1>0, <1>1, <1>2, SetInduction
<1>l. L \in 0..L
  BY <1>0
<1>4. PICK g : Loop(L, g)
  BY Zenon, <1>3, <1>l
<1> DEFINE F(f) == [i \in 0..L |-> IF i = 0 THEN v ELSE Apply(us[i], f[i - 1])]
           f0 == [i \in 0..L |-> g[i]]
           after == CHOOSE f : f = F(f)
<1>5. f0 = F(f0)
  <2>1. ASSUME NEW i \in 0..L PROVE f0[i] = F(f0)[i]
    <3>1. CASE i = 0
      BY <1>0, <1>4, <3>1
    <3>2. CASE i # 0
      <4>1. i \in 1..L /\ i - 1 \in 0..L
        BY <1>0, <3>2
      <4>2. f0[i] = g[i] /\ f0[i - 1] = g[i - 1]
        BY <4>1
      <4>3. F(f0)[i] = Apply(us[i], f0[i - 1])
        BY Zenon, <3>2
      <4> HIDE DEF f0, F
      <4> QED
        BY Zenon, <1>4, <4>1, <4>2, <4>3
    <3> QED
      BY <3>1, <3>2
  <2>2. f0 = [i \in 0..L |-> f0[i]] /\ F(f0) = [i \in 0..L |-> F(f0)[i]]
    OBVIOUS
  <2> HIDE DEF f0, F
  <2> QED
    BY Zenon, <2>1, <2>2
<1>6. after = F(after)
  <2> HIDE DEF F, f0
  <2> QED BY Zenon, <1>5
<1>7. ApplyAll(us, v) = after[L]
  BY Zenon DEF ApplyAll, L
<1> HIDE DEF after
<1>8. \A i \in 0..L : after[i] = IF i = 0 THEN v ELSE Apply(us[i], after[i - 1])
  BY Zenon, <1>6
<1>9. after[0] = v /\ \A i \in 1..L : after[i] = Apply(us[i], after[i - 1])
  <2>1. 0 \in 0..L /\ \A i \in 1..L : i \in 0..L /\ i # 0
    BY <1>0
  <2> QED
    BY Zenon, <1>8, <2>1
<1> QED
  BY Zenon, <1>7, <1>9 DEF AppliedUpTo, L

\* No update leaves a client with the count it knows.
LEMMA ApplyNone ==
    ASSUME NEW v
    PROVE  ApplyAll(<<>>, v) = v
<1>1. Len(<<>>) = 0 /\ Len(<<>>) \in Nat
  OBVIOUS
<1>2. PICK after : AppliedUpTo(after, <<>>, v) /\ ApplyAll(<<>>, v) = after[Len(<<>>)]
  BY Zenon, <1>1, ApplyAllRounds
<1> QED
  BY Zenon, <1>1, <1>2 DEF AppliedUpTo

\* One more update is applied after the others.
LEMMA ApplyOneMore ==
    ASSUME NEW us \in Seq(Update), NEW u \in Update, NEW v
    PROVE  ApplyAll(Append(us, u), v) = Apply(u, ApplyAll(us, v))
<1> DEFINE L == Len(us)
           ws == Append(us, u)
<1>1. /\ L \in Nat /\ Len(ws) = L + 1 /\ Len(ws) \in Nat
      /\ ws[L + 1] = u /\ \A i \in 1..L : ws[i] = us[i]
  OBVIOUS
<1>2. PICK f : AppliedUpTo(f, us, v) /\ ApplyAll(us, v) = f[L]
  BY Zenon, <1>1, ApplyAllRounds
<1> HIDE DEF ws, L
<1>3. PICK g : AppliedUpTo(g, ws, v) /\ ApplyAll(ws, v) = g[L + 1]
  BY Zenon, <1>1, ApplyAllRounds
<1>f. f[0] = v /\ \A i \in 1..L : f[i] = Apply(us[i], f[i - 1])
  BY Zenon, <1>2 DEF AppliedUpTo, L
<1>g. g[0] = v /\ \A i \in 1..(L + 1) : g[i] = Apply(ws[i], g[i - 1])
  BY Zenon, <1>1, <1>3 DEF AppliedUpTo
<1> DEFINE G == {i \in 0..L : g[i] = f[i]}
<1>4. 0 \in G
  BY <1>1, <1>f, <1>g
<1>5. \A i \in 0..(L - 1) : i \in G => i + 1 \in G
  <2> SUFFICES ASSUME NEW i \in 0..(L - 1), g[i] = f[i]
               PROVE  i + 1 \in G
    BY Zenon
  <2>1. /\ i + 1 \in 1..L /\ i + 1 \in 0..L /\ i + 1 \in 1..(L + 1) /\ (i + 1) - 1 = i
    BY <1>1
  <2>2. g[i + 1] = f[i + 1]
    BY Zenon, <1>1, <1>f, <1>g, <2>1
  <2> QED
    BY Zenon, <2>1, <2>2
<1>6. \A i \in 0..L : i \in G
  <2> HIDE DEF G
  <2> QED BY Zenon, <1>1, <1>4, <1>5, SetInduction
<1>7. L \in 0..L /\ L + 1 \in 1..(L + 1) /\ (L + 1) - 1 = L
  BY <1>1
<1>8. g[L + 1] = Apply(u, f[L])
  BY Zenon, <1>1, <1>g, <1>6, <1>7
<1> QED
  BY Zenon, <1>2, <1>3, <1>8 DEF ws

-----------------------------------------------------------------------------
(* The client's count follows the mailbox's *)

\* The call of p has an update for s that is not in st.updates yet.
Owes(p, s) == producer[p].pc = "queue" \/ s \in producer[p].todo

\* What s has been told of m, while at most one call counts in m: all, but for the
\* update of that call before it reaches s.
Told(s, m) ==
    LET known == ApplyAll(updates[s], view[s])
    IN /\ \A p, q \in CallsAbout(m) : p = q
       /\ \A p \in CallsAbout(m) :
             numMessages[m] = IF Owes(p, s) THEN Apply(producer[p].upd, known) ELSE known
       /\ CallsAbout(m) = {} => numMessages[m] = known

\* ViewConverges is not inductive: it needs to hold during a call, too, and of a
\* session that has not registered yet, that it starts without updates.
ViewInv ==
    /\ \A s \in Sessions : session[s].pc = "adding" => updates[s] = <<>>
    /\ \A s \in Sessions : \A m \in Mailboxes :
          s \in sessions[m] /\ quiet[s] => Told(s, m)

\* The two history variables are functions of the sessions.
Ghosts == view = [s \in Sessions |-> view[s]] /\ quiet \in [Sessions -> BOOLEAN]

\* A step that leaves alone what Told depends on.
LEMMA ToldStays ==
    ASSUME NEW s, NEW m, Told(s, m),
           updates'[s] = updates[s], view'[s] = view[s], numMessages'[m] = numMessages[m],
           CallsAbout(m)' = CallsAbout(m),
           \A p \in CallsAbout(m) : /\ producer'[p].upd = producer[p].upd
                                    /\ Owes(p, s)' <=> Owes(p, s)
    PROVE  Told(s, m)'
<1> DEFINE known == ApplyAll(updates[s], view[s])
<1>1. known' = known
  BY Zenon
<1> HIDE DEF known
<1>2. \A p \in CallsAbout(m) :
          numMessages'[m] = IF Owes(p, s)' THEN Apply(producer'[p].upd, known') ELSE known'
  BY Zenon, <1>1 DEF Told, known
<1>3. /\ \A p, q \in CallsAbout(m) : p = q
      /\ CallsAbout(m) = {} => numMessages'[m] = known'
  BY Zenon, <1>1 DEF Told, known
<1> QED
  BY Zenon, <1>2, <1>3 DEF Told, known

\* A step that leaves the producers alone leaves the calls alone.
LEMMA SameCalls ==
    ASSUME producer' = producer
    PROVE  /\ \A m : CallsAbout(m)' = CallsAbout(m)
           /\ \A p, s : producer'[p].upd = producer[p].upd /\ (Owes(p, s)' <=> Owes(p, s))
BY Zenon DEF CallsAbout, Owes

\* The session that is registered with a mailbox has it selected.
LEMMA RegisteredHere ==
    ASSUME IInv, NEW s \in Sessions, NEW m \in Mailboxes, s \in sessions[m]
    PROVE  mailbox[s] = m /\ session[s].pc # "adding"
BY Zenon DEF IInv, RegisteredWhereSelected

\* A call that counts in m0 begins.
LEMMA CountStep ==
    ASSUME IInv, ViewInv, NEW p \in Producers, NEW m0 \in Mailboxes, NEW u \in Update,
           StartCall(p), ToQueue(p, u), Overlap(m0), u.of = m0, u.type # "FETCH",
           numMessages' = [numMessages EXCEPT ![m0] = Apply(u, @)],
           UNCHANGED <<sessions, readers, stMu, mailbox, updates, session, view>>
    PROVE  ViewInv'
<1>1. /\ producer[p].pc = "idle" /\ p \notin CallsAbout(m0)
      /\ \A q \in Producers : q # p => producer'[q] = producer[q]
      /\ producer'[p].pc = "queue" /\ producer'[p].upd = u
  BY DEF IInv, TypeOK, StartCall, ToQueue, CallsAbout
<1>2. CallsAbout(m0)' = CallsAbout(m0) \cup {p}
  BY <1>1 DEF CallsAbout
<1>3. \A m \in Mailboxes : m # m0 => /\ CallsAbout(m)' = CallsAbout(m)
                                     /\ numMessages'[m] = numMessages[m]
  BY Zenon, <1>1 DEF CallsAbout, IInv, TypeOK
<1>4. numMessages'[m0] = Apply(u, numMessages[m0])
  BY DEF IInv, TypeOK
<1>5. ASSUME NEW s \in Sessions, NEW m \in Mailboxes, s \in sessions[m], quiet'[s]
      PROVE  Told(s, m)'
  <2>1. mailbox[s] = m /\ Told(s, m) /\ (m = m0 => CallsAbout(m) = {})
    BY Zenon, <1>5, RegisteredHere DEF ViewInv, Overlap
  <2>2. CASE m = m0
    <3>1. CallsAbout(m)' = {p} /\ Owes(p, s)'
      BY <1>1, <1>2, <2>1, <2>2 DEF Owes
    <3>2. numMessages[m] = ApplyAll(updates[s], view[s])
      BY Zenon, <2>1, <2>2 DEF Told
    <3>3. numMessages'[m] = Apply(producer'[p].upd, ApplyAll(updates'[s], view'[s]))
      BY Zenon, <1>1, <1>4, <2>2, <3>2
    <3>4. {p} # {}
      OBVIOUS
    <3> QED
      BY Zenon, <3>1, <3>3, <3>4 DEF Told
  <2>3. CASE m # m0
    <3>1. \A q \in CallsAbout(m) : q \in Producers /\ q # p
      BY <1>1 DEF CallsAbout
    <3>2. \A q \in CallsAbout(m) : /\ producer'[q].upd = producer[q].upd
                                   /\ Owes(q, s)' <=> Owes(q, s)
      BY Zenon, <1>1, <3>1 DEF Owes
    <3> QED
      BY Zenon, <1>3, <2>1, <2>3, <3>2, ToldStays
  <2> QED
    BY <2>2, <2>3
<1> QED
  BY Zenon, <1>5 DEF ViewInv

\* A call that counts nothing begins.
LEMMA FlagsStep ==
    ASSUME IInv, ViewInv, NEW p \in Producers, NEW m0 \in Mailboxes, QueueFlagsUpdate(p, m0)
    PROVE  ViewInv'
<1>1. /\ producer[p].pc = "idle"
      /\ \A q \in Producers : q # p => producer'[q] = producer[q]
      /\ producer'[p].upd.type = "FETCH"
  BY DEF IInv, TypeOK, QueueFlagsUpdate, StartCall, ToQueue, Fetch
<1>2. UNCHANGED <<numMessages, sessions, updates, session, view, quiet>>
  BY DEF QueueFlagsUpdate
<1>3. ASSUME NEW s \in Sessions, NEW m \in Mailboxes, Told(s, m)
      PROVE  Told(s, m)'
  <2>1. CallsAbout(m)' = CallsAbout(m)
    BY <1>1 DEF CallsAbout
  <2>2. \A q \in CallsAbout(m) : q \in Producers /\ q # p
    BY <1>1 DEF CallsAbout
  <2>3. \A q \in CallsAbout(m) : /\ producer'[q].upd = producer[q].upd
                                 /\ Owes(q, s)' <=> Owes(q, s)
    BY Zenon, <1>1, <2>2 DEF Owes
  <2> QED
    BY Zenon, <1>2, <1>3, <2>1, <2>3, ToldStays
<1> QED
  BY Zenon, <1>2, <1>3 DEF ViewInv

\* A producer takes t.mu for reading, and will tell every session that is registered.
LEMMA RLockTold ==
    ASSUME IInv, ViewInv, NEW p \in Producers, RLock(p)
    PROVE  ViewInv'
<1> DEFINE m0 == producer[p].upd.of
<1>1. /\ producer[p].pc = "queue"
      /\ \A q \in Producers : q # p => producer'[q] = producer[q]
      /\ producer'[p].upd = producer[p].upd /\ producer'[p].pc = "range"
      /\ producer'[p].todo = sessions[m0]
  BY DEF IInv, TypeOK, RLock
<1>2. UNCHANGED <<numMessages, sessions, updates, session, view, quiet>>
  BY DEF RLock
<1>3. ASSUME NEW s \in Sessions, NEW m \in Mailboxes, s \in sessions[m], Told(s, m)
      PROVE  Told(s, m)'
  <2>1. CallsAbout(m)' = CallsAbout(m) /\ CallsAbout(m) \subseteq Producers
    BY <1>1 DEF CallsAbout
  <2>2. ASSUME NEW q \in CallsAbout(m)
        PROVE  producer'[q].upd = producer[q].upd /\ (Owes(q, s)' <=> Owes(q, s))
    <3>1. CASE q = p
      <4>1. m0 = m
        BY <3>1 DEF CallsAbout
      <4>2. Owes(p, s) /\ Owes(p, s)'
        BY Zenon, <1>1, <1>3, <4>1 DEF Owes
      <4> QED
        BY Zenon, <1>1, <3>1, <4>2
    <3>2. CASE q # p
      BY Zenon, <1>1, <2>1, <3>2 DEF Owes
    <3> QED
      BY <3>1, <3>2
  <2> QED
    BY Zenon, <1>2, <1>3, <2>1, <2>2, ToldStays
<1> QED
  BY Zenon, <1>2, <1>3 DEF ViewInv

\* A session is told: what was owed has arrived.
LEMMA QueueTold ==
    ASSUME IInv, ViewInv, NEW p \in Producers, NEW s0 \in Sessions, queueUpdate(p, s0)
    PROVE  ViewInv'
<1> DEFINE u == producer[p].upd
<1>1. /\ producer[p].pc = "range" /\ s0 \in producer[p].todo
      /\ \A q \in Producers : q # p => producer'[q] = producer[q]
      /\ producer'[p].upd = u /\ producer'[p].pc = "range"
      /\ producer'[p].todo = producer[p].todo \ {s0}
  BY DEF IInv, TypeOK, queueUpdate
<1>2. UNCHANGED <<numMessages, sessions, session, view, quiet>>
  BY DEF queueUpdate
<1>3. u \in Update /\ u.of \in Mailboxes /\ s0 \in sessions[u.of]
  BY <1>1, BusyProducer DEF IInv, Locking
<1>4. /\ \A s \in Sessions : s # s0 => updates'[s] = updates[s]
      /\ updates'[s0] = Append(updates[s0], u) /\ updates[s0] \in Seq(Update)
  BY DEF IInv, TypeOK, queueUpdate
<1>5. \A m : CallsAbout(m)' = CallsAbout(m) /\ CallsAbout(m) \subseteq Producers
  BY <1>1 DEF CallsAbout
<1>6. ASSUME NEW s \in Sessions, NEW m \in Mailboxes, s \in sessions[m], Told(s, m)
      PROVE  Told(s, m)'
  <2>1. CASE s # s0
    <3>1. ASSUME NEW q \in CallsAbout(m)
          PROVE  producer'[q].upd = producer[q].upd /\ (Owes(q, s)' <=> Owes(q, s))
      <4>1. CASE q = p
        BY <1>1, <2>1, <4>1 DEF Owes
      <4>2. CASE q # p
        BY Zenon, <1>1, <1>5, <4>2 DEF Owes
      <4> QED
        BY <4>1, <4>2
    <3> QED
      BY Zenon, <1>2, <1>4, <1>5, <1>6, <2>1, <3>1, ToldStays
  <2>2. CASE s = s0
    <3> DEFINE known == ApplyAll(updates[s], view[s])
               now == ApplyAll(updates'[s], view'[s])
    <3>1. now = Apply(u, known)
      BY ZenonT(30), <1>2, <1>3, <1>4, <2>2, ApplyOneMore
    <3>2. u.of = m
      BY Zenon, <1>3, <1>6, <2>2, RegisteredHere
    <3> HIDE DEF known, now
    <3>3. CASE u.type = "FETCH"
      <4>1. now = known
        BY <3>1, <3>3 DEF Apply
      <4>2. \A q \in CallsAbout(m) : q # p
        BY <3>3 DEF CallsAbout
      <4>3. \A q \in CallsAbout(m) : producer'[q] = producer[q]
        BY Zenon, <1>1, <1>5, <4>2
      <4>4. \A q \in CallsAbout(m) :
               numMessages'[m] = IF Owes(q, s)' THEN Apply(producer'[q].upd, now) ELSE now
        BY Zenon, <1>2, <1>6, <4>1, <4>3 DEF Told, Owes, known
      <4>5. /\ \A q, r \in CallsAbout(m) : q = r
            /\ CallsAbout(m) = {} => numMessages'[m] = now
        BY Zenon, <1>2, <1>6, <4>1 DEF Told, known
      <4> QED
        BY Zenon, <1>5, <4>4, <4>5 DEF Told, now
    <3>4. CASE u.type # "FETCH"
      <4>1. p \in CallsAbout(m)
        BY <1>1, <3>2, <3>4 DEF CallsAbout
      <4>2. Owes(p, s) /\ ~Owes(p, s)'
        BY <1>1, <2>2 DEF Owes
      <4>3. numMessages'[m] = now
        BY Zenon, <1>2, <1>6, <3>1, <4>1, <4>2 DEF Told, known
      <4>4. \A q, r \in CallsAbout(m) : q = r
        BY Zenon, <1>6 DEF Told
      <4>5. \A q \in CallsAbout(m) : ~Owes(q, s)'
        BY Zenon, <4>1, <4>2, <4>4
      <4>6. \A q \in CallsAbout(m) :
               numMessages'[m] = IF Owes(q, s)' THEN Apply(producer'[q].upd, now) ELSE now
        BY Zenon, <4>3, <4>5
      <4> QED
        BY Zenon, <1>5, <4>3, <4>4, <4>6 DEF Told, now
    <3> QED
      BY <3>3, <3>4
  <2> QED
    BY <2>1, <2>2
<1>7. ASSUME NEW s \in Sessions, session[s].pc = "adding"
      PROVE  updates'[s] = <<>>
  <2>1. s # s0
    BY Zenon, <1>3, <1>7, RegisteredHere
  <2> QED
    BY Zenon, <1>4, <1>7, <2>1 DEF ViewInv
<1> QED
  BY Zenon, <1>2, <1>6, <1>7 DEF ViewInv

\* A call returns that owes nobody anything.
LEMMA RUnlockTold ==
    ASSUME IInv, ViewInv, NEW p \in Producers, RUnlock(p)
    PROVE  ViewInv'
<1>1. /\ producer[p].pc = "range" /\ producer[p].todo = {}
      /\ \A q \in Producers : q # p => producer'[q] = producer[q]
      /\ producer'[p].pc = "idle"
  BY DEF IInv, TypeOK, RUnlock, Idle
<1>2. UNCHANGED <<numMessages, sessions, updates, session, view, quiet>>
  BY DEF RUnlock
<1>3. \A m : CallsAbout(m)' = CallsAbout(m) \ {p}
  BY <1>1 DEF CallsAbout
<1>4. \A m : \A q \in CallsAbout(m) : q \in Producers
  BY DEF CallsAbout
<1>5. ASSUME NEW s \in Sessions, NEW m \in Mailboxes, Told(s, m)
      PROVE  Told(s, m)'
  <2>1. CASE p \in CallsAbout(m)
    <3>1. ~Owes(p, s)
      BY <1>1 DEF Owes
    <3>2. numMessages[m] = ApplyAll(updates[s], view[s])
      BY Zenon, <1>5, <2>1, <3>1 DEF Told
    <3>3. \A q \in CallsAbout(m) : q = p
      BY Zenon, <1>5, <2>1 DEF Told
    <3>4. CallsAbout(m)' = {}
      BY <1>3, <3>3
    <3> QED
      BY Zenon, <1>2, <3>2, <3>4 DEF Told
  <2>2. CASE p \notin CallsAbout(m)
    <3>1. CallsAbout(m)' = CallsAbout(m)
      BY <1>3, <2>2
    <3>2. \A q \in CallsAbout(m) : /\ producer'[q].upd = producer[q].upd
                                   /\ Owes(q, s)' <=> Owes(q, s)
      BY Zenon, <1>1, <1>4, <2>2 DEF Owes
    <3> QED
      BY Zenon, <1>2, <1>5, <3>1, <3>2, ToldStays
  <2> QED
    BY <2>1, <2>2
<1> QED
  BY Zenon, <1>2, <1>5 DEF ViewInv

\* Select taking st.mu changes neither what a session was told nor where it is
\* registered.
LEMMA SelectTold ==
    ASSUME IInv, ViewInv, NEW s0 \in Sessions, NEW m0, Select(s0, m0)
    PROVE  ViewInv'
<1>1. UNCHANGED <<numMessages, sessions, updates, producer, view, quiet>>
  BY Zenon DEF Select
<1>2. \A s \in Sessions : session'[s].pc = "adding" => session[s].pc = "adding"
  BY DEF Select, IInv, TypeOK
<1>3. ASSUME NEW s \in Sessions, NEW m \in Mailboxes, Told(s, m)
      PROVE  Told(s, m)'
  BY Zenon, <1>1, <1>3, SameCalls, ToldStays
<1> QED
  BY Zenon, <1>1, <1>2, <1>3 DEF ViewInv

\* A session that leaves its mailbox is registered nowhere and has no updates.
LEMMA LeaveTold ==
    ASSUME IInv, ViewInv, NEW s0 \in Sessions, Leave(s0)
    PROVE  ViewInv'
<1>1. UNCHANGED <<numMessages, producer, view, quiet>>
  BY Zenon DEF Leave
<1>2. /\ \A s \in Sessions : s # s0 => updates'[s] = updates[s] /\ session'[s] = session[s]
      /\ updates'[s0] = <<>>
  BY Zenon DEF Leave, IInv, TypeOK
<1>3. \A s \in Sessions, m \in Mailboxes : s \in sessions'[m] => s \in sessions[m] /\ s # s0
  BY DEF Leave, removeSession, IInv, RegisteredWhereSelected
<1>4. ASSUME NEW s \in Sessions, NEW m \in Mailboxes, s # s0, Told(s, m)
      PROVE  Told(s, m)'
  BY Zenon, <1>1, <1>2, <1>4, SameCalls, ToldStays
<1> QED
  BY Zenon, <1>1, <1>2, <1>3, <1>4 DEF ViewInv

\* A session that registers is told the count of that moment.
LEMMA AddTold ==
    ASSUME IInv, ViewInv, Ghosts, NEW s0 \in Sessions, addSession(s0)
    PROVE  ViewInv'
<1> PICK m0 \in Mailboxes : m0 = session[s0].arg
  BY Zenon DEF IInv, Locking, addSession
<1>1. UNCHANGED <<numMessages, producer, updates>>
  BY Zenon DEF addSession
<1>2. updates[s0] = <<>> /\ session[s0].pc = "adding"
  BY Zenon DEF IInv, Locking, addSession, ViewInv
<1>3. /\ \A s \in Sessions : s # s0 => /\ session'[s] = session[s] /\ view'[s] = view[s]
                                       /\ quiet'[s] = quiet[s]
      /\ session'[s0].pc = "idle" /\ view'[s0] = numMessages[m0]
      /\ quiet'[s0] = (CallsAbout(m0) = {})
  BY DEF addSession, IInv, TypeOK, Ghosts
<1>4. \A s \in Sessions, m \in Mailboxes :
          s \in sessions'[m] => IF s = s0 THEN m = m0 ELSE s \in sessions[m]
  <2>1. \A m \in Mailboxes : s0 \notin sessions[m]
    BY Zenon, <1>2, RegisteredHere
  <2>2. sessions' = [sessions EXCEPT ![m0] = @ \cup {s0}]
    BY Zenon DEF addSession
  <2> QED
    BY <1>2, <2>1, <2>2 DEF IInv, TypeOK
<1>5. \A m : CallsAbout(m)' = CallsAbout(m)
  BY Zenon, <1>1, SameCalls
<1>6. quiet'[s0] => Told(s0, m0)'
  <2>1. ApplyAll(updates'[s0], view'[s0]) = numMessages'[m0]
    BY Zenon, <1>1, <1>2, <1>3, ApplyNone
  <2> QED
    BY Zenon, <1>3, <1>5, <2>1 DEF Told
<1>7. ASSUME NEW s \in Sessions, NEW m \in Mailboxes, s # s0, Told(s, m)
      PROVE  Told(s, m)'
  BY Zenon, <1>1, <1>3, <1>7, SameCalls, ToldStays
<1>8. ASSUME NEW s \in Sessions, NEW m \in Mailboxes, s \in sessions'[m], quiet'[s]
      PROVE  Told(s, m)'
  <2>1. CASE s = s0
    BY Zenon, <1>4, <1>6, <1>8, <2>1
  <2>2. CASE s # s0
    <3>1. s \in sessions[m] /\ quiet[s]
      BY Zenon, <1>3, <1>4, <1>8, <2>2
    <3> QED
      BY Zenon, <1>7, <2>2, <3>1 DEF ViewInv
  <2> QED
    BY Zenon, <2>1, <2>2
<1>9. "idle" # "adding"
  OBVIOUS
<1> QED
  BY Zenon, <1>1, <1>3, <1>8, <1>9 DEF ViewInv

\* A client that is sent all its updates knows what they brought it to.
LEMMA FlushTold ==
    ASSUME IInv, ViewInv, Ghosts, NEW s0 \in Sessions, NEW allow, Flush(s0, allow)
    PROVE  ViewInv'
<1>1. UNCHANGED <<numMessages, producer, sessions, session>>
  BY Zenon DEF Flush
<1>2. /\ \A s \in Sessions : s # s0 => /\ updates'[s] = updates[s] /\ view'[s] = view[s]
                                       /\ quiet'[s] = quiet[s]
      /\ updates'[s0] = <<>> /\ view'[s0] = ApplyAll(Flushed(s0, allow), view[s0])
      /\ quiet'[s0] = (quiet[s0] /\ Flushed(s0, allow) = updates[s0])
  BY Zenon DEF Flush, IInv, TypeOK, Ghosts
<1>3. ASSUME NEW m \in Mailboxes, Told(s0, m), quiet'[s0]
      PROVE  Told(s0, m)'
  <2>1. ApplyAll(updates'[s0], view'[s0]) = ApplyAll(updates[s0], view[s0])
    BY Zenon, <1>2, <1>3, ApplyNone
  <2> QED
    BY Zenon, <1>1, <1>3, <2>1, SameCalls DEF Told
<1>4. ASSUME NEW s \in Sessions, NEW m \in Mailboxes, s # s0, Told(s, m)
      PROVE  Told(s, m)'
  BY Zenon, <1>1, <1>2, <1>4, SameCalls, ToldStays
<1> QED
  BY Zenon, <1>1, <1>2, <1>3, <1>4 DEF ViewInv

\* The ghosts are functions of the sessions.
LEMMA GhostsStep ==
    Ghosts /\ [Next]_vars => Ghosts'
<1> SUFFICES ASSUME Ghosts, [Next]_vars PROVE Ghosts'
  OBVIOUS
<1> USE DEF Ghosts
<1>1. ASSUME NEW p \in Producers,
             \/ ProducerCall(p) \/ RLock(p) \/ RUnlock(p)
             \/ \E s \in Sessions : queueUpdate(p, s)
      PROVE  Ghosts'
  <2>1. view' = view
    BY Zenon, <1>1 DEF ProducerCall, QueueExpunge, QueueNewMessage, QueueFlagsUpdate, RLock,
                       RUnlock, queueUpdate
  <2>2. quiet' = quiet \/ \E m \in Mailboxes : Overlap(m)
    BY Zenon, <1>1 DEF ProducerCall, QueueExpunge, QueueNewMessage, QueueFlagsUpdate, RLock,
                       RUnlock, queueUpdate
  <2>3. quiet' \in [Sessions -> BOOLEAN]
    BY Zenon, <2>2 DEF Overlap
  <2> QED
    BY <2>1, <2>3
<1>2. ASSUME NEW s \in Sessions,
             \/ \E m \in MaybeMailbox : Select(s, m)
             \/ Unselect(s) \/ Leave(s) \/ addSession(s)
             \/ \E allow \in AllowExpunge : Flush(s, allow)
      PROVE  Ghosts'
  <2>1. view' = view \/ \E v : view' = [view EXCEPT ![s] = v]
    BY Zenon, <1>2 DEF Select, Unselect, Leave, addSession, Flush
  <2>2. quiet' = quiet \/ \E b \in BOOLEAN : quiet' = [quiet EXCEPT ![s] = b]
    <3>1. CASE \/ \E m \in MaybeMailbox : Select(s, m)
               \/ Unselect(s) \/ Leave(s)
      BY Zenon, <3>1 DEF Select, Unselect, Leave
    <3>2. CASE addSession(s)
      BY Zenon, <3>2 DEF addSession
    <3>3. ASSUME NEW allow \in AllowExpunge, Flush(s, allow)
          PROVE  \E b \in BOOLEAN : quiet' = [quiet EXCEPT ![s] = b]
      BY Zenon, <3>3 DEF Flush
    <3> QED
      BY Zenon, <1>2, <3>1, <3>2, <3>3
  <2>3. view' = [t \in Sessions |-> view'[t]]
    BY <2>1
  <2>4. quiet' \in [Sessions -> BOOLEAN]
    BY <2>2
  <2> QED
    BY <2>3, <2>4
<1>3. CASE UNCHANGED vars
  BY <1>3 DEF vars
<1> QED
  BY Zenon, <1>1, <1>2, <1>3 DEF Next

\* Every step keeps what the clients know in step with the counts.
LEMMA ViewInvStep ==
    IInv /\ Ghosts /\ ViewInv /\ [Next]_vars => ViewInv'
<1> SUFFICES ASSUME IInv, Ghosts, ViewInv, [Next]_vars PROVE ViewInv'
  OBVIOUS
<1>1. ASSUME NEW p \in Producers, NEW m \in Mailboxes, QueueExpunge(p, m)
      PROVE  ViewInv'
  <2>1. Expunge(m) \in Update /\ Expunge(m).of = m /\ Expunge(m).type # "FETCH"
    BY DEF Expunge, Update
  <2>2. \A n : Apply(Expunge(m), n) = Dec(n)
    BY DEF Apply, Expunge
  <2>3. numMessages' = [numMessages EXCEPT ![m] = Apply(Expunge(m), @)]
    BY Zenon, <1>1, <2>2 DEF QueueExpunge
  <2> QED
    BY Zenon, <1>1, <2>1, <2>3, CountStep DEF QueueExpunge
<1>2. ASSUME NEW p \in Producers, NEW m \in Mailboxes, QueueNewMessage(p, m)
      PROVE  ViewInv'
  <2> DEFINE u == Exists(m, numMessages[m] + 1)
  <2>1. u \in Update /\ u.of = m /\ u.type # "FETCH"
    BY DEF Exists, Update, IInv, TypeOK
  <2>2. Apply(u, numMessages[m]) = numMessages[m] + 1
    BY DEF Apply, Exists
  <2>3. numMessages' = [numMessages EXCEPT ![m] = Apply(u, @)]
    BY Zenon, <1>2, <2>2 DEF QueueNewMessage
  <2> QED
    BY Zenon, <1>2, <2>1, <2>3, CountStep DEF QueueNewMessage
<1>3. ASSUME NEW p \in Producers,
             \/ ProducerCall(p) \/ RLock(p) \/ RUnlock(p)
             \/ \E s \in Sessions : queueUpdate(p, s)
      PROVE  ViewInv'
  BY Zenon, <1>1, <1>2, <1>3, FlagsStep, RLockTold, RUnlockTold, QueueTold DEF ProducerCall
<1>4. ASSUME NEW s \in Sessions,
             \/ \E m \in MaybeMailbox : Select(s, m)
             \/ Unselect(s) \/ Leave(s) \/ addSession(s)
             \/ \E allow \in AllowExpunge : Flush(s, allow)
      PROVE  ViewInv'
  BY Zenon, <1>4, SelectTold, LeaveTold, AddTold, FlushTold DEF Unselect
<1>5. CASE UNCHANGED vars
  <2>1. UNCHANGED <<numMessages, sessions, updates, session, producer, view, quiet>>
    BY Zenon, <1>5 DEF vars
  <2>2. ASSUME NEW s \in Sessions, NEW m \in Mailboxes, Told(s, m)
        PROVE  Told(s, m)'
    BY Zenon, <2>1, <2>2, SameCalls, ToldStays
  <2> QED
    BY Zenon, <2>1, <2>2 DEF ViewInv
<1> QED
  BY Zenon, <1>3, <1>4, <1>5 DEF Next

\* Whatever producers and sessions do, when the calls about its mailbox have
\* returned, the updates that a session has been sent and those in st.updates bring
\* its client to the count of the mailbox, unless it registered in the middle of
\* such a call, two of them overlapped, or Flush dropped an expunge (ViewConverges).
THEOREM ViewsConverge == Spec => []ViewConverges
<1>1. Init => Ghosts /\ ViewInv
  BY DEF Init, Ghosts, ViewInv
<1>2. ViewInv => ViewConverges
  BY Zenon DEF ViewInv, ViewConverges, Told
<1> QED
  BY <1>1, <1>2, Invariance, GhostsStep, ViewInvStep, PTL DEF Spec
=============================================================================
