------------------------------- MODULE MemStore -------------------------------
(***************************************************************************)
(* The in-memory backend (server/memserver) under the command handlers of  *)
(* server/commands: one user's mailboxes, and the sessions that work on    *)
(* them at the same time.                                                  *)
(*                                                                         *)
(* u.mu and a mailbox's mu are taken by one handler step each; a handler   *)
(* that looks at a mailbox and works on it later (SELECT, DELETE, APPEND,  *)
(* COPY) takes a step for each, and COPY, which holds two mailbox locks,   *)
(* one for each lock.  A handler that fails changes nothing, unless it     *)
(* says so.  A message set is any set of positions, a flag list names no   *)
(* flag twice, and a connection ends between two commands.                 *)
(***************************************************************************)
EXTENDS Naturals, Sequences, SequencesExt

CONSTANTS
    Sessions,       \* connections, each with its session
    Names,          \* mailbox names clients use; "INBOX" is one of them
    Flags,          \* message flags; "Deleted" and "Seen" have an effect
    MaxBoxes,       \* bound: mailboxes ever created
    MaxUid          \* bound: highest UID in a mailbox

ASSUME StoreAssumption ==
    /\ "INBOX" \in Names
    /\ MaxBoxes \in Nat \ {0} /\ MaxUid \in Nat
    /\ "free" \notin Sessions

Boxes == 1..MaxBoxes        \* mailbox objects, in the order of their addresses
Uids == 1..MaxUid
None == 0

VARIABLES
    mailboxes,  \* u.Mailboxes: the mailbox under every name, or None
    name,       \* mbox.Name
    msgs,       \* mbox.Messages
    uidNext,    \* mbox.UIDNext
    created,    \* mailboxes created so far
    lock,       \* the session that holds mbox.mu over a step, or "free"
    state,      \* state of every connection
    userData,   \* s.userData is set
    selected,   \* s.selectedMailbox, or None
    readOnly,   \* s.selectedReadOnly
    pc,         \* where every connection's handler is
    arg,        \* mailbox name DELETE works on
    src, dest   \* mailboxes it has looked up

storeVars == <<mailboxes, name, msgs, uidNext, created>>
selVars == <<selected, readOnly>>
sessVars == <<state, userData, selVars>>
opVars == <<arg, src, dest>>
vars == <<storeVars, lock, sessVars, pc, opVars>>

Message(uid, body, flags) == [uid |-> uid, body |-> body, flags |-> flags]
\* What a message says is told by the mailbox and UID it was appended with.
Bodies == Boxes \X Uids
Messages == [uid : Uids, body : Bodies, flags : SUBSET Flags]

Init ==
    /\ mailboxes = [n \in Names |-> IF n = "INBOX" THEN 1 ELSE None]
    /\ name = [b \in Boxes |-> "INBOX"]
    /\ msgs = [b \in Boxes |-> <<>>]
    /\ uidNext = [b \in Boxes |-> 1]
    /\ created = 1
    /\ lock = [b \in Boxes |-> "free"]
    /\ state = [s \in Sessions |-> "notauth"]
    /\ userData = [s \in Sessions |-> FALSE]
    /\ selected = [s \in Sessions |-> None]
    /\ readOnly = [s \in Sessions |-> FALSE]
    /\ pc = [s \in Sessions |-> "ready"]
    /\ arg = [s \in Sessions |-> "INBOX"]
    /\ src = [s \in Sessions |-> None]
    /\ dest = [s \in Sessions |-> None]

-----------------------------------------------------------------------------
(* UserData and Mailbox *)

\* normalizeINBOX, for the two spellings a model needs.
IsInbox(n) == n \in {"INBOX", "inbox"}

\* getMailboxLocked.
Lookup(n) ==
    IF mailboxes[n] # None THEN mailboxes[n]
    ELSE IF IsInbox(n) THEN mailboxes["INBOX"] ELSE None

Free(b) == lock[b] = "free"

Numbered_FromZero(b, ms) ==
    [i \in DOMAIN ms |-> Message(uidNext[b] + i - 2, ms[i].body, ms[i].flags)]

Numbered_ByCount(b, ms) ==
    [i \in DOMAIN ms |-> Message(Len(msgs[b]) + i, ms[i].body, ms[i].flags)]

\* Copies of messages with the UIDs they get in mailbox b.
Numbered(b, ms) ==
    [i \in DOMAIN ms |-> Message(uidNext[b] + i - 1, ms[i].body, ms[i].flags)]

AppendTo_KeepsNext(b, ms) ==
    /\ uidNext[b] + Len(ms) <= MaxUid + 1
    /\ msgs' = [msgs EXCEPT ![b] = @ \o Numbered(b, ms)]
    /\ UNCHANGED uidNext

\* Mailbox.Append, for every message of a sequence.
AppendTo(b, ms) ==
    /\ uidNext[b] + Len(ms) <= MaxUid + 1
    /\ msgs' = [msgs EXCEPT ![b] = @ \o Numbered(b, ms)]
    /\ uidNext' = [uidNext EXCEPT ![b] = @ + Len(ms)]

Deleted(m) == "Deleted" \in m.flags

\* Positions of the messages Mailbox.Expunge removes.
Expunged(ms, uids) == {i \in DOMAIN ms : Deleted(ms[i]) /\ ms[i].uid \in uids}

\* What a loop over a list collects that appends the elements at some positions.
Collected(list, positions) ==
    LET upTo[n \in 0..Len(list)] ==
            IF n = 0 THEN <<>>
            ELSE IF n \in positions THEN Append(upTo[n - 1], list[n])
            ELSE upTo[n - 1]
    IN upTo[Len(list)]

SeqNums(ms, uids) == Collected([i \in DOMAIN ms |-> i], Expunged(ms, uids))

Reported_Unadjusted(ms, uids) == SeqNums(ms, uids)

\* The sequence numbers Expunge reports: the i-th one is lowered by the i - 1
\* messages removed before it.
Reported(ms, uids) ==
    [i \in DOMAIN SeqNums(ms, uids) |-> SeqNums(ms, uids)[i] - (i - 1)]

Remaining(ms, uids) == Collected(ms, DOMAIN ms \ Expunged(ms, uids))

\* Messages, in their order, at the given positions.
Matching(ms, positions) == Collected(ms, positions)

-----------------------------------------------------------------------------
(* Handlers *)

\* A connection reads a command that its state allows.
Ready(s, states) == pc[s] = "ready" /\ state[s] \in states
Auth == {"auth", "selected"}

Goto(s, where) == pc' = [pc EXCEPT ![s] = where]

\* The handler returns, and its local variables are gone.
Return(s) ==
    /\ Goto(s, "ready")
    /\ arg' = [arg EXCEPT ![s] = "INBOX"]
    /\ src' = [src EXCEPT ![s] = None]
    /\ dest' = [dest EXCEPT ![s] = None]

Login(s) ==
    /\ Ready(s, {"notauth"})
    /\ userData' = [userData EXCEPT ![s] = TRUE]
    /\ state' = [state EXCEPT ![s] = "auth"]
    /\ UNCHANGED <<storeVars, lock, selVars, pc, opVars>>

\* SELECT and EXAMINE find the mailbox...
SelectStart(s, n, ro) ==
    /\ Ready(s, Auth) /\ userData[s]
    /\ Lookup(n) # None
    /\ dest' = [dest EXCEPT ![s] = Lookup(n)]
    /\ Goto(s, IF ro THEN "examine" ELSE "select")
    /\ UNCHANGED <<storeVars, lock, sessVars, arg, src>>

\* ... and select it, although it may be gone from u.Mailboxes by then.
Select(s) ==
    /\ pc[s] \in {"select", "examine"} /\ Free(dest[s])
    /\ selected' = [selected EXCEPT ![s] = dest[s]]
    /\ readOnly' = [readOnly EXCEPT ![s] = pc[s] = "examine"]
    /\ state' = [state EXCEPT ![s] = "selected"]
    /\ Return(s)
    /\ UNCHANGED <<storeVars, lock, userData>>

Deselect_KeepsMailbox(s) ==
    /\ readOnly' = [readOnly EXCEPT ![s] = FALSE]
    /\ UNCHANGED selected

Deselect(s) ==
    /\ selected' = [selected EXCEPT ![s] = None]
    /\ readOnly' = [readOnly EXCEPT ![s] = FALSE]

Unselect(s) ==
    /\ Ready(s, {"selected"})
    /\ Deselect(s)
    /\ state' = [state EXCEPT ![s] = "auth"]
    /\ UNCHANGED <<storeVars, lock, userData, pc, opVars>>

\* CLOSE expunges, whether or not the mailbox is read-only, ignores that
\* there may be none, and deselects.
CloseMailbox(s) ==
    LET b == selected[s]
    IN /\ Ready(s, {"selected"})
       /\ \/ b = None /\ UNCHANGED msgs
          \/ b # None /\ Free(b)
             /\ msgs' = [msgs EXCEPT ![b] = Remaining(@, Uids)]
       /\ Deselect(s)
       /\ state' = [state EXCEPT ![s] = "auth"]
       /\ UNCHANGED <<mailboxes, name, uidNext, created, lock, userData,
                      pc, opVars>>

Create(s, n) ==
    /\ Ready(s, Auth) /\ userData[s]
    /\ Lookup(n) = None
    /\ created < MaxBoxes
    /\ created' = created + 1
    /\ mailboxes' = [mailboxes EXCEPT ![n] = created + 1]
    /\ name' = [name EXCEPT ![created + 1] = n]
    /\ UNCHANGED <<msgs, uidNext, lock, sessVars, pc, opVars>>

HasSelected(s, n) == selected[s] # None /\ name[selected[s]] = n

\* DELETE first deselects a mailbox of that name, whether or not it may be
\* deleted; the connection's state stays "selected".
DeleteStart(s, n) ==
    /\ Ready(s, Auth) /\ userData[s]
    /\ \/ HasSelected(s, n) /\ Deselect(s)
       \/ ~HasSelected(s, n) /\ UNCHANGED selVars
    /\ arg' = [arg EXCEPT ![s] = n]
    /\ Goto(s, "delete")
    /\ UNCHANGED <<storeVars, lock, state, userData, src, dest>>

Deletable(n) == ~IsInbox(n)

Delete(s) ==
    /\ pc[s] = "delete"
    /\ \/ Deletable(arg[s]) /\ mailboxes' = [mailboxes EXCEPT ![arg[s]] = None]
       \/ ~Deletable(arg[s]) /\ UNCHANGED mailboxes
    /\ Return(s)
    /\ UNCHANGED <<name, msgs, uidNext, created, lock, sessVars>>

Rename_KeepsOld(s, old, new) ==
    /\ Ready(s, Auth) /\ userData[s]
    /\ Lookup(old) # None /\ Lookup(new) = None
    /\ mailboxes' = [mailboxes EXCEPT ![new] = Lookup(old)]
    /\ name' = [name EXCEPT ![Lookup(old)] = new]
    /\ UNCHANGED <<msgs, uidNext, created, lock, sessVars, pc, opVars>>

Rename(s, old, new) ==
    /\ Ready(s, Auth) /\ userData[s]
    /\ Lookup(old) # None /\ Lookup(new) = None
    /\ mailboxes' = [mailboxes EXCEPT ![old] = None, ![new] = Lookup(old)]
    /\ name' = [name EXCEPT ![Lookup(old)] = new]
    /\ UNCHANGED <<msgs, uidNext, created, lock, sessVars, pc, opVars>>

\* APPEND finds the mailbox, reads the literal and then adds the message.
AppendStart(s, n) ==
    /\ Ready(s, Auth) /\ userData[s]
    /\ Lookup(n) # None
    /\ dest' = [dest EXCEPT ![s] = Lookup(n)]
    /\ Goto(s, "append")
    /\ UNCHANGED <<storeVars, lock, sessVars, arg, src>>

AppendMessage(s, flags) ==
    LET b == dest[s]
    IN /\ pc[s] = "append" /\ Free(b)
       /\ uidNext[b] <= MaxUid
       /\ AppendTo(b, <<Message(uidNext[b], <<b, uidNext[b]>>, flags)>>)
       /\ Return(s)
       /\ UNCHANGED <<mailboxes, name, created, lock, sessVars>>

AppendFails_Retries(s) ==
    /\ pc[s] = "append"
    /\ UNCHANGED vars

\* The literal cannot be read to its end.
AppendFails(s) ==
    /\ pc[s] = "append"
    /\ Return(s)
    /\ UNCHANGED <<storeVars, lock, sessVars>>

\* A message's flags after FLAGS ("set"), +FLAGS ("add") or -FLAGS ("del").
NewFlags(old, action, flags) ==
    CASE action = "set" -> flags
      [] action = "add" -> old \cup flags
      [] action = "del" -> old \ flags

Flagged(m, action, flags) ==
    Message(m.uid, m.body, NewFlags(m.flags, action, flags))

\* Changing the flags of the messages at some positions of a mailbox.
SetFlags(b, positions, action, flags) ==
    msgs' = [msgs EXCEPT ![b] =
                [i \in DOMAIN @ |->
                    IF i \in positions THEN Flagged(@[i], action, flags) ELSE @[i]]]

\* STORE FLAGS, +FLAGS and -FLAGS.
Store(s, positions, flags) ==
    LET b == selected[s]
    IN /\ Ready(s, {"selected"})
       /\ b # None /\ ~readOnly[s] /\ Free(b)
       /\ positions \subseteq DOMAIN msgs[b]
       /\ \E action \in {"set", "add", "del"} : SetFlags(b, positions, action, flags)
       /\ UNCHANGED <<mailboxes, name, uidNext, created, lock, sessVars, pc,
                      opVars>>

Fetch_IgnoresReadOnly(s, positions) ==
    LET b == selected[s]
    IN /\ Ready(s, {"selected"})
       /\ b # None /\ Free(b)
       /\ "Seen" \in Flags
       /\ positions \subseteq DOMAIN msgs[b]
       /\ SetFlags(b, positions, "add", {"Seen"})
       /\ UNCHANGED <<mailboxes, name, uidNext, created, lock, sessVars, pc,
                      opVars>>

\* FETCH of a body section without PEEK; any other FETCH changes nothing.
Fetch(s, positions) ==
    LET b == selected[s]
    IN /\ Ready(s, {"selected"})
       /\ b # None /\ ~readOnly[s] /\ Free(b)
       /\ "Seen" \in Flags
       /\ positions \subseteq DOMAIN msgs[b]
       /\ SetFlags(b, positions, "add", {"Seen"})
       /\ UNCHANGED <<mailboxes, name, uidNext, created, lock, sessVars, pc,
                      opVars>>

\* EXPUNGE and UID EXPUNGE.
Expunge(s, uids) ==
    LET b == selected[s]
    IN /\ Ready(s, {"selected"})
       /\ b # None /\ Free(b)
       /\ msgs' = [msgs EXCEPT ![b] = Remaining(@, uids)]
       /\ UNCHANGED <<mailboxes, name, uidNext, created, lock, sessVars, pc,
                      opVars>>

\* COPY finds the destination, ...
CopyStart(s, n) ==
    /\ Ready(s, {"selected"})
    /\ selected[s] # None /\ Lookup(n) # None
    /\ src' = [src EXCEPT ![s] = selected[s]]
    /\ dest' = [dest EXCEPT ![s] = Lookup(n)]
    /\ Goto(s, "copyFirst")
    /\ UNCHANGED <<storeVars, lock, sessVars, arg>>

First_Source(s) == src[s]

\* ... locks both mailboxes in the order of their addresses, ...
First(s) == IF src[s] < dest[s] THEN src[s] ELSE dest[s]
Second(s) == IF First(s) = src[s] THEN dest[s] ELSE src[s]

CopyLock(s) ==
    /\ pc[s] = "copyFirst" /\ Free(First(s))
    /\ lock' = [lock EXCEPT ![First(s)] = s]
    /\ Goto(s, "copySecond")
    /\ UNCHANGED <<storeVars, sessVars, opVars>>

\* ... copies, and unlocks them.
CopyMessages(s, positions) ==
    /\ pc[s] = "copySecond"
    /\ Second(s) = First(s) \/ Free(Second(s))
    /\ positions \subseteq DOMAIN msgs[src[s]]
    /\ AppendTo(dest[s], Matching(msgs[src[s]], positions))
    /\ lock' = [lock EXCEPT ![First(s)] = "free"]
    /\ Return(s)
    /\ UNCHANGED <<mailboxes, name, created, sessVars>>

\* LOGOUT or the end of the connection, and the next connection in its place.
End(s) ==
    /\ pc[s] = "ready" /\ state[s] # "notauth"
    /\ Deselect(s)
    /\ userData' = [userData EXCEPT ![s] = FALSE]
    /\ state' = [state EXCEPT ![s] = "notauth"]
    /\ UNCHANGED <<storeVars, lock, pc, opVars>>

-----------------------------------------------------------------------------

Positions == SUBSET Uids

Selection(s) ==
    \/ \E n \in Names, ro \in BOOLEAN : SelectStart(s, n, ro)
    \/ Select(s) \/ Unselect(s) \/ CloseMailbox(s)

Naming(s) ==
    \/ \E n \in Names : Create(s, n) \/ DeleteStart(s, n)
    \/ Delete(s)
    \/ \E old, new \in Names : Rename(s, old, new)

Changing(s) ==
    \/ \E n \in Names : AppendStart(s, n)
    \/ \E flags \in SUBSET Flags : AppendMessage(s, flags)
    \/ AppendFails(s)
    \/ \E p \in Positions, flags \in SUBSET Flags : Store(s, p, flags)
    \/ \E p \in Positions : Fetch(s, p)
    \/ \E uids \in SUBSET Uids : Expunge(s, uids)

Copying(s) ==
    \/ \E n \in Names : CopyStart(s, n)
    \/ CopyLock(s)
    \/ \E p \in Positions : CopyMessages(s, p)

Next ==
    \E s \in Sessions :
        Login(s) \/ Selection(s) \/ Naming(s) \/ Changing(s) \/ Copying(s) \/ End(s)

Spec == Init /\ [][Next]_vars

\* A handler that has begun goes on.  sync.Mutex hands the lock to a goroutine
\* that has waited for a millisecond, so nobody waits for it for ever: the steps
\* inside a handler, most of which take a lock, are strongly fair.
Progress(s) ==
    \/ Delete(s) \/ Select(s) \/ AppendFails(s) \/ CopyLock(s)
    \/ \E flags \in SUBSET Flags : AppendMessage(s, flags)
    \/ \E p \in Positions : CopyMessages(s, p)

FairSpec == Spec /\ \A s \in Sessions : SF_vars(Progress(s))

-----------------------------------------------------------------------------
(* Properties *)

\* Every variable has its type: no handler leaves a mailbox, a message, a lock
\* or a session in a form the others do not expect.
TypeOK ==
    /\ mailboxes \in [Names -> Boxes \cup {None}]
    /\ name \in [Boxes -> Names]
    /\ msgs \in [Boxes -> Seq(Messages)]
    /\ uidNext \in [Boxes -> 1..(MaxUid + 1)]
    /\ created \in Boxes
    /\ lock \in [Boxes -> Sessions \cup {"free"}]
    /\ state \in [Sessions -> {"notauth", "auth", "selected"}]
    /\ userData \in [Sessions -> BOOLEAN]
    /\ selected \in [Sessions -> Boxes \cup {None}]
    /\ readOnly \in [Sessions -> BOOLEAN]
    /\ pc \in [Sessions -> {"ready", "select", "examine", "delete", "append",
                            "copyFirst", "copySecond"}]
    /\ arg \in [Sessions -> Names]
    /\ src \in [Sessions -> Boxes \cup {None}]
    /\ dest \in [Sessions -> Boxes \cup {None}]

\* The messages of a mailbox are in the order of their UIDs, and UIDNext is
\* above all of them, whatever APPEND, COPY (of a mailbox to itself, too) and
\* EXPUNGE of several sessions have done to it.
UidsAscend ==
    \A b \in Boxes : \A i \in DOMAIN msgs[b] :
        /\ msgs[b][i].uid < uidNext[b]
        /\ \A j \in 1..(i - 1) : msgs[b][j].uid < msgs[b][i].uid

\* A UID is never given to a second message of a mailbox: a message a step adds
\* has a UID from UIDNext on, and every other one keeps what it says.
NamesOneMessage(b) ==
    \A i \in DOMAIN msgs'[b] :
        \/ msgs'[b][i].uid >= uidNext[b]
        \/ \E j \in DOMAIN msgs[b] : /\ msgs[b][j].uid = msgs'[b][i].uid
                                     /\ msgs[b][j].body = msgs'[b][i].body
UidsNameOneMessage == [][\A b \in Boxes : NamesOneMessage(b)]_vars

\* A client that removes, one after the other, the sequence numbers Expunge
\* reports from its own list is left with the list the mailbox has.
Replayed(list, nums) ==
    LET after[n \in 0..Len(nums)] ==
            IF n = 0 THEN list ELSE RemoveAt(after[n - 1], nums[n])
    IN after[Len(nums)]
ExpungeReplays ==
    \A b \in Boxes : \A uids \in SUBSET Uids :
        Replayed(msgs[b], Reported(msgs[b], uids)) = Remaining(msgs[b], uids)

\* Two COPYs never wait for each other: no session holds the mailbox lock that
\* a second one waits for while it waits for a lock the second one holds.
WaitsFor(s, t) ==
    /\ pc[s] = "copySecond"
    /\ Second(s) # First(s)
    /\ lock[Second(s)] = t
NoLockCycle == \A s, t \in Sessions : ~(WaitsFor(s, t) /\ WaitsFor(t, s))

\* A session has a mailbox selected only if it is logged in and its connection
\* is in the selected state: after CLOSE, UNSELECT or the end of a connection
\* no handler can reach the old mailbox.
OnlySelectedHasMailbox ==
    \A s \in Sessions :
        selected[s] # None => state[s] = "selected" /\ userData[s]

\* Every mailbox in u.Mailboxes is there under its own name, and so under one
\* name only: "Remove old entry and add new one" (RenameMailbox).  (Not so when
\* INBOX is renamed under another spelling, which GetMailbox finds and delete
\* does not.)
OneNamePerMailbox ==
    \A n \in Names : mailboxes[n] # None => name[mailboxes[n]] = n

\* A mailbox one session has examined, and no other session has selected, keeps
\* the flags of its messages: neither STORE nor FETCH changes them.
ReadsOnly(s) ==
    /\ selected[s] # None /\ readOnly[s]
    /\ \A t \in Sessions \ {s} : selected[t] # selected[s]
KeepsMessages(b) ==
    \A i \in DOMAIN msgs[b], j \in DOMAIN msgs'[b] :
        msgs'[b][j].uid = msgs[b][i].uid => msgs'[b][j] = msgs[b][i]
ExamineKeepsFlags ==
    [][\A s \in Sessions : ReadsOnly(s) => KeepsMessages(selected[s])]_vars

\* Every handler that waits for a lock returns in the end.
HandlersReturn == \A s \in Sessions : pc[s] # "ready" ~> pc[s] = "ready"
=============================================================================
