---------------------------- MODULE MemStoreProofs ----------------------------
(***************************************************************************)
(* Proofs about MemStore, for any sessions, names, flags and bounds: COPY's *)
(* lock order rules out a cycle, the session's mailbox agrees with the      *)
(* connection's state, UIDs ascend and are not reused, an examined mailbox  *)
(* keeps its flags, and the reports of an expunge can be replayed.          *)
(*                                                                          *)
(* NoLockCycle alone is not inductive: it needs that a lock is held only by *)
(* a COPY that has taken its first one (Held), and both need the types of   *)
(* what a handler has looked up (Types). What happens to messages is proved *)
(* from MailShape: every step of every handler leaves them alone, expunges, *)
(* marks or appends. UidsAscend is inductive with the types (StoreInv), and *)
(* the action properties follow from it. The loops over a mailbox           *)
(* (Collected, Replayed) are reasoned about through their rounds, by the    *)
(* induction of SequenceFacts.                                              *)
(***************************************************************************)
EXTENDS MemStore, SequenceFacts, TLAPS

\* The part of TypeOK that the locks and the selection depend on.
Types ==
    /\ mailboxes \in [Names -> Boxes \cup {None}]
    /\ created \in Boxes
    /\ lock \in [Boxes -> Sessions \cup {"free"}]
    /\ state \in [Sessions -> {"notauth", "auth", "selected"}]
    /\ selected \in [Sessions -> Boxes \cup {None}]
    /\ pc \in [Sessions -> {"ready", "select", "examine", "delete", "append",
                            "copyFirst", "copySecond"}]
    /\ arg \in [Sessions -> Names]
    /\ src \in [Sessions -> Boxes \cup {None}]
    /\ dest \in [Sessions -> Boxes \cup {None}]
    /\ \A s \in Sessions :
          /\ pc[s] \in {"select", "examine", "append"} => dest[s] \in Boxes
          /\ pc[s] \in {"copyFirst", "copySecond"}
                 => src[s] \in Boxes /\ dest[s] \in Boxes

UserDataType == userData \in [Sessions -> BOOLEAN]

\* Who holds a mailbox lock between two steps, and which one.
Held ==
    \A b \in Boxes, s \in Sessions :
        lock[b] = s => pc[s] = "copySecond" /\ b = First(s)

\* What a handler that is under way has found out about its session.
Logged ==
    \A s \in Sessions :
        /\ pc[s] # "ready" => userData[s] /\ state[s] \in Auth
        /\ state[s] = "selected" => userData[s]

\* What a lookup of a name finds is a mailbox or none.
LEMMA LookupType ==
    ASSUME Types, NEW n \in Names
    PROVE  Lookup(n) \in Boxes \cup {None}
BY Zenon, StoreAssumption DEF Types, Lookup

\* Every step leaves Types true.
LEMMA TypesStep ==
    Types /\ [Next]_vars => Types'
<1> SUFFICES ASSUME Types, [Next]_vars PROVE Types'
  BY Zenon
<1> USE StoreAssumption
<1>1. CASE UNCHANGED vars
  BY Zenon, <1>1 DEF Types, vars, storeVars, sessVars, selVars, opVars
<1>2. ASSUME NEW s \in Sessions, Login(s) PROVE Types'
  BY Zenon, <1>2 DEF Types, Login, storeVars, selVars, opVars
<1>3. ASSUME NEW s \in Sessions, Selection(s) PROVE Types'
  <2>1. ASSUME NEW n \in Names, NEW ro \in BOOLEAN, SelectStart(s, n, ro)
        PROVE  Types'
    BY Zenon, <2>1, LookupType DEF Types, SelectStart, Goto, Ready, storeVars, sessVars, selVars
  <2>2. CASE Select(s)
    BY Zenon, <2>2 DEF Types, Select, Return, Goto, storeVars
  <2>3. CASE Unselect(s)
    BY Zenon, <2>3 DEF Types, Unselect, Deselect, storeVars, opVars
  <2>4. CASE CloseMailbox(s)
    BY Zenon, <2>4 DEF Types, CloseMailbox, Deselect, opVars
  <2> QED
    BY SMTT(20), <1>3, <2>1, <2>2, <2>3, <2>4 DEF Selection
<1>4. ASSUME NEW s \in Sessions, Naming(s) PROVE Types'
  <2>1. ASSUME NEW n \in Names, Create(s, n) PROVE Types'
    <3>1. created + 1 \in Boxes
      BY <2>1 DEF Types, Create, Boxes
    <3> QED
      BY Zenon, <2>1, <3>1 DEF Types, Create, sessVars, selVars, opVars
  <2>2. ASSUME NEW n \in Names, DeleteStart(s, n) PROVE Types'
    BY Zenon, <2>2 DEF Types, DeleteStart, Deselect, Goto, Ready, storeVars, selVars
  <2>3. CASE Delete(s)
    BY Zenon, <2>3 DEF Types, Delete, Return, Goto, sessVars, selVars
  <2>4. ASSUME NEW old \in Names, NEW new \in Names, Rename(s, old, new)
        PROVE  Types'
    BY Zenon, <2>4, LookupType DEF Types, Rename, sessVars, selVars, opVars
  <2> QED
    BY Zenon, <1>4, <2>1, <2>2, <2>3, <2>4 DEF Naming
<1>5. ASSUME NEW s \in Sessions, Changing(s) PROVE Types'
  <2>1. ASSUME NEW n \in Names, AppendStart(s, n) PROVE Types'
    BY Zenon, <2>1, LookupType DEF Types, AppendStart, Goto, Ready, storeVars, sessVars, selVars
  <2>2. ASSUME NEW flags, AppendMessage(s, flags) PROVE Types'
    BY Zenon, <2>2 DEF Types, AppendMessage, Return, Goto, sessVars, selVars
  <2>3. CASE AppendFails(s)
    BY Zenon, <2>3 DEF Types, AppendFails, Return, Goto, storeVars, sessVars, selVars
  <2>4. ASSUME NEW p, NEW flags, Store(s, p, flags) PROVE Types'
    BY Zenon, <2>4 DEF Types, Store, sessVars, selVars, opVars
  <2>5. ASSUME NEW p, Fetch(s, p) PROVE Types'
    BY Zenon, <2>5 DEF Types, Fetch, sessVars, selVars, opVars
  <2>6. ASSUME NEW uids, Expunge(s, uids) PROVE Types'
    BY Zenon, <2>6 DEF Types, Expunge, sessVars, selVars, opVars
  <2> QED
    BY SMTT(20), <1>5, <2>1, <2>2, <2>3, <2>4, <2>5, <2>6 DEF Changing
<1>6. ASSUME NEW s \in Sessions, Copying(s) PROVE Types'
  <2>1. ASSUME NEW n \in Names, CopyStart(s, n) PROVE Types'
    BY Zenon, <2>1, LookupType DEF Types, CopyStart, Goto, Ready, storeVars, sessVars, selVars
  <2>2. CASE CopyLock(s)
    BY Zenon, <2>2 DEF Types, CopyLock, First, Goto, storeVars, sessVars, selVars, opVars
  <2>3. ASSUME NEW p, CopyMessages(s, p) PROVE Types'
    BY Zenon, <2>3 DEF Types, CopyMessages, First, Return, Goto, sessVars, selVars
  <2> QED
    BY Zenon, <1>6, <2>1, <2>2, <2>3 DEF Copying
<1>7. ASSUME NEW s \in Sessions, End(s) PROVE Types'
  BY Zenon, <1>7 DEF Types, End, Deselect, storeVars, opVars
<1> QED
  BY SMTT(20), <1>1, <1>2, <1>3, <1>4, <1>5, <1>6, <1>7 DEF Next

\* A step of session s that neither takes nor gives back a lock.
Quiet(s) ==
    /\ lock' = lock
    /\ pc[s] # "copySecond"
    /\ \A t \in Sessions \ {s} :
          pc'[t] = pc[t] /\ src'[t] = src[t] /\ dest'[t] = dest[t]

\* Every step is quiet, or one of the two that handle COPY's locks.
LEMMA LockShape ==
    ASSUME Types, [Next]_vars
    PROVE  \/ UNCHANGED <<lock, pc, src, dest>>
           \/ \E s \in Sessions : \/ Quiet(s)
                                  \/ CopyLock(s)
                                  \/ \E p \in Positions : CopyMessages(s, p)
<1>1. CASE UNCHANGED vars
  BY Zenon, <1>1 DEF vars, opVars
<1>2. ASSUME NEW s \in Sessions,
             Login(s) \/ Selection(s) \/ Naming(s) \/ Changing(s) \/ End(s)
      PROVE  UNCHANGED <<lock, pc, src, dest>> \/ Quiet(s)
  <2>1. CASE Login(s) \/ End(s)
    BY Zenon, <2>1 DEF Login, End, opVars
  <2>2. CASE Selection(s)
    BY <2>2 DEF Types, Selection, SelectStart, Select, Unselect, CloseMailbox,
                Ready, Return, Goto, Quiet, opVars
  <2>3. CASE Naming(s)
    BY Zenon, <2>3 DEF Types, Naming, Create, DeleteStart, Delete, Rename,
                Ready, Return, Goto, Quiet, opVars
  <2>4. CASE Changing(s)
    <3>1. ASSUME NEW n \in Names, AppendStart(s, n) PROVE Quiet(s)
      BY Zenon, <3>1 DEF Types, AppendStart, Ready, Goto, Quiet
    <3>2. ASSUME NEW flags, AppendMessage(s, flags) PROVE Quiet(s)
      BY Zenon, <3>2 DEF Types, AppendMessage, Return, Goto, Quiet
    <3>3. CASE AppendFails(s)
      BY Zenon, <3>3 DEF Types, AppendFails, Return, Goto, Quiet
    <3>4. ASSUME NEW p, NEW flags, Store(s, p, flags)
          PROVE  UNCHANGED <<lock, pc, src, dest>>
      BY Zenon, <3>4 DEF Store, opVars
    <3>5. ASSUME NEW p, Fetch(s, p) PROVE UNCHANGED <<lock, pc, src, dest>>
      BY Zenon, <3>5 DEF Fetch, opVars
    <3>6. ASSUME NEW uids, Expunge(s, uids) PROVE UNCHANGED <<lock, pc, src, dest>>
      BY Zenon, <3>6 DEF Expunge, opVars
    <3> QED
      BY SMTT(20), <2>4, <3>1, <3>2, <3>3, <3>4, <3>5, <3>6 DEF Changing
  <2> QED
    BY Zenon, <1>2, <2>1, <2>2, <2>3, <2>4
<1>3. ASSUME NEW s \in Sessions, Copying(s)
      PROVE  Quiet(s) \/ CopyLock(s) \/ \E p \in Positions : CopyMessages(s, p)
  <2>1. ASSUME NEW n \in Names, CopyStart(s, n) PROVE Quiet(s)
    BY Zenon, <2>1 DEF Types, CopyStart, Ready, Goto, Quiet
  <2> QED
    BY Zenon, <1>3, <2>1 DEF Copying
<1> QED
  BY Zenon, <1>1, <1>2, <1>3 DEF Next

\* A lock held between two steps belongs to a COPY that waits for its second.
LEMMA HeldStep ==
    ASSUME Types, Held, [Next]_vars
    PROVE  Held'
<1> USE StoreAssumption
<1>1. Types'
  BY Zenon, TypesStep
<1>2. CASE UNCHANGED <<lock, pc, src, dest>>
  BY Zenon, <1>2 DEF Held, First
<1>3. ASSUME NEW s \in Sessions, Quiet(s) PROVE Held'
  BY <1>3 DEF Held, First, Quiet
<1>4. ASSUME NEW s \in Sessions, CopyLock(s) PROVE Held'
  <2>1. /\ First(s) \in Boxes
        /\ lock[First(s)] = "free"
        /\ lock' = [lock EXCEPT ![First(s)] = s]
        /\ pc' = [pc EXCEPT ![s] = "copySecond"]
        /\ pc[s] = "copyFirst"
        /\ UNCHANGED <<src, dest>>
    BY Zenon, <1>4 DEF CopyLock, Types, First, Free, Goto, opVars
  <2>2. \A t \in Sessions : First(t)' = First(t)
    BY Zenon, <2>1 DEF First
  <2> QED
    BY Zenon, <2>1, <2>2 DEF Held, Types
<1>5. ASSUME NEW s \in Sessions, NEW p \in Positions, CopyMessages(s, p)
      PROVE  Held'
  <2>1. /\ First(s) \in Boxes
        /\ lock' = [lock EXCEPT ![First(s)] = "free"]
        /\ \A t \in Sessions \ {s} :
              pc'[t] = pc[t] /\ src'[t] = src[t] /\ dest'[t] = dest[t]
    BY Zenon, <1>5 DEF CopyMessages, Types, First, Return, Goto
  <2>2. \A t \in Sessions \ {s} : First(t)' = First(t)
    BY Zenon, <2>1 DEF First
  <2>3. \A b \in Boxes : lock'[b] # s
    BY Zenon, <2>1 DEF Held, Types
  <2> QED
    BY <2>1, <2>2, <2>3 DEF Held, Types
<1> QED
  BY SMTT(20), <1>2, <1>3, <1>4, <1>5, LockShape

\* Locks taken in the order of the mailboxes' addresses form no cycle.
LEMMA OrderedLocks ==
    ASSUME Types, Held
    PROVE  NoLockCycle
<1> SUFFICES ASSUME NEW s \in Sessions, NEW t \in Sessions,
                    WaitsFor(s, t), WaitsFor(t, s)
             PROVE  FALSE
  BY Zenon DEF NoLockCycle
<1>1. /\ src[s] \in Boxes /\ dest[s] \in Boxes
      /\ src[t] \in Boxes /\ dest[t] \in Boxes
  BY Zenon DEF Types, WaitsFor
<1>2. First(s) < Second(s) /\ First(t) < Second(t)
  BY <1>1, StoreAssumption DEF First, Second, WaitsFor, Boxes
<1>3. Second(s) \in Boxes /\ Second(t) \in Boxes
  BY Zenon, <1>1 DEF First, Second
<1>4. Second(s) = First(t) /\ Second(t) = First(s)
  BY Zenon, <1>3 DEF Held, WaitsFor
<1> QED
  BY <1>2, <1>3, <1>4, StoreAssumption DEF Boxes

\* No two COPYs of Session.Copy ever wait for each other, however many sessions
\* and mailboxes there are.
THEOREM CopiesDoNotDeadlock == Spec => []NoLockCycle
<1>1. Init => Types /\ Held
  BY StoreAssumption DEF Init, Types, Held, Boxes, None
<1>2. Types /\ Held /\ [Next]_vars => Types' /\ Held'
  BY Zenon, TypesStep, HeldStep
<1>3. Types /\ Held => NoLockCycle
  BY Zenon, OrderedLocks
<1> QED
  BY <1>1, <1>2, <1>3, PTL DEF Spec

-----------------------------------------------------------------------------

\* The session's mailbox and the connection's state, as far as they depend on
\* each other.
Agree == UserDataType /\ Logged /\ OnlySelectedHasMailbox

\* A step of one session leaves every other session's part of Agree alone, so
\* Agree follows from what the step does to its own session.
LEMMA AgreeForOne ==
    ASSUME Types, Types', Agree, NEW s \in Sessions,
           userData' \in [Sessions -> BOOLEAN],
           \A t \in Sessions \ {s} :
               /\ pc'[t] = pc[t] /\ state'[t] = state[t]
               /\ userData'[t] = userData[t] /\ selected'[t] = selected[t],
           pc'[s] # "ready" => userData'[s] /\ state'[s] \in Auth,
           state'[s] = "selected" => userData'[s],
           selected'[s] # None => state'[s] = "selected" /\ userData'[s]
    PROVE  Agree'
<1>1. UserDataType'
  BY Zenon DEF UserDataType
<1>2. Logged'
  BY Zenon DEF Agree, Logged, Auth
<1>3. OnlySelectedHasMailbox'
  BY Zenon DEF Agree, OnlySelectedHasMailbox
<1> QED
  BY Zenon, <1>1, <1>2, <1>3 DEF Agree

\* A step that changes neither states, selections nor what handlers run.
LEMMA AgreeStutter ==
    ASSUME Agree, UNCHANGED <<pc, state, userData, selected>>
    PROVE  Agree'
BY Zenon DEF Agree, UserDataType, Logged, OnlySelectedHasMailbox, Auth

\* Every step keeps what a session has selected in agreement with its state.
LEMMA AgreeStep ==
    ASSUME Types, Agree, [Next]_vars
    PROVE  Agree'
<1>0. Types'
  BY Zenon, TypesStep
<1> USE DEF Auth
<1>1. CASE UNCHANGED vars
  BY Zenon, <1>1, AgreeStutter DEF vars, sessVars, selVars
<1>2. ASSUME NEW s \in Sessions, Login(s) \/ End(s) PROVE Agree'
  <2>1. CASE Login(s)
    BY SMTT(20), <1>0, <2>1, AgreeForOne
    DEF Login, Ready, Types, Agree, UserDataType, Logged, OnlySelectedHasMailbox,
        selVars
  <2>2. CASE End(s)
    BY SMTT(20), <1>0, <2>2, AgreeForOne
    DEF End, Deselect, Types, Agree, UserDataType, Logged, OnlySelectedHasMailbox
  <2> QED
    BY SMTT(20), <1>2, <2>1, <2>2
<1>3. ASSUME NEW s \in Sessions, Selection(s) PROVE Agree'
  <2>1. ASSUME NEW n \in Names, NEW ro \in BOOLEAN, SelectStart(s, n, ro)
        PROVE  Agree'
    BY SMTT(20), <1>0, <2>1, AgreeForOne
    DEF SelectStart, Ready, Goto, Types, Agree, UserDataType, Logged,
        OnlySelectedHasMailbox, sessVars, selVars
  <2>2. CASE Select(s)
    BY SMTT(20), <1>0, <2>2, AgreeForOne
    DEF Select, Return, Goto, Types, Agree, UserDataType, Logged,
        OnlySelectedHasMailbox
  <2>3. CASE Unselect(s)
    BY SMTT(20), <1>0, <2>3, AgreeForOne
    DEF Unselect, Ready, Deselect, Types, Agree, UserDataType, Logged,
        OnlySelectedHasMailbox
  <2>4. CASE CloseMailbox(s)
    BY SMTT(20), <1>0, <2>4, AgreeForOne
    DEF CloseMailbox, Ready, Deselect, Types, Agree, UserDataType, Logged,
        OnlySelectedHasMailbox
  <2> QED
    BY SMTT(20), <1>3, <2>1, <2>2, <2>3, <2>4 DEF Selection
<1>4. ASSUME NEW s \in Sessions, Naming(s) PROVE Agree'
  <2>1. ASSUME NEW n \in Names, Create(s, n) PROVE Agree'
    BY SMTT(20), <2>1, AgreeStutter DEF Create, sessVars, selVars
  <2>2. ASSUME NEW n \in Names, DeleteStart(s, n) PROVE Agree'
    BY SMTT(20), <1>0, <2>2, AgreeForOne
    DEF DeleteStart, Ready, Deselect, Goto, Types, Agree, UserDataType, Logged,
        OnlySelectedHasMailbox, selVars
  <2>3. CASE Delete(s)
    BY <1>0, <2>3, AgreeForOne
    DEF Delete, Return, Goto, Types, Agree, UserDataType, Logged,
        OnlySelectedHasMailbox, sessVars, selVars
  <2>4. ASSUME NEW old \in Names, NEW new \in Names, Rename(s, old, new)
        PROVE  Agree'
    BY Zenon, <2>4, AgreeStutter DEF Rename, sessVars, selVars
  <2> QED
    BY SMTT(20), <1>4, <2>1, <2>2, <2>3, <2>4 DEF Naming
<1>5. ASSUME NEW s \in Sessions, Changing(s) PROVE Agree'
  <2>1. ASSUME NEW n \in Names, AppendStart(s, n) PROVE Agree'
    BY SMTT(20), <1>0, <2>1, AgreeForOne
    DEF AppendStart, Ready, Goto, Types, Agree, UserDataType, Logged,
        OnlySelectedHasMailbox, sessVars, selVars
  <2>2. ASSUME NEW flags, AppendMessage(s, flags) \/ AppendFails(s) PROVE Agree'
    <3>1. pc' = [pc EXCEPT ![s] = "ready"] /\ UNCHANGED <<state, userData, selected>>
      BY SMTT(20), <2>2 DEF AppendMessage, AppendFails, Return, Goto, sessVars, selVars
    <3> QED
      BY <1>0, <3>1, AgreeForOne
      DEF Types, Agree, UserDataType, Logged, OnlySelectedHasMailbox
  <2>3. ASSUME NEW p, NEW flags, Store(s, p, flags) PROVE Agree'
    BY Zenon, <2>3, AgreeStutter DEF Store, sessVars, selVars
  <2>4. ASSUME NEW p, Fetch(s, p) PROVE Agree'
    BY Zenon, <2>4, AgreeStutter DEF Fetch, sessVars, selVars
  <2>5. ASSUME NEW uids, Expunge(s, uids) PROVE Agree'
    BY Zenon, <2>5, AgreeStutter DEF Expunge, sessVars, selVars
  <2> QED
    BY SMTT(20), <1>5, <2>1, <2>2, <2>3, <2>4, <2>5 DEF Changing
<1>6. ASSUME NEW s \in Sessions, Copying(s) PROVE Agree'
  <2>1. ASSUME NEW n \in Names, CopyStart(s, n) PROVE Agree'
    BY SMTT(20), <1>0, <2>1, AgreeForOne
    DEF CopyStart, Ready, Goto, Types, Agree, UserDataType, Logged,
        OnlySelectedHasMailbox, sessVars, selVars
  <2>2. CASE CopyLock(s)
    BY SMTT(20), <1>0, <2>2, AgreeForOne
    DEF CopyLock, Goto, Types, Agree, UserDataType, Logged,
        OnlySelectedHasMailbox, sessVars, selVars
  <2>3. ASSUME NEW p, CopyMessages(s, p) PROVE Agree'
    BY <1>0, <2>3, AgreeForOne
    DEF CopyMessages, Return, Goto, Types, Agree, UserDataType, Logged,
        OnlySelectedHasMailbox, sessVars, selVars
  <2> QED
    BY SMTT(20), <1>6, <2>1, <2>2, <2>3 DEF Copying
<1> QED
  BY SMTT(20), <1>1, <1>2, <1>3, <1>4, <1>5, <1>6 DEF Next

\* A session holds a mailbox only while it is logged in and its connection is in
\* the selected state: no handler that ends a selection leaves the old mailbox.
THEOREM SelectionAgrees == Spec => []OnlySelectedHasMailbox
<1>1. Init => Types /\ Agree
  BY StoreAssumption
  DEF Init, Types, Boxes, None, Agree, UserDataType, Logged, OnlySelectedHasMailbox
<1>2. Types /\ Agree /\ [Next]_vars => Types' /\ Agree'
  BY Zenon, TypesStep, AgreeStep
<1>3. Agree => OnlySelectedHasMailbox
  BY Zenon DEF Agree
<1> QED
  BY <1>1, <1>2, <1>3, PTL DEF Spec

-----------------------------------------------------------------------------

\* OneNamePerMailbox, strengthened: what u.Mailboxes holds has been created, so
\* that the mailbox CREATE adds is not there yet.
Registered ==
    /\ name \in [Boxes -> Names]
    /\ \A n \in Names : mailboxes[n] # None => mailboxes[n] \in 1..created
    /\ OneNamePerMailbox

\* Every step leaves a mailbox registered under its own name only.
LEMMA RegisteredStep ==
    ASSUME Types, Registered, [Next]_vars, "inbox" \notin Names
    PROVE  Registered'
<1> USE StoreAssumption
<1>1. ASSUME NEW s \in Sessions, NEW n \in Names, Create(s, n)
      PROVE  Registered'
  <2>1. created + 1 \in Boxes /\ created \in Nat
    BY <1>1 DEF Types, Create, Boxes
  <2>2. name' = [name EXCEPT ![created + 1] = n] /\ created' = created + 1
    BY Zenon, <1>1 DEF Create
  <2>3. mailboxes' = [mailboxes EXCEPT ![n] = created + 1]
    BY Zenon, <1>1 DEF Create
  <2>4. \A m \in Names : mailboxes[m] # created + 1
    BY <2>1 DEF Registered, None
  <2> QED
    BY SMTT(20), <2>1, <2>2, <2>3, <2>4 DEF Registered, OneNamePerMailbox, Types, None
<1>2. ASSUME NEW s \in Sessions, Delete(s) PROVE Registered'
  BY Zenon, <1>2 DEF Delete, Registered, OneNamePerMailbox, Types
<1>3. ASSUME NEW s \in Sessions, NEW old \in Names, NEW new \in Names,
             Rename(s, old, new)
      PROVE  Registered'
  <2>1. Lookup(old) = mailboxes[old] /\ mailboxes[old] # None /\ old # new
    BY Zenon, <1>3 DEF Rename, Lookup, IsInbox
  <2>2. /\ mailboxes' = [mailboxes EXCEPT ![old] = None, ![new] = mailboxes[old]]
        /\ name' = [name EXCEPT ![mailboxes[old]] = new]
        /\ created' = created
    BY SMTT(20), <1>3, <2>1 DEF Rename
  <2>3. mailboxes[old] \in Boxes
    BY Zenon, <2>1 DEF Types
  <2>4. \A m \in Names \ {old} : mailboxes[m] # mailboxes[old]
    BY Zenon, <2>1 DEF Registered, OneNamePerMailbox
  <2> QED
    BY SMTT(20), <2>1, <2>2, <2>3, <2>4 DEF Registered, OneNamePerMailbox, Types
<1>4. CASE UNCHANGED <<mailboxes, name, created>>
  BY Zenon, <1>4 DEF Registered, OneNamePerMailbox
<1>5. ASSUME NEW s \in Sessions,
             Login(s) \/ Selection(s) \/ Changing(s) \/ Copying(s) \/ End(s)
      PROVE  UNCHANGED <<mailboxes, name, created>>
  <2>1. CASE Login(s) \/ Selection(s) \/ End(s)
    BY Zenon, <2>1 DEF Login, Selection, SelectStart, Select, Unselect, CloseMailbox, End,
                storeVars
  <2>2. CASE Changing(s)
    BY Zenon, <2>2 DEF Changing, AppendStart, AppendMessage, AppendFails, Store, Fetch,
                Expunge, storeVars
  <2>3. CASE Copying(s)
    BY Zenon, <2>3 DEF Copying, CopyStart, CopyLock, CopyMessages, storeVars
  <2> QED
    BY SMTT(20), <1>5, <2>1, <2>2, <2>3
<1>6. ASSUME NEW s \in Sessions, NEW n \in Names, DeleteStart(s, n)
      PROVE  UNCHANGED <<mailboxes, name, created>>
  BY Zenon, <1>6 DEF DeleteStart, storeVars
<1>7. UNCHANGED vars => UNCHANGED <<mailboxes, name, created>>
  BY Zenon DEF vars, storeVars
<1> QED
  BY SMTT(20), <1>1, <1>2, <1>3, <1>4, <1>5, <1>6, <1>7 DEF Next, Naming

\* As long as clients write INBOX in capitals, every mailbox of u.Mailboxes is
\* there under its own name only, through any CREATEs, DELETEs and RENAMEs.
THEOREM NamesAreUnique ==
    ASSUME "inbox" \notin Names
    PROVE  Spec => []OneNamePerMailbox
<1>1. Init => Types /\ Registered
  BY StoreAssumption DEF Init, Types, Boxes, None, Registered, OneNamePerMailbox
<1>2. Types /\ Registered /\ [Next]_vars => Types' /\ Registered'
  BY Zenon, TypesStep, RegisteredStep
<1>3. Registered => OneNamePerMailbox
  BY Zenon DEF Registered
<1> QED
  BY <1>1, <1>2, <1>3, PTL DEF Spec

\* The rounds of the loop that Collected stands for.
CollectedUpTo(upTo, list, positions) ==
    /\ upTo[0] = <<>>
    /\ \A n \in 1..Len(list) :
          upTo[n] = IF n \in positions THEN Append(upTo[n - 1], list[n])
                    ELSE upTo[n - 1]

\* The loop has a value after every round, and Collected is the last one.
LEMMA CollectedRounds ==
    ASSUME NEW S, NEW list \in Seq(S), NEW positions
    PROVE  \E upTo \in [0..Len(list) -> Seq(S)] :
               /\ CollectedUpTo(upTo, list, positions)
               /\ Collected(list, positions) = upTo[Len(list)]
<1> DEFINE Round(n, c) == IF n \in positions THEN Append(c, list[n]) ELSE c
           step == [n \in 1..Len(list) |-> [c \in Seq(S) |-> Round(n, c)]]
           Loop(g) == g = [n \in 0..Len(list) |->
                            IF n = 0 THEN <<>> ELSE Round(n, g[n - 1])]
           upTo == CHOOSE g : Loop(g)
<1>1. Len(list) \in Nat /\ <<>> \in Seq(S)
  OBVIOUS
<1>2. \A n \in 1..Len(list), c \in Seq(S) : Round(n, c) \in Seq(S)
  OBVIOUS
<1>3. Collected(list, positions) = upTo[Len(list)]
  BY Zenon DEF Collected
<1>4. Loop(upTo)
  <2> HIDE DEF Round
  <2>1. step \in [1..Len(list) -> [Seq(S) -> Seq(S)]]
    BY Zenon, <1>2
  <2>2. PICK g \in Rounds(Seq(S), <<>>, Len(list), step) : TRUE
    <3> HIDE DEF step
    <3>1. \A b \in Seq(S) : Rounds(Seq(S), b, Len(list), step) # {}
      BY Zenon, <1>1, <2>1, LoopHasRounds
    <3>2. Rounds(Seq(S), <<>>, Len(list), step) # {}
      BY Zenon, <1>1, <3>1
    <3> QED
      BY Zenon, <3>2
  <2>3. \A n \in 1..Len(list) : g[n - 1] \in Seq(S)
    BY <1>1, <2>2 DEF Rounds
  <2>4. \A n \in 1..Len(list) : step[n][g[n - 1]] = Round(n, g[n - 1])
    BY Zenon, <2>3
  <2>5. Loop(g)
    <3> HIDE DEF step
    <3> QED BY SMTT(20), <1>1, <2>2, <2>4 DEF Rounds
  <2> QED
    BY Zenon, <2>5
<1> HIDE DEF upTo, Round
<1>5. /\ upTo[0] = <<>>
      /\ \A n \in 1..Len(list) : upTo[n] = Round(n, upTo[n - 1])
  <2>1. \A n \in 0..Len(list) :
            upTo[n] = IF n = 0 THEN <<>> ELSE Round(n, upTo[n - 1])
    BY Zenon, <1>4
  <2> QED
    BY <1>1, <2>1
<1> DEFINE G == {n \in 0..Len(list) : upTo[n] \in Seq(S)}
<1>6. 0 \in G
  <2>1. upTo[0] \in Seq(S)
    BY Zenon, <1>1, <1>5
  <2> QED
    BY <1>1, <2>1
<1>7. \A n \in 0..(Len(list) - 1) : n \in G => n + 1 \in G
  <2> SUFFICES ASSUME NEW n \in 0..(Len(list) - 1), upTo[n] \in Seq(S)
               PROVE  upTo[n + 1] \in Seq(S)
    BY <1>1
  <2>1. n + 1 \in 1..Len(list) /\ (n + 1) - 1 = n
    BY <1>1
  <2> QED
    BY SMTT(20), <1>2, <1>5, <2>1
<1>8. \A n \in 0..Len(list) : n \in G
  <2> HIDE DEF G
  <2> QED BY SMTT(20), <1>1, <1>6, <1>7, SetInduction
<1>9. upTo \in [0..Len(list) -> Seq(S)]
  BY Zenon, <1>4, <1>8
<1> QED
  BY SMTT(20), <1>3, <1>5, <1>9 DEF CollectedUpTo, Round

\* Collected keeps some elements of a list, in their order: the i-th one is the
\* one at position at[i], and the positions ascend.
LEMMA CollectedIsSubsequence ==
    ASSUME NEW S, NEW list \in Seq(S), NEW positions
    PROVE  \E k \in Nat : \E at \in [1..k -> 1..Len(list)] :
               /\ Collected(list, positions) = [i \in 1..k |-> list[at[i]]]
               /\ \A i, j \in 1..k : i < j => at[i] < at[j]
<1>1. PICK upTo \in [0..Len(list) -> Seq(S)] :
          /\ CollectedUpTo(upTo, list, positions)
          /\ Collected(list, positions) = upTo[Len(list)]
  BY Zenon, CollectedRounds
<1> DEFINE Picks(n, k, at) ==
              /\ at \in [1..k -> 1..n]
              /\ upTo[n] = [i \in 1..k |-> list[at[i]]]
              /\ \A i, j \in 1..k : i < j => at[i] < at[j]
           G == {n \in 0..Len(list) : \E k \in Nat : \E at : Picks(n, k, at)}
<1>2. Len(list) \in Nat
  OBVIOUS
<1>3. 0 \in G
  <2>1. Picks(0, 0, <<>>)
    BY <1>1 DEF CollectedUpTo
  <2> QED
    BY <1>2, <2>1
<1>4. \A n \in 0..(Len(list) - 1) : n \in G => n + 1 \in G
  <2> SUFFICES ASSUME NEW n \in 0..(Len(list) - 1), n \in G
               PROVE  n + 1 \in G
    BY Zenon
  <2>1. PICK k, at : k \in Nat /\ Picks(n, k, at)
    BY Zenon
  <2>2. n \in Nat /\ n + 1 \in 1..Len(list) /\ (n + 1) - 1 = n
    BY <1>2
  <2>3. CASE n + 1 \in positions
    <3> DEFINE at2 == [i \in 1..(k + 1) |-> IF i = k + 1 THEN n + 1 ELSE at[i]]
    <3>1. upTo[n + 1] = Append(upTo[n], list[n + 1])
      BY Zenon, <1>1, <2>2, <2>3 DEF CollectedUpTo
    <3>2. at2 \in [1..(k + 1) -> 1..(n + 1)]
      BY <2>1, <2>2
    <3>3. \A i, j \in 1..(k + 1) : i < j => at2[i] < at2[j]
      BY SMTT(20), <2>1, <2>2
    <3>4. upTo[n + 1] = [i \in 1..(k + 1) |-> list[at2[i]]]
      BY SMTT(20), <2>1, <2>2, <3>1
    <3>5. Picks(n + 1, k + 1, at2)
      BY SMTT(20), <3>2, <3>3, <3>4
    <3> HIDE DEF at2, Picks
    <3> QED
      BY <2>1, <2>2, <3>5
  <2>4. CASE n + 1 \notin positions
    <3>1. upTo[n + 1] = upTo[n]
      BY SMTT(20), <1>1, <2>2, <2>4 DEF CollectedUpTo
    <3>2. Picks(n + 1, k, at)
      BY <2>1, <2>2, <3>1
    <3> HIDE DEF Picks
    <3> QED
      BY <2>1, <2>2, <3>2
  <2> QED
    BY Zenon, <2>3, <2>4
<1>5. \A n \in 0..Len(list) : n \in G
  <2> HIDE DEF G
  <2> QED BY Zenon, <1>2, <1>3, <1>4, SetInduction
<1>6. PICK k \in Nat : \E at : Picks(Len(list), k, at)
  <2>1. Len(list) \in 0..Len(list)
    BY <1>2
  <2> HIDE DEF Picks
  <2> QED
    BY Zenon, <1>5, <2>1
<1> QED
  BY Zenon, <1>1, <1>6

\* The part of TypeOK that Types leaves out: what mailboxes hold.
MailTypes ==
    /\ msgs \in [Boxes -> Seq(Messages)]
    /\ uidNext \in [Boxes -> 1..(MaxUid + 1)]

\* What a step may do to the messages of a mailbox: an expunge, a change of
\* flags by a session that has it selected, or an append.
Removes(b, uids) ==
    msgs' = [msgs EXCEPT ![b] = Remaining(@, uids)] /\ UNCHANGED uidNext
Marks(s, positions, action, flags) ==
    /\ selected[s] \in Boxes /\ ~readOnly[s]
    /\ SetFlags(selected[s], positions, action, flags) /\ UNCHANGED uidNext
Adds(b, ms) == ms \in Seq(Messages) /\ AppendTo(b, ms)

MailStep ==
    \/ UNCHANGED <<msgs, uidNext>>
    \/ \E b \in Boxes, uids \in SUBSET Uids : Removes(b, uids)
    \/ \E s \in Sessions, p \in Positions, flags \in SUBSET Flags,
          action \in {"set", "add", "del"} : Marks(s, p, action, flags)
    \/ \E b \in Boxes : \E ms \in Seq(Messages) : Adds(b, ms)

\* What is collected of a list is a list of the same elements.
LEMMA CollectedType ==
    ASSUME NEW S, NEW list \in Seq(S), NEW positions
    PROVE  Collected(list, positions) \in Seq(S)
<1>1. PICK upTo \in [0..Len(list) -> Seq(S)] :
          Collected(list, positions) = upTo[Len(list)]
  BY Zenon, CollectedRounds
<1> QED
  BY <1>1

\* Every step leaves the mailboxes alone or does one of the three.
LEMMA MailShape ==
    ASSUME Types, MailTypes, [Next]_vars
    PROVE  MailStep
<1> USE StoreAssumption
<1>1. UNCHANGED <<msgs, uidNext>> => MailStep
  BY Zenon DEF MailStep
<1>2. ASSUME NEW s \in Sessions, Login(s) \/ End(s) \/ Naming(s) PROVE MailStep
  <2>1. UNCHANGED <<msgs, uidNext>>
    BY Zenon, <1>2 DEF Login, End, Naming, Create, DeleteStart, Delete, Rename, storeVars
  <2> QED
    BY Zenon, <1>1, <2>1
<1>3. ASSUME NEW s \in Sessions, Selection(s) PROVE MailStep
  <2>1. CASE CloseMailbox(s)
    <3>1. selected[s] \in Boxes => Removes(selected[s], Uids)
      BY <2>1 DEF CloseMailbox, Removes, Boxes, None
    <3>2. selected[s] \notin Boxes => UNCHANGED <<msgs, uidNext>>
      BY Zenon, <2>1 DEF CloseMailbox, Types
    <3> QED
      BY Zenon, <1>1, <3>1, <3>2 DEF MailStep
  <2>2. ASSUME NEW n \in Names, NEW ro \in BOOLEAN, SelectStart(s, n, ro)
        PROVE  MailStep
    BY SMTT(20), <1>1, <2>2 DEF SelectStart, storeVars
  <2>3. CASE Select(s) \/ Unselect(s)
    BY Zenon, <1>1, <2>3 DEF Select, Unselect, storeVars
  <2> QED
    BY Zenon, <1>3, <2>1, <2>2, <2>3 DEF Selection
<1>4. ASSUME NEW s \in Sessions, Changing(s) PROVE MailStep
  <2>1. ASSUME NEW n \in Names, AppendStart(s, n) PROVE MailStep
    BY Zenon, <1>1, <2>1 DEF AppendStart, storeVars
  <2>2. ASSUME NEW flags \in SUBSET Flags, AppendMessage(s, flags) PROVE MailStep
    <3> DEFINE b == dest[s]
               ms == <<Message(uidNext[b], <<b, uidNext[b]>>, flags)>>
    <3>1. b \in Boxes /\ AppendTo(b, ms) /\ uidNext[b] <= MaxUid
      BY Zenon, <2>2 DEF AppendMessage, Types
    <3>2. uidNext[b] \in Uids
      BY <3>1 DEF MailTypes, Uids
    <3>3. Message(uidNext[b], <<b, uidNext[b]>>, flags) \in Messages
      BY SMTT(20), <3>1, <3>2 DEF Message, Messages, Bodies
    <3>4. ms \in Seq(Messages)
      BY <3>3
    <3> QED
      BY Zenon, <3>1, <3>4 DEF Adds, MailStep
  <2>3. CASE AppendFails(s)
    BY Zenon, <1>1, <2>3 DEF AppendFails, storeVars
  <2>4. ASSUME NEW p \in Positions, NEW flags \in SUBSET Flags, Store(s, p, flags)
        PROVE  MailStep
    <3>1. \E action \in {"set", "add", "del"} : Marks(s, p, action, flags)
      BY Zenon, <2>4 DEF Store, Types, Marks
    <3> QED
      BY Zenon, <3>1 DEF MailStep
  <2>5. ASSUME NEW p \in Positions, Fetch(s, p) PROVE MailStep
    <3>1. Marks(s, p, "add", {"Seen"}) /\ {"Seen"} \in SUBSET Flags
      BY Zenon, <2>5 DEF Fetch, Types, Marks
    <3> QED
      BY Zenon, <3>1 DEF MailStep
  <2>6. ASSUME NEW uids \in SUBSET Uids, Expunge(s, uids) PROVE MailStep
    <3>1. Removes(selected[s], uids) /\ selected[s] \in Boxes
      BY Zenon, <2>6 DEF Expunge, Types, Removes
    <3> QED
      BY Zenon, <3>1 DEF MailStep
  <2> QED
    BY Zenon, <1>4, <2>1, <2>2, <2>3, <2>4, <2>5, <2>6 DEF Changing
<1>5. ASSUME NEW s \in Sessions, Copying(s) PROVE MailStep
  <2>1. ASSUME NEW n \in Names, CopyStart(s, n) PROVE MailStep
    BY Zenon, <1>1, <2>1 DEF CopyStart, storeVars
  <2>2. CASE CopyLock(s)
    BY Zenon, <1>1, <2>2 DEF CopyLock, storeVars
  <2>3. ASSUME NEW p \in Positions, CopyMessages(s, p) PROVE MailStep
    <3>1. dest[s] \in Boxes /\ msgs[src[s]] \in Seq(Messages)
      BY Zenon, <2>3 DEF CopyMessages, Types, MailTypes
    <3>2. Matching(msgs[src[s]], p) \in Seq(Messages)
      BY Zenon, <3>1, CollectedType DEF Matching
    <3> QED
      BY Zenon, <2>3, <3>1, <3>2 DEF CopyMessages, Adds, MailStep
  <2> QED
    BY Zenon, <1>5, <2>1, <2>2, <2>3 DEF Copying
<1>6. CASE UNCHANGED vars
  BY Zenon, <1>1, <1>6 DEF vars, storeVars
<1> QED
  BY Zenon, <1>2, <1>3, <1>4, <1>5, <1>6 DEF Next

\* The messages an append adds.
LEMMA NumberedType ==
    ASSUME MailTypes, NEW b \in Boxes, NEW ms \in Seq(Messages),
           uidNext[b] + Len(ms) <= MaxUid + 1
    PROVE  /\ Numbered(b, ms) \in Seq(Messages)
           /\ Len(Numbered(b, ms)) = Len(ms)
           /\ \A i \in 1..Len(ms) : Numbered(b, ms)[i].uid = uidNext[b] + i - 1
<1> USE StoreAssumption
<1>1. Len(ms) \in Nat /\ DOMAIN ms = 1..Len(ms) /\ uidNext[b] \in 1..(MaxUid + 1)
  BY DEF MailTypes
<1>2. ASSUME NEW i \in 1..Len(ms)
      PROVE  /\ Numbered(b, ms)[i] \in Messages
             /\ Numbered(b, ms)[i].uid = uidNext[b] + i - 1
  <2>1. ms[i] \in Messages
    BY <1>1
  <2>2. uidNext[b] + i - 1 \in Uids
    BY <1>1 DEF Uids
  <2>3. Numbered(b, ms)[i] = Message(uidNext[b] + i - 1, ms[i].body, ms[i].flags)
    BY Zenon, <1>1 DEF Numbered
  <2> QED
    BY SMTT(20), <2>1, <2>2, <2>3 DEF Message, Messages
<1>3. Numbered(b, ms) = [i \in 1..Len(ms) |-> Numbered(b, ms)[i]]
  BY Zenon, <1>1 DEF Numbered
<1> QED
  BY SMTT(20), <1>1, <1>2, <1>3

\* What an expunge leaves of a mailbox: some of its messages, in their order.
LEMMA RemovesEffect ==
    ASSUME MailTypes, NEW b \in Boxes, NEW uids, Removes(b, uids)
    PROVE  /\ uidNext' = uidNext
           /\ msgs' = [msgs EXCEPT ![b] = msgs'[b]]
           /\ msgs'[b] \in Seq(Messages)
           /\ \E at \in [1..Len(msgs'[b]) -> 1..Len(msgs[b])] :
                 /\ \A i \in 1..Len(msgs'[b]) : msgs'[b][i] = msgs[b][at[i]]
                 /\ \A i, j \in 1..Len(msgs'[b]) : i < j => at[i] < at[j]
<1> DEFINE new == Remaining(msgs[b], uids)
<1>1. msgs[b] \in Seq(Messages)
  BY Zenon DEF MailTypes
<1>2. new \in Seq(Messages)
  BY Zenon, <1>1, CollectedType DEF Remaining
<1>3. PICK k \in Nat : \E at \in [1..k -> 1..Len(msgs[b])] :
          /\ new = [i \in 1..k |-> msgs[b][at[i]]]
          /\ \A i, j \in 1..k : i < j => at[i] < at[j]
  BY Zenon, <1>1, CollectedIsSubsequence DEF Remaining
<1>4. msgs' = [msgs EXCEPT ![b] = new] /\ uidNext' = uidNext
  BY Zenon DEF Removes
<1> HIDE DEF new
<1>5. msgs'[b] = new
  BY Zenon, <1>4 DEF MailTypes
<1>6. PICK at \in [1..k -> 1..Len(msgs[b])] :
          /\ new = [i \in 1..k |-> msgs[b][at[i]]]
          /\ \A i, j \in 1..k : i < j => at[i] < at[j]
  BY SMTT(20), <1>3
<1>7. Len(new) = k /\ \A i \in 1..k : new[i] = msgs[b][at[i]]
  BY SMTT(20), <1>2, <1>6
<1> QED
  BY Zenon, <1>2, <1>4, <1>5, <1>6, <1>7

\* A change of flags leaves everything else about the messages as it was.
LEMMA MarksEffect ==
    ASSUME MailTypes, NEW s \in Sessions, NEW p \in Positions,
           NEW flags \in SUBSET Flags, NEW action \in {"set", "add", "del"},
           Marks(s, p, action, flags)
    PROVE  /\ uidNext' = uidNext
           /\ msgs' = [msgs EXCEPT ![selected[s]] = msgs'[selected[s]]]
           /\ msgs'[selected[s]] \in Seq(Messages)
           /\ Len(msgs'[selected[s]]) = Len(msgs[selected[s]])
           /\ \A i \in 1..Len(msgs[selected[s]]) :
                 /\ msgs'[selected[s]][i].uid = msgs[selected[s]][i].uid
                 /\ msgs'[selected[s]][i].body = msgs[selected[s]][i].body
<1> DEFINE b == selected[s]
           marked(m) == Flagged(m, action, flags)
           new == [i \in DOMAIN msgs[b] |-> IF i \in p THEN marked(msgs[b][i])
                                            ELSE msgs[b][i]]
<1>1. b \in Boxes /\ msgs' = [msgs EXCEPT ![b] = new] /\ uidNext' = uidNext
  <2>1. b \in Boxes /\ SetFlags(b, p, action, flags) /\ uidNext' = uidNext
    BY Zenon DEF Marks
  <2> QED
    BY Zenon, <2>1 DEF SetFlags
<1>2. msgs[b] \in Seq(Messages) /\ msgs'[b] = new
  BY Zenon, <1>1 DEF MailTypes
<1>3. \A m \in Messages : /\ marked(m) \in Messages
                          /\ marked(m).uid = m.uid /\ marked(m).body = m.body
  BY Zenon DEF Flagged, Message, Messages, NewFlags
<1>4. DOMAIN msgs[b] = 1..Len(msgs[b]) /\ Len(msgs[b]) \in Nat
  BY SMTT(20), <1>2
<1> HIDE DEF marked
<1>5. \A i \in 1..Len(msgs[b]) : /\ new[i] \in Messages
                                 /\ new[i].uid = msgs[b][i].uid
                                 /\ new[i].body = msgs[b][i].body
  BY SMTT(20), <1>2, <1>3, <1>4
<1>6. new \in [1..Len(msgs[b]) -> Messages]
  BY Zenon, <1>4, <1>5
<1> HIDE DEF new
<1>7. new \in Seq(Messages) /\ Len(new) = Len(msgs[b])
  BY Zenon, <1>4, <1>6, FunctionIsSequence
<1> QED
  BY Zenon, <1>1, <1>2, <1>5, <1>7

\* An append leaves the messages of a mailbox where they are.
LEMMA AddsEffect ==
    ASSUME MailTypes, NEW b \in Boxes, NEW ms \in Seq(Messages), Adds(b, ms)
    PROVE  /\ uidNext' = [uidNext EXCEPT ![b] = uidNext[b] + Len(ms)]
           /\ uidNext[b] + Len(ms) \in 1..(MaxUid + 1)
           /\ msgs' = [msgs EXCEPT ![b] = msgs'[b]]
           /\ msgs'[b] \in Seq(Messages)
           /\ Len(msgs'[b]) = Len(msgs[b]) + Len(ms)
           /\ \A i \in 1..Len(msgs[b]) : msgs'[b][i] = msgs[b][i]
           /\ \A i \in 1..Len(ms) :
                 msgs'[b][Len(msgs[b]) + i].uid = uidNext[b] + i - 1
<1> DEFINE new == Numbered(b, ms)
<1>1. /\ uidNext[b] + Len(ms) <= MaxUid + 1
      /\ msgs' = [msgs EXCEPT ![b] = msgs[b] \o new]
      /\ uidNext' = [uidNext EXCEPT ![b] = uidNext[b] + Len(ms)]
  BY Zenon DEF Adds, AppendTo
<1>2. msgs[b] \in Seq(Messages) /\ msgs'[b] = msgs[b] \o new
  BY Zenon, <1>1 DEF MailTypes
<1>3. uidNext[b] + Len(ms) \in 1..(MaxUid + 1)
  BY SMTT(20), <1>1, StoreAssumption DEF MailTypes
<1>4. /\ new \in Seq(Messages) /\ Len(new) = Len(ms)
      /\ \A i \in 1..Len(ms) : new[i].uid = uidNext[b] + i - 1
  BY Zenon, <1>1, NumberedType
<1> HIDE DEF new
<1>5. /\ msgs[b] \o new \in Seq(Messages)
      /\ Len(msgs[b] \o new) = Len(msgs[b]) + Len(ms)
      /\ \A i \in 1..Len(msgs[b]) : (msgs[b] \o new)[i] = msgs[b][i]
      /\ \A i \in 1..Len(ms) : (msgs[b] \o new)[Len(msgs[b]) + i] = new[i]
  <2>1. msgs[b] \o new \in Seq(Messages) /\ Joins(msgs[b] \o new, msgs[b], new)
    BY Zenon, <1>2, <1>4, ConcatFacts
  <2> QED
    BY Zenon, <1>4, <2>1 DEF Joins
<1> QED
  BY ZenonT(30), <1>1, <1>2, <1>3, <1>4, <1>5

\* Every step keeps the types of what mailboxes hold.
LEMMA MailTypesStep ==
    ASSUME Types, MailTypes, [Next]_vars
    PROVE  MailTypes'
<1> USE StoreAssumption
<1>1. CASE UNCHANGED <<msgs, uidNext>>
  BY Zenon, <1>1 DEF MailTypes
<1>2. ASSUME NEW b \in Boxes, NEW uids \in SUBSET Uids, Removes(b, uids)
      PROVE  MailTypes'
  BY Zenon, <1>2, RemovesEffect DEF MailTypes
<1>3. ASSUME NEW s \in Sessions, NEW p \in Positions, NEW flags \in SUBSET Flags,
             NEW action \in {"set", "add", "del"}, Marks(s, p, action, flags)
      PROVE  MailTypes'
  BY Zenon, <1>3, MarksEffect DEF MailTypes
<1>4. ASSUME NEW b \in Boxes, NEW ms \in Seq(Messages), Adds(b, ms)
      PROVE  MailTypes'
  BY ZenonT(30), <1>4, AddsEffect DEF MailTypes
<1> QED
  BY Zenon, MailShape, <1>1, <1>2, <1>3, <1>4 DEF MailStep

\* The rest of TypeOK: names, read-only selections and logins.
SessionTypes ==
    /\ name \in [Boxes -> Names]
    /\ userData \in [Sessions -> BOOLEAN]
    /\ readOnly \in [Sessions -> BOOLEAN]

\* Every step keeps the types of the names and of what a session has.
LEMMA SessionTypesStep ==
    ASSUME Types, SessionTypes, [Next]_vars
    PROVE  SessionTypes'
<1> USE StoreAssumption
<1>1. CASE UNCHANGED vars
  BY Zenon, <1>1 DEF SessionTypes, vars, storeVars, sessVars, selVars
<1>2. ASSUME NEW s \in Sessions, Login(s) \/ End(s) PROVE SessionTypes'
  BY Zenon, <1>2 DEF SessionTypes, Login, End, Deselect, storeVars, selVars
<1>3. ASSUME NEW s \in Sessions, Selection(s) PROVE SessionTypes'
  <2>1. ASSUME NEW n \in Names, NEW ro \in BOOLEAN, SelectStart(s, n, ro)
        PROVE  SessionTypes'
    BY Zenon, <2>1 DEF SessionTypes, SelectStart, storeVars, sessVars, selVars
  <2>2. CASE Select(s)
    BY Zenon, <2>2 DEF SessionTypes, Select, storeVars
  <2>3. CASE Unselect(s) \/ CloseMailbox(s)
    BY Zenon, <2>3 DEF SessionTypes, Unselect, CloseMailbox, Deselect, storeVars
  <2> QED
    BY Zenon, <1>3, <2>1, <2>2, <2>3 DEF Selection
<1>4. ASSUME NEW s \in Sessions, Naming(s) PROVE SessionTypes'
  <2>1. ASSUME NEW n \in Names, Create(s, n) PROVE SessionTypes'
    BY Zenon, <2>1 DEF SessionTypes, Create, sessVars, selVars
  <2>2. ASSUME NEW n \in Names, DeleteStart(s, n) PROVE SessionTypes'
    BY Zenon, <2>2 DEF SessionTypes, DeleteStart, Deselect, storeVars, selVars
  <2>3. CASE Delete(s)
    BY Zenon, <2>3 DEF SessionTypes, Delete, sessVars, selVars
  <2>4. ASSUME NEW old \in Names, NEW new \in Names, Rename(s, old, new)
        PROVE  SessionTypes'
    BY Zenon, <2>4 DEF SessionTypes, Rename, sessVars, selVars
  <2> QED
    BY Zenon, <1>4, <2>1, <2>2, <2>3, <2>4 DEF Naming
<1>5. ASSUME NEW s \in Sessions, Changing(s) \/ Copying(s)
      PROVE  UNCHANGED <<name, userData, readOnly>>
  <2>1. CASE Changing(s)
    BY Zenon, <2>1 DEF Changing, AppendStart, AppendMessage, AppendFails, Store,
       Fetch, Expunge, storeVars, sessVars, selVars
  <2>2. CASE Copying(s)
    BY Zenon, <2>2 DEF Copying, CopyStart, CopyLock, CopyMessages, storeVars,
       sessVars, selVars
  <2> QED
    BY Zenon, <1>5, <2>1, <2>2
<1>6. UNCHANGED <<name, userData, readOnly>> => SessionTypes'
  BY Zenon DEF SessionTypes
<1> QED
  BY Zenon, <1>1, <1>2, <1>3, <1>4, <1>5, <1>6 DEF Next

\* UidsAscend for the messages and the UIDNext of one mailbox.
Ascending(ms, next) ==
    \A i \in DOMAIN ms : /\ ms[i].uid < next
                         /\ \A j \in 1..(i - 1) : ms[j].uid < ms[i].uid

\* A step that changes one mailbox, and leaves its UIDs in order, leaves all in order.
LEMMA AscendForOne ==
    ASSUME MailTypes, UidsAscend, NEW b \in Boxes,
           msgs' = [msgs EXCEPT ![b] = msgs'[b]],
           uidNext' = [uidNext EXCEPT ![b] = uidNext'[b]],
           Ascending(msgs'[b], uidNext'[b])
    PROVE  UidsAscend'
BY Zenon DEF MailTypes, UidsAscend, Ascending

\* Every step leaves the UIDs of a mailbox in order, below UIDNext.
LEMMA AscendStep ==
    ASSUME Types, MailTypes, UidsAscend, [Next]_vars
    PROVE  UidsAscend'
<1> USE StoreAssumption
<1>1. CASE UNCHANGED <<msgs, uidNext>>
  BY Zenon, <1>1 DEF UidsAscend
<1>2. ASSUME NEW b \in Boxes, NEW uids \in SUBSET Uids, Removes(b, uids)
      PROVE  UidsAscend'
  <2> DEFINE new == msgs'[b]
  <2>1. PICK at \in [1..Len(new) -> 1..Len(msgs[b])] :
            /\ \A i \in 1..Len(new) : new[i] = msgs[b][at[i]]
            /\ \A i, j \in 1..Len(new) : i < j => at[i] < at[j]
    BY SMTT(20), <1>2, RemovesEffect
  <2>2. /\ uidNext' = uidNext /\ msgs' = [msgs EXCEPT ![b] = new]
        /\ new \in Seq(Messages) /\ msgs[b] \in Seq(Messages)
    BY SMTT(20), <1>2, RemovesEffect DEF MailTypes
  <2> HIDE DEF new
  <2>3. ASSUME NEW i \in DOMAIN new
        PROVE  /\ new[i].uid < uidNext[b]
               /\ \A j \in 1..(i - 1) : new[j].uid < new[i].uid
    <3>1. i \in 1..Len(new) /\ at[i] \in DOMAIN msgs[b] /\ at[i] \in Nat
      BY <2>1, <2>2
    <3>2. \A j \in 1..(i - 1) : j \in 1..Len(new) /\ at[j] \in 1..(at[i] - 1)
      BY SMTT(20), <2>1, <2>2, <3>1
    <3> QED
      BY Zenon, <2>1, <3>1, <3>2 DEF UidsAscend
  <2>4. Ascending(new, uidNext[b])
    BY Zenon, <2>3 DEF Ascending
  <2> QED
    BY SMTT(20), <2>2, <2>4, AscendForOne DEF new, MailTypes
<1>3. ASSUME NEW s \in Sessions, NEW p \in Positions, NEW flags \in SUBSET Flags,
             NEW action \in {"set", "add", "del"}, Marks(s, p, action, flags)
      PROVE  UidsAscend'
  <2> DEFINE b == selected[s]
             new == msgs'[b]
  <2>1. /\ b \in Boxes /\ uidNext' = uidNext /\ msgs' = [msgs EXCEPT ![b] = new]
        /\ new \in Seq(Messages) /\ msgs[b] \in Seq(Messages)
        /\ Len(new) = Len(msgs[b])
        /\ \A i \in 1..Len(msgs[b]) : new[i].uid = msgs[b][i].uid
    <3>1. b \in Boxes /\ msgs[b] \in Seq(Messages)
      BY SMTT(20), <1>3 DEF MailTypes, Marks
    <3>2. /\ uidNext' = uidNext /\ msgs' = [msgs EXCEPT ![b] = new]
          /\ new \in Seq(Messages) /\ Len(new) = Len(msgs[b])
      BY SMTT(20), <1>3, MarksEffect
    <3>3. \A i \in 1..Len(msgs[b]) : new[i].uid = msgs[b][i].uid
      BY SMTT(20), <1>3, MarksEffect
    <3> QED
      BY Zenon, <3>1, <3>2, <3>3
  <2> HIDE DEF new, b
  <2>2. Ascending(new, uidNext[b])
    BY SMTT(20), <2>1 DEF Ascending, UidsAscend
  <2> QED
    BY SMTT(20), <2>1, <2>2, AscendForOne DEF new, MailTypes
<1>4. ASSUME NEW b \in Boxes, NEW ms \in Seq(Messages), Adds(b, ms)
      PROVE  UidsAscend'
  <2> DEFINE new == msgs'[b]
             old == msgs[b]
             next == uidNext[b]
  <2>1. /\ uidNext' = [uidNext EXCEPT ![b] = next + Len(ms)]
        /\ msgs' = [msgs EXCEPT ![b] = new]
        /\ new \in Seq(Messages) /\ old \in Seq(Messages)
        /\ next \in Nat /\ Len(ms) \in Nat
        /\ Len(new) = Len(old) + Len(ms)
        /\ \A i \in 1..Len(old) : new[i] = old[i]
        /\ \A i \in 1..Len(ms) : new[Len(old) + i].uid = next + i - 1
    <3>1. old \in Seq(Messages) /\ next \in Nat /\ Len(ms) \in Nat
      BY DEF MailTypes
    <3> QED
      BY Zenon, <1>4, <3>1, AddsEffect
  <2>2. \A i \in 1..Len(old) :
            /\ new[i].uid \in Nat /\ new[i].uid < next
            /\ \A j \in 1..(i - 1) : new[j].uid < new[i].uid
    <3>1. \A i \in 1..Len(old) : old[i].uid < next
                                 /\ \A j \in 1..(i - 1) : old[j].uid < old[i].uid
      BY <2>1 DEF UidsAscend
    <3>2. \A i \in 1..Len(old) : old[i].uid \in Nat
      <4> HIDE DEF old
      <4>1. \A i \in 1..Len(old) : old[i] \in Messages
        BY SMTT(20), <2>1
      <4> QED
        BY SMTT(20), <4>1 DEF Messages, Uids
    <3> HIDE DEF new, old, next
    <3> QED
      <4> SUFFICES ASSUME NEW i \in 1..Len(old)
                   PROVE  /\ new[i].uid \in Nat /\ new[i].uid < next
                          /\ \A j \in 1..(i - 1) : new[j].uid < new[i].uid
        BY Zenon
      <4>1. \A j \in 1..(i - 1) : j \in 1..Len(old)
        BY SMTT(20), <2>1
      <4> QED
        BY Zenon, <2>1, <3>1, <3>2, <4>1
  <2> HIDE DEF new, old, next
  <2>3. ASSUME NEW i \in (Len(old) + 1)..Len(new)
        PROVE  new[i].uid = next + (i - Len(old)) - 1
    <3>1. i - Len(old) \in 1..Len(ms) /\ Len(old) + (i - Len(old)) = i
      BY <2>1
    <3> QED
      BY ZenonT(30), <2>1, <3>1
  <2>4. Ascending(new, next + Len(ms))
    <3> SUFFICES ASSUME NEW i \in 1..Len(new)
                 PROVE  /\ new[i].uid < next + Len(ms)
                        /\ \A j \in 1..(i - 1) : new[j].uid < new[i].uid
      BY SMTT(20), <2>1 DEF Ascending
    <3>1. CASE i \in 1..Len(old)
      BY SMTT(20), <2>1, <2>2, <3>1
    <3>2. CASE i \in (Len(old) + 1)..Len(new)
      <4>1. new[i].uid = next + (i - Len(old)) - 1
        BY SMTT(20), <2>3, <3>2
      <4>2. ASSUME NEW j \in 1..(i - 1) PROVE new[j].uid < new[i].uid
        <5>1. j \in 1..Len(old) \/ j \in (Len(old) + 1)..Len(new)
          BY <2>1
        <5> QED
          BY SMTT(20), <2>1, <2>2, <2>3, <4>1, <5>1
      <4> QED
        BY SMTT(20), <2>1, <3>2, <4>1, <4>2
    <3> QED
      BY SMTT(20), <2>1, <3>1, <3>2
  <2>5. uidNext'[b] = next + Len(ms)
    BY Zenon, <2>1 DEF MailTypes
  <2> QED
    BY Zenon, <2>1, <2>4, <2>5, AscendForOne DEF new
<1> QED
  BY Zenon, MailShape, <1>1, <1>2, <1>3, <1>4 DEF MailStep

\* Every step gives a message it adds a UID from UIDNext on, and leaves what the
\* others say as it was.
LEMMA UidStep ==
    ASSUME Types, MailTypes, [Next]_vars, NEW b \in Boxes
    PROVE  NamesOneMessage(b)
<1> USE StoreAssumption
<1>1. msgs'[b] = msgs[b] => NamesOneMessage(b)
  BY Zenon DEF NamesOneMessage
<1>2. CASE UNCHANGED <<msgs, uidNext>>
  BY SMTT(20), <1>1, <1>2
<1>3. ASSUME NEW c \in Boxes, NEW uids \in SUBSET Uids, Removes(c, uids)
      PROVE  NamesOneMessage(b)
  <2>1. CASE b # c
    <3>1. msgs'[b] = msgs[b]
      BY Zenon, <1>3, <2>1 DEF Removes, MailTypes
    <3> QED
      BY SMTT(20), <1>1, <3>1
  <2>2. CASE b = c
    <3> DEFINE new == msgs'[b]
    <3>1. PICK at \in [1..Len(new) -> 1..Len(msgs[b])] :
              \A i \in 1..Len(new) : new[i] = msgs[b][at[i]]
      BY SMTT(20), <1>3, <2>2, RemovesEffect
    <3>2. new \in Seq(Messages) /\ msgs[b] \in Seq(Messages)
      BY SMTT(20), <1>3, <2>2, RemovesEffect DEF MailTypes
    <3> HIDE DEF new
    <3>3. \A i \in DOMAIN new : at[i] \in DOMAIN msgs[b] /\ new[i] = msgs[b][at[i]]
      BY <3>1, <3>2
    <3> QED
      BY Zenon, <3>3 DEF NamesOneMessage, new
  <2> QED
    BY SMTT(20), <2>1, <2>2
<1>4. ASSUME NEW s \in Sessions, NEW p \in Positions, NEW flags \in SUBSET Flags,
             NEW action \in {"set", "add", "del"}, Marks(s, p, action, flags)
      PROVE  NamesOneMessage(b)
  <2>1. CASE b # selected[s]
    <3>1. msgs'[b] = msgs[b]
      BY SMTT(20), <1>4, <2>1, MarksEffect DEF MailTypes
    <3> QED
      BY SMTT(20), <1>1, <3>1
  <2>2. CASE b = selected[s]
    <3>1. /\ msgs'[b] \in Seq(Messages) /\ msgs[b] \in Seq(Messages)
          /\ Len(msgs'[b]) = Len(msgs[b])
      BY SMTT(20), <1>4, <2>2, MarksEffect DEF MailTypes
    <3>2. \A i \in 1..Len(msgs[b]) : /\ msgs'[b][i].uid = msgs[b][i].uid
                                     /\ msgs'[b][i].body = msgs[b][i].body
      BY SMTT(20), <1>4, <2>2, MarksEffect
    <3>3. DOMAIN msgs'[b] = 1..Len(msgs[b]) /\ DOMAIN msgs[b] = 1..Len(msgs[b])
      BY <3>1
    <3> QED
      BY Zenon, <3>2, <3>3 DEF NamesOneMessage
  <2> QED
    BY Zenon, <2>1, <2>2
<1>5. ASSUME NEW c \in Boxes, NEW ms \in Seq(Messages), Adds(c, ms)
      PROVE  NamesOneMessage(b)
  <2>1. CASE b # c
    <3>1. msgs'[b] = msgs[b]
      BY SMTT(20), <1>5, <2>1, AddsEffect DEF MailTypes
    <3> QED
      BY SMTT(20), <1>1, <3>1
  <2>2. CASE b = c
    <3> DEFINE new == msgs'[b]
               old == msgs[b]
    <3>1. /\ new \in Seq(Messages) /\ old \in Seq(Messages)
          /\ uidNext[b] \in Nat /\ Len(ms) \in Nat
          /\ Len(new) = Len(old) + Len(ms)
      BY SMTT(20), <1>5, <2>2, AddsEffect DEF MailTypes
    <3>2. /\ \A i \in 1..Len(old) : new[i] = old[i]
          /\ \A i \in 1..Len(ms) : new[Len(old) + i].uid = uidNext[b] + i - 1
      BY SMTT(20), <1>5, <2>2, AddsEffect
    <3> HIDE DEF new, old
    <3>3. ASSUME NEW i \in DOMAIN new
          PROVE  \/ new[i].uid >= uidNext[b]
                 \/ i \in DOMAIN old /\ new[i] = old[i]
      <4>1. CASE i \in 1..Len(old)
        BY SMTT(20), <3>1, <3>2, <4>1
      <4>2. CASE i \notin 1..Len(old)
        <5>1. i - Len(old) \in 1..Len(ms) /\ Len(old) + (i - Len(old)) = i
          BY SMTT(20), <3>1, <4>2
        <5>2. new[i].uid = uidNext[b] + (i - Len(old)) - 1
          BY Zenon, <3>2, <5>1
        <5> QED
          BY SMTT(20), <3>1, <5>1, <5>2
      <4> QED
        BY SMTT(20), <4>1, <4>2
    <3> QED
      BY Zenon, <3>3 DEF NamesOneMessage, new, old
  <2> QED
    BY SMTT(20), <2>1, <2>2
<1> QED
  BY Zenon, MailShape, <1>2, <1>3, <1>4, <1>5 DEF MailStep

\* A position of a mailbox and the UID there are naturals.
LEMMA UidType ==
    ASSUME MailTypes, NEW b \in Boxes, NEW i \in DOMAIN msgs[b]
    PROVE  i \in Nat /\ i >= 1 /\ msgs[b][i].uid \in Nat
<1>1. msgs[b] \in Seq(Messages)
  BY Zenon DEF MailTypes
<1>2. i \in 1..Len(msgs[b]) /\ msgs[b][i] \in Messages
  BY <1>1
<1>3. msgs[b][i].uid \in Nat
  BY SMTT(20), <1>2, StoreAssumption DEF Messages, Uids
<1> QED
  BY <1>2, <1>3

\* In a mailbox whose UIDs ascend, one UID is at one position.
LEMMA OnePosition ==
    ASSUME MailTypes, UidsAscend, NEW b \in Boxes,
           NEW i \in DOMAIN msgs[b], NEW j \in DOMAIN msgs[b],
           msgs[b][i].uid = msgs[b][j].uid
    PROVE  i = j
<1>2. /\ i \in Nat /\ j \in Nat /\ i >= 1 /\ j >= 1
      /\ msgs[b][i].uid \in Nat /\ msgs[b][j].uid \in Nat
  BY SMTT(20), UidType
<1>3. CASE i < j
  BY SMTT(20), <1>2, <1>3 DEF UidsAscend
<1>4. CASE j < i
  BY <1>2, <1>4 DEF UidsAscend
<1> QED
  BY SMTT(20), <1>2, <1>3, <1>4

\* Every step keeps the messages of a mailbox that is only examined.
LEMMA ExamineStep ==
    ASSUME Types, MailTypes, SessionTypes, UidsAscend, [Next]_vars,
           NEW r \in Sessions, ReadsOnly(r)
    PROVE  KeepsMessages(selected[r])
<1> USE StoreAssumption
<1> DEFINE b == selected[r]
           new == msgs'[b]
           old == msgs[b]
<1>1. b \in Boxes /\ old \in Seq(Messages)
  BY Zenon DEF ReadsOnly, Types, MailTypes
<1>2. new = old => KeepsMessages(b)
  BY Zenon, <1>1, OnePosition DEF KeepsMessages
<1>3. CASE UNCHANGED <<msgs, uidNext>>
  BY SMTT(20), <1>2, <1>3
<1>4. ASSUME NEW c \in Boxes, NEW uids \in SUBSET Uids, Removes(c, uids)
      PROVE  KeepsMessages(b)
  <2>1. CASE b # c
    <3>1. new = old
      BY SMTT(20), <1>1, <1>4, <2>1 DEF Removes, MailTypes
    <3> QED
      BY SMTT(20), <1>2, <3>1
  <2>2. CASE b = c
    <3>1. PICK at \in [1..Len(new) -> 1..Len(old)] :
              \A i \in 1..Len(new) : new[i] = old[at[i]]
      BY SMTT(20), <1>4, <2>2, RemovesEffect
    <3>2. new \in Seq(Messages)
      BY SMTT(20), <1>4, <2>2, RemovesEffect DEF MailTypes
    <3>3. \A i \in DOMAIN new : at[i] \in DOMAIN old /\ new[i] = old[at[i]]
      <4> HIDE DEF new, old
      <4> QED BY SMTT(20), <1>1, <3>1, <3>2
    <3> QED
      BY Zenon, <1>1, <3>3, OnePosition DEF KeepsMessages
  <2> QED
    BY SMTT(20), <2>1, <2>2
<1>5. ASSUME NEW s \in Sessions, NEW p \in Positions, NEW flags \in SUBSET Flags,
             NEW action \in {"set", "add", "del"}, Marks(s, p, action, flags)
      PROVE  KeepsMessages(b)
  <2>1. b # selected[s]
    BY SMTT(20), <1>5 DEF Marks, ReadsOnly
  <2>2. new = old
    BY SMTT(20), <1>1, <1>5, <2>1, MarksEffect DEF MailTypes
  <2> QED
    BY SMTT(20), <1>2, <2>2
<1>6. ASSUME NEW c \in Boxes, NEW ms \in Seq(Messages), Adds(c, ms)
      PROVE  KeepsMessages(b)
  <2>1. CASE b # c
    <3>1. new = old
      BY SMTT(20), <1>1, <1>6, <2>1, AddsEffect DEF MailTypes
    <3> QED
      BY SMTT(20), <1>2, <3>1
  <2>2. CASE b = c
    <3>1. /\ new \in Seq(Messages) /\ uidNext[b] \in Nat /\ Len(ms) \in Nat
          /\ Len(new) = Len(old) + Len(ms)
      BY SMTT(20), <1>6, <2>2, AddsEffect DEF MailTypes
    <3>2. /\ \A i \in 1..Len(old) : new[i] = old[i]
          /\ \A i \in 1..Len(ms) : new[Len(old) + i].uid = uidNext[b] + i - 1
      BY SMTT(20), <1>6, <2>2, AddsEffect
    <3>3. ASSUME NEW i \in DOMAIN old, NEW j \in DOMAIN new,
                 new[j].uid = old[i].uid
          PROVE  j \in DOMAIN old /\ new[j] = old[j]
      <4>1. old[i].uid < uidNext[b] /\ old[i].uid \in Nat
        BY SMTT(20), <1>1, UidType DEF UidsAscend
      <4> HIDE DEF new, old
      <4>2. CASE j \in 1..Len(old)
        BY SMTT(20), <1>1, <3>2, <4>2
      <4>3. CASE j \notin 1..Len(old)
        <5>1. j - Len(old) \in 1..Len(ms) /\ Len(old) + (j - Len(old)) = j
          BY SMTT(20), <1>1, <3>1, <4>3
        <5>2. new[j].uid = uidNext[b] + (j - Len(old)) - 1
          BY Zenon, <3>2, <5>1
        <5> QED
          BY SMTT(20), <3>1, <3>3, <4>1, <5>1, <5>2
      <4> QED
        BY SMTT(20), <4>2, <4>3
    <3>4. ASSUME NEW i \in DOMAIN old, NEW j \in DOMAIN new,
                 new[j].uid = old[i].uid
          PROVE  new[j] = old[i]
      <4>1. j \in DOMAIN old /\ new[j] = old[j]
        BY Zenon, <3>3, <3>4
      <4>2. i = j
        BY Zenon, <1>1, <3>4, <4>1, OnePosition
      <4> QED
        BY Zenon, <4>1, <4>2
    <3> QED
      BY Zenon, <3>4 DEF KeepsMessages
  <2> QED
    BY SMTT(20), <2>1, <2>2
<1> QED
  BY Zenon, MailShape, <1>3, <1>4, <1>5, <1>6 DEF MailStep

\* The rounds of the loop that Replayed stands for.
LEMMA ReplayedRounds ==
    ASSUME NEW list, NEW nums, Len(nums) \in Nat
    PROVE  \E after :
               /\ after[0] = list
               /\ \A n \in 1..Len(nums) : after[n] = RemoveAt(after[n - 1], nums[n])
               /\ Replayed(list, nums) = after[Len(nums)]
<1> DEFINE Loop(k, g) ==
              /\ DOMAIN g = 0..k
              /\ g[0] = list
              /\ \A n \in 1..k : g[n] = RemoveAt(g[n - 1], nums[n])
           G == {k \in 0..Len(nums) : \E g : Loop(k, g)}
<1>1. 0 \in G
  <2>1. Loop(0, [n \in 0..0 |-> list])
    OBVIOUS
  <2> HIDE DEF Loop
  <2> QED
    BY <2>1
<1>2. \A k \in 0..(Len(nums) - 1) : k \in G => k + 1 \in G
  <2> SUFFICES ASSUME NEW k \in 0..(Len(nums) - 1), NEW g, Loop(k, g)
               PROVE  k + 1 \in G
    BY Zenon
  <2> DEFINE h == [n \in 0..(k + 1) |-> IF n = k + 1 THEN RemoveAt(g[k], nums[k + 1])
                                        ELSE g[n]]
  <2>1. h[0] = list
    BY SMTT(20)
  <2>2. ASSUME NEW n \in 1..(k + 1)
        PROVE  h[n] = RemoveAt(h[n - 1], nums[n])
    <3>1. h[n - 1] = g[n - 1] /\ n - 1 \in 0..k
      OBVIOUS
    <3>2. CASE n = k + 1
      BY SMTT(20), <3>1, <3>2
    <3>3. CASE n # k + 1
      BY SMTT(20), <3>1, <3>3
    <3> QED
      BY SMTT(20), <3>2, <3>3
  <2>3. DOMAIN h = 0..(k + 1)
    BY Zenon
  <2> HIDE DEF h
  <2>4. Loop(k + 1, h)
    BY Zenon, <2>1, <2>2, <2>3
  <2>5. k + 1 \in 0..Len(nums)
    OBVIOUS
  <2> HIDE DEF Loop
  <2> QED
    BY Zenon, <2>4, <2>5
<1>3. \A k \in 0..Len(nums) : k \in G
  <2> HIDE DEF G
  <2> QED BY SMTT(20), <1>1, <1>2, SetInduction
<1>4. PICK g : Loop(Len(nums), g)
  BY SMTT(20), <1>3
<1> DEFINE F(f) == [n \in 0..Len(nums) |-> IF n = 0 THEN list
                                           ELSE RemoveAt(f[n - 1], nums[n])]
           f0 == [n \in 0..Len(nums) |-> g[n]]
           after == CHOOSE f : f = F(f)
<1>5. f0 = F(f0)
  <2>1. ASSUME NEW n \in 0..Len(nums) PROVE f0[n] = F(f0)[n]
    <3>1. CASE n = 0
      BY SMTT(20), <1>4, <3>1
    <3>2. CASE n # 0
      <4>1. n \in 1..Len(nums) /\ n - 1 \in 0..Len(nums)
        BY SMTT(20), <3>2
      <4>2. f0[n] = RemoveAt(f0[n - 1], nums[n])
        BY Zenon, <1>4, <4>1
      <4> QED
        BY SMTT(20), <3>2, <4>2
    <3> QED
      BY SMTT(20), <3>1, <3>2
  <2> QED
    BY SMTT(20), <2>1
<1>6. after = F(after)
  BY Zenon, <1>5
<1>7. Replayed(list, nums) = after[Len(nums)]
  BY Zenon DEF Replayed
<1> HIDE DEF after
<1>8. \A n \in 0..Len(nums) : after[n] = IF n = 0 THEN list
                                         ELSE RemoveAt(after[n - 1], nums[n])
  BY Zenon, <1>6
<1> QED
  BY SMTT(20), <1>7, <1>8

\* RemoveAt on the first of the elements after a prefix.
LEMMA RemoveNext ==
    ASSUME NEW S, NEW a \in Seq(S), NEW ms \in Seq(S), NEW n \in 0..(Len(ms) - 1)
    PROVE  RemoveAt(a \o SubSeq(ms, n + 1, Len(ms)), Len(a) + 1)
               = a \o SubSeq(ms, n + 2, Len(ms))
<1> DEFINE s == a \o SubSeq(ms, n + 1, Len(ms))
<1>1. (Len(a) + 1) - 1 = Len(a) /\ (Len(a) + 1) + 1 = Len(a) + 2
  OBVIOUS
<1>2. SubSeq(s, 1, Len(a)) \o SubSeq(s, Len(a) + 2, Len(s)) = a \o SubSeq(ms, n + 2, Len(ms))
  BY Zenon, MoveOne
<1> HIDE DEF s
<1>3. RemoveAt(s, Len(a) + 1) = SubSeq(s, 1, Len(a)) \o SubSeq(s, Len(a) + 2, Len(s))
  BY Zenon, <1>1 DEF RemoveAt
<1> QED
  BY Zenon, <1>2, <1>3 DEF s

\* Sequence numbers, lowered by those before them, remove from a list what they
\* name.
LEMMA ReportsReplay ==
    ASSUME NEW S, NEW ms \in Seq(S), NEW uids
    PROVE  Replayed(ms, Reported(ms, uids)) = Remaining(ms, uids)
<1> DEFINE L == Len(ms)
           E == Expunged(ms, uids)
           ids == [i \in DOMAIN ms |-> i]
           rep == Reported(ms, uids)
<1>1. L \in Nat /\ DOMAIN ms = 1..L /\ E \subseteq 1..L /\ L \in 0..L
  BY DEF Expunged
<1>2. ids \in Seq(Nat) /\ Len(ids) = L /\ \A i \in 1..L : ids[i] = i
  BY <1>1
<1>3. PICK num \in [0..L -> Seq(Nat)] :
          CollectedUpTo(num, ids, E) /\ SeqNums(ms, uids) = num[L]
  <2>1. \E num \in [0..Len(ids) -> Seq(Nat)] :
            CollectedUpTo(num, ids, E) /\ Collected(ids, E) = num[Len(ids)]
    <3> HIDE DEF ids, E
    <3> QED BY Zenon, <1>2, CollectedRounds
  <2>2. SeqNums(ms, uids) = Collected(ids, E)
    BY Zenon DEF SeqNums
  <2> QED
    BY Zenon, <1>2, <2>1, <2>2
<1>4. PICK rem \in [0..L -> Seq(S)] :
          CollectedUpTo(rem, ms, (1..L) \ E) /\ Remaining(ms, uids) = rem[L]
  BY Zenon, <1>1, CollectedRounds DEF Remaining
<1> HIDE DEF E, ids, L
<1>t. \A n \in 0..L : num[n] \in Seq(Nat) /\ rem[n] \in Seq(S)
  BY Zenon, <1>3, <1>4
<1>5. /\ num[0] = <<>>
      /\ \A n \in 1..L : num[n] = IF n \in E THEN Append(num[n - 1], n) ELSE num[n - 1]
  BY SMTT(20), <1>2, <1>3 DEF CollectedUpTo
<1>6. /\ rem[0] = <<>>
      /\ \A n \in 1..L : rem[n] = IF n \in E THEN rem[n - 1]
                                  ELSE Append(rem[n - 1], ms[n])
  BY Zenon, <1>4, Len(ms) = L DEF CollectedUpTo, L
<1>7. rep = [i \in 1..Len(num[L]) |-> num[L][i] - (i - 1)] /\ Len(rep) = Len(num[L])
  <2>1. num[L] \in Seq(Nat)
    BY Zenon, <1>1, <1>3
  <2>2. rep = [i \in DOMAIN num[L] |-> num[L][i] - (i - 1)]
    BY Zenon, <1>3 DEF Reported
  <2> QED
    BY <2>1, <2>2
<1> HIDE DEF rep
<1>8. PICK after : /\ after[0] = ms
                   /\ \A n \in 1..Len(rep) : after[n] = RemoveAt(after[n - 1], rep[n])
                   /\ Replayed(ms, rep) = after[Len(rep)]
  <2>1. Len(rep) \in Nat
    BY <1>1, <1>3, <1>7
  <2> QED
    BY Zenon, <2>1, ReplayedRounds
\* What has been collected of the numbers is the beginning of what is reported.
<1> DEFINE Begins(n) == /\ Len(num[n]) <= Len(num[L])
                        /\ \A i \in 1..Len(num[n]) : num[L][i] = num[n][i]
           B == {n \in 0..L : Begins(L - n)}
<1>9. \A n \in 0..L : Begins(n)
  <2>1. 0 \in B
    BY <1>1, <1>3
  <2>2. \A n \in 0..(L - 1) : n \in B => n + 1 \in B
    <3> SUFFICES ASSUME NEW n \in 0..(L - 1), Begins(L - n)
                 PROVE  Begins(L - (n + 1))
      <4>1. \A n \in 0..(L - 1) : n + 1 \in 0..L
        BY <1>1
      <4> HIDE DEF Begins
      <4> QED BY Zenon, <4>1
    <3> DEFINE m == L - n
    <3>i. m \in 1..L /\ L - (n + 1) = m - 1 /\ m - 1 \in 0..L
      BY <1>1
    <3>1. m \in 1..L /\ L - (n + 1) = m - 1 /\ num[m - 1] \in Seq(Nat) /\ num[L] \in Seq(Nat)
      BY Zenon, <1>1, <1>t, <3>i
    <3>2. num[m] = num[m - 1] \/ num[m] = Append(num[m - 1], m)
      BY Zenon, <1>5, <3>1
    <3> HIDE DEF m
    <3>3. /\ Len(num[m - 1]) <= Len(num[m])
          /\ \A i \in 1..Len(num[m - 1]) : num[m][i] = num[m - 1][i] /\ i \in 1..Len(num[m])
      <4> DEFINE a == num[m - 1]
      <4>1. a \in Seq(Nat) /\ m \in Nat
        BY SMTT(20), <1>1, <3>1
      <4> HIDE DEF a
      <4>2. Len(a) <= Len(a) /\ \A i \in 1..Len(a) : a[i] = a[i] /\ i \in 1..Len(a)
        BY <4>1
      <4>3. /\ Len(a) <= Len(Append(a, m))
            /\ \A i \in 1..Len(a) : Append(a, m)[i] = a[i] /\ i \in 1..Len(Append(a, m))
        BY <4>1
      <4> QED
        BY Zenon, <3>2, <4>2, <4>3 DEF a
    <3> QED
      BY <3>1, <3>3 DEF m
  <2>3. \A n \in 0..L : n \in B
    <3> HIDE DEF B
    <3> QED BY Zenon, <1>1, <2>1, <2>2, SetInduction
  <2> SUFFICES ASSUME NEW n \in 0..L PROVE Begins(n)
    BY Zenon
  <2>4. L - n \in 0..L /\ L - (L - n) = n
    BY <1>1
  <2> QED
    BY SMTT(20), <2>3, <2>4
<1> HIDE DEF Begins
\* After the reports on the first n messages, the list holds what remains of
\* those, and all that follow.
<1> DEFINE Left(n) == /\ Len(rem[n]) + Len(num[n]) = n
                      /\ after[Len(num[n])] = rem[n] \o SubSeq(ms, n + 1, L)
           G == {n \in 0..L : Left(n)}
<1>10. 0 \in G
  <2>1. Len(rem[0]) = 0 /\ Len(num[0]) = 0
    BY SMTT(20), <1>5, <1>6
  <2>2. SubSeq(ms, 1, L) = ms
    BY DEF L
  <2>3. <<>> \o ms = ms
    BY SMTT(20)
  <2> QED
    <3>1. 0 \in 0..L /\ 0 + 1 = 1 /\ 0 + 0 = 0
      BY SMTT(20), <1>1
    <3> QED
      BY Zenon, <1>6, <1>8, <2>1, <2>2, <2>3, <3>1
<1>11. \A n \in 0..(L - 1) : n \in G => n + 1 \in G
  <2> SUFFICES ASSUME NEW n \in 0..(L - 1), Left(n)
               PROVE  Left(n + 1)
    <3>1. \A n \in 0..(L - 1) : n + 1 \in 0..L
      BY <1>1
    <3> QED BY Zenon, <3>1
  <2>i. /\ n + 1 \in 1..L /\ (n + 1) - 1 = n /\ n \in 0..L /\ n \in Nat /\ (n + 1) + 1 = n + 2
    BY SMTT(20), <1>1
  <2>m. ms[n + 1] \in S
    BY SMTT(20), <1>1, <2>i
  <2>1. /\ n + 1 \in 1..L /\ (n + 1) - 1 = n /\ n \in 0..L /\ n \in Nat /\ (n + 1) + 1 = n + 2
        /\ num[n] \in Seq(Nat) /\ rem[n] \in Seq(S) /\ ms[n + 1] \in S
    BY Zenon, <1>t, <2>i, <2>m
  <2>2. /\ RemoveAt(rem[n] \o SubSeq(ms, n + 1, L), Len(rem[n]) + 1)
               = rem[n] \o SubSeq(ms, n + 2, L)
        /\ Append(rem[n], ms[n + 1]) \o SubSeq(ms, n + 2, L)
               = rem[n] \o SubSeq(ms, n + 1, L)
    BY Zenon, <2>1, RemoveNext, MoveOne DEF L
  <2>3. CASE n + 1 \notin E
    <3>1. num[n + 1] = num[n] /\ rem[n + 1] = Append(rem[n], ms[n + 1])
      BY Zenon, <1>5, <1>6, <2>1, <2>3
    <3>2. Len(rem[n + 1]) = Len(rem[n]) + 1
      BY SMTT(20), <2>1, <3>1
    <3>3. Len(rem[n + 1]) + Len(num[n + 1]) = n + 1
      BY SMTT(20), <2>1, <3>1, <3>2
    <3> QED
      BY Zenon, <2>1, <2>2, <3>1, <3>3
  <2>4. CASE n + 1 \in E
    <3> DEFINE k == Len(num[n])
    <3>1. num[n + 1] = Append(num[n], n + 1) /\ rem[n + 1] = rem[n]
      BY ZenonT(30), <1>5, <1>6, <2>1, <2>4
    <3>2. Len(num[n + 1]) = k + 1 /\ num[n + 1][k + 1] = n + 1 /\ k \in Nat
      BY SMTT(20), <2>1, <3>1
    <3>3. k + 1 \in 1..Len(num[L]) /\ num[L][k + 1] = n + 1
      <4>1. num[L] \in Seq(Nat)
        BY Zenon, <1>1, <1>t
      <4> QED
        BY SMTT(20), <1>9, <2>1, <3>2, <4>1 DEF Begins
    <3>4. rep[k + 1] = Len(rem[n]) + 1
      <4>1. rep[k + 1] = (n + 1) - ((k + 1) - 1)
        BY Zenon, <1>7, <3>3
      <4> QED
        BY SMTT(20), <2>1, <3>2, <4>1
    <3>5. after[k + 1] = RemoveAt(after[k], rep[k + 1])
      <4>1. (k + 1) - 1 = k
        BY <3>2
      <4> QED
        BY Zenon, <1>7, <1>8, <3>3, <4>1
    <3>6. Len(rem[n + 1]) + Len(num[n + 1]) = n + 1
      <4>1. Len(rem[n]) \in Nat /\ Len(rem[n]) + k = n
        BY <2>1
      <4>2. Len(rem[n + 1]) = Len(rem[n])
        BY Zenon, <3>1
      <4> HIDE DEF k
      <4>3. \A x, y \in Nat : x + y = n => x + (y + 1) = n + 1
        BY <2>1
      <4> QED
        BY Zenon, <3>2, <4>1, <4>2, <4>3
    <3> QED
      BY Zenon, <2>1, <2>2, <3>1, <3>2, <3>4, <3>5, <3>6
  <2> QED
    BY ZenonT(30), <2>3, <2>4
<1>12. Left(L)
  <2>1. \A n \in 0..L : n \in G
    <3> HIDE DEF G
    <3> QED BY Zenon, <1>1, <1>10, <1>11, SetInduction
  <2> QED
    BY Zenon, <1>1, <2>1
<1>13. rem[L] \o SubSeq(ms, L + 1, L) = rem[L]
  <2>1. rem[L] \in Seq(S)
    BY Zenon, <1>1, <1>4
  <2> QED
    BY <1>1, <2>1
<1> QED
  BY Zenon, <1>4, <1>7, <1>8, <1>12, <1>13 DEF rep

\* The inductive invariant of the theorems below.
StoreInv == Types /\ MailTypes /\ SessionTypes /\ UidsAscend

\* The invariant holds at the start.
LEMMA StoreInvInit == Init => StoreInv
<1> SUFFICES ASSUME Init PROVE StoreInv
  BY SMTT(20)
<1> USE StoreAssumption
<1>1. Types /\ SessionTypes
  BY DEF Init, Types, SessionTypes, Boxes, None
<1>2. MailTypes
  BY DEF Init, MailTypes
<1>3. UidsAscend
  BY DEF Init, UidsAscend
<1> QED
  BY SMTT(20), <1>1, <1>2, <1>3 DEF StoreInv

\* Every step keeps the invariant.
LEMMA StoreInvStep == StoreInv /\ [Next]_vars => StoreInv'
BY Zenon, TypesStep, MailTypesStep, SessionTypesStep, AscendStep DEF StoreInv

\* Every variable of the in-memory backend keeps its type, whatever the sessions'
\* handlers do and wherever they are interrupted (backend.go, session.go,
\* mailbox.go).
THEOREM StoreTypes == Spec => []TypeOK
<1>1. StoreInv => TypeOK
  BY Zenon DEF StoreInv, Types, MailTypes, SessionTypes, TypeOK
<1> QED
  BY <1>1, StoreInvInit, StoreInvStep, PTL DEF Spec

\* The messages of every mailbox stay in the order of their UIDs and below
\* UIDNext through the appends, copies and expunges of any number of sessions:
\* Mailbox.AppendMessage and CopyMessagesTo take a UID and count it up under the
\* mailbox's lock, and Expunge keeps the order of what it leaves.
THEOREM UidsStayInOrder == Spec => []UidsAscend
<1>1. StoreInv => UidsAscend
  BY Zenon DEF StoreInv
<1> QED
  BY <1>1, StoreInvInit, StoreInvStep, PTL DEF Spec

\* No step gives a UID of a mailbox to a second message, or changes the body of
\* the message that has it: what AppendMessage and CopyMessagesTo add has a UID
\* from UIDNext on, Expunge only takes messages away, and SetFlags only changes
\* flags.
THEOREM UidsAreNotReused == Spec => UidsNameOneMessage
<1>1. StoreInv /\ [Next]_vars => [\A b \in Boxes : NamesOneMessage(b)]_vars
  BY Zenon, UidStep DEF StoreInv
<1> QED
  BY <1>1, StoreInvInit, StoreInvStep, PTL DEF Spec, UidsNameOneMessage

\* The messages of a mailbox that one session has examined, and no other session
\* has selected, keep their flags: Session.Store and Session.Fetch change flags
\* only in the mailbox of a session that may write, and neither APPEND nor COPY
\* from elsewhere touches a message that is there.
THEOREM ExamineChangesNothing == Spec => ExamineKeepsFlags
<1>1. StoreInv /\ [Next]_vars
          => [\A s \in Sessions : ReadsOnly(s) => KeepsMessages(selected[s])]_vars
  BY Zenon, ExamineStep DEF StoreInv
<1> QED
  BY <1>1, StoreInvInit, StoreInvStep, PTL DEF Spec, ExamineKeepsFlags

\* For every mailbox and every set of UIDs, a client that replays the sequence
\* numbers Mailbox.Expunge reports is left with the messages the mailbox keeps:
\* each number allows for the messages reported before it.
THEOREM ExpungesReplay == Spec => []ExpungeReplays
<1>1. StoreInv => ExpungeReplays
  BY Zenon, ReportsReplay DEF StoreInv, MailTypes, ExpungeReplays
<1> QED
  BY <1>1, StoreInvInit, StoreInvStep, PTL DEF Spec

===============================================================================
