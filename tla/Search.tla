------------------------------- MODULE Search -------------------------------
(***************************************************************************)
(* How a request names messages: the search keys that parseSearchCriteria  *)
(* reads and matchesCriteria applies, and the message set of FETCH, STORE, *)
(* COPY and MOVE that the memory server resolves.  The client prints the   *)
(* sets with the library's own NumSet types.                               *)
(*                                                                         *)
(* A key has its name, the set it is given (if it is a set, or UID) and    *)
(* its number (LARGER, SMALLER).  TEXT stands for the keys with a string,  *)
(* here always the same one.  "(" begins a list of keys, and SINCE stands  *)
(* for the keys without effect: the dates, which the parser does not know, *)
(* and MODSEQ and the SAVED dates, which it reads and no one applies.      *)
(* YOUNGER stands for the keys it does not know that take a number, here   *)
(* in the set they are given.                                              *)
(***************************************************************************)
EXTENDS NumSets, FiniteSets

CONSTANTS Mailboxes,   \* sequences of messages [uid, flags, size, text, fresh]
          Requests     \* [cmd, uid, keys, set]

VARIABLES mbox,        \* the messages of the selected mailbox
          req,         \* the request
          keys,        \* search keys not read yet
          stack,       \* the criteria being filled in, those of the last NOT on top
          stage,       \* "parse", "done", "bad"
          found        \* the numbers that are returned

vars == <<mbox, req, keys, stack, stage, found>>

NoCriteria == [seq |-> {}, uid |-> {}, flag |-> {}, notFlag |-> {}, larger |-> 0,
               smaller |-> 0, text |-> FALSE, not |-> <<>>]

\* One request, in whatever mailbox is selected: requests share nothing here.
Init ==
    /\ mbox \in Mailboxes /\ req \in Requests /\ keys = req.keys
    /\ stack = IF req.cmd = "SEARCH" THEN <<NoCriteria>> ELSE <<>>
    /\ stage = "parse" /\ found = {}

Number(i) == IF req.uid THEN mbox[i].uid ELSE i

-----------------------------------------------------------------------------
(* Parsing *)

\* One key but NOT: the possible criteria, none for an error.  A key that is no
\* set either is ignored, and what it was given is read as the next key: the number
\* of YOUNGER is a set, a date is nothing.
Criterion(c, k) ==
    LET text == ReadAtom[FormatNumSet(k.set)]
    IN  CASE k.key = "SEEN" -> {[c EXCEPT !.flag = @ \cup {"seen"}]}
          [] k.key = "UNSEEN" -> {[c EXCEPT !.notFlag = @ \cup {"seen"}]}
          [] k.key = "NEW" -> {[c EXCEPT !.flag = @ \cup {"recent"},
                                         !.notFlag = @ \cup {"seen"}]}
          [] k.key = "LARGER" -> {[c EXCEPT !.larger = k.num]}
          [] k.key = "SMALLER" -> {[c EXCEPT !.smaller = k.num]}
          [] k.key = "TEXT" -> {[c EXCEPT !.text = TRUE]}
          [] k.key = "UID" -> {[c EXCEPT !.uid = {s}] : s \in ParseNumSet[text]}
          [] k.key \in {"set", "YOUNGER"} ->
                 {[c EXCEPT !.seq = IF ParseNumSet[text] = {} THEN @
                              ELSE ParseNumSet[text]]}
          [] OTHER -> {c}

HasStar(ranges) == "*" \in ToSet(FormatNumSet(ranges))

\* The criteria of a NOT are complete, and go to those around it.
Pop(s) == Append(SubSeq(s, 1, Len(s) - 2), [s[Len(s) - 1] EXCEPT !.not = Append(@, Last(s))])

\* After a key the parser expects a space. The * of a set is there instead: this
\* loop ends, and the one around it goes on after the *.
ReadKey ==
    /\ stage = "parse" /\ keys # <<>> /\ Head(keys).key \notin {"NOT", "("}
    /\ LET k == Head(keys)
           read == Criterion(Last(stack), k)
           ends == k.key = "set" /\ HasStar(k.set)
       IN  IF read = {} THEN stage' = "bad" /\ UNCHANGED <<keys, stack>>
           ELSE /\ \E c \in read :
                      LET s == Append(Front(stack), c)
                      IN  stack' = IF ends /\ Len(stack) > 1 THEN Pop(s) ELSE s
                /\ keys' = IF ends /\ Len(stack) = 1 THEN <<>> ELSE Tail(keys)
                /\ UNCHANGED stage
    /\ UNCHANGED <<mbox, req, found>>

\* NOT takes everything that follows.
ReadNot ==
    /\ stage = "parse" /\ keys # <<>> /\ Head(keys).key = "NOT"
    /\ keys' = Tail(keys)
    /\ IF keys' = <<>> THEN stage' = "bad" /\ UNCHANGED stack
       ELSE stack' = Append(stack, NoCriteria) /\ UNCHANGED stage
    /\ UNCHANGED <<mbox, req, found>>

\* No atom begins with "(", which ends the criteria.
ReadList ==
    /\ stage = "parse" /\ keys # <<>> /\ Head(keys).key = "("
    /\ keys' = <<>>
    /\ UNCHANGED <<mbox, req, stack, stage, found>>

EndNot ==
    /\ stage = "parse" /\ keys = <<>> /\ Len(stack) > 1
    /\ stack' = Pop(stack)
    /\ UNCHANGED <<mbox, req, keys, stage, found>>

-----------------------------------------------------------------------------
(* Searching *)

RECURSIVE Matches_IgnoresNot(_, _)
Matches_IgnoresNot(i, c) ==
    /\ \A s \in c.seq : SetContains(s, i)
    /\ \A s \in c.uid : SetContains(s, mbox[i].uid)
    /\ c.flag \subseteq mbox[i].flags
    /\ c.larger > 0 => mbox[i].size > c.larger
    /\ c.smaller > 0 => mbox[i].size < c.smaller
    /\ c.text => mbox[i].text
    /\ \A j \in DOMAIN c.not : ~Matches_IgnoresNot(i, c.not[j])

\* matchesCriteria
RECURSIVE Matches(_, _)
Matches(i, c) ==
    /\ \A s \in c.seq : SetContains(s, i)
    /\ \A s \in c.uid : SetContains(s, mbox[i].uid)
    /\ c.flag \subseteq mbox[i].flags /\ c.notFlag \cap mbox[i].flags = {}
    /\ c.larger > 0 => mbox[i].size > c.larger
    /\ c.smaller > 0 => mbox[i].size < c.smaller
    /\ c.text => mbox[i].text
    /\ \A j \in DOMAIN c.not : ~Matches(i, c.not[j])

SearchMessages ==
    /\ stage = "parse" /\ keys = <<>> /\ Len(stack) = 1
    /\ found' = {Number(i) : i \in {i \in DOMAIN mbox : Matches(i, stack[1])}}
    /\ stage' = "done"
    /\ UNCHANGED <<mbox, req, keys, stack>>

\* A command with a message set: one that is not read to its end is refused.
MatchMessages ==
    /\ stage = "parse" /\ req.cmd = "FETCH"
    /\ LET sets == ParseNumSet[ReadAtom[FormatNumSet(req.set)]]
       IN  IF sets = {} \/ HasStar(req.set)
           THEN stage' = "bad" /\ UNCHANGED found
           ELSE /\ stage' = "done"
                /\ \E s \in sets :
                      found' = {Number(i) : i \in {i \in DOMAIN mbox :
                                    NumSetContains(s, Number(i), Len(mbox))}}
    /\ UNCHANGED <<mbox, req, keys, stack>>

Next == ReadKey \/ ReadNot \/ ReadList \/ EndNot \/ SearchMessages \/ MatchMessages

\* The parser and the search are loops over memory.
Spec == Init /\ [][Next]_vars

-----------------------------------------------------------------------------
(* What the keys mean: every key holds, and NOT and OR apply to the next ones *)

LastNumber(kind) == IF mbox = <<>> THEN 0 ELSE IF kind = "UID" THEN Last(mbox).uid ELSE Len(mbox)

\* The numbers of a set, where * is the largest number in use.
Members(ranges, kind) ==
    LET N(n) == IF n = 0 THEN LastNumber(kind) ELSE n
    IN  UNION {(N(ranges[i].start)..N(ranges[i].stop)) \cup (N(ranges[i].stop)..N(ranges[i].start))
               : i \in DOMAIN ranges}

Meant(k) ==
    {i \in DOMAIN mbox :
        CASE k.key = "SEEN" -> "seen" \in mbox[i].flags
          [] k.key = "UNSEEN" -> "seen" \notin mbox[i].flags
          [] k.key = "NEW" -> "seen" \notin mbox[i].flags /\ "recent" \in mbox[i].flags
          [] k.key = "LARGER" -> mbox[i].size > k.num
          [] k.key = "SMALLER" -> mbox[i].size < k.num
          [] k.key = "TEXT" -> mbox[i].text
          [] k.key \in {"SINCE", "YOUNGER"} -> mbox[i].fresh
          [] k.key = "set" -> i \in Members(k.set, "set")
          [] k.key = "UID" -> mbox[i].uid \in Members(k.set, "UID")
          [] OTHER -> TRUE}

\* The messages that the first key of some stands for, and the keys after it.
RECURSIVE FirstKey(_)
FirstKey(ks) ==
    IF ks = <<>> THEN [is |-> DOMAIN mbox, rest |-> <<>>]
    ELSE IF Head(ks).key = "NOT"
    THEN LET one == FirstKey(Tail(ks)) IN [is |-> DOMAIN mbox \ one.is, rest |-> one.rest]
    ELSE IF Head(ks).key = "OR"
    THEN LET one == FirstKey(Tail(ks))
             two == FirstKey(one.rest)
         IN  [is |-> one.is \cup two.is, rest |-> two.rest]
    ELSE [is |-> Meant(Head(ks)), rest |-> Tail(ks)]

RECURSIVE AllKeys(_)
AllKeys(ks) ==
    IF ks = <<>> THEN DOMAIN mbox
    ELSE LET one == FirstKey(ks) IN one.is \cap AllKeys(one.rest)

Reference == {Number(i) : i \in AllKeys(req.keys)}

-----------------------------------------------------------------------------
(* Properties *)

Uses(names) == \E i \in DOMAIN req.keys : req.keys[i].key \in names
Repeats(name) ==
    \E i, j \in DOMAIN req.keys : i # j /\ req.keys[i].key = name /\ req.keys[j].key = name
Star(ranges) == \E i \in DOMAIN ranges : 0 \in {ranges[i].start, ranges[i].stop}

\* Requests that the parser reads as they are meant: no OR, list, date, age or *, NOT
\* only before the last key, no two sets or sizes of a kind, and no size of 0.
Understood ==
    /\ ~Uses({"OR", "(", "SINCE", "YOUNGER"})
    /\ \A name \in {"set", "UID", "LARGER", "SMALLER"} : ~Repeats(name)
    /\ \A i \in DOMAIN req.keys :
           /\ ~Star(req.keys[i].set)
           /\ req.keys[i].key = "NOT" => i >= Len(req.keys) - 1
           /\ req.keys[i].key \in {"LARGER", "SMALLER"} => req.keys[i].num > 0

\* SEARCH returns exactly the messages that match, for what the parser understands.
\* Of what it does not understand *, dates, lists, sizes of 0 and second sets only
\* widen a search: no message that matches is missed. NOT and OR may miss some, and
\* so may YOUNGER and OLDER, which WITHIN announces: their number is taken for a
\* set, so that a search for messages of the last hour finds message 3600.
SearchExact ==
    stage = "done" /\ req.cmd = "SEARCH" =>
        /\ Understood => found = Reference
        /\ ~Uses({"NOT", "OR", "YOUNGER"}) => Reference \subseteq found

\* A command with a message set without * is carried out for exactly the messages
\* of that set; printing, reading and parsing it on the way lose nothing.
SetExact ==
    stage \in {"done", "bad"} /\ req.cmd = "FETCH" /\ ~Star(req.set) =>
        /\ stage = "done"
        /\ found = {Number(i) : i \in DOMAIN mbox} \cap Members(req.set, "set")
=============================================================================
