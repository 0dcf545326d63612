------------------------------ MODULE MCSearch ------------------------------
\* Search with a few keys and small mailboxes.
EXTENDS Search

CONSTANT MaxKeys   \* the longest list of search keys

Msg(uid, flags, size, text, fresh) ==
    [uid |-> uid, flags |-> flags, size |-> size, text |-> text, fresh |-> fresh]

\* UIDs have gaps; one message is empty.
MCMailboxes ==
    {<<>>,
     <<Msg(1, {"seen"}, 1, TRUE, TRUE), Msg(3, {}, 0, FALSE, FALSE),
       Msg(4, {"recent"}, 2, TRUE, TRUE)>>,
     <<Msg(2, {"recent"}, 2, FALSE, FALSE), Msg(5, {"seen", "recent"}, 3, TRUE, TRUE)>>}

Key(name) == [key |-> name, set |-> <<>>, num |-> 0]
Rng(a, b) == [start |-> a, stop |-> b]

Sets == {<<Rng(2, 2)>>, <<Rng(3, 1)>>, <<Rng(2, 0)>>, <<Rng(0, 0)>>, <<Rng(1, 1), Rng(3, 5)>>}

MCKeys ==
    {Key(name) : name \in {"SEEN", "UNSEEN", "NEW", "TEXT", "NOT", "OR", "(",
                              "SINCE"}}
    \cup {[key |-> name, set |-> s, num |-> 0] : name \in {"set", "UID"}, s \in Sets}
    \cup {[key |-> "YOUNGER", set |-> <<Rng(n, n)>>, num |-> 0] : n \in {1, 5}}
    \cup {[key |-> name, set |-> <<>>, num |-> n] : name \in {"LARGER", "SMALLER"}, n \in {0, 2}}

KeyLists == UNION {[1..n -> MCKeys] : n \in 1..MaxKeys}

\* All sets of one or two ranges.
Ranges == {Rng(a, b) : a, b \in 0..5}
AllSets == {<<r>> : r \in Ranges} \cup {<<r, s>> : r, s \in Ranges}

MCRequests ==
    {[cmd |-> "SEARCH", uid |-> FALSE, keys |-> ks, set |-> <<>>] : ks \in KeyLists}
    \cup {[cmd |-> "SEARCH", uid |-> TRUE, keys |-> <<k>>, set |-> <<>>] : k \in MCKeys}
    \cup {[cmd |-> "FETCH", uid |-> u, keys |-> <<>>, set |-> s] : u \in BOOLEAN, s \in AllSets}
=============================================================================
