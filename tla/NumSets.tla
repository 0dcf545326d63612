------------------------------ MODULE NumSets ------------------------------
(***************************************************************************)
(* numset.go: sets of message numbers, how they are printed and parsed and *)
(* what they contain, and the part of wire/decoder.go they are read with.  *)
(*                                                                         *)
(* A set is a sequence of ranges, in which 0 stands for "*".  A text is a  *)
(* sequence of characters.  Numbers have one digit.                        *)
(***************************************************************************)
EXTENDS Integers, Sequences, SequencesExt

Text == Seq(STRING)

Digits == <<"1", "2", "3", "4", "5", "6", "7", "8", "9">>

FormatUint(n) == IF n = 0 THEN <<"0">> ELSE <<Digits[n]>>

\* NumRange.String: a range of one number is printed as the number, 0 included.
RangeString(r) ==
    IF r.start = r.stop THEN FormatUint(r.start)
    ELSE FormatUint(r.start) \o <<":">> \o (IF r.stop = 0 THEN <<"*">> ELSE FormatUint(r.stop))

RECURSIVE FormatNumSet(_)
FormatNumSet(ranges) ==
    IF ranges = <<>> THEN <<>>
    ELSE IF Len(ranges) = 1 THEN RangeString(ranges[1])
    ELSE RangeString(Head(ranges)) \o <<",">> \o FormatNumSet(Tail(ranges))

\* Where a character is first, just past the end if it is nowhere.
Find[sc \in Text \X STRING] ==
    CHOOSE i \in 1..Len(sc[1]) + 1 :
        /\ i = Len(sc[1]) + 1 \/ sc[1][i] = sc[2]
        /\ \A j \in 1..i - 1 : sc[1][j] # sc[2]

\* ReadAtom stops before the first character that no atom has; of those a set
\* has, that is "*".
ReadAtom[text \in Text] == SubSeq(text, 1, Find[<<text, "*">>] - 1)

-----------------------------------------------------------------------------
(* Parsing: the set of results, which is empty for an error *)

ParseSeqNum(s) ==
    IF s = <<"*">> THEN {0} ELSE {n \in 1..Len(Digits) : s = <<Digits[n]>>}

ParseRange(part) ==
    LET colon == Find[<<part, ":">>]
        start == SubSeq(part, 1, colon - 1)
        stop == IF colon > Len(part) THEN part ELSE SubSeq(part, colon + 1, Len(part))
    IN  {[start |-> a, stop |-> b] : a \in ParseSeqNum(start), b \in ParseSeqNum(stop)}

\* (Functions rather than operators: TLC evaluates their arguments once.)
ParseNumSet[s \in Text] ==
    LET comma == Find[<<s, ",">>]
    IN  IF comma > Len(s) THEN {<<r>> : r \in ParseRange(s)}
        ELSE {<<r>> \o rs : r \in ParseRange(SubSeq(s, 1, comma - 1)),
                            rs \in ParseNumSet[SubSeq(s, comma + 1, Len(s))]}

-----------------------------------------------------------------------------
(* Membership *)

Between(num, a, b) == (a <= num /\ num <= b) \/ (b <= num /\ num <= a)

\* NumRange.Contains, and the sets' Contains.
RangeContains(r, num) ==
    IF r.stop = 0 THEN num >= r.start ELSE Between(num, r.start, r.stop)

SetContains(ranges, num) == \E i \in DOMAIN ranges : RangeContains(ranges[i], num)

NumSetContains_OneWay(ranges, num, maxNum) ==
    LET Resolve(n) == IF n = 0 THEN maxNum ELSE n
    IN  \E i \in DOMAIN ranges :
            Resolve(ranges[i].start) <= num /\ num <= Resolve(ranges[i].stop)

\* numSetContains of the memory server, where "*" is the last message.
NumSetContains(ranges, num, maxNum) ==
    LET Resolve(n) == IF n = 0 THEN maxNum ELSE n
    IN  \E i \in DOMAIN ranges :
            Between(num, Resolve(ranges[i].start), Resolve(ranges[i].stop))
=============================================================================
