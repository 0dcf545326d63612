------------------------------ MODULE Handlers ------------------------------
(***************************************************************************)
(* The command handlers of the packages under extensions/, and of the      *)
(* built-in handlers they wrap.                                            *)
(*                                                                         *)
(* A handler is the sequence of steps it takes for one request; module     *)
(* Extensions says what a step does and when it returns early.  A request  *)
(* x has the command (cmd), whether UID precedes it (uid), the set of      *)
(* syntax elements it uses that some handler treats in its own way (has,   *)
(* which holds "nothing" if there are no arguments at all) and what        *)
(* follows its line on the connection (tail).  x also has what a handler   *)
(* reads when it is called: the optional interfaces that the session       *)
(* implements (ifaces), the connection's state and enabled capabilities.   *)
(***************************************************************************)
EXTENDS Naturals, Sequences

-----------------------------------------------------------------------------
(* The steps *)

Step(do, call) == [do |-> do, call |-> call]

\* Arguments that may be wrong, answered BAD.
Args == Step("args", "none")
\* The literal that is next on the connection, and the ) that follows one.
Literal == Step("literal", "none")
Close == Step("close", "none")
\* The wrapped handler.
Original == Step("original", "none")
OK == Step("OK", "none")
NO == Step("NO", "none")
BAD == Step("BAD", "none")
\* A method of a nil Decoder.
Crash == Step("crash", "none")
\* A loop that consumes nothing, and the next line of the client.
Endless == Step("endless", "none")
More == Step("more", "none")

\* A call of the session: Try returns its error, TryNO answers NO for any error.
Try(method) == Step("try", method)
TryNO(method) == Step("tryNO", method)
\* GetSearchResult: in the search keys an error is BAD; as a message set it has
\* to have a result.
GetKey == Step("get", "GetSearchResult")
GetSet == Step("resolve", "GetSearchResult")
\* Numbers of the one kind are taken for numbers of the other.
Cast == Step("cast", "none")

\* SetState, SetMailbox, and Enabled().Add.
To(state) == Step("state", state)
ToOrNO(state) == Step("stateNO", state)
Name == Step("name", "none")
Unname == Step("unname", "none")
AddCaps == Step("enable", "none")

\* A call that is only made if the capability is enabled by then.
TryIfEnabled(cap, method) == [do |-> "tryIf", call |-> method, cap |-> cap]

-----------------------------------------------------------------------------
(* What handlers have in common *)

NoArgs(x) == "nothing" \in x.has
Uses(x, what) == what \in x.has
Implements(x, i) == i \in x.ifaces

\* if ctx.Decoder == nil { return BAD }
NotNil(x) == IF NoArgs(x) THEN <<BAD>> ELSE <<>>

\* The arguments are parsed by a handler that knows some of the syntax elements.
Parse(x, known) ==
    IF NoArgs(x) THEN <<Crash>> ELSE IF x.has \subseteq known THEN <<Args>> ELSE <<BAD>>

\* The message set of FETCH, the items and the modifiers after them. A partial
\* <offset.count> that something follows, the ) of the list or a modifier, is never
\* got over: ReadAtom takes it whole, finds no atom where it ends, and is called
\* again.
ParseItems(x, known) ==
    IF Uses(x, "partial") THEN Parse([x EXCEPT !.has = @ \cap {"$"}], known) \o <<Endless>>
    ELSE Parse(x, known)

Needs(x, i) == IF Implements(x, i) THEN <<>> ELSE <<NO>>
InState(x, states) == IF x.state \in states THEN <<>> ELSE <<BAD>>
Ready == {"auth", "selected"}

\* Where the messages are in what follows the line, and whether there are several.
Literals(x) == {i \in DOMAIN x.tail : x.tail[i] = "literal"}
Several(x) == \E i, j \in Literals(x) : i # j

\* What every RETURN list may ask for, in each of its parsers; RETURN stands for
\* a list with one of MIN, MAX, ALL and COUNT.
Basic == {"RETURN", "SAVE"}

-----------------------------------------------------------------------------
(* The built-in handlers that extensions wrap, and those that change the state *)

\* Search keys that no parser knows are skipped: $, FUZZY, and RETURN in the
\* built-in SEARCH, which then stops at the list after it.
Keys == {"$", "FUZZY"}

Builtin(x) ==
    CASE x.cmd = "LOGIN" ->
             NotNil(x) \o Parse(x, {}) \o <<Try("Login"), To("auth"), OK>>
      [] x.cmd \in {"SELECT", "EXAMINE"} ->
             NotNil(x) \o Parse(x, {"CONDSTORE", "QRESYNC", "SEQMATCH"})
                       \o <<Try("Select"), Name, To("selected"), OK>>
      [] x.cmd = "UNSELECT" ->
             <<Try("Unselect"), Unname, To("auth"), OK>>
      [] x.cmd = "ENABLE" ->
             NotNil(x) \o <<AddCaps, OK>>
      [] x.cmd = "CREATE" ->
             NotNil(x) \o Parse(x, {"USE"}) \o <<Try("Create"), OK>>
      [] x.cmd = "LIST" ->
             NotNil(x) \o Parse(x, {"RETURN"}) \o <<Try("List"), OK>>
      [] x.cmd = "APPEND" ->
             NotNil(x) \o Parse(x, {"binary"}) \o <<Literal, Try("Append"), OK>>
      [] x.cmd = "SEARCH" ->
             NotNil(x) \o Parse(x, Basic \cup Keys \cup {"PARTIAL", "UPDATE"})
                       \o <<Try("Search"), OK>>
      [] x.cmd = "FETCH" ->
             NotNil(x) \o ParseItems(x, {"CHANGEDSINCE", "VANISHED", "LAZY"})
                       \o <<Try("Fetch"), OK>>
      [] x.cmd = "STORE" ->
             NotNil(x) \o Parse(x, {}) \o <<Try("Store"), OK>>
      [] x.cmd = "COPY" ->
             NotNil(x) \o Parse(x, {}) \o <<Try("Copy"), OK>>
      [] x.cmd = "EXPUNGE" ->
             (IF x.uid /\ ~NoArgs(x) THEN <<Args>> ELSE <<>>) \o <<Try("Expunge"), OK>>

-----------------------------------------------------------------------------
(* CONDSTORE, QRESYNC *)

\* (UNCHANGEDSINCE n), where n = 0 counts as none.
StoreModifier == {"UNCHANGEDSINCE", "0"}
Conditional(x) == Uses(x, "UNCHANGEDSINCE") /\ ~Uses(x, "0")

\* UNCHANGEDSINCE without StoreConditional returns what Store returns, and with
\* it answers nothing.
CondstoreStore(x) ==
    NotNil(x) \o Parse(x, StoreModifier) \o
    (IF ~Conditional(x) THEN <<Try("Store"), OK>>
     ELSE IF Implements(x, "CondStore") THEN <<Try("StoreConditional"), OK>>
     ELSE <<Try("Store")>>)

CondstoreFetch(x) ==
    NotNil(x) \o ParseItems(x, {"CHANGEDSINCE"}) \o <<Try("Fetch"), OK>>

CondstoreSelect(x) ==
    NotNil(x) \o Parse(x, {"CONDSTORE"}) \o <<Try("Select"), Name, To("selected"), OK>>

Condstore(x) ==
    CASE x.cmd = "STORE" -> CondstoreStore(x)
      [] x.cmd = "FETCH" -> CondstoreFetch(x)
      [] x.cmd \in {"SELECT", "EXAMINE"} -> CondstoreSelect(x)

\* The parameters of QRESYNC: a known-uids set and a seq-match list are optional.
QResyncParams == {"QRESYNC", "SEQMATCH"}

\* writeSelectResponse ends the handler.
SelectResponse == <<Name, To("selected"), OK>>

QResyncSelect(x) ==
    NotNil(x) \o Parse(x, {"CONDSTORE"} \cup QResyncParams) \o
    (IF ~Uses(x, "QRESYNC") THEN <<Try("Select")>>
     ELSE IF "QRESYNC" \notin x.enabled THEN <<BAD>>
     ELSE IF Implements(x, "QResync") THEN <<Try("SelectQResync")>>
     ELSE <<Try("Select")>>) \o SelectResponse

QResyncFetch(x) ==
    NotNil(x) \o ParseItems(x, {"CHANGEDSINCE", "VANISHED"}) \o
    (IF Uses(x, "VANISHED") /\ ~("QRESYNC" \in x.enabled /\ x.uid) THEN <<BAD>> ELSE <<>>)
    \o <<Try("Fetch"), OK>>

QResync(x) ==
    IF x.cmd = "FETCH" THEN QResyncFetch(x) ELSE QResyncSelect(x)

-----------------------------------------------------------------------------
(* UIDONLY *)

UIDOnlyEnabled(x) == "UIDONLY" \in x.enabled

\* The built-in ENABLE has answered OK by the time the session is told.
UIDOnlyEnable(x) ==
    <<Original>> \o (IF Implements(x, "UIDOnly")
                     THEN <<TryIfEnabled("UIDONLY", "EnableUIDOnly")>> ELSE <<>>)

UIDOnlySeqReject(x) == IF UIDOnlyEnabled(x) /\ ~x.uid THEN <<BAD>> ELSE <<Original>>

UIDOnlyFetch(x) ==
    IF ~UIDOnlyEnabled(x) THEN <<Original>>
    ELSE IF ~x.uid THEN <<BAD>>
    ELSE NotNil(x) \o ParseItems(x, {"CHANGEDSINCE", "VANISHED"}) \o <<Try("Fetch"), OK>>

UIDOnlyStore_Falls(x) ==
    IF ~UIDOnlyEnabled(x) THEN <<Original>>
    ELSE IF ~x.uid THEN <<BAD>>
    ELSE NotNil(x) \o Parse(x, StoreModifier) \o <<Try("Store"), OK>>

UIDOnlyStore(x) ==
    IF ~UIDOnlyEnabled(x) THEN <<Original>>
    ELSE IF ~x.uid THEN <<BAD>>
    ELSE NotNil(x) \o Parse(x, StoreModifier) \o
         (IF Conditional(x) /\ Implements(x, "CondStore")
          THEN <<Try("StoreConditional"), OK>> ELSE <<Try("Store"), OK>>)

UIDOnlyExpunge(x) ==
    IF ~UIDOnlyEnabled(x) THEN <<Original>>
    ELSE (IF x.uid /\ ~NoArgs(x) THEN <<Args>> ELSE <<>>) \o <<Try("Expunge"), OK>>

UIDOnlyMove_Seq(x) ==
    IF ~UIDOnlyEnabled(x) THEN <<Original>>
    ELSE NotNil(x) \o Parse(x, {}) \o Needs(x, "Move") \o <<Try("Move"), OK>>

UIDOnlyMove(x) ==
    IF ~UIDOnlyEnabled(x) THEN <<Original>>
    ELSE IF ~x.uid THEN <<BAD>>
    ELSE NotNil(x) \o Parse(x, {}) \o Needs(x, "Move") \o <<Try("Move"), OK>>

HasQResyncSeqMatch(x) == QResyncParams \subseteq x.has

\* The arguments are read and put back.
UIDOnlySelect(x) ==
    IF UIDOnlyEnabled(x) /\ HasQResyncSeqMatch(x) THEN <<BAD>> ELSE <<Original>>

UIDOnly(x) ==
    CASE x.cmd = "ENABLE" -> UIDOnlyEnable(x)
      [] x.cmd = "FETCH" -> UIDOnlyFetch(x)
      [] x.cmd = "STORE" -> UIDOnlyStore(x)
      [] x.cmd \in {"COPY", "SEARCH", "SORT", "THREAD"} -> UIDOnlySeqReject(x)
      [] x.cmd = "EXPUNGE" -> UIDOnlyExpunge(x)
      [] x.cmd = "MOVE" -> UIDOnlyMove(x)
      [] x.cmd \in {"SELECT", "EXAMINE"} -> UIDOnlySelect(x)

-----------------------------------------------------------------------------
(* ESEARCH, SEARCHRES, PARTIAL, CONTEXT=SEARCH, SEARCH=FUZZY, MULTISEARCH *)

\* The RETURN options that each package's parseReturnOptions knows.
ESearchReturns == Basic
SearchResReturns == Basic
PartialReturns == Basic \cup {"PARTIAL"}
ContextReturns == Basic \cup {"UPDATE"}
FuzzyReturns == Basic
MultiReturns == Basic
ESortReturns == Basic

\* A search with RETURN goes to SearchExtended if the session has it.
Route(x) ==
    IF Uses(x, "RETURN") /\ Implements(x, "ESearch") THEN <<Try("SearchExtended")>>
    ELSE <<Try("Search")>>

ESearch(x) == NotNil(x) \o Parse(x, ESearchReturns \cup Keys) \o Route(x) \o <<OK>>

\* $ among the search keys, which needs the interface but not a saved result.
DollarKey(x) ==
    IF ~Uses(x, "$") THEN <<>>
    ELSE IF Implements(x, "SearchRes") THEN <<GetKey>> ELSE <<BAD>>

SearchRes_AnswersFirst(x) ==
    NotNil(x) \o Parse(x, SearchResReturns \cup Keys) \o DollarKey(x) \o Route(x)
    \o <<OK>> \o (IF Uses(x, "SAVE") /\ Implements(x, "SearchRes")
                  THEN <<Try("SaveSearchResult")>> ELSE <<>>)

SearchRes(x) ==
    NotNil(x) \o Parse(x, SearchResReturns \cup Keys) \o DollarKey(x) \o Route(x)
    \o (IF Uses(x, "SAVE") /\ Implements(x, "SearchRes")
        THEN <<Try("SaveSearchResult")>> ELSE <<>>)
    \o <<OK>>

IsDollarCommand(x) == Uses(x, "$")

\* The saved set, which is one of sequence numbers; a UID command makes a UIDSet
\* of the same numbers.
ResolveDollar(x) ==
    IF ~Implements(x, "SearchRes") THEN <<BAD>>
    ELSE IF x.uid THEN <<GetSet, Cast>> ELSE <<GetSet>>

DollarFetch(x) ==
    IF ~IsDollarCommand(x) THEN <<Original>>
    ELSE ResolveDollar(x) \o ParseItems(x, {"$", "CHANGEDSINCE"}) \o <<Try("Fetch"), OK>>

DollarStore(x) ==
    IF ~IsDollarCommand(x) THEN <<Original>>
    ELSE ResolveDollar(x) \o Parse(x, {"$"} \cup StoreModifier) \o <<Try("Store"), OK>>

DollarCopy(x) ==
    IF ~IsDollarCommand(x) THEN <<Original>>
    ELSE ResolveDollar(x) \o Parse(x, {"$"}) \o <<Try("Copy"), OK>>

DollarMove(x) ==
    IF ~IsDollarCommand(x) THEN <<Original>>
    ELSE ResolveDollar(x) \o Parse(x, {"$"}) \o Needs(x, "Move") \o <<Try("Move"), OK>>

Dollar(x) ==
    CASE x.cmd = "SEARCH" -> SearchRes(x) [] x.cmd = "FETCH" -> DollarFetch(x)
      [] x.cmd = "STORE" -> DollarStore(x) [] x.cmd = "COPY" -> DollarCopy(x)
      [] x.cmd = "MOVE" -> DollarMove(x)

PartialSearch(x) ==
    NotNil(x) \o Parse(x, PartialReturns \cup Keys)
    \o (IF Uses(x, "PARTIAL") /\ Implements(x, "Partial") THEN <<Try("SearchPartial")>>
        ELSE Route(x))
    \o <<OK>>

PartialSort(x) ==
    IF NoArgs(x) \/ ~Uses(x, "RETURN") THEN <<Original>>
    ELSE Parse(x, PartialReturns) \o Needs(x, "ESort") \o <<Try("SortExtended"), OK>>

Partial(x) == IF x.cmd = "SEARCH" THEN PartialSearch(x) ELSE PartialSort(x)

\* Without SearchContext the client is told NOUPDATE.
ContextSearch(x) ==
    NotNil(x) \o Parse(x, ContextReturns \cup Keys)
    \o (IF Uses(x, "UPDATE") /\ Implements(x, "Context") THEN <<Try("SearchContext")>>
        ELSE Route(x))
    \o <<OK>>

CancelUpdate(x) ==
    InState(x, {"selected"}) \o NotNil(x) \o Parse(x, {}) \o Needs(x, "Context")
    \o <<Try("CancelSearchContext"), OK>>

Context(x) == IF x.cmd = "SEARCH" THEN ContextSearch(x) ELSE CancelUpdate(x)

FuzzySearch(x) ==
    NotNil(x) \o Parse(x, FuzzyReturns \cup Keys)
    \o (IF Uses(x, "FUZZY") /\ Implements(x, "Fuzzy") THEN <<Try("SearchFuzzy")>>
        ELSE Route(x))
    \o <<OK>>

MultiSearch(x) ==
    InState(x, Ready) \o NotNil(x) \o Parse(x, MultiReturns) \o Needs(x, "MultiSearch")
    \o <<Try("MultiSearch"), OK>>

-----------------------------------------------------------------------------
(* SORT, ESORT, THREAD, PREVIEW, MOVE, UIDPLUS *)

SortMessages(x) == Needs(x, "Sort") \o Parse(x, {}) \o <<TryNO("Sort"), OK>>

ESort(x) ==
    NotNil(x) \o
    (IF ~Uses(x, "RETURN") THEN <<Original>>
     ELSE Parse(x, ESortReturns) \o
          (IF Implements(x, "ESort") THEN <<Try("SortExtended"), OK>>
           ELSE IF Implements(x, "Sort") THEN <<Try("Sort"), OK>>
           ELSE <<NO>>))

Thread(x) == Needs(x, "Thread") \o Parse(x, {}) \o <<TryNO("Thread"), OK>>

\* (LAZY) and (CHANGEDSINCE n) may follow the items, in any order.
PostItemModifiers == {"LAZY", "CHANGEDSINCE"}

PreviewFetch(x) == NotNil(x) \o ParseItems(x, PostItemModifiers) \o <<Try("Fetch"), OK>>

Move(x) == NotNil(x) \o Parse(x, {}) \o Needs(x, "Move") \o <<Try("Move"), OK>>

UIDPlusCopy_Both(x) ==
    NotNil(x) \o Parse(x, {})
    \o (IF Implements(x, "UIDPlus") THEN <<Try("CopyUIDs")>> ELSE <<>>)
    \o <<Try("Copy"), OK>>

UIDPlusCopy(x) ==
    NotNil(x) \o Parse(x, {})
    \o (IF Implements(x, "UIDPlus") THEN <<Try("CopyUIDs"), OK>> ELSE <<Try("Copy"), OK>>)

UIDPlusExpunge(x) ==
    IF x.uid /\ ~NoArgs(x)
    THEN <<Args, Try(IF Implements(x, "UIDPlus") THEN "ExpungeUIDs" ELSE "Expunge"), OK>>
    ELSE <<Try("Expunge"), OK>>

UIDPlus(x) == IF x.cmd = "COPY" THEN UIDPlusCopy(x) ELSE UIDPlusExpunge(x)

-----------------------------------------------------------------------------
(* CATENATE, MULTIAPPEND, UTF8=ACCEPT, BINARY, REPLACE *)

\* One literal, read or drained whatever the session says of it.
StandardAppend == <<Args, Literal, Try("Append"), OK>>
UTF8StandardAppend == <<Args, Literal, Try("Append"), OK>>

\* Parts are URLs on the line or literals after it, of which one stands for any
\* number; the ) is where the list ends, on the line or after the literal. A list
\* that the line leaves open goes on with whatever the client sends next.
CatenateParts(x) ==
    <<Args>> \o (IF Literals(x) # {} THEN <<Literal, Close>>
                 ELSE IF Uses(x, "open") THEN <<More>> ELSE <<>>)

CatenateAppend(x) ==
    IF NoArgs(x) THEN <<Original>>
    ELSE IF x.has \subseteq {"binary"} THEN StandardAppend
    ELSE IF ~Uses(x, "catenate") THEN <<BAD>>
    ELSE <<Args>> \o Needs(x, "Catenate") \o CatenateParts(x)
         \o <<Try("AppendCatenate"), OK>>

\* Flags and date of a message, before each literal.
MessageMeta == <<Args>>

MultiAppend_Refuses(x) ==
    IF NoArgs(x) THEN <<Original>>
    ELSE IF x.has # {} THEN <<BAD>>
    ELSE MessageMeta \o <<Literal>> \o
         (IF ~Several(x) THEN <<Try("Append"), OK>>
          ELSE Needs(x, "MultiAppend") \o MessageMeta \o <<Literal>>
               \o <<Try("AppendMulti"), OK>>)

\* All messages are read before the session is asked for its interface. Two of
\* them stand for any number.
MultiAppend(x) ==
    IF NoArgs(x) THEN <<Original>>
    ELSE IF x.has # {} THEN <<BAD>>
    ELSE MessageMeta \o <<Literal>> \o
         (IF ~Several(x) THEN <<Try("Append"), OK>>
          ELSE MessageMeta \o <<Literal>> \o Needs(x, "MultiAppend")
               \o <<Try("AppendMulti"), OK>>)

UTF8Enable(x) ==
    <<Original>> \o (IF Implements(x, "UTF8")
                     THEN <<TryIfEnabled("UTF8=ACCEPT", "EnableUTF8")>> ELSE <<>>)

\* The ) after the literal is read when the message has been appended.
UTF8Append(x) ==
    IF NoArgs(x) THEN <<Original>>
    ELSE IF x.has \subseteq {"binary"} THEN UTF8StandardAppend
    ELSE IF ~Uses(x, "utf8") \/ "UTF8=ACCEPT" \notin x.enabled THEN <<BAD>>
    ELSE <<Args, Literal, Try("Append"), Close, OK>>

UTF8Accept(x) == IF x.cmd = "ENABLE" THEN UTF8Enable(x) ELSE UTF8Append(x)

BinaryAppend(x) ==
    IF NoArgs(x) THEN <<Original>>
    ELSE Parse(x, {"binary"}) \o <<Literal>> \o
         <<Try(IF Uses(x, "binary") /\ Implements(x, "Binary") THEN "AppendBinary"
               ELSE "Append"), OK>>

Replace(x) ==
    NotNil(x) \o Needs(x, "Replace") \o Parse(x, {}) \o <<Literal, TryNO("Replace"), OK>>

-----------------------------------------------------------------------------
(* LIST-EXTENDED, SPECIAL-USE *)

\* Selection options come before the reference, RETURN after the patterns.
SelectionOptions == {"SELECTION"}
ListReturns == {"RETURN"}

ListExtended(x) ==
    NotNil(x) \o Parse(x, SelectionOptions \cup ListReturns) \o
    <<Try(IF x.has # {} /\ Implements(x, "ListExtended") THEN "ListExtended" ELSE "List"), OK>>

SpecialUseCreate(x) ==
    NotNil(x) \o Parse(x, {"USE"}) \o
    <<Try(IF Uses(x, "USE") /\ Implements(x, "SpecialUse") THEN "CreateSpecialUse"
          ELSE "Create"), OK>>

-----------------------------------------------------------------------------
(* Commands of their own: the interface, the arguments, one call, one answer *)

\* Neither the state nor a missing argument is checked.
SetACL(x) == Needs(x, "ACL") \o Parse(x, {}) \o <<TryNO("SetACL"), OK>>
DeleteACL(x) == Needs(x, "ACL") \o Parse(x, {}) \o <<TryNO("DeleteACL"), OK>>
GetACL(x) == Needs(x, "ACL") \o Parse(x, {}) \o <<TryNO("GetACL"), OK>>
ListRights(x) == Needs(x, "ACL") \o Parse(x, {}) \o <<TryNO("ListRights"), OK>>
MyRights(x) == Needs(x, "ACL") \o Parse(x, {}) \o <<TryNO("MyRights"), OK>>

GetQuota(x) == Needs(x, "Quota") \o Parse(x, {}) \o <<TryNO("GetQuota"), OK>>
GetQuotaRoot(x) == Needs(x, "Quota") \o Parse(x, {}) \o <<TryNO("GetQuotaRoot"), OK>>
SetQuota(x) == Needs(x, "Quota") \o Parse(x, {}) \o <<TryNO("SetQuota"), OK>>

GetMetadata(x) == Needs(x, "Metadata") \o Parse(x, {}) \o <<TryNO("GetMetadata"), OK>>
SetMetadata(x) == Needs(x, "Metadata") \o Parse(x, {}) \o <<TryNO("SetMetadata"), OK>>

\* The state comes first, then the interface, then the arguments.
GenURLAuth(x) ==
    InState(x, Ready) \o Needs(x, "URLAuth") \o NotNil(x)
    \o Parse(x, {}) \o <<TryNO("GenURLAuth"), OK>>
ResetKey(x) == InState(x, Ready) \o Needs(x, "URLAuth") \o <<TryNO("ResetKey"), OK>>
URLFetch(x) ==
    InState(x, Ready) \o Needs(x, "URLAuth") \o NotNil(x)
    \o Parse(x, {}) \o <<TryNO("URLFetch"), OK>>

Notify(x) ==
    InState(x, Ready) \o Needs(x, "Notify") \o NotNil(x) \o Parse(x, {"SET"})
    \o <<TryNO(IF Uses(x, "SET") THEN "Notify" ELSE "CancelNotify"), OK>>

Convert(x) ==
    InState(x, {"selected"}) \o Needs(x, "Convert") \o NotNil(x)
    \o Parse(x, {}) \o <<TryNO("Convert"), OK>>

GetFilter(x) ==
    InState(x, Ready) \o Needs(x, "Filters") \o NotNil(x)
    \o Parse(x, {}) \o <<TryNO("GetFilter"), OK>>

SetFilter(x) ==
    InState(x, Ready) \o Needs(x, "Filters") \o NotNil(x)
    \o Parse(x, {}) \o <<TryNO("SetFilter"), OK>>

Language(x) == InState(x, Ready) \o Needs(x, "Language") \o <<TryNO("Language"), OK>>

\* An algorithm other than DEFLATE is refused.
Compress(x) ==
    InState(x, Ready) \o Needs(x, "Compress") \o NotNil(x) \o Parse(x, {"other"})
    \o (IF Uses(x, "other") THEN <<NO>> ELSE <<TryNO("Compress"), OK>>)

Unauthenticate_First(x) ==
    InState(x, Ready) \o Needs(x, "Unauth")
    \o <<ToOrNO("notauth"), TryNO("Unauthenticate"), OK>>

\* The session is told before the connection changes its state.
Unauthenticate(x) ==
    InState(x, Ready) \o Needs(x, "Unauth")
    \o <<TryNO("Unauthenticate"), ToOrNO("notauth"), OK>>

IDData(x) == IF NoArgs(x) THEN <<>> ELSE <<Args>>
ID(x) == Needs(x, "ID") \o IDData(x) \o <<Try("ID"), OK>>

Namespace(x) == Needs(x, "Namespace") \o <<Try("Namespace"), OK>>

Unselect(x) == <<Try("Unselect"), Unname, To("auth"), OK>>

-----------------------------------------------------------------------------
(* Which extension has a handler for what *)

\* CommandHandlers: commands of the extension's own, or a handler in place of one.
Provides(e) ==
    CASE e = "ACL" -> {"SETACL", "DELETEACL", "GETACL", "LISTRIGHTS", "MYRIGHTS"}
      [] e = "QUOTA" -> {"GETQUOTA", "GETQUOTAROOT", "SETQUOTA"}
      [] e = "METADATA" -> {"GETMETADATA", "SETMETADATA"}
      [] e = "URLAUTH" -> {"GENURLAUTH", "RESETKEY", "URLFETCH"}
      [] e = "FILTERS" -> {"GETFILTER", "SETFILTER"}
      [] e = "CONTEXT=SEARCH" -> {"CANCELUPDATE"}
      [] e = "MULTISEARCH" -> {"ESEARCH"}
      [] e \in {"SORT", "THREAD", "MOVE", "REPLACE", "NOTIFY", "CONVERT", "LANGUAGE",
                "COMPRESS", "UNAUTHENTICATE", "ID", "NAMESPACE", "UNSELECT"} -> {e}
      [] OTHER -> {}

\* WrapHandler: commands whose handler the extension wraps.
Wraps(e) ==
    CASE e = "CONDSTORE" -> {"STORE", "FETCH", "SELECT", "EXAMINE"}
      [] e = "QRESYNC" -> {"FETCH", "SELECT", "EXAMINE"}
      [] e = "UIDONLY" -> {"ENABLE", "FETCH", "STORE", "COPY", "SEARCH", "EXPUNGE", "MOVE",
                           "SORT", "THREAD", "SELECT", "EXAMINE"}
      [] e = "SEARCHRES" -> {"SEARCH", "FETCH", "STORE", "COPY", "MOVE"}
      [] e \in {"ESEARCH", "CONTEXT=SEARCH", "SEARCH=FUZZY"} -> {"SEARCH"}
      [] e = "PARTIAL" -> {"SEARCH", "SORT"}
      [] e = "ESORT" -> {"SORT"}
      [] e = "PREVIEW" -> {"FETCH"}
      [] e = "UIDPLUS" -> {"COPY", "EXPUNGE"}
      [] e \in {"CATENATE", "MULTIAPPEND", "BINARY"} -> {"APPEND"}
      [] e = "UTF8=ACCEPT" -> {"ENABLE", "APPEND"}
      [] e = "LIST-EXTENDED" -> {"LIST"}
      [] e = "SPECIAL-USE" -> {"CREATE"}
      [] OTHER -> {}

Dependencies(e) ==
    CASE e \in {"QRESYNC", "UIDONLY", "PREVIEW"} -> {"CONDSTORE"}
      [] e \in {"SEARCHRES", "PARTIAL", "CONTEXT=SEARCH", "MULTISEARCH"} -> {"ESEARCH"}
      [] OTHER -> {}

\* The interfaces that an extension's handlers look for in the session.
Interfaces(e) ==
    CASE e = "CONDSTORE" -> {"CondStore"} [] e = "QRESYNC" -> {"QResync"}
      [] e = "UIDONLY" -> {"UIDOnly", "CondStore"} [] e = "ESEARCH" -> {"ESearch"}
      [] e = "SEARCHRES" -> {"SearchRes"} [] e = "PARTIAL" -> {"Partial"}
      [] e = "CONTEXT=SEARCH" -> {"Context"} [] e = "SEARCH=FUZZY" -> {"Fuzzy"}
      [] e = "MULTISEARCH" -> {"MultiSearch"} [] e = "SORT" -> {"Sort"}
      [] e = "ESORT" -> {"ESort", "Sort"} [] e = "THREAD" -> {"Thread"}
      [] e = "MOVE" -> {"Move"} [] e = "UIDPLUS" -> {"UIDPlus"}
      [] e = "CATENATE" -> {"Catenate"} [] e = "MULTIAPPEND" -> {"MultiAppend"}
      [] e = "UTF8=ACCEPT" -> {"UTF8"} [] e = "BINARY" -> {"Binary"}
      [] e = "REPLACE" -> {"Replace"} [] e = "LIST-EXTENDED" -> {"ListExtended"}
      [] e = "SPECIAL-USE" -> {"SpecialUse"} [] e = "ACL" -> {"ACL"}
      [] e = "QUOTA" -> {"Quota"} [] e = "METADATA" -> {"Metadata"}
      [] e = "URLAUTH" -> {"URLAuth"} [] e = "NOTIFY" -> {"Notify"}
      [] e = "CONVERT" -> {"Convert"} [] e = "FILTERS" -> {"Filters"}
      [] e = "LANGUAGE" -> {"Language"} [] e = "COMPRESS" -> {"Compress"}
      [] e = "UNAUTHENTICATE" -> {"Unauth"} [] e = "ID" -> {"ID"}
      [] e = "NAMESPACE" -> {"Namespace"} [] OTHER -> {}

\* A command of an extension's own.
OwnCommand(x) ==
    CASE x.cmd = "SETACL" -> SetACL(x) [] x.cmd = "DELETEACL" -> DeleteACL(x)
      [] x.cmd = "GETACL" -> GetACL(x) [] x.cmd = "LISTRIGHTS" -> ListRights(x)
      [] x.cmd = "MYRIGHTS" -> MyRights(x) [] x.cmd = "GETQUOTA" -> GetQuota(x)
      [] x.cmd = "GETQUOTAROOT" -> GetQuotaRoot(x) [] x.cmd = "SETQUOTA" -> SetQuota(x)
      [] x.cmd = "GETMETADATA" -> GetMetadata(x) [] x.cmd = "SETMETADATA" -> SetMetadata(x)
      [] x.cmd = "GENURLAUTH" -> GenURLAuth(x) [] x.cmd = "RESETKEY" -> ResetKey(x)
      [] x.cmd = "URLFETCH" -> URLFetch(x) [] x.cmd = "GETFILTER" -> GetFilter(x)
      [] x.cmd = "SETFILTER" -> SetFilter(x) [] x.cmd = "ESEARCH" -> MultiSearch(x)
      [] x.cmd = "SORT" -> SortMessages(x) [] x.cmd = "THREAD" -> Thread(x)
      [] x.cmd = "MOVE" -> Move(x) [] x.cmd = "REPLACE" -> Replace(x)
      [] x.cmd = "NOTIFY" -> Notify(x) [] x.cmd = "CONVERT" -> Convert(x)
      [] x.cmd = "LANGUAGE" -> Language(x) [] x.cmd = "COMPRESS" -> Compress(x)
      [] x.cmd = "UNAUTHENTICATE" -> Unauthenticate(x) [] x.cmd = "ID" -> ID(x)
      [] x.cmd = "NAMESPACE" -> Namespace(x) [] x.cmd = "UNSELECT" -> Unselect(x)

\* The handler that an extension, or the server itself, has for a request.
Program(e, x) ==
    CASE e = "BUILTIN" -> Builtin(x) [] e = "CONDSTORE" -> Condstore(x)
      [] e = "QRESYNC" -> QResync(x) [] e = "UIDONLY" -> UIDOnly(x)
      [] e = "ESEARCH" -> ESearch(x) [] e = "SEARCHRES" -> Dollar(x)
      [] e = "PARTIAL" -> Partial(x) [] e = "CONTEXT=SEARCH" -> Context(x)
      [] e = "SEARCH=FUZZY" -> FuzzySearch(x) [] e = "ESORT" -> ESort(x)
      [] e = "PREVIEW" -> PreviewFetch(x) [] e = "UIDPLUS" -> UIDPlus(x)
      [] e = "CATENATE" -> CatenateAppend(x) [] e = "MULTIAPPEND" -> MultiAppend(x)
      [] e = "UTF8=ACCEPT" -> UTF8Accept(x) [] e = "BINARY" -> BinaryAppend(x)
      [] e = "LIST-EXTENDED" -> ListExtended(x) [] e = "SPECIAL-USE" -> SpecialUseCreate(x)
      [] OTHER -> OwnCommand(x)
=============================================================================
