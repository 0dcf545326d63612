---------------------------- MODULE MCExtensions ----------------------------
(***************************************************************************)
(* Extensions for TLC: the groups of extensions that have a command in     *)
(* common, and the others one by one.                                      *)
(***************************************************************************)
EXTENDS Extensions

Groups ==
    {{"CONDSTORE", "UIDONLY", "QRESYNC"}, {"CONDSTORE", "PREVIEW"},
     {"CONDSTORE", "UIDONLY", "ESEARCH", "SEARCHRES"},
     {"ESEARCH", "PARTIAL", "CONTEXT=SEARCH", "SEARCH=FUZZY"},
     {"ESEARCH", "MULTISEARCH"}, {"ESEARCH", "PARTIAL", "SORT", "ESORT"},
     {"CATENATE", "MULTIAPPEND", "UTF8=ACCEPT", "BINARY"},
     {"UIDPLUS", "MOVE", "CONDSTORE", "UIDONLY"},
     {"LIST-EXTENDED", "SPECIAL-USE", "NAMESPACE", "UNSELECT"},
     {"ACL", "QUOTA"}, {"METADATA", "URLAUTH"}, {"NOTIFY", "CONVERT", "REPLACE"},
     {"FILTERS", "LANGUAGE"}, {"COMPRESS", "UNAUTHENTICATE"}, {"ID", "THREAD", "CONDSTORE", "UIDONLY"}}

R(cmd, uid, has, tail) == [cmd |-> cmd, uid |-> uid, has |-> has, tail |-> tail]

\* Requests of one line, with or without UID.
Lines(cmds, uids, traits) == {R(cmd, uid, has, <<>>) : cmd \in cmds, uid \in uids, has \in traits}

Plain == {{}, {"nothing"}}

Appends ==
    {R("APPEND", FALSE, has, <<"literal", "crlf">>) : has \in {{}, {"binary"}}}
    \cup {R("APPEND", FALSE, {}, <<"literal", "literal", "crlf">>),
          R("APPEND", FALSE, {"nothing"}, <<>>),
          R("APPEND", FALSE, {"catenate"}, <<>>),
          R("APPEND", FALSE, {"catenate", "open"}, <<>>),
          R("APPEND", FALSE, {"catenate"}, <<"literal", ")", "crlf">>),
          R("APPEND", FALSE, {"utf8"}, <<"literal", ")", "crlf">>),
          R("APPEND", FALSE, {"utf8"}, <<"literal", "crlf">>)}

ClientRequests ==
    Lines({"LOGIN"}, {FALSE}, Plain)
    \cup Lines({"SELECT"}, {FALSE}, Plain \cup {{"CONDSTORE"}, {"QRESYNC"}, {"QRESYNC", "SEQMATCH"}})
    \cup Lines({"UNSELECT"}, {FALSE}, {{}})
    \cup Lines({"ENABLE"}, {FALSE}, Plain \cup {{"UIDONLY"}, {"QRESYNC"}, {"UTF8=ACCEPT"}})
    \cup Lines({"CREATE"}, {FALSE}, Plain \cup {{"USE"}})
    \cup Lines({"LIST"}, {FALSE}, Plain \cup {{"SELECTION"}, {"RETURN"}})
    \cup Appends
    \cup Lines({"SEARCH"}, BOOLEAN, Plain \cup {{"$"}, {"FUZZY"}, {"RETURN"}, {"RETURN", "SAVE"},
                                              {"RETURN", "PARTIAL"}, {"RETURN", "UPDATE"}})
    \cup Lines({"SORT"}, BOOLEAN, Plain \cup {{"RETURN"}, {"RETURN", "PARTIAL"}})
    \cup Lines({"FETCH"}, BOOLEAN, Plain \cup {{"$"}, {"CHANGEDSINCE"}, {"LAZY"}, {"partial"},
                                             {"$", "partial"}, {"CHANGEDSINCE", "VANISHED"}})
    \cup Lines({"STORE"}, BOOLEAN, Plain \cup {{"$"}, {"UNCHANGEDSINCE"}, {"UNCHANGEDSINCE", "0"},
                                             {"$", "UNCHANGEDSINCE"}})
    \cup Lines({"COPY", "MOVE"}, BOOLEAN, Plain \cup {{"$"}})
    \cup Lines({"EXPUNGE", "THREAD"}, BOOLEAN, Plain)
    \cup Lines({"ESEARCH"}, {FALSE}, Plain \cup {{"RETURN"}})
    \cup Lines({"NOTIFY"}, {FALSE}, Plain \cup {{"SET"}})
    \cup Lines({"COMPRESS"}, {FALSE}, Plain \cup {{"other"}})
    \cup {R("REPLACE", FALSE, {}, <<"literal", "crlf">>), R("REPLACE", FALSE, {"nothing"}, <<>>)}
    \cup Lines({"CANCELUPDATE", "SETACL", "DELETEACL", "GETACL", "LISTRIGHTS", "MYRIGHTS",
                "GETQUOTA", "GETQUOTAROOT", "SETQUOTA", "GETMETADATA", "SETMETADATA",
                "GENURLAUTH", "RESETKEY", "URLFETCH", "CONVERT", "GETFILTER", "SETFILTER",
                "LANGUAGE", "UNAUTHENTICATE", "ID", "NAMESPACE"}, {FALSE}, Plain)
=============================================================================
