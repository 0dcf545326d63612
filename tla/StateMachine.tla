---------------------------- MODULE StateMachine ----------------------------
(***************************************************************************)
(* The state machine of a connection (state/): the states, the transitions *)
(* that SetState may make, and the states each command is allowed in.      *)
(***************************************************************************)

ConnStates == {"notauth", "auth", "selected", "logout"}

\* The states a command is allowed in; {} for a command the package does not know.
AllowedStates(c) ==
    CASE c \in {"CAPABILITY", "NOOP", "LOGOUT"} -> {"notauth", "auth", "selected"}
      [] c \in {"STARTTLS", "AUTHENTICATE", "LOGIN"} -> {"notauth"}
      [] c \in {"ENABLE", "SELECT", "EXAMINE", "CREATE", "DELETE", "RENAME", "SUBSCRIBE",
                "UNSUBSCRIBE", "LIST", "LSUB", "NAMESPACE", "STATUS", "APPEND", "IDLE"} ->
                {"auth", "selected"}
      [] c \in {"CLOSE", "UNSELECT", "EXPUNGE", "SEARCH", "FETCH", "STORE", "COPY", "MOVE",
                "SORT", "THREAD", "UID"} -> {"selected"}
      [] OTHER -> {}

\* The transitions of the connection's state machine.
Transitions ==
    {<<"notauth", "auth">>, <<"notauth", "logout">>,
     <<"auth", "selected">>, <<"auth", "logout">>, <<"auth", "notauth">>,
     <<"selected", "auth">>, <<"selected", "selected">>, <<"selected", "logout">>}

CanTransition(from, to) == <<from, to>> \in Transitions
=============================================================================
