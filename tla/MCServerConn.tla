---------------------------- MODULE MCServerConn ----------------------------
(* Instances of ServerConn for TLC. *)
EXTENDS ServerConn

\* One command for each sequence of steps, and one without a handler.
EachProgram == {"NOOP", "LOGOUT", "STARTTLS", "LOGIN", "ENABLE", "SELECT", "FETCH", "APPEND",
                "IDLE", "CLOSE", "UNSELECT", "AUTHENTICATE"}

\* Orders with Recovery inside Timeout, one without Timeout, and the order of the
\* README's example.
InnerRecovery == {<<"timeout", "metrics", "recovery">>, <<"metrics", "timeout", "recovery">>}
SafeChains == InnerRecovery \cup {<<"metrics", "recovery">>}
ReadmeChain == {<<"recovery", "timeout">>}
=============================================================================
