----------------------------- MODULE MCClientConn -----------------------------
(* Instances of ClientConn for TLC. *)
EXTENDS ClientConn

CONSTANTS c1, c2

MCOneCaller == {c1}
MCTwoCallers == {c1, c2}
MCPlain == {"plain"}
MCContinued == {"idle", "append"}
=============================================================================
