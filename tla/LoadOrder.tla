------------------------------ MODULE LoadOrder ------------------------------
(***************************************************************************)
(* What extension.Registry promises its caller, whatever algorithm keeps   *)
(* the promise: Resolve puts every registered extension after the ones it  *)
(* depends on, in some order, and refuses exactly when no order does.      *)
(***************************************************************************)
EXTENDS Naturals, Sequences, Functions

CONSTANT Names      \* names of extensions

VARIABLES deps,     \* the names each extension depends on
          exts,     \* the extensions registered
          loaded,   \* the order built so far
          outcome   \* of the last Resolve: none, busy, sorted, refused

vars == <<deps, exts, loaded, outcome>>

\* Some extensions can never be loaded: each of them waits for one of them, or
\* for one that is not registered.
Impossible ==
    \E S \in SUBSET exts :
        S # {} /\ \A n \in S : deps[n] \cap (S \cup (Names \ exts)) # {}

Init ==
    /\ deps \in [Names -> SUBSET Names]
    /\ exts = {} /\ loaded = <<>> /\ outcome = "none"

\* An extension comes or goes; a resolution holds this up.
Change ==
    /\ outcome # "busy"
    /\ exts' \in SUBSET Names
    /\ loaded' = <<>> /\ outcome' = "none"
    /\ UNCHANGED deps

Start ==
    /\ outcome # "busy"
    /\ loaded' = <<>> /\ outcome' = "busy"
    /\ UNCHANGED <<deps, exts>>

Load(n) ==
    /\ outcome = "busy"
    /\ n \in exts \ Range(loaded) /\ deps[n] \subseteq Range(loaded)
    /\ loaded' = Append(loaded, n)
    /\ UNCHANGED <<deps, exts, outcome>>

Done ==
    /\ outcome = "busy" /\ Range(loaded) = exts
    /\ outcome' = "sorted"
    /\ UNCHANGED <<deps, exts, loaded>>

Refuse ==
    /\ Impossible
    /\ loaded' = <<>> /\ outcome' = "refused"
    /\ UNCHANGED <<deps, exts>>

Next == Change \/ Start \/ (\E n \in Names : Load(n)) \/ Done \/ Refuse

Spec == Init /\ [][Next]_vars

-----------------------------------------------------------------------------
\* An order in which every extension comes once, after its dependencies.
Respects(order) ==
    /\ IsInjective(order)
    /\ \A i \in DOMAIN order : deps[order[i]] \subseteq Range(SubSeq(order, 1, i - 1))

\* What the promise comes to: an order that Resolve returns lists every extension
\* once, each after those it depends on.
LoadsInOrder == outcome = "sorted" => Range(loaded) = exts /\ Respects(loaded)
=============================================================================
