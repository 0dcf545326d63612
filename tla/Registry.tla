------------------------------- MODULE Registry -------------------------------
(***************************************************************************)
(* extension/registry.go: the extensions a program has registered, and     *)
(* Resolve, which orders them by their dependencies (Kahn's algorithm).    *)
(*                                                                         *)
(* Register and Remove hold r.mu, Resolve holds it for reading to its end: *)
(* its steps are taken one at a time here, and no extension comes or goes  *)
(* between them.  Go ranges over a map in any order, so what becomes ready *)
(* in one pass joins the queue in any order.  A dependency listed twice    *)
(* counts once: the code counts it twice and takes it off twice.           *)
(***************************************************************************)
EXTENDS Naturals, Sequences, FiniteSets, Functions

CONSTANTS Names,     \* names of extensions
          DepGraphs  \* the dependencies to try, functions from Names to sets of them

ASSUME RegistryAssumption ==
    IsFiniteSet(Names) /\ DepGraphs \subseteq [Names -> SUBSET Names]

VARIABLES deps,       \* Dependencies() of every extension
          extensions, \* the keys of r.extensions
          order,      \* r.order
          resolving,  \* Resolve is in its loop
          inDegree,   \* dependencies that each extension still waits for
          queue,      \* extensions that wait for none
          sorted,     \* the result built so far
          result      \* of the last Resolve: none, sorted, missing, cycle

resolveVars == <<resolving, inDegree, queue, sorted, result>>
vars == <<deps, extensions, order, resolveVars>>

Init ==
    /\ deps \in DepGraphs
    /\ extensions = {} /\ order = <<>>
    /\ resolving = FALSE /\ inDegree = [n \in Names |-> 0]
    /\ queue = <<>> /\ sorted = <<>> /\ result = "none"

\* A change makes the caller's last result stale.
Forget ==
    /\ sorted' = <<>> /\ result' = "none"
    /\ UNCHANGED <<resolving, inDegree, queue>>

\* A name that is registered already is an error, and changes nothing.
Register(n) ==
    /\ ~resolving /\ n \notin extensions
    /\ extensions' = extensions \cup {n}
    /\ order' = Append(order, n)
    /\ Forget
    /\ UNCHANGED deps

RemoveAt(s, i) == SubSeq(s, 1, i - 1) \o SubSeq(s, i + 1, Len(s))

RemoveExt_KeepsOrder(n) ==
    /\ ~resolving /\ n \in extensions
    /\ extensions' = extensions \ {n}
    /\ Forget
    /\ UNCHANGED <<deps, order>>

\* Nobody asks whether another extension depends on it.
RemoveExt(n) ==
    /\ ~resolving /\ n \in extensions
    /\ extensions' = extensions \ {n}
    /\ \E i \in DOMAIN order : order[i] = n /\ order' = RemoveAt(order, i)
    /\ Forget
    /\ UNCHANGED deps

-----------------------------------------------------------------------------
(* Resolve *)

\* The orders in which Go may range over the keys of a map.
Orders(S) == Injection(1..Cardinality(S), S)

Missing_Unregistered == \E n \in Names : ~(deps[n] \subseteq extensions)

Missing == \E n \in extensions : ~(deps[n] \subseteq extensions)

ResolveMissing ==
    /\ ~resolving /\ Missing
    /\ sorted' = <<>> /\ result' = "missing"
    /\ UNCHANGED <<deps, extensions, order, resolving, inDegree, queue>>

\* The counters, and a queue of the extensions that depend on nothing.
ResolveStart ==
    /\ ~resolving /\ ~Missing
    /\ resolving' = TRUE
    /\ inDegree' = [n \in Names |-> IF n \in extensions THEN Cardinality(deps[n]) ELSE 0]
    /\ queue' \in Orders({n \in extensions : inDegree'[n] = 0})
    /\ sorted' = <<>> /\ result' = "none"
    /\ UNCHANGED <<deps, extensions, order>>

Waiting(n) == {m \in extensions : n \in deps[m]}

ResolvePop_Early ==
    /\ resolving /\ queue # <<>>
    /\ LET n == Head(queue)
       IN /\ sorted' = Append(sorted, n)
          /\ inDegree' = [m \in Names |-> IF m \in Waiting(n) THEN inDegree[m] - 1
                                          ELSE inDegree[m]]
          /\ \E more \in Orders({m \in Waiting(n) : inDegree[m] <= 2}) :
                 queue' = Tail(queue) \o more
    /\ UNCHANGED <<deps, extensions, order, resolving, result>>

ResolvePop_PutsBack ==
    /\ resolving /\ queue # <<>>
    /\ LET n == Head(queue)
       IN IF Waiting(n) # {}
          THEN queue' = Append(Tail(queue), n) /\ UNCHANGED <<sorted, inDegree>>
          ELSE /\ sorted' = Append(sorted, n) /\ queue' = Tail(queue)
               /\ UNCHANGED inDegree
    /\ UNCHANGED <<deps, extensions, order, resolving, result>>

\* The head of the queue is next in the order; what waited only for it is ready.
ResolvePop ==
    /\ resolving /\ queue # <<>>
    /\ LET n == Head(queue)
       IN /\ sorted' = Append(sorted, n)
          /\ inDegree' = [m \in Names |-> IF m \in Waiting(n) THEN inDegree[m] - 1
                                          ELSE inDegree[m]]
          /\ \E more \in Orders({m \in Waiting(n) : inDegree'[m] = 0}) :
                 queue' = Tail(queue) \o more
    /\ UNCHANGED <<deps, extensions, order, resolving, result>>

\* The queue is empty: either every extension has been sorted, or a cycle is left.
ResolveEnd ==
    /\ resolving /\ queue = <<>>
    /\ resolving' = FALSE
    /\ IF Len(sorted) = Cardinality(extensions)
       THEN result' = "sorted" /\ UNCHANGED sorted
       ELSE result' = "cycle" /\ sorted' = <<>>
    /\ UNCHANGED <<deps, extensions, order, inDegree, queue>>

Next ==
    \/ \E n \in Names : Register(n) \/ RemoveExt(n)
    \/ ResolveMissing \/ ResolveStart \/ ResolvePop \/ ResolveEnd

Spec == Init /\ [][Next]_vars

\* Resolve's loop is a loop over memory: the scheduler lets it run.
FairSpec == Spec /\ WF_vars(ResolvePop \/ ResolveEnd)

-----------------------------------------------------------------------------
(* Properties *)

\* The registry's map, its order and Resolve's local variables have their types; in
\* particular no counter of Resolve falls below zero.
TypeOK ==
    /\ deps \in [Names -> SUBSET Names]
    /\ extensions \in SUBSET Names /\ order \in Seq(Names)
    /\ resolving \in BOOLEAN /\ inDegree \in [Names -> Nat]
    /\ queue \in Seq(Names) /\ sorted \in Seq(Names)
    /\ result \in {"none", "sorted", "missing", "cycle"}

\* All and Names, which follow r.order, list every extension that Get finds and
\* no other, each once, through Register and Remove in any sequence.
OrderLists ==
    Range(order) = extensions /\ IsInjective(order)

\* Kahn's invariant. An extension's counter is the number of dependencies that
\* are not sorted yet, and it waits in the queue, once, when that number is 0.
CountsWhatIsLeft ==
    resolving =>
        /\ \A n \in extensions : inDegree[n] = Cardinality(deps[n] \ Range(sorted))
        /\ Range(queue) = {n \in extensions \ Range(sorted) : deps[n] \subseteq Range(sorted)}
        /\ IsInjective(queue)

\* Resolve comes to an end, whatever the dependencies are.
ResolveReturns == resolving ~> ~resolving

\* How the outcome looks to a caller of LoadOrder's promise.
Outcome ==
    IF resolving THEN "busy"
    ELSE IF result \in {"missing", "cycle"} THEN "refused" ELSE result

Promise == INSTANCE LoadOrder WITH exts <- extensions, loaded <- sorted, outcome <- Outcome

\* What Resolve returns lists every registered extension once, each after those
\* it depends on.
ResolvedInOrder ==
    result = "sorted" => Range(sorted) = extensions /\ Promise!Respects(sorted)

\* Resolve implements its promise: each extension it sorts may be loaded next,
\* it ends with all of them, and it fails only if no order exists.
KeepsPromise == Promise!Spec
=============================================================================
