----------------------------- MODULE Broadcast -----------------------------
(***************************************************************************)
(* What the broadcast promises: a node delivers only what was published,   *)
(* and nothing that is among the last Window messages it saw.  Older ones  *)
(* it may deliver again, and nothing is said about order or about who      *)
(* delivers at all.                                                        *)
(***************************************************************************)
EXTENDS Naturals, Sequences

CONSTANTS
    Node,
    Window      \* how many messages a node remembers

VARIABLES
    published,  \* per node, how many messages it has published
    log         \* per node, what it saw: published itself or delivered, in order;
                \* a message is its origin and its number there

Init ==
    /\ published = [n \in Node |-> 0]
    /\ log = [n \in Node |-> <<>>]

\* The messages n still remembers.
Recent(n) == {log[n][i] : i \in {j \in DOMAIN log[n] : j + Window > Len(log[n])}}

Publish(n) ==
    /\ published' = [published EXCEPT ![n] = @ + 1]
    /\ log' = [log EXCEPT ![n] = Append(@, <<n, published[n] + 1>>)]

Deliver(n, id) ==
    /\ id \notin Recent(n)
    /\ log' = [log EXCEPT ![n] = Append(@, id)]
    /\ UNCHANGED published

Next ==
    \E n \in Node :
        \/ Publish(n)
        \/ \E origin \in Node : \E k \in 1 .. published[origin] : Deliver(n, <<origin, k>>)

Spec == Init /\ [][Next]_<<published, log>>
=============================================================================
