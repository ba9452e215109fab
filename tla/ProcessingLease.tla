-------------------------- MODULE ProcessingLease --------------------------
(***************************************************************************)
(* What processing promises the readers of a data source, whatever the     *)
(* requests, failures and restarts: at most one request at a time holds    *)
(* the right to process it, its result appears in one step and complete,   *)
(* and a data source that is ready stays ready until it is deleted.        *)
(***************************************************************************)
CONSTANT Requests

VARIABLES
    phase,   \* what everyone sees: none, unprocessed, ready or deleted
    holders  \* the requests that hold the right to process

vars == <<phase, holders>>

Init == phase = "none" /\ holders = {}

Create ==
    /\ phase = "none"
    /\ phase' = "unprocessed"
    /\ UNCHANGED holders

Acquire(r) ==
    /\ phase \in {"unprocessed", "ready"}
    /\ holders = {}
    /\ holders' = {r}
    /\ UNCHANGED phase

Publish(r) ==
    /\ holders = {r}
    /\ holders' = {}
    /\ phase' = "ready"

\* The holder failed, or died with the server: nothing it did shows.
Release ==
    /\ holders # {}
    /\ holders' = {}
    /\ UNCHANGED phase

Delete ==
    /\ phase \in {"unprocessed", "ready"}
    /\ holders = {}
    /\ phase' = "deleted"
    /\ UNCHANGED holders

Next ==
    \/ Create \/ Release \/ Delete
    \/ \E r \in Requests : Acquire(r) \/ Publish(r)

Spec == Init /\ [][Next]_vars
============================================================================
