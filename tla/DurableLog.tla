----------------------------- MODULE DurableLog -----------------------------
(***************************************************************************)
(* What the G0-BN ledger promises its callers (eval/g0bn_ledger.py, class  *)
(* docstring): every file is a log that only grows while the machine runs, *)
(* a call that returns acknowledges the log as it stands, and a machine    *)
(* crash can lose only what was never acknowledged.                        *)
(***************************************************************************)
EXTENDS SequencesExt

CONSTANT Paths

VARIABLES log, acked

Init ==
    /\ log = [p \in Paths |-> <<>>]
    /\ acked = [p \in Paths |-> <<>>]

\* One log grows by any number of events; nothing it held changes.
Grow(p) ==
    /\ IsPrefix(log[p], log'[p])
    /\ log' = [log EXCEPT ![p] = log'[p]]
    /\ UNCHANGED acked

Acknowledge(p) ==
    /\ acked' = [acked EXCEPT ![p] = log[p]]
    /\ UNCHANGED log

\* Unacknowledged events may go, the last ones first.
Crash ==
    /\ DOMAIN log' = Paths
    /\ \A p \in Paths : /\ IsPrefix(acked[p], log'[p])
                        /\ IsPrefix(log'[p], log[p])
    /\ UNCHANGED acked

Next == (\E p \in Paths : Grow(p) \/ Acknowledge(p)) \/ Crash

Spec == Init /\ [][Next]_<<log, acked>>
=============================================================================
