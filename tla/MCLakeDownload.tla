--------------------------- MODULE MCLakeDownload ---------------------------
(* Finite instances of LakeDownload: required units r1, r2 and a sparse one. *)
EXTENDS LakeDownload

CONSTANTS r1, r2, quiet

MCUnits == {r1, r2, quiet}
MCSparse == {quiet}

(* A download, then one with --overwrite, then a resume, none of them killed, and every
   append to the manifest succeeding. *)
ResumeNext ==
    \/ Launch(runs = 1)
    \/ Main
    \/ \E u \in Requested :
          \/ Begin(u) \/ ReadNothing(u) \/ ReadSome(u) \/ ReadAll(u) \/ Replace(u) \/ RemoveFinal(u)
          \/ RecordOutcome(u) \/ Fails(u) \/ SignalStop(u) \/ Retry(u) \/ Note(u) \/ Cancelled(u)

ResumeSpec == Init /\ [][ResumeNext]_vars

Symmetry == Permutations({r1, r2}) \cup Permutations(Versions)
=============================================================================
