--------------------------- MODULE G0BNDevelopment ---------------------------
(***************************************************************************)
(* run_g0bn_development of eval/g0bn_engine.py on the ledger of            *)
(* G0BNLedger: processes that open the ledger, walk the preregistered      *)
(* trial ladder and record a start before every fit and an abort or a      *)
(* completion after it.  A process is named by the ledger instance it      *)
(* holds.  Crashes and failed writes happen at every step.                 *)
(***************************************************************************)
EXTENDS G0BNLedger

CONSTANTS
    Ladder,      \* base_trial_identities of the config and data identity a
                 \* process is given, in ladder order
    LedgerPath,  \* the file every process is given
    MaxRuns      \* bound on the runs, over all processes

ASSUME LadderAssumption ==
    /\ Ladder \in [Instances -> Seq(Trials)]
    /\ LedgerPath \in Paths

VARIABLES
    pc,        \* where a process is in run_g0bn_development
    cursor,    \* index in Ladder of the trial it works on
    attempted, \* ghost: trials whose fit was entered by any process ever
    runs       \* ghost: runs started

drvVars == <<pc, cursor, attempted, runs>>
allVars == <<vars, drvVars>>

DevInit ==
    /\ Init
    /\ pc = [i \in Instances |-> "idle"]
    /\ cursor = [i \in Instances |-> 1]
    /\ attempted = {}
    /\ runs = 0

Goto(i, l) == pc' = [pc EXCEPT ![i] = l]

-----------------------------------------------------------------------------

\* The caller resumes an existing ledger and binds a fresh one otherwise.
OpenLedger(i) ==
    /\ pc[i] = "idle"
    /\ runs < MaxRuns
    /\ IF disk[LedgerPath] = NoFile THEN BindFresh(i, LedgerPath)
                                    ELSE LoadBound(i, LedgerPath)
    /\ runs' = runs + 1
    /\ cursor' = [cursor EXCEPT ![i] = 1]
    /\ Goto(i, "opening")
    /\ UNCHANGED attempted

LedgerOpened(i) ==
    /\ pc[i] = "opening"
    /\ BindCheck(i) \/ LoadRead(i)
    /\ Goto(i, IF phase'[i] = "ready" THEN "ladder" ELSE "idle")
    /\ UNCHANGED <<cursor, attempted, runs>>

\* record_start, which persists before it returns.
StartTrial(i) ==
    /\ pc[i] = "ladder"
    /\ cursor[i] <= Len(Ladder[i])
    /\ RecordStart(i, Ladder[i][cursor[i]])
    /\ Goto(i, "starting")
    /\ UNCHANGED <<cursor, attempted, runs>>

\* Mutant: the exception of a fit is passed over in silence.
FitFailsSilently(i) ==
    /\ pc[i] = "fitting"
    /\ Goto(i, "ladder")
    /\ cursor' = [cursor EXCEPT ![i] = @ + 1]
    /\ UNCHANGED <<vars, attempted, runs>>

\* The fit raised: the abort is recorded and the loop goes on.
FitFails(i) ==
    /\ pc[i] = "fitting"
    /\ RecordAbort(i, Ladder[i][cursor[i]])
    /\ Goto(i, "recording")
    /\ UNCHANGED <<cursor, attempted, runs>>

\* The fit returned r.  record_completion is outside the try block.
FitReturns(i, r) ==
    /\ pc[i] = "fitting"
    /\ RecordCompletion(i, Ladder[i][cursor[i]], r)
    /\ Goto(i, "recording")
    /\ UNCHANGED <<cursor, attempted, runs>>

\* A conflicting result or a drifting identity propagates: the run fails.
FitConflicts(i, r) ==
    /\ pc[i] = "fitting"
    /\ mem[i].result[Ladder[i][cursor[i]]] \notin {NoResult, r}
    /\ Goto(i, "failed")
    /\ UNCHANGED <<vars, cursor, attempted, runs>>

StartRefused(i) ==
    /\ pc[i] = "ladder"
    /\ cursor[i] <= Len(Ladder[i])
    /\ ~ Registrable(mem[i], Ladder[i][cursor[i]])
    /\ Goto(i, "failed")
    /\ UNCHANGED <<vars, cursor, attempted, runs>>

(* The write inside record_* *)

Persist(i) ==
    /\ pc[i] \in {"starting", "recording"}
    /\ Replace(i)
    /\ UNCHANGED drvVars

\* An exception no handler of the loop catches: the run fails, even though the
\* event of a failed directory sync is already in the file.
PersistFails(i) ==
    /\ pc[i] \in {"starting", "recording"}
    /\ WriteFails(i) \/ SyncDirFails(i)
    /\ Goto(i, "failed")
    /\ UNCHANGED <<cursor, attempted, runs>>

\* record_start returned: the fit begins.
StartReturns(i) ==
    /\ pc[i] = "starting"
    /\ SyncDir(i)
    /\ Goto(i, "fitting")
    /\ attempted' = attempted \cup {Ladder[i][cursor[i]]}
    /\ UNCHANGED <<cursor, runs>>

\* Mutant: an aborted trial is tried again instead of passed over.
RecordReturnsRetrying(i) ==
    /\ pc[i] = "recording"
    /\ SyncDir(i)
    /\ Goto(i, "ladder")
    /\ LET n == Len(mem[i].events)
       IN cursor' = [cursor EXCEPT ![i] =
                        IF mem[i].events[n].kind = "aborted" THEN @ ELSE @ + 1]
    /\ UNCHANGED <<attempted, runs>>

\* record_abort or record_completion returned: on to the next trial.
RecordReturns(i) ==
    /\ pc[i] = "recording"
    /\ SyncDir(i)
    /\ Goto(i, "ladder")
    /\ cursor' = [cursor EXCEPT ![i] = @ + 1]
    /\ UNCHANGED <<attempted, runs>>

RunReturns(i) ==
    /\ pc[i] = "ladder"
    /\ cursor[i] > Len(Ladder[i])
    /\ Goto(i, "done")
    /\ UNCHANGED <<vars, cursor, attempted, runs>>

\* The process exits, or dies inside the run.
ProcessEnds(i) ==
    /\ pc[i] # "idle"
    /\ IF phase[i] = "absent" THEN UNCHANGED vars ELSE Die(i)
    /\ Goto(i, "idle")
    /\ UNCHANGED <<cursor, attempted, runs>>

\* The machine stops while some process runs.
PowerLoss ==
    /\ \E i \in Instances : pc[i] # "idle"
    /\ MachineCrash
    /\ pc' = [i \in Instances |-> "idle"]
    /\ UNCHANGED <<cursor, attempted, runs>>

-----------------------------------------------------------------------------
Step(i) ==
    \/ LedgerOpened(i) \/ StartTrial(i) \/ StartRefused(i)
    \/ FitFails(i)
    \/ \E r \in Results : FitReturns(i, r) \/ FitConflicts(i, r)
    \/ Persist(i) \/ PersistFails(i) \/ StartReturns(i) \/ RecordReturns(i)
    \/ RunReturns(i)

DevNext ==
    \/ \E i \in Instances : OpenLedger(i) \/ Step(i) \/ ProcessEnds(i)
    \/ PowerLoss

DevSpec == DevInit /\ [][DevNext]_allVars

\* A live process keeps running its loop; nobody has to start one, and a fit
\* may raise every time.
FairDevSpec == DevSpec /\ \A i \in Instances : WF_allVars(Step(i))

-----------------------------------------------------------------------------
(* Properties *)

\* Every variable of the driver has its type, and a process inside a run
\* holds a bound ledger.
DevTypeOK ==
    /\ pc \in [Instances -> {"idle", "opening", "ladder", "starting", "fitting",
                             "recording", "done", "failed"}]
    /\ DOMAIN cursor = Instances
    /\ \A i \in Instances : cursor[i] \in 1 .. Len(Ladder[i]) + 1
    /\ attempted \subseteq Trials
    /\ runs \in 0 .. MaxRuns
    /\ \A i \in Instances :
          pc[i] \in {"ladder", "starting", "fitting", "recording", "done"} =>
             path[i] = LedgerPath

\* The docstring's claim: a crash during a fit, of the process or of the
\* machine, cannot erase an attempted identity from effective N.
AttemptsAreCounted ==
    \A t \in attempted :
        /\ disk[LedgerPath] # NoFile /\ t \in disk[LedgerPath].known
        /\ stable[LedgerPath] # NoFile /\ t \in stable[LedgerPath].known

LastKind(h, t) ==
    h[CHOOSE n \in DOMAIN h :
        /\ h[n].trial = t
        /\ \A m \in DOMAIN h : h[m].trial = t => m <= n].kind

\* A run that returned has a durable terminal event for every trial of the
\* ladder, after every start any run ever recorded of it.
ReturnedRunIsComplete ==
    \A i \in Instances : pc[i] = "done" =>
        LET h == History(stable[LedgerPath])
        IN \A n \in DOMAIN Ladder[i] :
              /\ \E m \in DOMAIN h : h[m].trial = Ladder[i][n]
              /\ LastKind(h, Ladder[i][n]) \in {"aborted", "completed"}

\* The ladder is accounted for on disk, through crashes, retries, failing
\* writes and foreign drivers: every attempt counts, and a returned run is
\* complete.
LadderIsAccounted == AttemptsAreCounted /\ ReturnedRunIsComplete

\* Every run ends: it returns, fails or dies, whatever the fits do.
RunEnds ==
    \A i \in Instances : (pc[i] = "ladder") ~> (pc[i] \in {"done", "failed", "idle"})

=============================================================================
