---------------------------- MODULE LakeDownload ----------------------------
(***************************************************************************)
(* The Stage-1 Crypto Lake downloader, ingest/download_lake_binance.py, on *)
(* the store and the manifest of ingest/lake_binance.py: a main thread     *)
(* keeps at most Jobs process_unit workers in flight, every worker         *)
(* publishes its partition and appends its manifest record under one lock, *)
(* and a quota or auth error stops the run.  Runs follow each other, resume *)
(* what earlier ones left, and may be killed anywhere.                     *)
(***************************************************************************)
EXTENDS FiniteSets, Naturals, TLC

CONSTANTS
    Requested, \* the (feed, exchange, symbol, day) partitions
    Sparse,    \* those of an event feed, whose absence is accepted
    Versions,  \* what the vendor may serve for a partition
    Jobs,      \* --jobs
    Retries,   \* --retries: attempts per unit
    MaxRuns,   \* bound on the runs started
    NoFile, Partial, Free, NoExit

ASSUME LakeAssumption ==
    /\ Sparse \subseteq Requested
    /\ Jobs \in Nat \ {0}
    /\ Retries \in Nat \ {0}
    /\ MaxRuns \in Nat
    /\ NoFile \notin Versions /\ Partial \notin Versions
    /\ Free \notin Requested /\ NoExit \notin 0 .. 4

VARIABLES
    final,     \* the data.parquet of a unit
    tmp,       \* its data.parquet.tmp
    manifest,  \* the last readable manifest record of a unit
    ragged,    \* the manifest ends in the middle of a line
    phase,     \* where main is
    overwrite, \* --overwrite
    todo,      \* pending[next_index:]
    counted,   \* the status _account entered for a unit
    exit,      \* the exit code of the last run
    pc,        \* where a unit's worker is
    attempt,   \* its attempt
    lock,      \* who holds the publication lock
    cancel,    \* cancel_event
    runs       \* runs started

files == <<final, tmp, manifest, ragged>>
main == <<phase, overwrite, todo, counted, exit, runs>>
workers == <<pc, attempt, lock, cancel>>
vars == <<files, main, workers>>

-----------------------------------------------------------------------------
Kinds == {"stop", "transient", "fatal"}      \* classify_error; quota and auth stop
Endings == {"ok", "skip", "missing", "error", "hard_stop", "cancelled", "raised"}
Working == {"queued", "skipping", "reading", "streaming", "staged", "gone"} \cup Kinds
Publishing == {"replaced", "removed"}

Statuses == {"ok", "skip", "missing", "error", "none"}

\* A unit is done when its final file exists, whatever the manifest says.
Done(u) == final[u] # NoFile

\* Mutant of Pending: any missing record is accepted.
PendingMissAccepted(ow) ==
    IF ow THEN Requested ELSE {u \in Requested : ~ Done(u) /\ manifest[u] # "missing"}

\* A run transfers what is neither on disk nor accepted as a quiet day.
Pending(ow) ==
    IF ow THEN Requested
    ELSE {u \in Requested : ~ Done(u) /\ ~ (u \in Sparse /\ manifest[u] = "missing")}

InFlight == {u \in Requested : pc[u] # "out"}

\* A record appended to a torn line is part of it, and no reader can parse it.
ManifestAppend(u, s) ==
    /\ manifest' = IF ragged THEN manifest ELSE [manifest EXCEPT ![u] = s]
    /\ ragged' = FALSE

\* A write that raises leaves none or a part of the line.
AppendFails == ragged' \in {ragged, TRUE} /\ UNCHANGED manifest

Goto(u, l) == pc' = [pc EXCEPT ![u] = l]

\* An exception is classified; a transient one ends the last attempt.
Raises(u) ==
    \E k \in Kinds :
        Goto(u, IF k = "transient" /\ attempt[u] >= Retries THEN "fatal" ELSE k)

RemoveTmp(u) == tmp' = [tmp EXCEPT ![u] = NoFile]

\* The exit codes of main; hard_stop is set where a HardStop was accounted.
ExitCode ==
    IF \E u \in Requested : counted[u] = "hard_stop" THEN 2
    ELSE IF \E u \in Requested : \/ counted[u] = "error"
                                 \/ counted[u] = "missing" /\ u \notin Sparse
         THEN 3 ELSE 0

-----------------------------------------------------------------------------
Init ==
    /\ final = [u \in Requested |-> NoFile]
    /\ tmp = [u \in Requested |-> NoFile]
    /\ manifest = [u \in Requested |-> "none"]
    /\ ragged = FALSE
    /\ phase = "down"
    /\ overwrite = FALSE
    /\ todo = {}
    /\ counted = [u \in Requested |-> "none"]
    /\ exit = NoExit
    /\ pc = [u \in Requested |-> "out"]
    /\ attempt = [u \in Requested |-> 0]
    /\ lock = Free
    /\ cancel = FALSE
    /\ runs = 0

\* The memory of a process that has ended.
ForgetWorkers ==
    /\ pc' = [u \in Requested |-> "out"]
    /\ attempt' = [u \in Requested |-> 0]
    /\ lock' = Free
    /\ cancel' = FALSE

-----------------------------------------------------------------------------
(* main *)

\* The request is resolved and the temporaries of its units are removed.
Launch(ow) ==
    /\ phase = "down" /\ runs < MaxRuns
    /\ runs' = runs + 1
    /\ overwrite' = ow
    /\ todo' = Pending(ow)
    /\ tmp' = [u \in Requested |-> NoFile]
    /\ counted' = [u \in Requested |-> "none"]
    /\ exit' = NoExit
    /\ phase' = "gate"
    /\ UNCHANGED <<final, manifest, ragged, workers>>

Exit(code) ==
    /\ phase' = "down"
    /\ exit' = code
    /\ todo' = {}
    /\ ForgetWorkers
    /\ UNCHANGED <<overwrite, runs, files>>

NothingPending ==
    /\ phase = "gate" /\ todo = {}
    /\ Exit(0)
    /\ UNCHANGED counted

\* Setup or used_data fails: 2.  The quota gate refuses: 4.
Refuse ==
    /\ phase = "gate" /\ todo # {}
    /\ \E code \in {2, 4} : Exit(code)
    /\ UNCHANGED counted

Proceed ==
    /\ phase = "gate" /\ todo # {}
    /\ phase' = "fill"
    /\ UNCHANGED <<overwrite, todo, counted, exit, runs, files, workers>>

\* The first Jobs units are submitted without a look at cancel_event.
Submit(u) ==
    /\ phase = "fill" \/ (phase = "collect" /\ ~ cancel)
    /\ u \in todo
    /\ Cardinality(InFlight) < Jobs
    /\ todo' = todo \ {u}
    /\ Goto(u, "queued")
    /\ UNCHANGED <<phase, overwrite, counted, exit, runs, files, attempt, lock, cancel>>

Filled ==
    /\ phase = "fill"
    /\ todo = {} \/ Cardinality(InFlight) = Jobs
    /\ phase' = "collect"
    /\ UNCHANGED <<overwrite, todo, counted, exit, runs, files, workers>>

\* A future is done; _finish accounts it, setting cancel_event (again) under
\* the lock for a hard stop.
Account(u) ==
    /\ phase = "collect"
    /\ pc[u] \in Endings \ {"raised"}
    /\ pc[u] = "hard_stop" => lock = Free
    /\ cancel' = (cancel \/ pc[u] = "hard_stop")
    /\ counted' = [counted EXCEPT ![u] = pc[u]]
    /\ Goto(u, "out")
    /\ UNCHANGED <<phase, overwrite, todo, exit, runs, files, attempt, lock>>

\* An exception nothing classifies leaves the loop; the executor still joins
\* the workers in flight.
Propagate(u) ==
    /\ phase = "collect" /\ pc[u] = "raised"
    /\ phase' = "unwind"
    /\ UNCHANGED <<overwrite, todo, counted, exit, runs, files, workers>>

Unwound ==
    /\ phase = "unwind"
    /\ \A u \in InFlight : pc[u] \in Endings
    /\ Exit(1)
    /\ UNCHANGED counted

\* Units never submitted are accounted as cancelled before the exit code is
\* computed; none of them is a hard stop or an error.
Finish ==
    /\ phase = "collect" /\ InFlight = {}
    /\ todo = {} \/ cancel
    /\ counted' = [u \in Requested |-> IF u \in todo THEN "cancelled" ELSE counted[u]]
    /\ Exit(ExitCode)

Main ==
    \/ NothingPending \/ Refuse \/ Proceed \/ Filled \/ Unwound \/ Finish
    \/ \E u \in Requested : Submit(u) \/ Account(u) \/ Propagate(u)

-----------------------------------------------------------------------------
(* process_unit *)

Begin(u) ==
    /\ pc[u] = "queued" /\ ~ cancel
    /\ Goto(u, IF ~ overwrite /\ Done(u) THEN "skipping" ELSE "reading")
    /\ attempt' = [attempt EXCEPT ![u] = 1]
    /\ RemoveTmp(u)
    /\ UNCHANGED <<final, manifest, ragged, lock, cancel, main>>

\* The reader returns None, or a stream without a row.
ReadNothing(u) ==
    /\ pc[u] \in {"reading", "streaming"} /\ ~ cancel
    /\ Goto(u, "gone")
    /\ RemoveTmp(u)
    /\ UNCHANGED <<final, manifest, ragged, attempt, lock, cancel, main>>

ReadSome(u) ==
    /\ pc[u] = "reading" /\ ~ cancel
    /\ Goto(u, "streaming")
    /\ tmp' = [tmp EXCEPT ![u] = Partial]
    /\ UNCHANGED <<final, manifest, ragged, attempt, lock, cancel, main>>

ReadAll(u) ==
    /\ pc[u] = "streaming" /\ ~ cancel
    /\ Goto(u, "staged")
    /\ \E v \in Versions : tmp' = [tmp EXCEPT ![u] = v]
    /\ UNCHANGED <<final, manifest, ragged, attempt, lock, cancel, main>>

\* Under the lock: the last look at cancel_event, then the file.
Replace(u) ==
    /\ pc[u] = "staged" /\ lock = Free /\ ~ cancel
    /\ final' = [final EXCEPT ![u] = tmp[u]]
    /\ RemoveTmp(u)
    /\ lock' = u
    /\ Goto(u, "replaced")
    /\ UNCHANGED <<manifest, ragged, attempt, cancel, main>>

\* The vendor has no file: one published earlier is stale.
RemoveFinal(u) ==
    /\ pc[u] = "gone" /\ lock = Free /\ ~ cancel
    /\ final' = [final EXCEPT ![u] = NoFile]
    /\ lock' = u
    /\ Goto(u, "removed")
    /\ UNCHANGED <<tmp, manifest, ragged, attempt, cancel, main>>

\* Still under the lock: the manifest record.
RecordOutcome(u) ==
    /\ pc[u] \in Publishing
    /\ LET s == IF pc[u] = "replaced" THEN "ok" ELSE "missing" IN
         ManifestAppend(u, s) /\ Goto(u, s)
    /\ lock' = Free
    /\ UNCHANGED <<final, tmp, attempt, cancel, main>>

RecordFails(u) ==
    /\ pc[u] \in Publishing
    /\ AppendFails
    /\ lock' = Free
    /\ Raises(u)
    /\ UNCHANGED <<final, tmp, attempt, cancel, main>>

\* The reader, the stream, the schema check or a local call raises.
Fails(u) ==
    /\ pc[u] \in {"reading", "streaming", "staged", "gone"}
    /\ Raises(u)
    /\ RemoveTmp(u)
    /\ UNCHANGED <<final, manifest, ragged, attempt, lock, cancel, main>>

\* Mutant of SignalStop: the lock is not taken.
SignalStopUnlocked(u) ==
    /\ pc[u] = "stop"
    /\ cancel' = TRUE
    /\ Goto(u, "hard_stop")
    /\ UNCHANGED <<files, attempt, lock, main>>

\* QuotaError and AuthError set cancel_event while they hold the lock.
SignalStop(u) ==
    /\ pc[u] = "stop" /\ lock = Free
    /\ cancel' = TRUE
    /\ Goto(u, "hard_stop")
    /\ UNCHANGED <<files, attempt, lock, main>>

\* Mutant of Retry: the attempt is not counted.
RetryUncounted(u) ==
    /\ pc[u] = "transient" /\ ~ cancel
    /\ Goto(u, "reading")
    /\ RemoveTmp(u)
    /\ UNCHANGED <<final, manifest, ragged, attempt, lock, cancel, main>>

Retry(u) ==
    /\ pc[u] = "transient" /\ ~ cancel
    /\ Goto(u, "reading")
    /\ attempt' = [attempt EXCEPT ![u] = @ + 1]
    /\ RemoveTmp(u)
    /\ UNCHANGED <<final, manifest, ragged, lock, cancel, main>>

\* _append of an error or a skip record.
Note(u) ==
    /\ pc[u] \in {"fatal", "skipping"} /\ lock = Free /\ ~ cancel
    /\ LET s == IF pc[u] = "fatal" THEN "error" ELSE "skip" IN
         ManifestAppend(u, s) /\ Goto(u, s)
    /\ UNCHANGED <<final, tmp, attempt, lock, cancel, main>>

\* Nothing catches an exception of that append.
NoteFails(u) ==
    /\ pc[u] \in {"fatal", "skipping"} /\ lock = Free /\ ~ cancel
    /\ AppendFails
    /\ Goto(u, "raised")
    /\ UNCHANGED <<final, tmp, attempt, lock, cancel, main>>

\* CancelledByHardStop, at any of the checks before the lock or under it.
Cancelled(u) ==
    /\ pc[u] \in Working \ {"stop"} /\ cancel
    /\ Goto(u, "cancelled")
    /\ RemoveTmp(u)
    /\ UNCHANGED <<final, manifest, ragged, attempt, lock, cancel, main>>

Worker(u) ==
    \/ Begin(u) \/ ReadNothing(u) \/ ReadSome(u) \/ ReadAll(u)
    \/ Replace(u) \/ RemoveFinal(u) \/ RecordOutcome(u) \/ RecordFails(u)
    \/ Fails(u) \/ SignalStop(u) \/ Retry(u)
    \/ Note(u) \/ NoteFails(u) \/ Cancelled(u)

-----------------------------------------------------------------------------
\* A worker is inside manifest_append.
Appending ==
    \/ lock # Free
    \/ ~ cancel /\ \E u \in Requested : pc[u] \in {"fatal", "skipping"}

\* The process is killed: files stay, a line being appended may be cut.
Kill ==
    /\ phase # "down"
    /\ phase' = "down"
    /\ exit' = NoExit
    /\ todo' = {}
    /\ counted' = [u \in Requested |-> "none"]
    /\ ragged' \in {ragged, ragged \/ Appending}
    /\ ForgetWorkers
    /\ UNCHANGED <<overwrite, runs, final, tmp, manifest>>

Next ==
    \/ \E ow \in BOOLEAN : Launch(ow)
    \/ Main
    \/ \E u \in Requested : Worker(u)
    \/ Kill

Spec == Init /\ [][Next]_vars

\* Threads are scheduled and every read returns: the reader's S3 client times
\* out.  Nothing makes an operator start a run.
FairSpec ==
    /\ Spec
    /\ WF_vars(Main)
    /\ \A u \in Requested : WF_vars(Worker(u))

-----------------------------------------------------------------------------
(* What the downloader promises *)

\* Every variable has its type; above all, no file is published before its
\* stream has ended.
TypeOK ==
    /\ final \in [Requested -> Versions \cup {NoFile}]
    /\ tmp \in [Requested -> Versions \cup {NoFile, Partial}]
    /\ manifest \in [Requested -> Statuses]
    /\ ragged \in BOOLEAN /\ overwrite \in BOOLEAN /\ cancel \in BOOLEAN
    /\ phase \in {"down", "gate", "fill", "collect", "unwind"}
    /\ todo \subseteq Requested
    /\ counted \in [Requested -> (Endings \ {"raised"}) \cup {"none"}]
    /\ exit \in (0 .. 4) \cup {NoExit}
    /\ pc \in [Requested -> Working \cup Publishing \cup Endings \cup {"out"}]
    /\ attempt \in [Requested -> 0 .. Retries]
    /\ lock \in Requested \cup {Free}
    /\ runs \in 0 .. MaxRuns

\* Exit code 0 means that no required partition is missing, and after
\* --overwrite that every unit was fetched anew, however the workers were
\* scheduled and whatever earlier runs left in the store and the manifest.
ExitZeroIsComplete ==
    exit = 0 => \A u \in Requested :
        /\ final[u] # NoFile \/ u \in Sparse
        /\ overwrite => counted[u] \in {"ok", "missing"}

\* The report agrees with the store: a unit counted ok has its file, and one
\* counted missing has none, a stale one included.
ReportMatchesStore ==
    \A u \in Requested :
        /\ counted[u] = "ok" => final[u] # NoFile
        /\ counted[u] = "missing" => final[u] = NoFile

\* What a run tells agrees with the store, through retries, crashes and torn
\* lines: an exit code 0 and every count of its report.
ExitAndReportAreTrue == ExitZeroIsComplete /\ ReportMatchesStore

\* Once a quota or auth error has stopped the run, no other worker publishes
\* a file, removes one or touches the manifest: a unit is wholly before the
\* stop or wholly after it.  Before the stop, too, a published partition is
\* replaced or removed only under --overwrite, even if a crash or a torn line
\* left it without a manifest record, or by the attempt after the one that
\* published it and could not record it.
NothingAfterStop ==
    [][/\ cancel => UNCHANGED <<final, manifest, ragged>>
       /\ \A u \in Requested :
              final[u] # NoFile /\ final'[u] # final[u] => overwrite \/ attempt[u] > 1]_vars

\* A run ends: hard stops, retries and failing appends leave no worker and
\* no collector waiting for another.
RunEnds == (phase # "down") ~> (phase = "down")

\* What --resume promises ("rerun only missing/errored units (skip-done is
\* always on unless --overwrite)"), and the exit code 3 with it ("rerun with
\* --resume"): a run that reports success leaves no unit whose last record is
\* an error.
ErroredUnitsAreRerun ==
    exit = 0 => \A u \in Requested : manifest[u] # "error"
=============================================================================
