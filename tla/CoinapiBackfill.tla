--------------------------- MODULE CoinapiBackfill ---------------------------
(***************************************************************************)
(* The CoinAPI downloader, ingest/download_coinapi.py, in its two modes on *)
(* one store.  Manifest mode executes the fill units of a reviewed         *)
(* manifest (ingest/coinapi_backfill.py): every GET is billed, the cost is *)
(* committed to the ledger _manifest.jsonl and the sum over all runs of    *)
(* a manifest is held under the cap --approve-usd.  Range mode downloads   *)
(* book days without manifest, state or budget.  One process runs at a     *)
(* time, and may be killed anywhere.                                       *)
(***************************************************************************)
EXTENDS Integers, FiniteSetsExt, SequencesExt

CONSTANTS
    Units,       \* (product, day) fill units
    Books,       \* those of the product limitbook_full
    DayOf,       \* the day of a unit
    Manifests,   \* reviewed manifests, by fingerprint
    Acceptable,  \* those that are ready, reconciled and not tampered with
    UnitsOf,     \* what derive_units makes of one, in order
    Planned,     \* the usd of a unit in the manifest
    Price,       \* the cost of the vendor's file at the manifest's rates
    Approvals,   \* --approve-usd
    Versions,    \* what the vendor may serve for a unit
    MaxRuns,     \* bound on the runs started
    NoFile, Rotten, NoManifest, NoExit

ASSUME BackfillAssumption ==
    /\ Books \subseteq Units
    /\ DayOf \in [Units -> Nat]
    /\ Acceptable \subseteq Manifests
    /\ UnitsOf \in [Manifests -> Seq(Units) \ {<< >>}]
    /\ \A m \in Manifests : \A j, k \in DOMAIN UnitsOf[m] : j < k =>
          /\ UnitsOf[m][j] # UnitsOf[m][k]
          /\ DayOf[UnitsOf[m][j]] <= DayOf[UnitsOf[m][k]]
    /\ Planned \in [Units -> Nat] /\ Price \in [Units -> Nat]
    /\ Approvals \subseteq Nat /\ MaxRuns \in Nat
    /\ {NoFile, Rotten} \cap Versions = {} /\ NoFile # Rotten
    /\ NoManifest \notin Manifests /\ NoExit \notin 0 .. 5

VARIABLES
    final,     \* the data.parquet of a unit
    state,     \* the out_sha256 its state record under a manifest names
    ledger,    \* the billed_get rows that can be read, summed per manifest
    ragged,    \* _manifest.jsonl ends in the middle of a line
    phase,     \* where the process is
    manifest,  \* --manifest, NoManifest in range mode
    approve, overwrite,
    prior,     \* prior_billed_usd
    spent,     \* budget["spent_usd"]
    todo,      \* the units left, the current one first
    results,   \* status per unit of this run
    billed,    \* units with billed_bytes
    body,      \* what the current unit has downloaded
    exit, runs,
    committed, \* ghost: cost of the rows written whole, per manifest
    cut,       \* ghost: the write of a row failed half-way in a run that went on
    plain      \* ghost: the manifest whose run put final there, if that was
               \* without --overwrite and nothing touched it since

files == <<final, state>>
rows == <<ledger, ragged, committed, cut>>
args == <<manifest, approve, overwrite, prior, runs>>
vars == <<files, rows, args, phase, spent, todo, results, billed, body, exit, plain>>

Statuses == {"none", "skip", "ok", "done", "missing", "conflict", "error", "refused_budget"}

\* The gate of build_plan.
Accepts(m) == m \in Acceptable

Cost(S, price) == SumFunctionOnSet(price, S)

\* select_window: the units of the pilot window, or all of them.  Units are
\* distinct and in day order, so those of a window are one run of them.
Windows(m) ==
    {SubSeq(UnitsOf[m], j, k) : j \in 1 .. Len(UnitsOf[m]), k \in 0 .. Len(UnitsOf[m])}

Selected(m, lo, hi) ==
    {plan \in Windows(m) : ToSet(plan) = {u \in ToSet(UnitsOf[m]) : lo <= DayOf[u] /\ DayOf[u] <= hi}}

\* A line appended to a torn one is part of it, and no reader can parse it.
AppendBilled(u) ==
    /\ ledger' = IF ragged THEN ledger ELSE [ledger EXCEPT ![manifest] = @ + Price[u]]
    /\ committed' = [committed EXCEPT ![manifest] = @ + Price[u]]
    /\ ragged' = FALSE

AppendRow == ragged' = FALSE /\ UNCHANGED <<ledger, committed, cut>>

Reviewed == manifest # NoManifest

-----------------------------------------------------------------------------
Init ==
    /\ final = [u \in Units |-> NoFile]
    /\ state = [m \in Manifests |-> [u \in Units |-> NoFile]]
    /\ ledger = [m \in Manifests |-> 0] /\ committed = [m \in Manifests |-> 0]
    /\ ragged = FALSE /\ cut = FALSE
    /\ phase = "down"
    /\ manifest = NoManifest /\ approve = 0 /\ overwrite = FALSE
    /\ prior = 0 /\ spent = 0
    /\ todo = << >>
    /\ results = [u \in Units |-> "none"]
    /\ billed = {} /\ body = NoFile
    /\ exit = NoExit /\ runs = 0
    /\ plain = [u \in Units |-> NoManifest]

Starts(ow) ==
    /\ phase = "down" /\ runs < MaxRuns
    /\ runs' = runs + 1
    /\ overwrite' = ow
    /\ results' = [u \in Units |-> "none"]
    /\ billed' = {} /\ body' = NoFile /\ exit' = NoExit
    /\ UNCHANGED <<files, rows, plain>>

\* build_plan and the gates before any vendor call: the manifest is accepted,
\* the window selects something and the cap covers its high band.
LaunchManifest(m, ap, ow, lo, hi) ==
    \E plan \in Selected(m, lo, hi) :
       /\ Starts(ow)
       /\ Accepts(m) /\ plan # << >> /\ lo <= hi
       /\ ap > 0 /\ ap >= Cost(ToSet(plan), Planned)
       /\ manifest' = m /\ approve' = ap
       /\ prior' = ledger[m] /\ spent' = ledger[m]
       /\ todo' = plan
       /\ phase' = "authorizing"

\* Everything else is refused before a vendor client exists.
Refuse(m, ap, ow, lo, hi) ==
    \E plan \in Selected(m, lo, hi) :
       /\ Starts(ow)
       /\ \/ ~ Accepts(m)
          \/ plan = << >> \/ lo > hi
          \/ ap <= 0 \/ ap < Cost(ToSet(plan), Planned)
          \/ Cardinality({DayOf[u] : u \in ToSet(plan)}) > 1 \* no --allow-backfill
       /\ manifest' = m /\ approve' = ap /\ prior' = 0 /\ spent' = 0
       /\ UNCHANGED <<todo, phase>>

\* main without --manifest: a range of days of the book product.
LaunchRange(days, ow) ==
    /\ Starts(ow)
    /\ manifest' = NoManifest /\ approve' = 0 /\ prior' = 0 /\ spent' = 0
    /\ todo' = days
    /\ phase' = "next"

\* Mutant of AppendAuthorization: the first row is that of a unit.
AppendNoAuthorization ==
    /\ phase = "authorizing"
    /\ phase' = "next"
    /\ UNCHANGED <<files, rows, args, spent, todo, results, billed, body, exit, plain>>

\* The run's authorization is the first row it appends.
AppendAuthorization ==
    /\ phase = "authorizing"
    /\ AppendRow
    /\ phase' = "next"
    /\ UNCHANGED <<files, args, spent, todo, results, billed, body, exit, plain>>

-----------------------------------------------------------------------------
(* One unit: process_unit in manifest mode, process_day in range mode *)

\* Mutant of ResumeStatus: any state record of this manifest vouches for the file.
ResumeStatusByRecord(u) ==
    IF overwrite \/ final[u] = NoFile THEN "todo"
    ELSE IF ~ Reviewed THEN "skip"
    ELSE IF state[manifest][u] # NoFile THEN "done" ELSE "conflict"

\* unit_resume_status: a state record of this manifest vouches for the bytes.
ResumeStatus(u) ==
    IF overwrite \/ final[u] = NoFile THEN "todo"
    ELSE IF ~ Reviewed THEN "skip"
    ELSE IF state[manifest][u] = final[u] THEN "done" ELSE "conflict"

u0 == Head(todo)

At(l) == phase = l /\ todo # << >>

EndUnit(s) ==
    /\ results' = [results EXCEPT ![u0] = s]
    /\ todo' = Tail(todo)
    /\ body' = NoFile
    /\ phase' = "next"

Resume ==
    /\ At("next")
    /\ IF ResumeStatus(u0) = "todo"
       THEN phase' = "listing" /\ UNCHANGED <<todo, results, body>>
       ELSE EndUnit(ResumeStatus(u0))
    /\ UNCHANGED <<files, rows, args, spent, billed, exit, plain>>

\* find_file, and the budget check on the listed size.
Located ==
    /\ At("listing")
    /\ IF Reviewed /\ spent + Price[u0] > approve
       THEN EndUnit("refused_budget")
       ELSE phase' = "getting" /\ UNCHANGED <<todo, results, body>>
    /\ UNCHANGED <<files, rows, args, spent, billed, exit, plain>>

Missing ==
    /\ At("listing")
    /\ AppendRow
    /\ EndUnit("missing")
    /\ UNCHANGED <<files, args, spent, billed, exit, plain>>

\* get_object has returned a body: the vendor bills it.
GetBody ==
    /\ At("getting")
    /\ phase' = IF Reviewed THEN "billing" ELSE "streaming"
    /\ UNCHANGED <<files, rows, args, spent, todo, results, billed, body, exit, plain>>

\* _commit_billing, before the body is read.
Commit ==
    /\ At("billing")
    /\ AppendBilled(u0)
    /\ spent' = spent + Price[u0]
    /\ billed' = billed \cup {u0}
    /\ phase' = "streaming"
    /\ UNCHANGED <<files, args, cut, todo, results, body, exit, plain>>

\* Its write fails after none, a part or all of the line; the unit is an
\* error and the run goes on.
CommitFails ==
    /\ At("billing")
    /\ \/ UNCHANGED rows
       \/ ragged' = TRUE /\ cut' = TRUE /\ UNCHANGED <<ledger, committed>>
       \/ AppendBilled(u0) /\ cut' = TRUE
    /\ EndUnit("error")
    /\ UNCHANGED <<files, args, spent, billed, exit, plain>>

Stream ==
    /\ At("streaming")
    /\ body' \in Versions
    /\ phase' = IF Reviewed THEN "staged" ELSE "stated"
    /\ UNCHANGED <<files, rows, args, spent, todo, results, billed, exit, plain>>

WriteState ==
    /\ At("staged")
    /\ state' = [state EXCEPT ![manifest][u0] = body]
    /\ plain' = IF overwrite THEN [plain EXCEPT ![u0] = NoManifest] ELSE plain
    /\ phase' = "stated"
    /\ UNCHANGED <<final, rows, args, spent, todo, results, billed, body, exit>>

\* Mutant of Publish: the output may come before its state record.
PublishUnordered ==
    /\ At("staged") \/ At("stated")
    /\ final' = [final EXCEPT ![u0] = body]
    /\ plain' = [plain EXCEPT ![u0] = IF overwrite THEN NoManifest ELSE manifest]
    /\ phase' = IF phase = "staged" THEN phase ELSE "published"
    /\ UNCHANGED <<state, rows, args, spent, todo, results, billed, body, exit>>

\* os.replace
Publish ==
    /\ At("stated")
    /\ final' = [final EXCEPT ![u0] = body]
    /\ plain' = [plain EXCEPT ![u0] = IF overwrite THEN NoManifest ELSE manifest]
    /\ phase' = "published"
    /\ UNCHANGED <<state, rows, args, spent, todo, results, billed, body, exit>>

AppendOk ==
    /\ At("published")
    /\ AppendRow
    /\ EndUnit("ok")
    /\ UNCHANGED <<files, args, spent, billed, exit, plain>>

\* A vendor error, a short body, a drifted header, a failing write: the unit
\* is an error in manifest mode.
UnitFails ==
    /\ todo # << >>
    /\ phase \in {"listing", "getting", "streaming", "staged", "stated"}
    /\ Reviewed
    /\ EndUnit("error")
    /\ UNCHANGED <<files, rows, args, spent, billed, exit, plain>>

-----------------------------------------------------------------------------
(* The end of a run *)

\* measured_usd_at_model_rates of build_execution_report
MeasuredUsd == Cost(billed, Price)

\* complete of build_execution_report
CompleteReport(quota) ==
    /\ ~ quota /\ todo = << >>
    /\ \A u \in Units : results[u] \in {"none", "ok", "done"}

Ends(code) ==
    /\ phase' = "down"
    /\ exit' = code
    /\ todo' = << >> /\ body' = NoFile
    /\ UNCHANGED <<files, rows, args, spent, results, billed, plain>>

Finish ==
    /\ phase = "next" /\ todo = << >>
    /\ Ends(IF ~ Reviewed \/ CompleteReport(FALSE) THEN 0 ELSE 1)

\* A quota error of a request stops the run; manifest mode still writes its
\* report.
QuotaAbort ==
    /\ todo # << >> /\ phase \in {"listing", "getting"}
    /\ Ends(IF Reviewed THEN 5 ELSE 2)

\* The process is killed, or dies of an exception nothing catches: any error
\* of range mode, a failing append of an ok or missing row, a failing report.
Kill ==
    /\ phase # "down"
    /\ phase' = "down" /\ exit' = NoExit
    /\ todo' = << >> /\ body' = NoFile
    /\ \/ UNCHANGED rows
       \/ /\ phase \in {"authorizing", "listing", "billing", "published"}
          /\ ragged' = TRUE /\ UNCHANGED <<ledger, committed, cut>>
       \/ At("billing") /\ AppendBilled(u0) /\ UNCHANGED cut
    /\ UNCHANGED <<files, args, spent, results, billed, plain>>

\* Bytes on disk drift between two runs.
Rot(u) ==
    /\ phase = "down" /\ final[u] \in Versions
    /\ final' = [final EXCEPT ![u] = Rotten]
    /\ plain' = [plain EXCEPT ![u] = NoManifest]
    /\ exit' = NoExit
    /\ UNCHANGED <<state, rows, args, phase, spent, todo, results, billed, body>>

Days == {DayOf[u] : u \in Units}

Launch ==
    \E ow \in BOOLEAN :
        \/ \E m \in Manifests, ap \in Approvals, lo, hi \in Days :
              LaunchManifest(m, ap, ow, lo, hi) \/ Refuse(m, ap, ow, lo, hi)
        \/ \E lo, hi \in Days :
              /\ lo <= hi
              /\ LaunchRange(SetToSortSeq({u \in Books : lo <= DayOf[u] /\ DayOf[u] <= hi},
                                          LAMBDA u, v : DayOf[u] < DayOf[v]), ow)

Unit ==
    \/ Resume \/ Located \/ Missing \/ GetBody \/ Commit \/ CommitFails
    \/ Stream \/ WriteState \/ Publish \/ AppendOk \/ UnitFails

Next ==
    \/ Launch \/ AppendAuthorization \/ Unit \/ Finish \/ QuotaAbort \/ Kill
    \/ \E u \in Units : Rot(u)

Spec == Init /\ [][Next]_vars

-----------------------------------------------------------------------------
(* Properties *)

\* Every variable has its type.
TypeOK ==
    /\ final \in [Units -> Versions \cup {NoFile, Rotten}]
    /\ state \in [Manifests -> [Units -> Versions \cup {NoFile}]]
    /\ ledger \in [Manifests -> Nat] /\ committed \in [Manifests -> Nat]
    /\ ragged \in BOOLEAN /\ cut \in BOOLEAN /\ overwrite \in BOOLEAN
    /\ phase \in {"down", "authorizing", "next", "listing", "getting", "billing",
                  "streaming", "staged", "stated", "published"}
    /\ manifest \in Manifests \cup {NoManifest}
    /\ approve \in Approvals \cup {0}
    /\ prior \in Nat /\ spent \in Nat /\ prior <= spent
    /\ todo \in Seq(Units)
    /\ results \in [Units -> Statuses] /\ billed \subseteq Units
    /\ body \in Versions \cup {NoFile}
    /\ exit \in {0, 1, 2, 5, NoExit} /\ runs \in 0 .. MaxRuns
    /\ plain \in [Units -> Manifests \cup {NoManifest}]

\* --approve-usd caps the cumulative spend of a manifest, not that of one
\* process: a run that downloads anything leaves the sum over all runs, failed,
\* killed and torn ones included, under its cap.  (A row cut by a write that
\* failed in a run that went on is the exception.)
SpendWithinApproval ==
    Reviewed /\ billed # {} /\ ~ cut => committed[manifest] <= approve

\* The report is auditable: what it says was spent is what this run added to
\* the ledger, whatever became of the units after they were billed.
ReportedSpendIsLedgers ==
    Reviewed /\ exit \in {0, 1, 5} /\ ~ cut =>
        prior + MeasuredUsd = ledger[manifest]

\* The cap holds of the real spend, and the spend a run reports is the real one.
SpendIsAccounted == SpendWithinApproval /\ ReportedSpendIsLedgers

\* Exit code 0 of a reviewed run: every selected unit is on disk with the very
\* bytes its state record under this manifest names.
ExitZeroIsVouched ==
    Reviewed /\ exit = 0 =>
        \A u \in Units : results[u] # "none" =>
            final[u] \in Versions /\ state[manifest][u] = final[u]

\* Only foreign, drifted or overwritten outputs are a conflict: a crash
\* anywhere in a plain run of a manifest leaves units it can go on with.
CrashNeverConflicts ==
    \A u \in Units : Reviewed /\ plain[u] = manifest => results[u] # "conflict"

\* The comment in process_unit: a crash between state and publication is a plain
\* re-download, "never a conflict demanding --overwrite".  Where one manifest is
\* the only writer of a store, only drifted bytes are then a conflict.  The code
\* breaks this under --overwrite, when the vendor's bytes have changed.
OnlyDriftConflicts ==
    \A u \in Units : Reviewed /\ results[u] = "conflict" => final[u] = Rotten
=============================================================================
