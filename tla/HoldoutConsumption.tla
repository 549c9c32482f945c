------------------------- MODULE HoldoutConsumption -------------------------
(***************************************************************************)
(* The one-time holdout transaction of the G0 protocol: the consumption    *)
(* record of eval/consumption.py, the fixed scorer of eval/holdout.py and  *)
(* the holdout-open, holdout-validate and holdout-score commands of        *)
(* scripts/run_g0.py, each run by an operating system process.             *)
(*                                                                         *)
(* Every command reads the record, decides, and writes a new record with   *)
(* nothing held in between, so each read and each write is a step.         *)
(* In a behaviour with serialized = TRUE the operator starts a command     *)
(* only when no other runs; otherwise commands overlap.                    *)
(***************************************************************************)
EXTENDS Naturals, SequencesExt

CONSTANTS
    Procs,       \* processes
    Freezes,     \* self-consistent freeze artifacts
    Authorized,  \* those authorize_freeze can rebuild from the dev result
    Holdouts,    \* holdout identities: window bounds + dataset
    HoldoutOf,   \* the identity a freeze artifact maps to (holdout_id)
    Results,     \* score results, up to their hash
    Outs,        \* --out paths
    MaxCommands, \* bound on the commands started
    NoRecord, Torn, NoFreeze, NoOut, NoResult

ASSUME FreezeAssumption ==
    /\ Authorized \subseteq Freezes
    /\ HoldoutOf \in [Freezes -> Holdouts]
    /\ MaxCommands \in Nat

ASSUME NoneAssumption ==
    /\ NoFreeze \notin Freezes
    /\ NoOut \notin Outs
    /\ NoResult \notin Results
    /\ Results \cap {"absent", "preflight", "no metrics"} = {}

VARIABLES
    record,     \* the consumption record file of every holdout
    out,        \* what the --out paths hold
    pc,         \* where a process is in its command
    art,        \* the freeze artifact it was given
    seen,       \* the record it last read
    verdict,    \* validate: report["passed"]; score: verify_only
    res,        \* the score it computed
    outPath,    \* its --out path
    serialized, \* one command at a time
    commands,   \* ghost: commands started
    read,       \* ghost: holdouts whose matrix was opened
    passed,     \* ghost: holdouts a PASS was ever written for
    reported    \* ghost: outcomes returned to a caller, per holdout

fileVars == <<record, out>>
procVars == <<pc, art, seen, verdict, res, outPath>>
ghosts == <<serialized, commands, read, passed, reported>>
vars == <<fileVars, procVars, ghosts>>

-----------------------------------------------------------------------------
(* The record *)

Entry == [event : {"opened"}, outcome : {NoResult}, artifact : Freezes]
            \cup [event : {"trade_validation"}, outcome : BOOLEAN, artifact : Freezes]
            \cup [event : {"holdout_score"}, outcome : Results, artifact : Freezes]

States == {"frozen", "validated", "validation_failed", "scored"}

Record == [artifact : Freezes, state : States, history : Seq(Entry)]

ASSUME RecordAssumption == {NoRecord, Torn} \cap Record = {} /\ NoRecord # Torn

\* load_record: a missing or truncated file raises.
Readable(r) == r \notin {NoRecord, Torn}

NewRecord(f) ==
    [artifact |-> f, state |-> "frozen",
     history |-> <<[event |-> "opened", outcome |-> NoResult, artifact |-> f]>>]

Advance(r, s, e, o) ==
    [r EXCEPT !.state = s,
              !.history = Append(@, [event |-> e, outcome |-> o, artifact |-> r.artifact])]

\* record_path_for: the path does not depend on the freeze artifact's hash.
H(p) == HoldoutOf[art[p]]

RecordFor(f) == record[HoldoutOf[f]]

\* load_record followed by _require_artifact.
Opens(f, state) ==
    /\ Readable(RecordFor(f))
    /\ RecordFor(f).artifact = f
    /\ RecordFor(f).state = state

-----------------------------------------------------------------------------
Init ==
    /\ record = [h \in Holdouts |-> NoRecord]
    /\ out = [o \in Outs |-> "absent"]
    /\ pc = [p \in Procs |-> "idle"]
    /\ art = [p \in Procs |-> NoFreeze]
    /\ seen = [p \in Procs |-> NoRecord]
    /\ verdict = [p \in Procs |-> FALSE]
    /\ res = [p \in Procs |-> NoResult]
    /\ outPath = [p \in Procs |-> NoOut]
    /\ serialized \in BOOLEAN
    /\ commands = 0
    /\ read = {}
    /\ passed = {}
    /\ reported = [h \in Holdouts |-> {}]

\* A command begins in a fresh process.
Start(p, f) ==
    /\ pc[p] = "idle"
    /\ serialized => \A q \in Procs : pc[q] = "idle"
    /\ commands < MaxCommands
    /\ commands' = commands + 1
    /\ art' = [art EXCEPT ![p] = f]

Goto(p, l) == pc' = [pc EXCEPT ![p] = l]

\* The process of a command ends and its memory with it.
Exit(p) ==
    /\ Goto(p, "idle")
    /\ art' = [art EXCEPT ![p] = NoFreeze]
    /\ seen' = [seen EXCEPT ![p] = NoRecord]
    /\ verdict' = [verdict EXCEPT ![p] = FALSE]
    /\ res' = [res EXCEPT ![p] = NoResult]
    /\ outPath' = [outPath EXCEPT ![p] = NoOut]

Report(h, e) == reported' = [reported EXCEPT ![h] = @ \cup {e}]

(* holdout-open *)

\* authorize_freeze: a fabricated artifact, however self-consistent, is not
\* what build_freeze_artifact makes of the dev result and the ledger.
Authorizes(f) == f \in Authorized

\* authorize_freeze and the existence check of open_transaction.
HoldoutOpen(p, f) ==
    /\ Start(p, f)
    /\ Authorizes(f)
    /\ RecordFor(f) = NoRecord
    /\ Goto(p, "opening")
    /\ UNCHANGED <<fileVars, seen, verdict, res, outPath, serialized, read, passed, reported>>

\* O_CREAT | O_EXCL: the file exists, empty, before its content does.
CreateRecord(p) ==
    /\ pc[p] = "opening"
    /\ \/ /\ record[H(p)] = NoRecord
          /\ record' = [record EXCEPT ![H(p)] = Torn]
          /\ Goto(p, "creating")
          /\ UNCHANGED <<out, art, seen, verdict, res, outPath, ghosts>>
       \/ /\ record[H(p)] # NoRecord
          /\ Exit(p)
          /\ UNCHANGED <<fileVars, ghosts>>

FinishCreate(p) ==
    /\ pc[p] = "creating"
    /\ record' = [record EXCEPT ![H(p)] = NewRecord(art[p])]
    /\ Exit(p)
    /\ UNCHANGED <<out, ghosts>>

(* holdout-validate *)

\* record_trade_validation up to its write: the record is read once, and a
\* report of the exact frozen scope and thresholds is at hand.
HoldoutValidate(p, f, v) ==
    /\ Start(p, f)
    /\ Opens(f, "frozen")
    /\ seen' = [seen EXCEPT ![p] = RecordFor(f)]
    /\ verdict' = [verdict EXCEPT ![p] = v]
    /\ Goto(p, "validating")
    /\ UNCHANGED <<fileVars, res, outPath, serialized, read, passed, reported>>

\* The write, from the record read above, and the exit status of the command.
WriteValidation(p) ==
    /\ pc[p] = "validating"
    /\ LET s == IF verdict[p] THEN "validated" ELSE "validation_failed"
           r == Advance(seen[p], s, "trade_validation", verdict[p])
       IN /\ record' = [record EXCEPT ![H(p)] = r]
          /\ Report(H(p), Last(r.history))
    /\ passed' = IF verdict[p] THEN passed \cup {H(p)} ELSE passed
    /\ Exit(p)
    /\ UNCHANGED <<out, serialized, commands, read>>

(* holdout-score *)

\* Mutant: the state check before any holdout byte is read is left to the
\* scorer.
HoldoutScoreUnchecked(p, f, o, v) ==
    /\ Start(p, f)
    /\ Readable(RecordFor(f)) /\ RecordFor(f).artifact = f
    /\ verdict' = [verdict EXCEPT ![p] = v]
    /\ outPath' = [outPath EXCEPT ![p] = o]
    /\ Goto(p, "checked")
    /\ UNCHANGED <<fileVars, seen, res, serialized, read, passed, reported>>

\* The fail-before-load boundary of cmd_holdout_score.
HoldoutScore(p, f, o, v) ==
    /\ Start(p, f)
    /\ Opens(f, IF v THEN "scored" ELSE "validated")
    /\ verdict' = [verdict EXCEPT ![p] = v]
    /\ outPath' = [outPath EXCEPT ![p] = o]
    /\ Goto(p, "checked")
    /\ UNCHANGED <<fileVars, seen, res, serialized, read, passed, reported>>

\* _preflight_out: an existing file at --out is never clobbered.
PreflightOut(p) ==
    /\ pc[p] = "checked"
    /\ \/ /\ out[outPath[p]] = "absent"
          /\ out' = [out EXCEPT ![outPath[p]] = "preflight"]
          /\ Goto(p, "loading")
          /\ UNCHANGED <<record, art, seen, verdict, res, outPath, ghosts>>
       \/ /\ out[outPath[p]] # "absent"
          /\ Exit(p)
          /\ UNCHANGED <<fileVars, ghosts>>

\* Any exception of the scoring block: _cleanup_preflight removes the
\* placeholder and nothing else.
ScoreFails(p) ==
    /\ out' = [out EXCEPT ![outPath[p]] = IF @ = "preflight" THEN "absent" ELSE @]
    /\ Exit(p)
    /\ UNCHANGED <<record, ghosts>>

\* A frozen pin of the manifests, the dev matrix, or the holdout frame fails.
InputsRefused(p) ==
    /\ pc[p] \in {"loading", "loaded", "fitting"}
    /\ ScoreFails(p)

\* Writing the consumed record raises: the old record is still in place.
WriteScoreFails(p) ==
    /\ pc[p] = "consuming"
    /\ ScoreFails(p)

\* Only after every data-free pin and the dev matrix: the holdout is opened.
ReadHoldout(p) ==
    /\ pc[p] = "loading"
    /\ read' = read \cup {H(p)}
    /\ Goto(p, "loaded")
    /\ UNCHANGED <<fileVars, art, seen, verdict, res, outPath, serialized, commands,
                   passed, reported>>

\* score_fixed_holdout reads the record again.
ScoreReread(p) ==
    /\ pc[p] = "loaded"
    /\ \/ /\ Opens(art[p], IF verdict[p] THEN "scored" ELSE "validated")
          /\ seen' = [seen EXCEPT ![p] = record[H(p)]]
          /\ Goto(p, "fitting")
          /\ UNCHANGED <<fileVars, art, verdict, res, outPath, ghosts>>
       \/ /\ ~ Opens(art[p], IF verdict[p] THEN "scored" ELSE "validated")
          /\ ScoreFails(p)

\* The fixed configuration is refit and scored.  verify_only keeps the
\* metrics only if they reproduce the recorded score.
Computed(p, r) ==
    /\ pc[p] = "fitting"
    /\ res' = [res EXCEPT ![p] =
                  IF verdict[p] /\ Last(seen[p].history).outcome # r THEN NoResult ELSE r]
    /\ Goto(p, IF verdict[p] THEN "writing" ELSE "recording")
    /\ UNCHANGED <<fileVars, art, seen, verdict, outPath, ghosts>>

\* record_holdout_score up to its write: the third read of the record.
RecordScore(p) ==
    /\ pc[p] = "recording"
    /\ \/ /\ Opens(art[p], "validated")
          /\ seen' = [seen EXCEPT ![p] = record[H(p)]]
          /\ Goto(p, "consuming")
          /\ UNCHANGED <<fileVars, art, verdict, res, outPath, ghosts>>
       \/ /\ ~ Opens(art[p], "validated")
          /\ ScoreFails(p)

\* Mutant: the score replaces the record's history instead of extending it.
WriteScoreFresh(p) ==
    /\ pc[p] = "consuming"
    /\ LET r == Advance(NewRecord(art[p]), "scored", "holdout_score", res[p])
       IN /\ record' = [record EXCEPT ![H(p)] = r]
          /\ Report(H(p), Last(r.history))
    /\ Goto(p, "writing")
    /\ UNCHANGED <<out, art, seen, verdict, res, outPath, serialized, commands, read, passed>>

\* The transaction is consumed before the result file exists.
WriteScore(p) ==
    /\ pc[p] = "consuming"
    /\ LET r == Advance(seen[p], "scored", "holdout_score", res[p])
       IN /\ record' = [record EXCEPT ![H(p)] = r]
          /\ Report(H(p), Last(r.history))
    /\ Goto(p, "writing")
    /\ UNCHANGED <<out, art, seen, verdict, res, outPath, serialized, commands, read, passed>>

\* _write_json of the result over the placeholder; a verify-only run that did
\* not reproduce the score writes a result without metrics.
WriteResult(p) ==
    /\ pc[p] = "writing"
    /\ out' = [out EXCEPT ![outPath[p]] = IF res[p] = NoResult THEN "no metrics" ELSE res[p]]
    /\ Exit(p)
    /\ UNCHANGED <<record, ghosts>>

\* The process dies anywhere, or a write outside the scoring block raises.
\* Files stay as they are.
Die(p) ==
    /\ pc[p] # "idle"
    /\ Exit(p)
    /\ UNCHANGED <<fileVars, ghosts>>

-----------------------------------------------------------------------------
Next ==
    \E p \in Procs :
        \/ \E f \in Freezes :
              \/ HoldoutOpen(p, f)
              \/ \E v \in BOOLEAN :
                    \/ HoldoutValidate(p, f, v)
                    \/ \E o \in Outs : HoldoutScore(p, f, o, v)
        \/ CreateRecord(p) \/ FinishCreate(p) \/ WriteValidation(p)
        \/ PreflightOut(p) \/ InputsRefused(p) \/ ReadHoldout(p) \/ ScoreReread(p)
        \/ \E r \in Results : Computed(p, r)
        \/ RecordScore(p) \/ WriteScore(p) \/ WriteScoreFails(p) \/ WriteResult(p)
        \/ Die(p)

Spec == Init /\ [][Next]_vars

-----------------------------------------------------------------------------
(* Properties *)

\* Every variable has its type.
TypeOK ==
    /\ record \in [Holdouts -> Record \cup {NoRecord, Torn}]
    /\ out \in [Outs -> Results \cup {"absent", "preflight", "no metrics"}]
    /\ pc \in [Procs -> {"idle", "opening", "creating", "validating", "checked", "loading",
                         "loaded", "fitting", "recording", "consuming", "writing"}]
    /\ art \in [Procs -> Freezes \cup {NoFreeze}]
    /\ seen \in [Procs -> Record \cup {NoRecord}]
    /\ verdict \in [Procs -> BOOLEAN]
    /\ res \in [Procs -> Results \cup {NoResult}]
    /\ outPath \in [Procs -> Outs \cup {NoOut}]
    /\ serialized \in BOOLEAN
    /\ commands \in 0 .. MaxCommands
    /\ read \subseteq Holdouts
    /\ passed \subseteq Holdouts
    /\ reported \in [Holdouts -> SUBSET Entry]

\* The histories a transaction may show in each state.
LegalHistory(r) ==
    LET opened == NewRecord(r.artifact)
        judged(v) == Advance(opened, IF v THEN "validated" ELSE "validation_failed",
                             "trade_validation", v)
    IN \/ r = opened
       \/ \E v \in BOOLEAN : r = judged(v)
       \/ \E x \in Results : r = Advance(judged(TRUE), "scored", "holdout_score", x)

\* No holdout matrix was opened before its exact-scope validation PASSed.
SealedUntilPass == read \subseteq passed

\* The commands that reported of a holdout worked under one artifact.
OneArtifact ==
    \A h \in Holdouts : \A e, f \in reported[h] : e.artifact = f.artifact

\* Whatever commands overlap and wherever they die, a holdout sees the one
\* transaction of the module docstring: a readable record shows it opened, one
\* verdict, and a score only after a PASS; everything reported of it is of the
\* one artifact that opened it; and its matrix is read only after the PASS.
RecordIsOneTransaction ==
    /\ \A h \in Holdouts : Readable(record[h]) =>
          /\ HoldoutOf[record[h].artifact] = h
          /\ record[h].artifact \in Authorized
          /\ LegalHistory(record[h])
    /\ OneArtifact
    /\ SealedUntilPass

\* The outcomes a command reported are still in the record.
OutcomesKept ==
    \A h \in Holdouts : reported[h] # {} =>
        Readable(record[h]) /\ reported[h] \subseteq ToSet(record[h].history)

\* The module docstring: after a FAIL, scoring is refused forever.
FailRefusesForever ==
    \A h \in Holdouts :
        (\E e \in reported[h] : e.event = "trade_validation" /\ e.outcome = FALSE) =>
            record[h].state = "validation_failed"

\* Metrics exist outside the record only if they are the recorded score.
MetricsAreTheScore ==
    \A o \in Outs : out[o] \in Results =>
        \E h \in Holdouts : /\ Readable(record[h])
                            /\ Last(record[h].history).outcome = out[o]

\* Run one command at a time, a reported verdict or score is final: a FAIL
\* refuses scoring forever and there is one score; neither a crash between
\* consumption and the result file nor any number of verify-only runs yields a
\* second one.
SerialOutcomesAreFinal == serialized => OutcomesKept /\ MetricsAreTheScore

=============================================================================
