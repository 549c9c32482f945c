-------------------------- MODULE DevelopmentFreeze --------------------------
(***************************************************************************)
(* From a development build to a selection freeze: produce_development and *)
(* write_development, the inputs a run verifies, the ladder over the       *)
(* append-only ledger, development_selection, build_freeze and the         *)
(* validation of a freeze against a run.  The ledger is the durable log    *)
(* G0BNLedger implements; a forecast series is named by the matrix and the *)
(* manifest it was computed from, a ledger hash by the number of events.   *)
(* Other code may attempt trials off the ladder in the same ledger.        *)
(***************************************************************************)
EXTENDS Integers, Sequences, FiniteSets

CONSTANTS DevBuilds,             \* what the producer may build from the certified objects
          Horizons, Primary,     \* the ladder's horizons, in order, and the primary ones
          Ranked, Selectable,    \* CANDIDATE_IDS in ladder order; the selectable ones
          Variants,              \* <<horizon, name>> of trials off the ladder
          Merits,                \* what the statistics may come out as
          NoBuild,
          MaxWrites, MaxRuns, MaxVariants, MaxAborts    \* bounds

\* What the theorems assume of the constants: every selectable candidate is
\* ranked, and what the statistics say of one can be compared.
Candidates == {Ranked[n] : n \in DOMAIN Ranked}

ASSUME SelectionAssumption ==
    /\ NoBuild \notin DevBuilds
    /\ Ranked \in Seq(Candidates) /\ Selectable \subseteq Candidates
    /\ Merits \subseteq [Candidates -> [lift : Int, net : Int, withstands : Int]]

VARIABLES devFiles,    \* the matrix and the manifest
          producer,    \* write_development, if one is running
          identities,  \* history: the builds whose identity was returned
          trials,      \* the ledger file
          run,         \* the process that runs the ladder and freezes
          frozen,      \* the freeze file
          accepted,    \* history: freezes accepted, with the ledger of that moment
          merit,
          writes, started, varied, aborts

devFreezeVars == <<devFiles, producer, identities, trials, run, frozen, accepted, merit,
                   writes, started, varied, aborts>>
devBounds == <<writes, started, varied, aborts>>

\* A file is named by the build it is of; one that cannot be read is of none.
Unreadable == NoBuild
NoProducer == [pc |-> "none"]
NoRun == [pc |-> "none"]
Unfrozen == NoBuild

-----------------------------------------------------------------------------
(* write_development: two files written in place, neither synced. *)

StartWrite ==
    /\ producer = NoProducer /\ writes < MaxWrites
    /\ \E b \in DevBuilds : producer' = [pc |-> "open matrix", build |-> b]
    /\ writes' = writes + 1
    /\ UNCHANGED <<devFiles, identities, trials, run, frozen, accepted, merit, started, varied, aborts>>

\* Opening a file truncates it; closing it leaves the build's content.
WriteFile(f, opening, closing, next) ==
    /\ \/ /\ producer.pc = opening
          /\ devFiles' = [devFiles EXCEPT ![f] = Unreadable]
          /\ producer' = [producer EXCEPT !.pc = closing]
       \/ /\ producer.pc = closing
          /\ devFiles' = [devFiles EXCEPT ![f] = producer.build]
          /\ producer' = [producer EXCEPT !.pc = next]
    /\ UNCHANGED <<identities, trials, run, frozen, accepted, merit, devBounds>>

WriteDevMatrix == WriteFile("matrix", "open matrix", "close matrix", "open manifest")
WriteDevManifest == WriteFile("manifest", "open manifest", "close manifest", "return")

\* The logical identity of the build is what the producer returns.
WriteReturns ==
    /\ producer.pc = "return"
    /\ identities' = identities \cup {producer.build}
    /\ producer' = NoProducer
    /\ UNCHANGED <<devFiles, trials, run, frozen, accepted, merit, devBounds>>

ProducerKilled ==
    /\ producer # NoProducer
    /\ producer' = NoProducer
    /\ UNCHANGED <<devFiles, identities, trials, run, frozen, accepted, merit, devBounds>>

-----------------------------------------------------------------------------
(* Identities and the ledger *)

\* base_trial_identities: horizon-major, in ladder order.
Ladder ==
    [n \in 1 .. Len(Horizons) * Len(Ranked) |->
        <<Horizons[((n - 1) \div Len(Ranked)) + 1], Ranked[((n - 1) % Len(Ranked)) + 1]>>]

\* A trial's identity carries the build's; the first one pins the ledger.
Trial(b, rung) == <<b, rung[1], rung[2]>>

Registrable(log, t) == log.pin \in {NoBuild, t[1]}

Logged(log, t) == [log EXCEPT !.pin = t[1], !.attempted = @ \cup {t}, !.events = @ + 1]

\* The first completion pins the result; another one must reproduce it.
Completable(log, t, series) ==
    \A s \in log.scored : s.trial = t => s.series = series

Completed(log, t, series) ==
    [Logged(log, t) EXCEPT !.scored = @ \cup {[trial |-> t, series |-> series]}]

ScoredTrials(log) == {s.trial : s \in log.scored}

-----------------------------------------------------------------------------
(* run_g0bn_development *)

\* A process has the ledger bound until it closes it or ends.
LedgerFree == run.pc \in {"none", "closed"}

StartRun ==
    /\ run = NoRun /\ started < MaxRuns
    /\ \E b \in identities :
          run' = [pc |-> "read matrix", identity |-> b, rows |-> Unreadable,
                  manifest |-> Unreadable, log |-> trials, next |-> 1, forecasts |-> {}]
    /\ started' = started + 1
    /\ UNCHANGED <<devFiles, producer, identities, trials, frozen, accepted, merit,
                   writes, varied, aborts>>

\* The caller loads the two files, one after the other.
ReadInput(field, f, pc, next) ==
    /\ run.pc = pc
    /\ devFiles[f] # Unreadable
    /\ run' = [run EXCEPT ![field] = devFiles[f], !.pc = next]
    /\ UNCHANGED <<devFiles, producer, identities, trials, frozen, accepted, merit, devBounds>>

ReadMatrix == ReadInput("rows", "matrix", "read matrix", "read manifest")
ReadManifest == ReadInput("manifest", "manifest", "read manifest", "verify")

\* Mutant of InputsVerified: the rows are not hashed.
ManifestVerified(r) == r.manifest = r.identity

\* verify_development_inputs: both files are the ones the identity is of.
InputsVerified(r) ==
    /\ r.manifest = r.identity
    /\ r.rows = r.identity

VerifyInputs ==
    /\ run.pc = "verify" /\ InputsVerified(run)
    /\ run' = [run EXCEPT !.pc = "start"]
    /\ UNCHANGED <<devFiles, producer, identities, trials, frozen, accepted, merit, devBounds>>

Rung == Trial(run.identity, Ladder[run.next])

\* The attempt is durable before its fit.
RecordStart ==
    /\ run.pc = "start" /\ Registrable(run.log, Rung)
    /\ trials' = Logged(run.log, Rung)
    /\ run' = [run EXCEPT !.pc = "fit", !.log = Logged(run.log, Rung)]
    /\ UNCHANGED <<devFiles, producer, identities, frozen, accepted, merit, devBounds>>

NextRung(r) ==
    IF r.next = Len(Ladder) THEN [r EXCEPT !.pc = "done"]
    ELSE [r EXCEPT !.pc = "start", !.next = @ + 1]

\* The collapsed forecasts of the fifteen splits are deterministic.
FitCompletes ==
    LET series == <<run.rows, run.manifest>>
        log == Completed(run.log, Rung, series)
    IN  /\ run.pc = "fit" /\ Completable(run.log, Rung, series)
        /\ trials' = log
        /\ run' = NextRung([run EXCEPT !.log = log, !.forecasts = @ \cup {Rung}])
        /\ UNCHANGED <<devFiles, producer, identities, frozen, accepted, merit, devBounds>>

FitAborts ==
    /\ run.pc = "fit" /\ aborts < MaxAborts
    /\ trials' = Logged(run.log, Rung)
    /\ run' = NextRung([run EXCEPT !.log = Logged(run.log, Rung)])
    /\ aborts' = aborts + 1
    /\ UNCHANGED <<devFiles, producer, identities, frozen, accepted, merit, writes, started, varied>>

\* close() lets go of the lock; what was loaded stays in memory.
CloseLedger ==
    /\ run.pc = "done"
    /\ run' = [run EXCEPT !.pc = "closed"]
    /\ UNCHANGED <<devFiles, producer, identities, trials, frozen, accepted, merit, devBounds>>

\* An error anywhere, a refusal, or the end of the process.
RunEnds ==
    /\ run # NoRun
    /\ run' = NoRun
    /\ UNCHANGED <<devFiles, producer, identities, trials, frozen, accepted, merit, devBounds>>

\* A trial off the ladder, by other code, with or without an outcome.
AttemptVariant ==
    /\ LedgerFree /\ varied < MaxVariants
    /\ \E v \in Variants, b \in identities, scores \in BOOLEAN :
          LET t == Trial(b, v)
          IN  /\ Registrable(trials, t)
              /\ trials' = IF scores /\ Completable(trials, t, <<b, b>>)
                           THEN Completed(Logged(trials, t), t, <<b, b>>) ELSE Logged(trials, t)
    /\ varied' = varied + 1
    /\ UNCHANGED <<devFiles, producer, identities, run, frozen, accepted, merit,
                   writes, started, aborts>>

\* The matrix and the manifest were never synced; the ledger was.
DevMachineStops ==
    /\ \E torn \in SUBSET DOMAIN devFiles :
          devFiles' = [f \in DOMAIN devFiles |-> IF f \in torn THEN Unreadable ELSE devFiles[f]]
    /\ producer' = NoProducer /\ run' = NoRun
    /\ UNCHANGED <<identities, trials, frozen, accepted, merit, devBounds>>

-----------------------------------------------------------------------------
(* development_selection *)

OnLadder(t) == \E n \in DOMAIN Horizons : Horizons[n] = t[2]

\* Mutant of EffectiveN: attempts without a score are left out.
ScoredN(log) == Cardinality(ScoredTrials(log))

\* Every identity counts once, the aborted ones and those off the ladder too.
EffectiveN(log) == Cardinality(log.attempted)

\* What is scored on a ladder horizon needs its series; build_freeze has those
\* of the run only.  The base ladder must have been attempted.
SelectionRuns(r) ==
    /\ r.pc \in {"done", "closed"} /\ InputsVerified(r)
    /\ r.log.pin = r.identity
    /\ \A t \in ScoredTrials(r.log) : OnLadder(t) => t \in r.forecasts
    /\ \A n \in DOMAIN Ladder : Trial(r.identity, Ladder[n]) \in r.log.attempted

BaseComplete(r, h) ==
    \A n \in DOMAIN Ranked : Trial(r.identity, <<h, Ranked[n]>>) \in ScoredTrials(r.log)

\* _candidate_reasons: none.
Predictive(r, h) ==
    {n \in DOMAIN Ranked : Ranked[n] \in Selectable /\ BaseComplete(r, h)
                           /\ merit[Ranked[n]].lift > 0}

\* _trade_reasons: none.  The Sharpe is deflated by every trial.
Trades(r, h) ==
    {n \in Predictive(r, h) : merit[Ranked[n]].net > 0
                              /\ EffectiveN(r.log) <= merit[Ranked[n]].withstands}

\* rank_selectable: descending, the earlier of the ladder on a tie.
Beats(mode, m, n) ==
    LET a == merit[Ranked[m]]
        b == merit[Ranked[n]]
        byLift == a.lift > b.lift \/ (a.lift = b.lift /\ m < n)
    IN  IF mode = "trade" THEN a.net > b.net \/ (a.net = b.net /\ byLift) ELSE byLift

Select(r, h) ==
    LET mode == IF Trades(r, h) # {} THEN "trade" ELSE "predictive"
        pool == IF mode = "trade" THEN Trades(r, h) ELSE Predictive(r, h)
    IN  [mode |-> mode, candidate |-> Ranked[CHOOSE m \in pool :
                                          \A n \in pool \ {m} : Beats(mode, m, n)]]

FreezeBlocked(r) == \E h \in Primary : Predictive(r, h) = {}

-----------------------------------------------------------------------------
(* build_freeze and validate_freeze with the run *)

\* generated_at is an argument, so a rebuild has the same.
Derived(r) ==
    [identity |-> r.identity, n |-> EffectiveN(r.log),
     ledger |-> r.log.events, selected |-> [h \in Primary |-> Select(r, h)]]

CanFreeze(r) == SelectionRuns(r) /\ ~ FreezeBlocked(r)

FreezeRun ==
    /\ CanFreeze(run)
    /\ frozen' = Derived(run)
    /\ UNCHANGED <<devFiles, producer, identities, trials, run, accepted, merit, devBounds>>

\* The freeze is accepted when it is exactly what the run derives, by a runner
\* that holds the ledger.
AcceptFreeze ==
    /\ run.pc = "done" /\ CanFreeze(run) /\ frozen = Derived(run)
    /\ accepted' = accepted \cup {[freeze |-> frozen, log |-> trials]}
    /\ UNCHANGED <<devFiles, producer, identities, trials, run, frozen, merit, devBounds>>

-----------------------------------------------------------------------------
DevFreezeInit ==
    /\ devFiles = [f \in {"matrix", "manifest"} |-> Unreadable]
    /\ producer = NoProducer /\ run = NoRun /\ frozen = Unfrozen
    /\ identities = {} /\ accepted = {}
    /\ trials = [pin |-> NoBuild, attempted |-> {}, scored |-> {}, events |-> 0]
    /\ merit \in Merits
    /\ writes = 0 /\ started = 0 /\ varied = 0 /\ aborts = 0

DevFreezeNext ==
    \/ StartWrite \/ WriteDevMatrix \/ WriteDevManifest \/ WriteReturns \/ ProducerKilled
    \/ StartRun \/ ReadMatrix \/ ReadManifest \/ VerifyInputs
    \/ RecordStart \/ FitCompletes \/ FitAborts \/ CloseLedger \/ RunEnds
    \/ AttemptVariant \/ DevMachineStops \/ FreezeRun \/ AcceptFreeze

DevFreezeSpec == DevFreezeInit /\ [][DevFreezeNext]_devFreezeVars

-----------------------------------------------------------------------------
(* Properties *)

\* The two files of a build are written in place, one after the other, and read
\* one after the other, through crashes and other builds; still every outcome
\* the ledger keeps was computed from a matrix and a manifest of one build that
\* was returned, the one the ledger is pinned to.
DevelopmentRunsOnePair ==
    \A s \in trials.scored :
        /\ s.series = <<trials.pin, trials.pin>>
        /\ trials.pin \in identities

\* The choice for a horizon that the log's attempts, scores and this merit make.
IsTheChoice(choice, h, identity, log) ==
    LET all == Cardinality(log.attempted)
        chosen == merit[choice.candidate]
        tradable(c) == merit[c].lift > 0 /\ merit[c].net > 0 /\ all <= merit[c].withstands
    IN  /\ Trial(identity, <<h, choice.candidate>>) \in ScoredTrials(log)
        /\ choice.candidate \in Selectable
        /\ (choice.mode = "trade") <=> (\E c \in Selectable : tradable(c))
        /\ (choice.mode = "trade") => tradable(choice.candidate)
        /\ \A c \in Selectable :
              IF choice.mode = "trade" THEN tradable(c) => merit[c].net <= chosen.net
              ELSE merit[c].lift <= chosen.lift

\* An accepted freeze answers for every attempt in the ledger of that moment:
\* its effective N counts them all, a candidate it trades on withstands that
\* many, and its choice is scored and beaten by no candidate that is eligible
\* under that N, although runs abort, trials are added off the ladder between a
\* run and its freeze, and freezes outlive the runs they came from.
AcceptedFreezeCountsEverything ==
    \A a \in accepted :
        /\ a.freeze.n = Cardinality(a.log.attempted)
        /\ \A h \in Primary : IsTheChoice(a.freeze.selected[h], h, a.freeze.identity, a.log)
=============================================================================
