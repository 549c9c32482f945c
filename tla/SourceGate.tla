----------------------------- MODULE SourceGate -----------------------------
(***************************************************************************)
(* src/scripts/run_binance_source_gate.py: the commands that decide which  *)
(* vendor the pilot buys from.  Each reads the stores or earlier reports   *)
(* and writes one report; every report stays on disk while the raw store   *)
(* is refreshed, stage 2 runs again or the preregistration is amended, so  *)
(* what a command reads may be about something else by now.                *)
(***************************************************************************)
EXTENDS BinanceRecon, FiniteSetsExt

CONSTANTS Pinned,        \* the preregistered content of each partition
          MaxTick,       \* the finest tick measure_float_price_scale finds
          ExpectedScale, \* tick_rules.expected_tick, as a scale
          Scales,        \* what --scale may be
          TradeUnits,    \* the units of trades, whose prices the scale must fit too
          FillUnits,     \* those of liquidations: gated, and no part of the scale
          IndexUnits,    \* those of funding, whose prices are only described
          MaxAmendments  \* bound on the amendments of the preregistration

ASSUME GateAssumption ==
    /\ TradeUnits \union FillUnits \union IndexUnits \subseteq Units \ TopKUnits
    /\ FillUnits \subseteq SparseUnits

VARIABLES contract,  \* the content of the preregistration
          report,    \* the report each command last wrote
          checking   \* a verify-inputs in progress

lakeVars == <<reconVars, contract, report, checking>>

-----------------------------------------------------------------------------
(* verify-inputs, file by file: the identity it records is that of the bytes it hashed,
   since it is read before and after the hashing and both must agree. *)
Entries == IF checking = Idle THEN <<>> ELSE checking.entries

VerifyBegin ==
    /\ checking.pc # "hashing"
    /\ \E f \in Partitions \ DOMAIN Entries :
          /\ f = CHOOSE g \in Partitions \ DOMAIN Entries : TRUE
          /\ checking' = [pc |-> "hashing", entries |-> Entries, file |-> f, before |-> raw[f].id]
    /\ UNCHANGED <<reconVars, contract, report>>

\* Of a file that is not there, nothing is recorded but that.
Entry(f, before) ==
    [id |-> IF before = 0 THEN 0 ELSE raw[f].id,
     ok |-> before # 0 /\ raw[f].id = before /\ raw[f].content = Pinned[f]]

\* A file is done; the report is written after the last one.
VerifyEnd ==
    /\ checking.pc = "hashing"
    /\ LET entries == [f \in DOMAIN checking.entries \union {checking.file} |->
                         IF f = checking.file THEN Entry(f, checking.before) ELSE checking.entries[f]]
       IN  IF DOMAIN entries = Partitions
           THEN /\ report' = [report EXCEPT !.verify =
                      [contract |-> contract, ids |-> [f \in Partitions |-> entries[f].id],
                       pass |-> \A f \in Partitions : entries[f].ok]]
                /\ checking' = Idle
           ELSE checking' = [pc |-> "next", entries |-> entries] /\ UNCHANGED report
    /\ UNCHANGED <<reconVars, contract>>

Readable(f) == raw[f].content # Absent

UnitsOf(i, kind) == {u \in kind : InstrumentOf[u] = i}

\* The feeds that are replayed: deltas, trades and the book seed.
ReplayFeeds(i) == UNION {Inputs(u) : u \in UnitsOf(i, TopKUnits \union TradeUnits)}
GatedFeeds(i) == ReplayFeeds(i) \union {Feed[u] : u \in UnitsOf(i, FillUnits)}

\* The scale all replayed prices of an instrument are whole at, if there is one.
MeasuredScale(i) ==
    LET finest == Max({raw[f].content.tick : f \in ReplayFeeds(i)})
    IN  IF finest > MaxTick THEN None ELSE Max({finest, ExpectedScale})

(* tick-scale: liquidations may be missing, and never null the scale; funding is read
   and never gated; open interest is not read. *)
TickScale ==
    /\ \A i \in Instruments : \A f \in ReplayFeeds(i) : Readable(f)
    /\ \A u \in IndexUnits : Readable(Feed[u])
    /\ report' = [report EXCEPT !.tick =
          [contract |-> contract, scale |-> [i \in Instruments |-> MeasuredScale(i)],
           pass |-> \A i \in Instruments : \A f \in GatedFeeds(i) :
                       Readable(f) => raw[f].content.tick <= MaxTick]]
    /\ UNCHANGED <<reconVars, contract, checking>>

DeltaFeeds == {Feed[u] : u \in TopKUnits}

Silence ==
    /\ \A f \in DeltaFeeds : Readable(f)
    /\ report' = [report EXCEPT !.silence =
          [contract |-> contract, pass |-> \A f \in DeltaFeeds : ~raw[f].content.silent]]
    /\ UNCHANGED <<reconVars, contract, checking>>

TopKUnitOf(i) == CHOOSE u \in TopKUnits : InstrumentOf[u] = i

(* replay-conformance: the day replayed twice, in one engine, and against the
   native engine where --scale is given with the Python one. *)
ReplayConformance ==
    \E i \in Instruments, engine \in {"python", "native"}, scale \in Scales \union {None} :
        LET u == TopKUnitOf(i)
            deltas == raw[Feed[u]].content
            book == raw[Book[u]].content
            frame(e) == Reconstruct(e, scale, deltas, book, "contract")
            ran == engine = "python" /\ scale # None
        IN  /\ Readable(Feed[u]) /\ Readable(Book[u])
            /\ engine = "native" => scale # None
            /\ scale # None => frame("native") # None
            /\ report' = [report EXCEPT !.replay[i] =
                  [contract |-> contract, frame |-> frame(engine), ran |-> ran,
                   conforms |-> ran => frame("python") = frame("native"),
                   frozen |-> deltas.frozen]]
            /\ UNCHANGED <<reconVars, contract, checking>>

-----------------------------------------------------------------------------
(* The stage-2 manifests, whose readers here take no unreadable line. *)
Parses(root) == ~store[root].ragged /\ ~store[root].unreadable

Semantic(rec) ==
    [status |-> rec.status, cls |-> rec.cls, ids |-> rec.ids, settings |-> rec.settings,
     sha |-> rec.sha]

Recorded(root) == {u \in Units : store[root].last[u] # None}

SemanticManifest(root) == [u \in Recorded(root) |-> Semantic(store[root].last[u])]

CompareStage2 ==
    \E run1, run2 \in Roots :
        /\ Parses(run1) /\ Parses(run2)
        /\ report' = [report EXCEPT !.determinism =
              [contract |-> contract,
               pass |-> SemanticManifest(run1) = SemanticManifest(run2),
               fingerprint |-> SemanticManifest(run1),
               units |-> Recorded(run1) \union Recorded(run2),
               engine1 |-> [u \in TopKUnits |-> IF store[run1].last[u] = None THEN None
                                                ELSE store[run1].last[u].engine],
               engine2 |-> [u \in TopKUnits |-> IF store[run2].last[u] = None THEN None
                                                ELSE store[run2].last[u].engine]]]
        /\ UNCHANGED <<reconVars, contract, checking>>

\* Mutant of FromVerifiedInputs: any identity on record will do.
FromVerifiedInputsBySize(rec, u) == \A f \in Inputs(u) : rec.ids[f] # 0

\* _check_raw_inputs: the record was made from the very files that were hashed.
FromVerifiedInputs(rec, u) ==
    \A f \in Inputs(u) : rec.ids[f] # 0 /\ report.verify.ids[f] = rec.ids[f]

\* What lake_unit_requirements ask of a unit.
MeetsRequirement(rec, u) ==
    IF u \in TopKUnits THEN rec.status = "ok" /\ rec.cls = Certified /\ rec.settings = "contract"
    ELSE rec.status = "ok" \/ (u \in SparseUnits /\ rec.status = "missing")

CrossEngine(u) ==
    LET one == report.determinism.engine1[u]
        two == report.determinism.engine2[u]
    IN  /\ one # None /\ one[1] = "python"
        /\ two # None /\ two[1] = "native" /\ two[2] = report.tick.scale[InstrumentOf[u]]

\* A day classified degraded under the contract is the one failure that only caps.
OnlyDegraded(rec, u) ==
    u \in TopKUnits /\ rec.cls = Degraded /\ rec.settings = "contract"

Present(steps) == \A s \in steps : report[s] # None

LakeReports == {"verify", "tick", "silence", "determinism"}
Replayed == {i \in Instruments : report.replay[i] # None}

\* No hard invalidator: every report is current, about this manifest and passes.
NoInvalidator(root) ==
    LET last == store[root].last
    IN  /\ \A s \in LakeReports : report[s].contract = contract
        /\ Replayed = Instruments
        /\ \A i \in Instruments : /\ report.replay[i].contract = contract
                                  /\ report.replay[i].ran => report.replay[i].conforms
        /\ report.verify.pass /\ report.determinism.pass
        /\ report.determinism.fingerprint = SemanticManifest(root)
        /\ report.determinism.units = Units
        /\ \A u \in Units : last[u] # None /\ FromVerifiedInputs(last[u], u)
        /\ \A u \in TopKUnits : CrossEngine(u)

\* An anomaly cap lets the day pass as degraded at best.
Capped(root) ==
    \/ ~report.tick.pass \/ ~report.silence.pass
    \/ \E i \in Replayed : report.replay[i].frozen
    \/ \E u \in TopKUnits : OnlyDegraded(store[root].last[u], u)

LakeVerdict(root) ==
    LET last == store[root].last
    IN  IF \/ ~NoInvalidator(root)
           \/ \E u \in Units : ~MeetsRequirement(last[u], u) /\ ~OnlyDegraded(last[u], u)
        THEN "inconclusive"
        ELSE IF Capped(root) THEN "degraded" ELSE "certified"

Verdict ==
    \E root \in Roots :
        /\ Parses(root) /\ Present(LakeReports) /\ Replayed # {}
        /\ report' = [report EXCEPT !.verdict =
              [contract |-> contract, lake |-> LakeVerdict(root), records |-> store[root].last]]
        /\ UNCHANGED <<reconVars, contract, checking>>

\* The preregistration is amended while reports lie around.
Amend ==
    /\ contract < MaxAmendments
    /\ contract' = contract + 1
    /\ UNCHANGED <<reconVars, report, checking>>

SourceGateInit ==
    /\ ReconInit
    /\ contract = 0
    /\ report = [verify |-> None, tick |-> None, silence |-> None, determinism |-> None,
                 verdict |-> None, replay |-> [i \in Instruments |-> None]]
    /\ checking = Idle

Stage2 == ReconNext /\ UNCHANGED <<contract, report, checking>>

SourceGateNext ==
    \/ Stage2 \/ VerifyBegin \/ VerifyEnd \/ TickScale \/ Silence \/ ReplayConformance
    \/ CompareStage2 \/ Verdict \/ Amend

SourceGateSpec == SourceGateInit /\ [][SourceGateNext]_lakeVars

-----------------------------------------------------------------------------
\* What the Python engine makes of the preregistered inputs under the contract.
PinnedOutput(u) ==
    IF u \in TopKUnits
    THEN ReconTopKDay("python", None, Pinned[Feed[u]], Pinned[Book[u]], "contract").frame
    ELSE Pinned[Feed[u]]

\* A record vouches for what the contract makes of the preregistered inputs.
OfPinned(u, rec) == rec.sha = PinnedOutput(u) \/ (u \in SparseUnits /\ rec.status = "missing")

\* A file it was built from was replaced after the runs of two stores had identified it
\* for this unit and before either had read it: both read other bytes, and agree on them.
ReplacedUnderBoth(u, rec) == \E f \in Inputs(u) : <<u, f, rec.ids[f]>> \in replacedUnderTwo

Certifies(verdict) == verdict # None /\ verdict.lake = Certified

(* A certified day is the preregistered one: each record of the manifest that was judged
   vouches for what the contract makes of the preregistered inputs, although the raw
   store was refreshed and stage 2 ran again, in overlapping runs, or died, between the
   commands and during them; but for a file replaced under both of the runs compared. *)
VerdictIsOfPinnedInputs ==
    Certifies(report.verdict) =>
        \A u \in Units : LET rec == report.verdict.records[u]
                         IN  OfPinned(u, rec) \/ ReplacedUnderBoth(u, rec)
=============================================================================
