---------------------------- MODULE BinanceRecon ----------------------------
(***************************************************************************)
(* Stage 2, src/scripts/run_binance_recon.py: one day of raw partitions is *)
(* rebuilt into processed outputs.  A unit's inputs are identified before  *)
(* they are read, its output is published before its record is appended to *)
(* the manifest, and a later run redoes a unit unless its last record      *)
(* still vouches for it.  Runs of different stores overlap, the raw store  *)
(* may be refreshed meanwhile, and a process may die anywhere.  Of one     *)
(* store, one run at a time is assumed: nothing in the code enforces it.   *)
(***************************************************************************)
EXTENDS Naturals, Sequences, FiniteSets

CONSTANTS Instruments,
          Units,        \* the outputs of a day
          TopKUnits,    \* those rebuilt from deltas and a book seed
          SparseUnits,  \* those whose partition may be absent
          InstrumentOf, \* the instrument of a unit
          Feed, Book,   \* the partition a unit is built from, and its seed
          Settings,     \* reconstruction contracts a run may be given
          RawContents,  \* what a partition may hold
          Roots,        \* processed stores
          RegisteredScale, \* _TICK_SCALE: of an instrument, or None
          NativeScales, \* scales stage2-native-run may be given
          MaxStarts,    \* bound on the runs started
          MaxRefreshes, \* bound on the refreshes of the raw store
          MaxCrashes,   \* bound on the crashes
          SeedCrossedPct, CrossedPct, MissingPct, ThinPct,   \* Thresholds
          Absent,       \* no such partition
          None

ASSUME ReconAssumption ==
    /\ TopKUnits # {} /\ TopKUnits \subseteq Units /\ SparseUnits \subseteq Units \ TopKUnits
    /\ InstrumentOf \in [Units -> Instruments]
    /\ \A u \in TopKUnits : Feed[u] # Book[u]
    /\ {SeedCrossedPct, CrossedPct, MissingPct, ThinPct} \subseteq 0..100
    /\ {MaxStarts, MaxRefreshes, MaxCrashes} \subseteq Nat

VARIABLES raw,      \* the raw store: identity and content of each partition
          store,    \* the processed stores: outputs and manifest
          proc,     \* of each store, the run in progress
          starts, refreshes, crashes,
          unrecorded, \* history: builds whose record a crash has lost
          replacedUnderTwo  \* history: identities replaced when two runs were to read them

reconVars == <<raw, store, proc, starts, refreshes, crashes, unrecorded, replacedUnderTwo>>

Partitions == {Feed[u] : u \in Units} \union {Book[u] : u \in TopKUnits}
Inputs(u) == {Feed[u]} \union (IF u \in TopKUnits THEN {Book[u]} ELSE {})

Certified == "certified"
Degraded == "degraded"
Inconclusive == "inconclusive"

-----------------------------------------------------------------------------
(* The seed gate, on the reasons classify_snapshot gives the candidates. *)
Count(reasons, r) == Cardinality({i \in DOMAIN reasons : reasons[i] = r})

PreclassifySnapshots(reasons) ==
    [n |-> Len(reasons),
     accepted |-> Count(reasons, "ok") > 0,
     reason |-> IF reasons = <<>> THEN "no_snapshots"
                ELSE IF Count(reasons, "ok") > 0 THEN "ok" ELSE reasons[1],
     crossed |-> Count(reasons, "crossed")]

Unreliable(pre) == pre.crossed * 100 > SeedCrossedPct * pre.n

\* The verdict before the replay, or None when the day may proceed to it.
SeedGateVerdict(pre) ==
    IF pre.n = 0 \/ ~pre.accepted \/ Unreliable(pre) THEN Inconclusive ELSE None

\* The same seed rules, then the measures of the replay.
ClassifyReplay(pre, meta) ==
    IF ~pre.accepted \/ Unreliable(pre) THEN Inconclusive
    ELSE IF meta.crossed > CrossedPct \/ meta.missing > MissingPct \/ meta.thin > ThinPct
    THEN Degraded ELSE Certified

(* The frame an engine makes of a day.  The native engine refuses a scale its
   prices do not fit, and may differ from the oracle on some days. *)
Reconstruct(engine, scale, deltas, book, setting) ==
    IF engine = "native" /\ scale < deltas.tick THEN None
    ELSE [deltas |-> deltas, book |-> book, setting |-> setting,
          agrees |-> IF engine = "native" THEN deltas.native ELSE "same"]

\* A day without the seed product has no candidates.
Candidates(book) == IF book = Absent THEN <<>> ELSE book.reasons

\* Only a certified day has a frame.
ReconTopKDay(engine, scale, deltas, book, setting) ==
    LET pre == PreclassifySnapshots(Candidates(book))
        gated == SeedGateVerdict(pre) # None
        cls == IF gated THEN SeedGateVerdict(pre) ELSE ClassifyReplay(pre, deltas)
        frame == Reconstruct(engine, scale, deltas, book, setting)
    IN  [cls |-> cls,
         frame |-> IF cls = Certified THEN frame ELSE None,
         raised |-> deltas.bad \/ (~gated /\ frame = None)]

-----------------------------------------------------------------------------
(* Identities, settings and the resume policy. *)
RawInputIdentities(u) == [f \in Inputs(u) |-> raw[f].id]

UnitSettings(u, setting) == IF u \in TopKUnits THEN setting ELSE "schema"

(* The last verdict is terminal for its feed class, was reached under the same
   contract, and its raw inputs are unchanged. *)
UnitIsDone(root, u, setting) ==
    LET rec == store[root].last[u]
    IN  /\ rec # None
        /\ \/ rec.status = "ok" /\ store[root].out[u] # None
           \/ rec.status = "missing" /\ u \in SparseUnits
           \/ rec.status \in {Degraded, Inconclusive}
        /\ rec.settings = UnitSettings(u, setting)
        /\ rec.ids = RawInputIdentities(u)

Record(u, ids, status, cls, settings, sha, engine) ==
    [status |-> status, cls |-> cls, ids |-> ids, settings |-> settings, sha |-> sha,
     engine |-> engine]

\* What the partitions hold.
Contents == [f \in Partitions |-> raw[f].content]

\* process_topk_unit: what it leaves in place of the output, and its record.
TopKResult(u, ids, p, held) ==
    LET deltas == held[Feed[u]]
        engine == p.engines[InstrumentOf[u]]
        bare(status) == Record(u, ids, status, None, "schema", None, None)
    IN  IF deltas = Absent \/ deltas.rows = 0 THEN bare("missing")
        ELSE LET day == ReconTopKDay(engine[1], engine[2], deltas, held[Book[u]], p.setting)
             IN  IF day.raised THEN bare("error")
                 ELSE Record(u, ids, IF day.frame # None THEN "ok" ELSE day.cls, day.cls,
                             p.setting, day.frame, engine)

\* process_table_unit: the partition normalized and sorted.
TableResult(u, ids, held) ==
    LET rows == held[Feed[u]]
        status == IF rows = Absent \/ rows.rows = 0 THEN "missing"
                  ELSE IF rows.bad THEN "error" ELSE "ok"
    IN  Record(u, ids, status, None, "schema", IF status = "ok" THEN rows ELSE None, None)

Result(u, ids, p, held) ==
    IF u \in TopKUnits THEN TopKResult(u, ids, p, held) ELSE TableResult(u, ids, held)

-----------------------------------------------------------------------------
Idle == [pc |-> "idle"]

EmptyStore == [out |-> [u \in Units |-> None], last |-> [u \in Units |-> None],
               ragged |-> FALSE, unreadable |-> FALSE]

ReconInit ==
    /\ raw \in {[f \in Partitions |-> [id |-> IF c[f] = Absent THEN 0 ELSE 1, content |-> c[f]]] :
                  c \in RawContents}
    /\ store = [r \in Roots |-> EmptyStore]
    /\ proc = [r \in Roots |-> Idle]
    /\ starts = 0 /\ refreshes = 0 /\ crashes = 0
    /\ unrecorded = {} /\ replacedUnderTwo = {}

\* The inputs that a run has identified and not read yet.
Unread(p) ==
    CASE p.pc = "read" -> Inputs(p.unit)
      [] p.pc = "build" -> Inputs(p.unit) \ {Feed[p.unit]}
      [] OTHER -> {}

\* The runs of two stores have f to read for u, under the identity it has now.
AwaitedByTwo(u, f) ==
    \E one, two \in Roots :
        /\ one # two
        /\ \A r \in {one, two} : /\ f \in Unread(proc[r]) /\ proc[r].unit = u
                                  /\ proc[r].ids[f] = raw[f].id

(* Stage 1 writes a partition, or writes it again: a new file, even of old content.
   It removes none. *)
Refresh ==
    /\ refreshes < MaxRefreshes
    /\ \E f \in Partitions : \E c \in {x[f] : x \in RawContents} \ {Absent} :
          /\ raw' = [raw EXCEPT ![f] = [id |-> refreshes + 2, content |-> c]]
          /\ replacedUnderTwo' = replacedUnderTwo
                \union {<<u, f, raw[f].id>> : u \in {v \in Units : AwaitedByTwo(v, f)}}
    /\ refreshes' = refreshes + 1
    /\ UNCHANGED <<store, proc, starts, crashes, unrecorded>>

Started(root, setting, engines, overwrite) ==
    [pc |-> "next", setting |-> setting, engines |-> engines,
     todo |-> {u \in Units : overwrite \/ ~UnitIsDone(root, u, setting)}]

(* The engine of each instrument, with its scale.  Python where it is asked for or the
   extension is not built; else the native one, for the instruments whose scale is
   registered; or the native one at the scales stage2-native-run is given. *)
Python == [i \in Instruments |-> <<"python", None>>]
Registered ==
    [i \in Instruments |-> IF RegisteredScale[i] = None THEN <<"python", None>>
                           ELSE <<"native", RegisteredScale[i]>>]
NativeAt(scales) == [i \in Instruments |-> <<"native", scales[i]>>]
Engines == {Python, Registered} \union {NativeAt(scales) : scales \in NativeScales}

\* A run of the script, or stage2-native-run: the same units under the contract.
StartRun ==
    /\ starts < MaxStarts
    /\ \E root \in Roots :
          /\ proc[root] = Idle
          /\ \/ \E setting \in Settings, engines \in {Python, Registered}, overwrite \in BOOLEAN :
                   proc' = [proc EXCEPT ![root] = Started(root, setting, engines, overwrite)]
             \/ \E scales \in NativeScales :
                   proc' = [proc EXCEPT ![root] = Started(root, "contract", NativeAt(scales), FALSE)]
    /\ starts' = starts + 1
    /\ UNCHANGED <<raw, store, refreshes, crashes, unrecorded, replacedUnderTwo>>

(* A worker takes the identities of its inputs before it reads them.  The units of a run
   share no file but the manifest, so one worker taking them in some order stands for all. *)
TakeIdentities(root) ==
    /\ proc[root].pc = "next" /\ proc[root].todo # {}
    /\ LET p == proc[root]
           u == CHOOSE v \in p.todo : TRUE
       IN  proc' = [proc EXCEPT ![root] =
                      [pc |-> "read", setting |-> p.setting, engines |-> p.engines,
                       todo |-> p.todo \ {u}, unit |-> u, ids |-> RawInputIdentities(u)]]
    /\ UNCHANGED <<raw, store, starts, refreshes, crashes, unrecorded, replacedUnderTwo>>

\* The partition is read; the seed is another file, read later.
ReadFeed(root) ==
    /\ proc[root].pc = "read"
    /\ LET p == proc[root]
       IN  proc' = [proc EXCEPT ![root] =
                      [pc |-> "build", setting |-> p.setting, engines |-> p.engines, todo |-> p.todo,
                       unit |-> p.unit, ids |-> p.ids, rows |-> raw[Feed[p.unit]].content]]
    /\ UNCHANGED <<raw, store, starts, refreshes, crashes, unrecorded, replacedUnderTwo>>

\* What a build has read: the rows it holds, and the seed as it lies there.
HeldBy(p) == [Contents EXCEPT ![Feed[p.unit]] = p.rows]

\* Read the seed, rebuild, and publish the output or remove the one that is there.
Build(root) ==
    /\ proc[root].pc = "build"
    /\ LET p == proc[root]
           rec == Result(p.unit, p.ids, p, HeldBy(p))
       IN  /\ store' = [store EXCEPT ![root].out[p.unit] = rec.sha]
           /\ proc' = [proc EXCEPT ![root] =
                          [pc |-> "record", setting |-> p.setting, engines |-> p.engines,
                           todo |-> p.todo, unit |-> p.unit, ids |-> p.ids, rec |-> rec]]
    /\ UNCHANGED <<raw, starts, refreshes, crashes, unrecorded, replacedUnderTwo>>

\* A line appended to a torn one is part of it.
AppendRecord(s, u, rec) ==
    IF s.ragged THEN [s EXCEPT !.ragged = FALSE, !.unreadable = TRUE]
    ELSE [s EXCEPT !.last[u] = rec]

(* A build under another contract whose record is lost leaves its output beside
   the record of the build before. *)
Losing(root) ==
    LET p == proc[root]
        last == store[root].last[p.unit]
    IN  IF last # None /\ p.rec.sha # None /\ last.settings # p.rec.settings
        THEN {<<root, p.unit>>} ELSE {}

AfterUnit(p) == [pc |-> "next", setting |-> p.setting, engines |-> p.engines, todo |-> p.todo]

\* Mutant of RecordUnit: the inputs are identified when the record is written.
RecordUnitIdentifying(root) ==
    /\ proc[root].pc = "record"
    /\ LET p == proc[root]
           rec == [p.rec EXCEPT !.ids = RawInputIdentities(p.unit)]
       IN  store' = [store EXCEPT ![root] = AppendRecord(@, p.unit, rec)]
    /\ proc' = [proc EXCEPT ![root] = AfterUnit(@)]
    /\ UNCHANGED <<raw, starts, refreshes, crashes, unrecorded, replacedUnderTwo>>

RecordUnit(root) ==
    /\ proc[root].pc = "record"
    /\ LET p == proc[root]
       IN  /\ store' = [store EXCEPT ![root] = AppendRecord(@, p.unit, p.rec)]
           /\ unrecorded' = IF store[root].ragged THEN unrecorded \union Losing(root)
                            ELSE unrecorded \ {<<root, p.unit>>}
    /\ proc' = [proc EXCEPT ![root] = AfterUnit(@)]
    /\ UNCHANGED <<raw, starts, refreshes, crashes, replacedUnderTwo>>

\* The report and the exit code follow from the records; no later run reads them.
FinishRun(root) ==
    /\ proc[root].pc = "next" /\ proc[root].todo = {}
    /\ proc' = [proc EXCEPT ![root] = Idle]
    /\ UNCHANGED <<raw, store, starts, refreshes, crashes, unrecorded, replacedUnderTwo>>

\* The process dies, in the middle of the line perhaps.
Crash(root) ==
    /\ proc[root] # Idle /\ crashes < MaxCrashes
    /\ crashes' = crashes + 1
    /\ proc' = [proc EXCEPT ![root] = Idle]
    /\ unrecorded' = IF proc[root].pc = "record" THEN unrecorded \union Losing(root) ELSE unrecorded
    /\ \/ store' = store
       \/ proc[root].pc = "record" /\ store' = [store EXCEPT ![root].ragged = TRUE]
    /\ UNCHANGED <<raw, starts, refreshes, replacedUnderTwo>>

ReconNext ==
    \/ Refresh \/ StartRun
    \/ \E root \in Roots : \/ TakeIdentities(root) \/ ReadFeed(root) \/ Build(root)
                           \/ RecordUnit(root) \/ FinishRun(root) \/ Crash(root)

ReconSpec == ReconInit /\ [][ReconNext]_reconVars

-----------------------------------------------------------------------------
\* What a run with these engines would leave of a unit, over the raw store of now.
FreshBy(engines, u, setting) ==
    Result(u, RawInputIdentities(u), [engines |-> engines, setting |-> setting], Contents).sha

Fresh(u, setting) == {FreshBy(engines, u, setting) : engines \in Engines}

(* unit_settings leaves the engine out because the native engine is pinned to the
   oracle by conformance tests: on this day it is the oracle's equal. *)
Conforming(u) ==
    u \in TopKUnits /\ raw[Feed[u]].content # Absent => raw[Feed[u]].content.native = "same"

Recording(root, u) == proc[root].pc = "record" /\ proc[root].unit = u

(* An output the next run would keep is one that a run of now builds, and, where the
   engines conform, the one that run would build itself with whatever engine it gets,
   unless that engine refuses the day: no refresh of an input, while a unit is built or
   later, no switch of engine, no change of contract and no crash leaves a stale or
   uncertified output that passes for done. *)
KeptOutputsAreCurrent ==
    \A root \in Roots, u \in Units, setting \in Settings :
        UnitIsDone(root, u, setting) /\ ~Recording(root, u) /\ <<root, u>> \notin unrecorded =>
            LET out == store[root].out[u]
            IN  /\ out \in Fresh(u, setting)
                /\ Conforming(u) => Fresh(u, setting) \subseteq {out, None}

(* What unit_is_done promises without that reservation: a crash between the
   publication and the record runs the unit again. *)
CrashedBuildsAreRedone ==
    \A root \in Roots, u \in Units, setting \in Settings :
        UnitIsDone(root, u, setting) /\ ~Recording(root, u)
            => store[root].out[u] \in Fresh(u, setting)
=============================================================================
