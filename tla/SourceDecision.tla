--------------------------- MODULE SourceDecision ---------------------------
(***************************************************************************)
(* The second vendor's half of src/scripts/run_binance_source_gate.py: an  *)
(* object is fetched under an approval, decompressed beside itself,        *)
(* validated and replayed; a comparison of frames and the reports of both  *)
(* halves are then routed to a decision.  The operator chooses which       *)
(* reports to hand to a command; files may be put in each other's place at *)
(* any time and a command may be killed.  Of the commands that load        *)
(* objects, one at a time is assumed: two that decompress one object       *)
(* would share a temporary file.                                           *)
(***************************************************************************)
EXTENDS SourceGate, ChdReplay

CONSTANTS Objects,       \* the vendor's hourly objects: [exchange, hour]
          Probe,         \* the preregistered probe object
          ExchangeInstrument,  \* the instrument of a vendor exchange
          VendorContents,      \* what the vendor may hold
          OtherFiles,    \* of each exchange, files that are not the vendor's of now
          Corrupt,       \* a file that is neither zstd nor parquet
          GridOf(_),     \* the sample times of a set of hours
          ObjectBytes, ByteCap, MaxAttempts,    \* request_bounds
          Base(_), Changes(_),   \* what each market did: a book, the level each id sets
          Sent(_),       \* the update events it sent of a market
          MaxSwaps, MaxKills, MaxFetches        \* bounds

ASSUME DecisionAssumption ==
    /\ Probe \in Objects
    /\ \A o \in Objects : \A file \in OtherFiles[o.exchange] :
          file \in {[form |-> "zstd", rows |-> file.rows], [form |-> "parquet", rows |-> file.rows]}

VARIABLES vendor,    \* the objects as the vendor holds them
          local,     \* the objects as they lie in the raw store
          cache,     \* their decompressed siblings, each with its sidecar
          fetch,     \* the download in progress
          loading,   \* the chd-validate or chd-replay in progress
          chd,       \* the reports about objects and windows
          swaps, kills, fetches,
          cutShort,  \* history: siblings published by a command killed before the sidecar
          mixed      \* history: objects replaced after a command hashed and before it read them

chdVars == <<vendor, local, cache, fetch, loading, chd, swaps, kills, fetches, cutShort, mixed>>

Windows ==
    LET hours(x) == {o.hour : o \in {p \in Objects : p.exchange = x}}
    IN  {w \in [exchange : {o.exchange : o \in Objects}, from : {o.hour : o \in Objects},
                to : {o.hour : o \in Objects}] :
            w.from <= w.to /\ w.from..w.to \subseteq hours(w.exchange)}

Hours(w) == w.from..w.to
ObjectAt(w, h) == [exchange |-> w.exchange, hour |-> h]
Market(exchange) == IF exchange = "binance_futures" THEN "futures" ELSE "spot"

\* A file of the store: what it holds, compressed or plain.  The vendor sends the first.
Zst(rows) == [form |-> "zstd", rows |-> rows]
Parquet(rows) == [form |-> "parquet", rows |-> rows]
ParquetOf(file) == Parquet(file.rows)
Magic(file) == IF file \in {None, Corrupt} THEN "other" ELSE file.form

\* The file at o is replaced, perhaps after the command in progress has hashed it.
PutFile(o, file) ==
    /\ local' = [local EXCEPT ![o] = file]
    /\ mixed' = mixed \union (IF loading.pc = "read" /\ Head(loading.todo) = o THEN {o} ELSE {})

-----------------------------------------------------------------------------
(* fetch: one object under its approval. *)

\* Mutant of SameBytes: any two passing reports of the probe will do.
SameBytesByName(w) == Probe \in {ObjectAt(w, h) : h \in Hours(w)}

\* The replay replayed the bytes the validation validated.
SameBytes(w) == chd.validated[Probe].parquet = chd.replayed[w].parquet[Probe.hour]

\* Every probe check passed on the object the approved fetch downloaded.
ProbePassed(w) ==
    LET fetched == chd.fetched[Probe]
        validated == chd.validated[Probe]
        replayed == chd.replayed[w]
    IN  /\ fetched # None /\ validated # None /\ replayed # None
        /\ fetched.contract = contract /\ fetched.pass
        /\ validated.contract = contract /\ validated.pass /\ validated.object = fetched.sha
        /\ replayed.contract = contract /\ replayed.verdict = "certified"
        /\ w.exchange = Probe.exchange /\ Probe.hour \in Hours(w)
        /\ SameBytes(w)

\* The probe needs an approval; another object a second one, and the probe's reports.
StartFetch ==
    /\ fetch = Idle /\ fetches < MaxFetches
    /\ \E o \in Objects :
          /\ local[o] = None
          /\ \/ o = Probe /\ fetch' = [pc |-> "fetch", object |-> o, attempts |-> 0, total |-> 0,
                                       evidence |-> None]
             \/ \E w \in Windows :
                   /\ ProbePassed(w)
                   /\ fetch' = [pc |-> "fetch", object |-> o, attempts |-> 0, total |-> 0,
                                evidence |-> [fetched |-> chd.fetched[Probe].sha,
                                              replayed |-> chd.replayed[w].parquet[Probe.hour]]]
    /\ fetches' = fetches + 1
    /\ UNCHANGED <<lakeVars, vendor, local, cache, loading, chd, swaps, kills, cutShort, mixed>>

FetchReport(pass, sha) == [contract |-> contract, pass |-> pass, sha |-> sha]

\* An attempt that brings the whole object within the cap publishes it.
FetchSucceeds ==
    /\ fetch.pc = "fetch" /\ fetch.attempts < MaxAttempts
    /\ fetch.total + ObjectBytes <= ByteCap
    /\ PutFile(fetch.object, Zst(vendor[fetch.object]))
    /\ chd' = [chd EXCEPT !.fetched[fetch.object] = FetchReport(TRUE, Zst(vendor[fetch.object]))]
    /\ fetch' = Idle
    /\ UNCHANGED <<lakeVars, vendor, cache, loading, swaps, kills, fetches, cutShort>>

\* A transient failure after some bytes is tried again, while attempts remain.
FetchRetries ==
    /\ fetch.pc = "fetch" /\ fetch.attempts + 1 < MaxAttempts
    /\ \E got \in 0..(ObjectBytes - 1) :
          /\ fetch.total + got <= ByteCap
          /\ fetch' = [fetch EXCEPT !.attempts = @ + 1, !.total = @ + got]
    /\ UNCHANGED <<lakeVars, vendor, local, cache, loading, chd, swaps, kills, fetches, cutShort, mixed>>

\* The last attempt, a refusal of the server and the byte cap end it with nothing.
FetchFails ==
    /\ fetch.pc = "fetch"
    /\ chd' = [chd EXCEPT !.fetched[fetch.object] = FetchReport(FALSE, None)]
    /\ fetch' = Idle
    /\ UNCHANGED <<lakeVars, vendor, local, cache, loading, swaps, kills, fetches, cutShort, mixed>>

\* Killed, with the object published or not, and no report.
FetchKilled ==
    /\ fetch.pc = "fetch" /\ kills < MaxKills
    /\ kills' = kills + 1
    /\ fetch' = Idle
    /\ PutFile(fetch.object, Zst(vendor[fetch.object])) \/ UNCHANGED <<local, mixed>>
    /\ UNCHANGED <<lakeVars, vendor, cache, loading, chd, swaps, fetches, cutShort>>

\* Somebody removes an object, or puts another file in its place.
Swap ==
    /\ swaps < MaxSwaps
    /\ \E o \in Objects :
          \E file \in ({None, Corrupt, Zst(vendor[o])} \union OtherFiles[o.exchange]) \ {local[o]} :
             PutFile(o, file)
    /\ swaps' = swaps + 1
    /\ UNCHANGED <<lakeVars, vendor, cache, fetch, loading, chd, kills, fetches, cutShort>>

-----------------------------------------------------------------------------
(* _load_chd_hour and _decompress_if_zstd open an object three times by its name: for its
   magic, for its hash, and to decompress it, or to read it where it is plain parquet. *)

\* The object in hand, and the sibling that its hash asks for.
InHand == Head(loading.todo)
Rebuilds == ~(cache[InHand] # None /\ cache[InHand].src = loading.sha)
Sibling(parquet, src) == [parquet |-> parquet, src |-> src]

(* The sibling is made anew unless its sidecar names the hash that was taken: of what
   lies there now, under that hash. *)
Decompressed == IF Rebuilds THEN Sibling(ParquetOf(local[InHand]), loading.sha) ELSE cache[InHand]

\* What the object is now can be read as what its magic said it was.
Opens ==
    IF loading.magic = "zstd" THEN Rebuilds => Magic(local[InHand]) = "zstd"
    ELSE Magic(local[InHand]) = "parquet"

\* The file that is read, and the siblings once it is open.
Opened == IF loading.magic = "zstd" THEN Decompressed.parquet ELSE local[InHand]
SiblingsAfter ==
    IF Opens /\ loading.magic = "zstd" THEN [cache EXCEPT ![InHand] = Decompressed] ELSE cache

\* The file holds events of the hour it is asked for.
Belongs(parquet, h) == parquet.rows.hour = h
Loads == Opens /\ Belongs(Opened, InHand.hour)

Loading(task, todo, loaded) == [pc |-> "open", task |-> task, todo |-> todo, loaded |-> loaded]

\* chd-validate loads one object.
ChdValidate ==
    /\ loading = Idle
    /\ \E o \in Objects : loading' = Loading([validate |-> o], <<o>>, <<>>)
    /\ UNCHANGED <<lakeVars, vendor, local, cache, fetch, chd, swaps, kills, fetches, cutShort, mixed>>

\* chd-replay: a tick report of this contract sets the scale; the hours are loaded in order.
ChdReplayWindow ==
    /\ loading = Idle
    /\ \E w \in Windows :
          /\ report.tick # None /\ report.tick.contract = contract
          /\ report.tick.scale[ExchangeInstrument[w.exchange]] # None
          /\ loading' = Loading([replay |-> w], [i \in 1..(w.to - w.from + 1) |-> ObjectAt(w, w.from + i - 1)],
                                <<>>)
    /\ UNCHANGED <<lakeVars, vendor, local, cache, fetch, chd, swaps, kills, fetches, cutShort, mixed>>

LoadOpen ==
    /\ loading.pc = "open" /\ local[InHand] # None
    /\ loading' = [pc |-> "hash", task |-> loading.task, todo |-> loading.todo, loaded |-> loading.loaded,
                   magic |-> Magic(local[InHand])]
    /\ UNCHANGED <<lakeVars, vendor, local, cache, fetch, chd, swaps, kills, fetches, cutShort, mixed>>

LoadHash ==
    /\ loading.pc = "hash" /\ local[InHand] # None /\ loading.magic # "other"
    /\ loading' = [pc |-> "read", task |-> loading.task, todo |-> loading.todo, loaded |-> loading.loaded,
                   magic |-> loading.magic, sha |-> local[InHand]]
    /\ UNCHANGED <<lakeVars, vendor, local, cache, fetch, chd, swaps, kills, fetches, cutShort, mixed>>

\* A file that is not there ends the command with no report.
LoadDies ==
    /\ loading.pc \in {"open", "hash"} /\ local[InHand] = None
    /\ loading' = Idle
    /\ UNCHANGED <<lakeVars, vendor, local, cache, fetch, chd, swaps, kills, fetches, cutShort, mixed>>

\* The hours of a window in order, as sets of events.
EventsOf(hours) == [i \in DOMAIN hours |-> hours[i].events]

Inconclusively(w) ==
    [contract |-> contract, verdict |-> "inconclusive", frame |-> None,
     parquet |-> [h \in Hours(w) |-> None]]

\* The report of a replay: its verdict, the frame's content and what was replayed.
ReplayReport(w, loaded) ==
    LET grid == GridOf(Hours(w))
        events == EventsOf([i \in DOMAIN loaded |-> loaded[i].rows])
        replay == ReplayChdWindow(events, Market(w.exchange), grid)
    IN  IF replay.refusal # "ok" THEN Inconclusively(w)
        ELSE [contract |-> contract, verdict |-> ChdVerdict(replay),
              frame |-> [grid |-> grid, books |-> Frame(replay)],
              parquet |-> [h \in Hours(w) |-> loaded[h - w.from + 1].parquet]]

\* A refusal is reported: of a validation without provenance, of a replay as inconclusive.
LoadRefused ==
    /\ \/ loading.pc = "hash" /\ local[InHand] # None /\ loading.magic = "other" /\ cache' = cache
       \/ loading.pc = "read" /\ ~Loads /\ cache' = SiblingsAfter
    /\ chd' = IF "validate" \in DOMAIN loading.task
              THEN [chd EXCEPT !.validated[loading.task.validate] =
                       [contract |-> contract, pass |-> FALSE, object |-> None, parquet |-> None]]
              ELSE [chd EXCEPT !.replayed[loading.task.replay] = Inconclusively(loading.task.replay)]
    /\ loading' = Idle
    /\ UNCHANGED <<lakeVars, vendor, local, fetch, swaps, kills, fetches, cutShort, mixed>>

\* The provenance: the hash of a plain file is taken for that of the parquet read.
Provenance ==
    [object |-> loading.sha, rows |-> Opened.rows,
     parquet |-> IF loading.magic = "zstd" THEN Opened ELSE loading.sha]

LoadNext ==
    /\ loading.pc = "read" /\ Loads /\ Len(loading.todo) > 1
    /\ cache' = SiblingsAfter
    /\ loading' = Loading(loading.task, Tail(loading.todo), Append(loading.loaded, Provenance))
    /\ UNCHANGED <<lakeVars, vendor, local, fetch, chd, swaps, kills, fetches, cutShort, mixed>>

\* The last object is loaded: the report is written, of a window once it is replayed.
LoadDone ==
    /\ loading.pc = "read" /\ Loads /\ Len(loading.todo) = 1
    /\ cache' = SiblingsAfter
    /\ chd' = IF "validate" \in DOMAIN loading.task
              THEN [chd EXCEPT !.validated[loading.task.validate] =
                       [contract |-> contract, pass |-> TRUE, object |-> Provenance.object,
                        parquet |-> Provenance.parquet]]
              ELSE [chd EXCEPT !.replayed[loading.task.replay] =
                       ReplayReport(loading.task.replay, Append(loading.loaded, Provenance))]
    /\ loading' = Idle
    /\ UNCHANGED <<lakeVars, vendor, local, fetch, swaps, kills, fetches, cutShort, mixed>>

(* The command is killed: with nothing done to the siblings, with the one of the object in
   hand published and its sidecar not, or with both. *)
LoadKilled ==
    /\ loading # Idle /\ kills < MaxKills
    /\ \/ UNCHANGED <<cache, cutShort>>
       \/ /\ loading.pc = "read" /\ loading.magic = "zstd" /\ Opens /\ Rebuilds
          /\ \/ /\ cache' = [cache EXCEPT ![InHand] =
                        Sibling(Decompressed.parquet, IF cache[InHand] = None THEN None ELSE @.src)]
                /\ cutShort' = cutShort \union {InHand}
             \/ cache' = SiblingsAfter /\ UNCHANGED cutShort
    /\ kills' = kills + 1
    /\ loading' = Idle
    /\ UNCHANGED <<lakeVars, vendor, local, fetch, chd, swaps, fetches, mixed>>

-----------------------------------------------------------------------------
(* compare: a Lake frame and a frame of the second vendor, sliced to the same hours,
   at the measured scale of the instrument the operator names.  A frame outside the
   slice of the other is refused, and that report says nothing of what was compared. *)
Compare ==
    \E i, j \in Instruments, w, slice \in Windows, agree \in BOOLEAN :
        LET frame == chd.replayed[w].frame
        IN  /\ report.tick # None /\ report.tick.contract = contract
            /\ report.tick.scale[i] # None
            /\ report.replay[j] # None /\ chd.replayed[w] # None /\ frame # None
            /\ slice.exchange = w.exchange /\ Hours(slice) \intersect Hours(w) # {}
            /\ chd' = [chd EXCEPT !.comparison =
                  IF ~(Hours(slice) \subseteq Hours(w))
                  THEN [contract |-> contract, pass |-> FALSE, slice |-> None]
                  ELSE [contract |-> contract, pass |-> agree, slice |-> Hours(slice),
                        instrument |-> i, lake |-> report.replay[j].frame, chd |-> frame,
                        lakeOf |-> j, chdOf |-> w]]
            /\ UNCHANGED <<lakeVars, vendor, local, cache, fetch, loading, swaps, kills, fetches, cutShort, mixed>>

(* decide *)
ChdVerdictOf(chosen) ==
    LET verdicts == {chd.replayed[w].verdict : w \in chosen}
    IN  IF chosen = {} \/ "inconclusive" \in verdicts THEN "inconclusive"
        ELSE IF verdicts = {"certified"} THEN "certified" ELSE "degraded"

\* Mutant of BoundComparison: the instruments of the frames are not compared.
BoundComparisonAnyInstrument(comp, chosen, replays) ==
    /\ comp # None /\ comp.contract = contract /\ comp.slice # None
    /\ \E w \in chosen : chd.replayed[w].frame = comp.chd /\ comp.slice = Hours(w)
    /\ \E i \in replays : report.replay[i].frame = comp.lake

(* The frames compared are those of the reports supplied, of one instrument, and
   over all the hours of the replay. *)
BoundComparison(comp, chosen, replays) ==
    /\ comp # None /\ comp.contract = contract /\ comp.slice # None
    /\ \A i \in replays : report.replay[i].contract = contract
    /\ \E w \in chosen, i \in replays :
          /\ chd.replayed[w].frame = comp.chd /\ report.replay[i].frame = comp.lake
          /\ ExchangeInstrument[w.exchange] = i /\ comp.instrument = i
          /\ comp.slice = Hours(w)

Route(lake, vendorVerdict, compared) ==
    CASE lake = Certified /\ compared = TRUE -> "lake_go"
      [] lake = Certified /\ compared = FALSE /\ vendorVerdict = "certified" -> "disagreement"
      [] lake = Certified /\ compared = None /\ vendorVerdict = "inconclusive" -> "lake_go"
      [] lake # Certified /\ vendorVerdict = "certified" -> "chd_go"
      [] lake # Certified /\ vendorVerdict # "certified" -> "neither"
      [] OTHER -> "escalate"

Decide ==
    \E chosen \in SUBSET {w \in Windows : chd.replayed[w] # None},
       replays \in SUBSET Replayed, withComparison \in BOOLEAN :
        LET compared == IF withComparison THEN chd.comparison.pass ELSE None
        IN  /\ report.verdict # None /\ report.verdict.contract = contract
            /\ \A w \in chosen : chd.replayed[w].contract = contract
            /\ withComparison => BoundComparison(chd.comparison, chosen, replays)
            /\ chd' = [chd EXCEPT !.decision =
                  [decision |-> Route(report.verdict.lake, ChdVerdictOf(chosen), compared),
                   windows |-> chosen,
                   comparison |-> IF withComparison THEN chd.comparison ELSE None]]
            /\ UNCHANGED <<lakeVars, vendor, local, cache, fetch, loading, swaps, kills, fetches, cutShort, mixed>>

-----------------------------------------------------------------------------
NoChdReports ==
    [fetched |-> [o \in Objects |-> None], validated |-> [o \in Objects |-> None],
     replayed |-> [w \in Windows |-> None], comparison |-> None, decision |-> None]

DecisionInit ==
    /\ SourceGateInit
    /\ vendor \in VendorContents
    /\ local = [o \in Objects |-> None] /\ cache = [o \in Objects |-> None]
    /\ fetch = Idle /\ loading = Idle
    /\ chd = NoChdReports
    /\ swaps = 0 /\ kills = 0 /\ fetches = 0 /\ cutShort = {} /\ mixed = {}

ChdNext ==
    \/ StartFetch \/ FetchSucceeds \/ FetchRetries \/ FetchFails \/ FetchKilled
    \/ Swap \/ ChdValidate \/ ChdReplayWindow \/ LoadOpen \/ LoadHash \/ LoadDies \/ LoadRefused
    \/ LoadNext \/ LoadDone \/ LoadKilled \/ Compare \/ Decide

LakeNext == SourceGateNext /\ UNCHANGED chdVars

SourceDecisionSpec == DecisionInit /\ [][ChdNext \/ LakeNext]_<<lakeVars, chdVars>>

-----------------------------------------------------------------------------
(* An object beyond the probe is only asked for when the very bytes the vendor sent
   for the probe have been replayed, whatever was swapped, fetched again or replayed
   before; but for a sibling published by a command that died before its sidecar, and
   for a probe replaced between the opening that hashes it and the one that reads it. *)
ExpansionFollowsTheProbe ==
    fetch # Idle /\ fetch.evidence # None /\ Probe \notin cutShort \union mixed
        => fetch.evidence.replayed = ParquetOf(fetch.evidence.fetched)

(* A decision that uses a comparison compared one instrument with itself, over all
   the hours of a replay whose verdict counts in that decision. *)
DecisionComparesLikeWithLike ==
    LET d == chd.decision
    IN  d # None /\ d.comparison # None =>
            LET c == d.comparison
            IN  /\ ExchangeInstrument[c.chdOf.exchange] = c.lakeOf /\ c.instrument = c.lakeOf
                /\ c.slice = Hours(c.chdOf)
                /\ c.chdOf \in d.windows

(* Whatever a vendor drops, repeats, delays or files under the wrong hour of what the
   exchange sent, a replay of it that is not refused shows books the exchange had. *)
CompletedReplaysAreTrue ==
    \A w \in Windows :
        LET parquet == [h \in Hours(w) |-> Parquet(vendor[ObjectAt(w, h)])]
            hours == [i \in 1..(w.to - w.from + 1) |-> vendor[ObjectAt(w, w.from + i - 1)]]
            market == Market(w.exchange)
            grid == GridOf(Hours(w))
        IN  chd.replayed[w] # None /\ chd.replayed[w].parquet = parquet
                => ReplayIsTrue(ReplayChdWindow(EventsOf(hours), market, grid),
                                grid, Base(market), Changes(market), Sent(market))
=============================================================================
