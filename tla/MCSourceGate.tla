---------------------------- MODULE MCSourceGate ----------------------------
(* Two instruments and two hours.  A behaviour follows one part of the gate: stage 2 in
   one store, the lake commands over stage 2 in two, the vendor's commands after a Lake
   verdict, or the replays of everything a vendor may deliver of four update ids. *)
EXTENDS SourceDecision

CONSTANT Foci    \* the parts a behaviour may follow, of stage2, lake, fetch, decide and windows

VARIABLE focus

MCInstrumentOf == [u \in Units |-> IF u = "spot_topk" THEN "spot" ELSE "perp"]
MCFeed == [u \in Units |-> CASE u = "perp_topk" -> "perp_deltas" [] u = "spot_topk" -> "spot_deltas"
                             [] OTHER -> u]
MCBook == [u \in TopKUnits |-> IF u = "perp_topk" THEN "perp_book" ELSE "spot_book"]
Deltas(crossed, tick, native) ==
    [rows |-> 1, bad |-> FALSE, crossed |-> crossed, missing |-> 0, thin |-> 0, tick |-> tick,
     native |-> native, frozen |-> FALSE, silent |-> FALSE]
Seed(reasons) == [reasons |-> reasons, tick |-> 1]
Rows == [rows |-> 1, bad |-> FALSE, tick |-> 1]
MCPinned ==
    [perp_deltas |-> Deltas(0, 1, "same"), spot_deltas |-> Deltas(0, 2, "same"),
     perp_book |-> Seed(<<"ok">>), spot_book |-> Seed(<<"crossed", "ok", "ok">>),
     trades |-> Rows, liquidations |-> Rows, funding |-> Rows]
MCRawContents ==
    {MCPinned, [MCPinned EXCEPT !["perp_deltas"] = Deltas(1, 1, "same")],
     [MCPinned EXCEPT !["perp_deltas"] = Deltas(20, 1, "differs"), !["spot_book"] = Seed(<<"thin_depth">>),
                      !["liquidations"] = Absent]}
MCRegisteredScale == [perp |-> 1, spot |-> 2]
MCNativeScales == {[perp |-> 1, spot |-> 1]}

(* What the exchange did: five books, the updates it sent and two snapshots. *)
At(market, price) == IF market = "futures" THEN price ELSE price + 10
Level(side, price, size) == [side |-> side, price |-> price, size |-> size]
MCBase(market) ==
    [bid |-> At(market, 1) :> 1 @@ At(market, 2) :> 1, ask |-> At(market, 4) :> 1 @@ At(market, 5) :> 1]
MCChanges(market) ==
    <<Level("bid", At(market, 2), 0), Level("bid", At(market, 3), 2), Level("ask", At(market, 4), 0),
      Level("bid", At(market, 3), 1)>>
Composite(market, first, final) ==
    LET changes == MCChanges(market)
        of(s) == {m \in first..final : changes[m].side = s}
    IN  [s \in Sides |->
            [p \in {changes[n].price : n \in of(s)} |->
                changes[Max({m \in of(s) : changes[m].price = p})].size]]
Update(market, first, final, time) ==
    [kind |-> "update", first |-> first, final |-> final, time |-> time,
     prev |-> IF market = "futures" THEN first - 1 ELSE NoId, levels |-> Composite(market, first, final)]
Snapshot(market, last, time) ==
    [kind |-> "snapshot", last |-> last, time |-> time,
     levels |-> TrueBook(MCBase(market), MCChanges(market), last)]
MCSent(market) == {Update(market, 1, 2, 2), Update(market, 3, 3, 3), Update(market, 4, 4, 6)}

First(market) == {Snapshot(market, 0, 1), Update(market, 1, 2, 2), Update(market, 3, 3, 3), Snapshot(market, 2, 3)}
Second(market) ==
    {Update(market, 3, 3, 3), Snapshot(market, 3, 5), Update(market, 4, 4, 6), Update(market, 4, 4, 4)}
Deliveries(market, hour) == SUBSET (IF hour = 0 THEN First(market) ELSE Second(market))
Object(hour, events) == [hour |-> hour, events |-> events]
Delivered(futures0, futures1, spot0, spot1) ==
    [o \in Objects |->
        LET futures == o.exchange = "binance_futures"
        IN  Object(o.hour, IF o.hour = 0 THEN IF futures THEN futures0 ELSE spot0
                           ELSE IF futures THEN futures1 ELSE spot1)]
Whole(market, hour) ==
    IF hour = 0 THEN {Snapshot(market, 0, 1), Update(market, 1, 2, 2), Update(market, 3, 3, 3)}
    ELSE {Snapshot(market, 3, 5), Update(market, 4, 4, 6)}
WholeDay == Delivered(Whole("futures", 0), Whole("futures", 1), Whole("spot", 0), Whole("spot", 1))
Gapped == [WholeDay EXCEPT ![[exchange |-> "binance_futures", hour |-> 1]] = Object(1, {Update("futures", 4, 4, 6)}),
                           ![[exchange |-> "binance_spot", hour |-> 0]] = Object(0, {})]
Windowed ==
    {Delivered(a, b, Whole("spot", 0), Whole("spot", 1)) :
        a \in Deliveries("futures", 0), b \in Deliveries("futures", 1)}
    \union {Delivered(Whole("futures", 0), Whole("futures", 1), a, b) :
        a \in Deliveries("spot", 0), b \in Deliveries("spot", 1)}
MCObjects == [exchange : {"binance_futures", "binance_spot"}, hour : {0, 1}]
MCProbe == [exchange |-> "binance_futures", hour |-> 0]
MCExchangeInstrument == [binance_futures |-> "perp", binance_spot |-> "spot"]
MCOtherFiles ==
    [binance_futures |-> {Zst(Object(0, {Snapshot("futures", 0, 1), Update("futures", 1, 2, 2)})),
                          Parquet(WholeDay[MCProbe])},
     binance_spot |-> {Zst(Object(0, {Snapshot("spot", 2, 1)}))}]
MCGridOf(hours) == [i \in 1..(3 * Cardinality(hours)) |-> 3 * Min(hours) + i]

\* After the Lake half: reports of the preregistered contents.
LakeReport(lake) ==
    [verify |-> [contract |-> 0, ids |-> [f \in Partitions |-> 1], pass |-> TRUE],
     tick |-> [contract |-> 0, scale |-> [i \in Instruments |-> IF i = "perp" THEN 1 ELSE 2], pass |-> TRUE],
     silence |-> [contract |-> 0, pass |-> TRUE], determinism |-> None,
     verdict |-> [contract |-> 0, lake |-> lake,
                  records |-> [u \in Units |-> Record(u, [f \in Inputs(u) |-> 1], "ok", None, "schema",
                                                      PinnedOutput(u), None)]],
     replay |-> [i \in Instruments |->
                    [contract |-> 0, ran |-> FALSE, conforms |-> TRUE, frozen |-> FALSE,
                     frame |-> LET u == TopKUnitOf(i)
                               IN  Reconstruct("python", None, MCPinned[Feed[u]], MCPinned[Book[u]], "contract")]]]

MCInit ==
    /\ focus \in Foci
    /\ vendor \in CASE focus = "windows" -> Windowed [] focus = "decide" -> {WholeDay, Gapped}
                     [] OTHER -> {WholeDay}
    /\ local = [o \in Objects |->
                  IF \/ focus = "windows"
                     \/ focus = "decide" /\ o # [exchange |-> "binance_spot", hour |-> 1]
                  THEN Zst(vendor[o]) ELSE None]
    /\ cache = [o \in Objects |-> None]
    /\ fetch = Idle /\ loading = Idle
    /\ chd = NoChdReports
    /\ swaps = 0 /\ kills = 0 /\ fetches = 0 /\ cutShort = {} /\ mixed = {}
    /\ IF focus \in {"stage2", "lake"}
       THEN SourceGateInit /\ (focus = "lake" => raw["liquidations"].content # Absent)
       ELSE /\ raw = [f \in Partitions |-> [id |-> 1, content |-> MCPinned[f]]]
            /\ store = [r \in Roots |-> EmptyStore]
            /\ proc = [r \in Roots |-> Idle]
            /\ starts = 0 /\ refreshes = 0 /\ crashes = 0
            /\ unrecorded = {} /\ replacedUnderTwo = {}
            /\ contract = 0 /\ checking = Idle
            /\ report = LakeReport(IF vendor = Gapped THEN Degraded ELSE Certified)

\* The partitions of which stage 1 may find other rows than it did: of stage 2 it writes
\* only these again.
Varying == {f \in Partitions : Cardinality({c[f] : c \in RawContents}) > 1}

(* The reports of a behaviour about fetching are about the probe's hour of futures; a swap
   during a fetch is lost with its success, and might follow its failure. *)
AboutProbe ==
    /\ swaps' # swaps => fetch = Idle /\ \A o \in Objects \ {Probe} : local'[o] = local[o]
    /\ \A o \in Objects : o.exchange = "binance_spot" => local'[o] = None
    /\ loading'.pc = "open" =>
          \A o \in Objects : o # Probe => o \notin {loading'.todo[k] : k \in DOMAIN loading'.todo}
    /\ chd'.comparison = None /\ chd'.decision = None

Down == \A r \in Roots : proc[r] = Idle

(* Every command of the Lake half is given once, while no run of stage 2 is in progress,
   and those whose report carries no identity of what they read before everything else.
   Stage 2 runs once for each root, the Python engine first, overlapping or not, and stage
   1 writes one of two partitions again: what concerns the others only is done at once. *)
Given(step) == report[step] # None
Again == {"perp_deltas", "liquidations"}
Settled(r) == proc[r].pc \in {"read", "build", "record"} /\ Inputs(proc[r].unit) \intersect Again = {}
OnceEach ==
    /\ \A r \in Roots : Settled(r) /\ (\A q \in Roots : Settled(q) => r = q \/ r = "run1") => proc'[r] # proc[r]
    /\ checking.pc = "hashing" /\ checking.file \notin Again => checking' # checking
    /\ \A step \in DOMAIN report \ {"replay"} : Given(step) => report'[step] = report[step]
    /\ \A i \in Instruments : report.replay[i] # None => report'.replay[i] = report.replay[i]
    /\ checking' # checking \/ report' # report => Down
    /\ checking # Idle => report' = report \/ checking' = Idle
    /\ checking # Idle => proc' = proc
    /\ \A f \in Partitions \ Again : raw'[f] = raw[f]
    /\ starts' # starts =>
          LET root == IF starts = 0 THEN "run1" ELSE "native"
          IN  /\ proc'[root] # Idle /\ proc[root] = Idle /\ proc'[root].setting = "contract"
              /\ proc'[root].todo = Units
              /\ (proc'[root].engines = Python) = (starts = 0)
    /\ report'.determinism # None => starts = MaxStarts
    /\ contract' # contract => Given("determinism")
    /\ report'.silence # report.silence => Given("tick")
    /\ report'.replay # report.replay => Given("silence")
    /\ report'.replay["spot"] # None => report.replay["perp"] # None
    /\ proc' # proc \/ checking' # checking \/ raw' # raw => report.replay["spot"] # None
    /\ \A i \in Instruments : report'.replay[i] # None => report'.replay[i].ran = (i = "perp")

TaskOf(load) == IF load = Idle THEN <<>> ELSE load.task

MCNext ==
    /\ \/ focus = "stage2" /\ Stage2 /\ UNCHANGED chdVars /\ proc'["native"] = Idle
          /\ \A f \in Partitions \ Varying : raw'[f] = raw[f]
       \/ focus = "lake" /\ ~Given("verdict") /\ LakeNext /\ crashes' = 0 /\ OnceEach
       \/ focus = "fetch" /\ ChdNext /\ AboutProbe
       \/ focus = "decide" /\ chd.decision = None
          /\ (ChdNext \/ (Amend /\ UNCHANGED chdVars))
          /\ UNCHANGED <<fetch, local, kills>> /\ "validate" \notin DOMAIN TaskOf(loading')
          /\ (loading = Idle \/ loading' # loading \/ contract' # contract)
       \/ focus = "windows" /\ ChdNext /\ UNCHANGED <<fetch, local, kills>>
          /\ (chd = NoChdReports \/ loading # Idle) /\ "validate" \notin DOMAIN TaskOf(loading')
          /\ chd'.comparison = None /\ chd'.decision = None
    /\ UNCHANGED focus
MCSpec == MCInit /\ [][MCNext]_<<lakeVars, chdVars, focus>>
=============================================================================
