------------------------------ MODULE MCReplay -------------------------------
(* A behaviour follows one of three replays: the live watermark loop, the  *)
(* seeded replay of a day, or the frame build of two days.                 *)
EXTENDS LiveReplay, SeededReplay, FrameBuild

CONSTANT N

VARIABLE focus

-----------------------------------------------------------------------------
(* Live: every selection of N events of a pool with times 1 .. 4, two bids, *)
(* an ask that repeats a sequence number, and trades; and a conflict.       *)
Event(k, t, q, s, p, z) == [kind |-> k, ts |-> t, seq |-> q, side |-> s, price |-> p, size |-> z]
Pool == <<Event("delta", 1, 1, "bid", 1, 1), Event("delta", 1, 1, "ask", 3, 1),
          Event("delta", 2, 2, "bid", 2, 1), Event("delta", 2, 2, "bid", 1, 0),
          Event("trade", 2, 1, "bid", 3, 1), Event("delta", 3, 3, "bid", 2, 0),
          Event("trade", 3, 2, "bid", 3, 1), Event("trade", 4, 3, "bid", 3, 1)>>
MCFiles ==
    LET chosen(T) == [m \in 1 .. N |->
                        Pool[CHOOSE i \in T : Cardinality({j \in T : j < i}) = m - 1]]
    IN {chosen(T) : T \in {T \in SUBSET DOMAIN Pool : Cardinality(T) = N}}
       \cup {<<Event("delta", 1, 1, "bid", 1, 1), Event("delta", 1, 1, "bid", 1, 2),
               Event("trade", 2, 1, "bid", 3, 1)>>}

(* Seeded: deltas that cross and uncross the book of a valid snapshot, and a *)
(* snapshot to reject.                                                       *)
MCBookDeltas == {[side |-> "bid", price |-> 3, size |-> z] : z \in {0, 1}}
MCBookSnaps == {[bid |-> (1 :> 1), ask |-> (3 :> 1), sound |-> TRUE],
                [bid |-> (3 :> 1), ask |-> (2 :> 1), sound |-> TRUE]}
MCGrid == <<1, 3>>

ASSUME WatermarkAssumption /\ FileAssumption
ASSUME GridAssumption /\ StreamAssumption

(* Frame build: a contiguous pair of days or one with a gap, up to two trades *)
(* a day, some of them late, and books that move, cross, lose a side, hold a  *)
(* straggler or spill into the next day.                                      *)
MCDayLists == {<<1, 2>>, <<1, 3>>}
MCHistories == {<<[day |-> 0, notional |-> 2]>>, << >>}
Tick(t, q, lag, z) == [ts |-> t, seq |-> q, recv |-> t + lag, size |-> z]
Level(t, lag, s, p, z) == [ts |-> t, recv |-> t + lag, side |-> s, price |-> p, size |-> z]
MCTrades ==
    {<< >>, <<Tick(1, 1, 0, 2)>>, <<Tick(1, 1, 0, 1), Tick(4, 2, 0, 1)>>,
     <<Tick(3, 1, 4, 2), Tick(4, 2, 0, 2)>>, <<Tick(2, 1, 0, 2), Tick(3, 2, 0, 2)>>,
     <<Tick(5, 1, 4, 1)>>}
FullSeed(t) == <<Level(t, 0, "bid", 3, 1), Level(t, 0, "bid", 2, 1),
                 Level(t, 0, "ask", 6, 1), Level(t, 0, "ask", 7, 1)>>
MCSnapshots == {FullSeed(0), FullSeed(0 - 1), <<Level(0, 0, "bid", 3, 1)>>}
MCDeltas ==
    {<< >>,
     <<Level(1, 0, "bid", 4, 1), Level(4, 0, "ask", 5, 1), Level(5, 0, "bid", 5, 1)>>,
     <<Level(1, 2, "bid", 5, 1), Level(2, 0, "bid", 5, 0), Level(4, 0, "bid", 4, 1)>>,
     <<Level(1, 0, "bid", 4, 1), Level(3, 0, "bid", 6, 1), Level(4, 0, "bid", 6, 0)>>,
     <<Level(6, 0, "bid", 4, 1)>>}
MCHorizons == [short |-> 1, long |-> 2]

-----------------------------------------------------------------------------
LiveIdle ==
    /\ file = << >> /\ bounded = TRUE /\ arrived = {} /\ accepted = << >> /\ late = 0
    /\ buf = {} /\ maxTs = 0 /\ out = Fresh /\ flushed = FALSE

SeededIdle ==
    /\ enabled = FALSE /\ head = Null /\ ended = TRUE /\ book = EmptyBook /\ seeded = FALSE
    /\ reseeds = 0 /\ blocked = 0 /\ since = Null /\ duration = 0
    /\ frame = << >> /\ runs = << >> /\ open = Null /\ present = <<Null, Null>>
    /\ done = FALSE /\ applied = << >>

FrameIdle ==
    /\ days = <<1>> /\ cap = 1 /\ at = 1 /\ objects = << >> /\ queue = {}
    /\ clock = NewClock(1, 0) /\ history = << >> /\ carry = << >> /\ lastT = None
    /\ prior = [t |-> None, ts |-> 0, obs |-> EmptyBook]
    /\ records = << >> /\ rows = {} /\ drops = [c \in Categories |-> [h \in Tags |-> 0]]
    /\ phase = "idle" /\ raw = << >> /\ decided = << >>

MCInit ==
    \/ focus = "live" /\ LiveInit /\ SeededIdle /\ FrameIdle
    \/ focus = "seeded" /\ SeededInit /\ LiveIdle /\ FrameIdle
    \/ focus = "frame" /\ Init /\ LiveIdle /\ SeededIdle

MCNext ==
    /\ \/ focus = "live" /\ LiveNext /\ UNCHANGED <<seededVars, vars>>
       \/ focus = "seeded" /\ SeededNext /\ UNCHANGED <<liveVars, vars>>
       \/ focus = "frame" /\ Next /\ UNCHANGED <<liveVars, seededVars>>
    /\ UNCHANGED focus

MCSpec == MCInit /\ [][MCNext]_<<focus, liveVars, seededVars, vars>>
=============================================================================
