----------------------------- MODULE LiveReplay ------------------------------
(***************************************************************************)
(* LiveReconstructor of recon/live.py: events of a day file arrive out of  *)
(* order, are buffered until a watermark has passed them and are replayed  *)
(* in the total order, to be compared with the offline reconstruction of   *)
(* recon/reconstruct.py on the same events.                                *)
(*                                                                         *)
(* In a behaviour with bounded = TRUE the feed delays an event by at most  *)
(* MaxSkew; otherwise any arrival order happens.                           *)
(***************************************************************************)
EXTENDS OrderBook

CONSTANTS
    Files,      \* day files, each a sequence of events
    MaxSkew,    \* the maximum out-of-orderness of a bounded feed
    Watermark,  \* watermark_ns
    K           \* depth of a snapshot

\* The module docstring's condition.
WatermarkAssumption == MaxSkew \in Nat /\ Watermark \in Nat /\ Watermark > MaxSkew

Events == [kind : {"delta", "trade"}, ts : Nat, seq : Nat, side : {"bid", "ask"},
           price : Nat, size : Nat]

FileAssumption == Files \subseteq Seq(Events)

VARIABLES
    file,     \* the events that happened
    bounded,  \* the feed's skew is bounded
    arrived,  \* positions of file pushed so far
    accepted, \* ghost: the events pushed and not dropped, in arrival order
    late,     \* late_count
    buf,      \* _buf, as the positions of its events in accepted
    maxTs,    \* _max_ts; 0 before the first event, as time starts at 1
    out,      \* _ob and _rows
    flushed

feedVars == <<file, bounded>>
liveVars == <<feedVars, arrived, accepted, late, buf, maxTs, out, flushed>>

LiveInit ==
    /\ file \in Files
    /\ bounded \in BOOLEAN
    /\ arrived = {}
    /\ accepted = << >>
    /\ late = 0
    /\ buf = {}
    /\ maxTs = 0
    /\ out = Fresh
    /\ flushed = FALSE

\* The feed delivers event i next.
Arrives(i) ==
    /\ ~ flushed
    /\ i \in DOMAIN file \ arrived
    /\ bounded => \A j \in arrived : file[j].ts <= file[i].ts + MaxSkew
    /\ arrived' = arrived \cup {i}
    /\ UNCHANGED <<feedVars, flushed>>

\* e.ts_engine <= max - watermark_ns
Behind(e, max) == e.ts + Watermark <= max

\* Mutant of Passed: a watermark of the maximum skew itself.
PassedEarly(e, max) == e.ts + Watermark <= max + 1

\* What the watermark has passed.
Passed(e, max) == Behind(e, max)

PushLate(i) ==
    /\ Arrives(i)
    /\ arrived # {} /\ Behind(file[i], maxTs)
    /\ late' = late + 1
    /\ UNCHANGED <<accepted, buf, maxTs, out>>

\* _release, of the events at the positions b.
Release(b) ==
    LET ready == {j \in b : Passed(accepted'[j], maxTs')}
    IN /\ out' = EmitAll(out, accepted', ready, K)
       /\ buf' = b \ ready

\* Mutant of PushInTime: an event behind the watermark is replayed after all.
PushUnchecked(i) ==
    /\ Arrives(i)
    /\ accepted' = Append(accepted, file[i])
    /\ maxTs' = IF file[i].ts > maxTs THEN file[i].ts ELSE maxTs
    /\ Release(buf \cup {Len(accepted')})
    /\ UNCHANGED late

\* push of an event the watermark has not passed, and the release it causes.
PushInTime(i) ==
    /\ Arrives(i)
    /\ arrived = {} \/ ~ Behind(file[i], maxTs)
    /\ accepted' = Append(accepted, file[i])
    /\ maxTs' = IF file[i].ts > maxTs THEN file[i].ts ELSE maxTs
    /\ Release(buf \cup {Len(accepted')})
    /\ UNCHANGED late

\* The stream ends.
Flush ==
    /\ ~ flushed
    /\ out' = EmitAll(out, accepted, buf, K)
    /\ buf' = {}
    /\ flushed' = TRUE
    /\ UNCHANGED <<feedVars, arrived, accepted, late, maxTs>>

LiveNext ==
    \/ \E i \in DOMAIN file : PushInTime(i) \/ PushLate(i)
    \/ Flush

LiveSpec == LiveInit /\ [][LiveNext]_liveVars

-----------------------------------------------------------------------------
\* Late events are dropped, never retro-injected: whatever arrives in whatever
\* order, the rows emitted so far are those the offline reconstruction of the
\* accepted events begins with, and after flush all of them.
LiveIsOfflineOfAccepted ==
    LET offline == AtTrades(accepted, K)
    IN IF flushed THEN out.rows = offline ELSE IsPrefix(out.rows, offline)

\* Two events no key orders and whose order matters: updates of one level, or
\* trades that differ.
Ambiguous(e, f) ==
    /\ e # f /\ ~ KeyLess(e, f) /\ ~ KeyLess(f, e)
    /\ e.kind = "delta" => e.side = f.side /\ e.price = f.price

\* The replay-equivalence gate: a feed whose skew stays below the watermark
\* loses nothing, and its flushed rows are those of the whole file whatever
\* the arrival order, equal timestamps and repeated sequence numbers included
\* as long as the file leaves no two conflicting events unordered.
BoundedFeedReplaysOffline ==
    bounded /\ arrived = DOMAIN file /\ flushed =>
        /\ late = 0
        /\ (\A i, j \in DOMAIN file : ~ Ambiguous(file[i], file[j])) =>
              out.rows = AtTrades(file, K)
=============================================================================
