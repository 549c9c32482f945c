---------------------------- MODULE SourceGateProofs ---------------------------
(***************************************************************************)
(* Theorems about the path of Lake data: the download, stage 2, the Lake   *)
(* commands of the source gate and the fetch chain of its second vendor,   *)
(* for any units, workers, stores, contents and runs.                      *)
(*   Stage 2 and the gate: an output that is kept is current, a certified  *)
(*      day is the preregistered one, and an expansion follows the probe.  *)
(*   LakeDownload: LakeInv adds to what a run tells what each worker knows *)
(*      of its own file, and what main owes for the units it has not       *)
(*      accounted yet.                                                     *)
(***************************************************************************)
EXTENDS SourceDecision, LakeDownload, TLAPS

EitherSetting == Settings \cup {"contract"}

\* A record is the result of a unit over what the partitions held.
Made(rec, u, held) ==
    \E e \in Engines, s \in EitherSetting :
        rec = Result(u, rec.ids, [engines |-> e, setting |-> s], held)

Current(rec, u) == rec.ids = RawInputIdentities(u)

\* What was held of a file that still has its identity is what it holds.
Faithful(held, ids, u) ==
    \A f \in Inputs(u) : ids[f] = raw[f].id => held[f] = raw[f].content

-----------------------------------------------------------------------------
(* What a unit makes of its inputs *)

LEMMA ResultHasItsIds ==
    ASSUME NEW u, NEW ids, NEW p, NEW held
    PROVE  Result(u, ids, p, held).ids = ids
  BY DEF Result, TopKResult, TableResult, Record

\* Of a build only its engines and its contract matter.
LEMMA ResultOfBuild ==
    ASSUME NEW u, NEW ids, NEW p, NEW held
    PROVE  Result(u, ids, p, held)
              = Result(u, ids, [engines |-> p.engines, setting |-> p.setting], held)
  BY DEF Result, TopKResult, TableResult

\* Only what a unit's own inputs hold matters.
LEMMA ResultOfInputs ==
    ASSUME NEW u, NEW ids, NEW p, NEW held, NEW other,
           \A f \in Inputs(u) : held[f] = other[f]
    PROVE  Result(u, ids, p, held) = Result(u, ids, p, other)
  BY DEF Result, TopKResult, TableResult, Inputs

\* The output does not depend on the identities of the inputs.
LEMMA ShaOfContents ==
    ASSUME NEW u, NEW ids, NEW others, NEW p, NEW held
    PROVE  Result(u, ids, p, held).sha = Result(u, others, p, held).sha
  BY DEF Result, TopKResult, TableResult, Record

LEMMA MadeOfInputs ==
    ASSUME NEW rec, NEW u, NEW held, NEW other,
           \A f \in Inputs(u) : held[f] = other[f], Made(rec, u, held)
    PROVE  Made(rec, u, other)
  <1>1. PICK e \in Engines, s \in EitherSetting :
           rec = Result(u, rec.ids, [engines |-> e, setting |-> s], held)
    BY DEF Made
  <1>2. rec = Result(u, rec.ids, [engines |-> e, setting |-> s], other)
    BY <1>1, ResultOfInputs
  <1> QED BY <1>1, <1>2 DEF Made

LEMMA InputsArePartitions ==
    ASSUME NEW u \in Units
    PROVE  Inputs(u) \subseteq Partitions /\ Feed[u] \in Inputs(u)
  BY DEF Inputs, Partitions

\* What was made of inputs that are current is made of what is there now.
LEMMA ResultOfCurrent ==
    ASSUME NEW u \in Units, NEW ids, NEW p, NEW held, Faithful(held, ids, u),
           ids = RawInputIdentities(u)
    PROVE  /\ \A f \in Inputs(u) : held[f] = Contents[f]
           /\ Result(u, ids, p, held) = Result(u, ids, p, Contents)
  <1>1. \A f \in Inputs(u) : held[f] = Contents[f]
    BY InputsArePartitions DEF Faithful, RawInputIdentities, Contents
  <1> QED BY <1>1, ResultOfInputs

-----------------------------------------------------------------------------
(* The invariant of stage 2 *)

\* An identity that some file has or has had.
Known(ids, u) == ids \in [Inputs(u) -> Nat] /\ \A f \in Inputs(u) : ids[f] <= refreshes + 1

RawInv ==
    /\ refreshes \in Nat
    /\ raw = [f \in Partitions |-> [id |-> raw[f].id, content |-> raw[f].content]]
    /\ \A f \in Partitions : raw[f].id \in Nat /\ raw[f].id <= refreshes + 1

StoreShape(s) ==
    /\ s = [out |-> s.out, last |-> s.last, ragged |-> s.ragged, unreadable |-> s.unreadable]
    /\ s.out = [u \in Units |-> s.out[u]] /\ s.last = [u \in Units |-> s.last[u]]

PlanInv(p) == p.engines \in Engines /\ p.setting \in EitherSetting /\ p.todo \subseteq Units

\* A run that is at a unit took its identities after those of the record before.
UnitInv(p, last) ==
    /\ p.unit \in Units /\ Known(p.ids, p.unit)
    /\ last # None /\ Current(last, p.unit) => Current(p, p.unit)

\* What a build has read of the feed, and what it has made of all it read.
RowsInv(p) == p.ids[Feed[p.unit]] = raw[Feed[p.unit]].id => p.rows = raw[Feed[p.unit]].content
BuiltInv(p) ==
    /\ p.rec.ids = p.ids
    /\ \E held : p.rec = Result(p.unit, p.ids, p, held) /\ Faithful(held, p.ids, p.unit)

ProcInv(p, s) ==
    \/ p = Idle
    \/ p.pc = "next" /\ PlanInv(p)
    \/ p.pc = "read" /\ PlanInv(p) /\ UnitInv(p, s.last[p.unit])
    \/ p.pc = "build" /\ PlanInv(p) /\ UnitInv(p, s.last[p.unit]) /\ RowsInv(p)
    \/ /\ p.pc = "record" /\ PlanInv(p) /\ UnitInv(p, s.last[p.unit]) /\ BuiltInv(p)
       /\ s.out[p.unit] = p.rec.sha

\* A record was made by its unit, from what its files still hold if they are the same.
RecordInv(last, u) ==
    last # None => Known(last.ids, u) /\ \E held : Made(last, u, held) /\ Faithful(held, last.ids, u)

\* An output beside a current record is what the unit makes under its contract.
OutputInv(last, out, u) ==
    \A setting \in Settings :
        last # None /\ Current(last, u) /\ UnitSettings(u, setting) = last.settings
            => out = None \/ out \in Fresh(u, setting)

\* The run, the store and the units whose last build is on no record.
RootInv(p, s, lost) ==
    /\ StoreShape(s) /\ ProcInv(p, s)
    /\ \A u \in Units : /\ RecordInv(s.last[u], u)
                        /\ \/ p.pc = "record" /\ p.unit = u
                           \/ u \in lost
                           \/ OutputInv(s.last[u], s.out[u], u)

Lost(root) == {u \in Units : <<root, u>> \in unrecorded}

ReconInv ==
    /\ RawInv
    /\ store = [r \in Roots |-> store[r]] /\ proc = [r \in Roots |-> proc[r]]
    /\ \A r \in Roots : RootInv(proc[r], store[r], Lost(r))

-----------------------------------------------------------------------------
(* What a step does to the raw store *)

LEMMA RefreshRaw ==
    ASSUME RawInv, Refresh
    PROVE  /\ RawInv' /\ refreshes' = refreshes + 1
           /\ \A f \in Partitions : raw'[f] = raw[f] \/ raw'[f].id = refreshes + 2
  <1>1. PICK f \in Partitions :
           \E c : raw' = [raw EXCEPT ![f] = [id |-> refreshes + 2, content |-> c]]
    BY DEF Refresh
  <1>2. refreshes' = refreshes + 1 /\ refreshes \in Nat
    BY DEF Refresh, RawInv
  <1>3. \A g \in Partitions :
           raw'[g] = IF g = f THEN [id |-> refreshes + 2, content |-> raw'[f].content] ELSE raw[g]
    BY <1>1 DEF RawInv
  <1>4. \A g \in Partitions : raw'[g] = [id |-> raw'[g].id, content |-> raw'[g].content]
    BY <1>3 DEF RawInv
  <1>5. raw' = [g \in Partitions |-> raw'[g]]
    BY <1>1 DEF RawInv
  <1>6. raw' = [g \in Partitions |-> [id |-> raw'[g].id, content |-> raw'[g].content]]
    BY <1>4, <1>5
  <1>7. \A g \in Partitions : raw'[g].id \in Nat /\ raw'[g].id <= refreshes' + 1
    BY <1>2, <1>3 DEF RawInv
  <1>8. \A g \in Partitions : raw'[g] = raw[g] \/ raw'[g].id = refreshes + 2
    BY <1>3
  <1> QED BY <1>2, <1>6, <1>7, <1>8 DEF RawInv

\* A step of the raw store, or none of it: files that keep their identity are the same.
RawStep ==
    /\ refreshes \in Nat /\ refreshes' \in Nat /\ refreshes <= refreshes'
    /\ \A f \in Partitions : raw'[f] = raw[f] \/ raw'[f].id = refreshes + 2

LEMMA RawEvolves ==
    ASSUME RawInv, Refresh \/ UNCHANGED <<raw, refreshes>>
    PROVE  RawInv' /\ RawStep
  <1>1. CASE Refresh
    BY <1>1, RefreshRaw DEF RawInv, RawStep
  <1>2. CASE UNCHANGED <<raw, refreshes>>
    BY <1>2 DEF RawInv, RawStep
  <1> QED BY <1>1, <1>2

LEMMA KnownEvolves ==
    ASSUME RawStep, NEW u \in Units, NEW ids, Known(ids, u)
    PROVE  /\ Known(ids, u)'
           /\ \A f \in Inputs(u) : ids[f] = raw'[f].id => raw'[f] = raw[f]
           /\ \A held : Faithful(held, ids, u) => Faithful(held, ids, u)'
           /\ ids = RawInputIdentities(u)' =>
                 /\ ids = RawInputIdentities(u)
                 /\ \A setting : Fresh(u, setting)' = Fresh(u, setting)
  <1>1. Known(ids, u)'
    BY DEF Known, RawStep
  <1>2. \A f \in Inputs(u) : ids[f] = raw'[f].id => raw'[f] = raw[f]
    BY InputsArePartitions DEF RawStep, Known
  <1>3. \A held : Faithful(held, ids, u) => Faithful(held, ids, u)'
    BY <1>2 DEF Faithful
  <1>4. ASSUME ids = RawInputIdentities(u)'
        PROVE  /\ ids = RawInputIdentities(u)
               /\ \A setting : Fresh(u, setting)' = Fresh(u, setting)
    <2>1. \A f \in Inputs(u) : ids[f] = raw'[f].id
      BY <1>4 DEF RawInputIdentities
    <2>2. \A f \in Inputs(u) : raw'[f] = raw[f]
      BY <1>2, <2>1
    <2>3. RawInputIdentities(u)' = RawInputIdentities(u)
      BY <2>2 DEF RawInputIdentities
    <2>4. \A f \in Inputs(u) : Contents'[f] = Contents[f]
      BY <2>2, InputsArePartitions DEF Contents
    <2>5. \A i, p : Result(u, i, p, Contents') = Result(u, i, p, Contents)
      BY <2>4, ResultOfInputs
    <2>6. \A setting : Fresh(u, setting)' = Fresh(u, setting)
      BY <2>3, <2>5 DEF Fresh, FreshBy
    <2> QED BY <1>4, <2>3, <2>6
  <1> QED BY <1>1, <1>2, <1>3, <1>4

LEMMA UnitEvolves ==
    ASSUME RawStep, NEW p, NEW last, UnitInv(p, last), RecordInv(last, p.unit)
    PROVE  UnitInv(p, last)'
  <1>1. PICK u \in Units : u = p.unit
    BY DEF UnitInv
  <1>2. Known(p.ids, u)'
    BY <1>1, KnownEvolves DEF UnitInv
  <1>3. ASSUME last # None, last.ids = RawInputIdentities(u)'
        PROVE  p.ids = RawInputIdentities(u)'
    <2>1. Known(last.ids, u)
      BY <1>1, <1>3 DEF RecordInv
    <2>2. last.ids = RawInputIdentities(u)
      BY <1>3, <2>1, KnownEvolves
    <2> QED BY <1>1, <1>3, <2>2 DEF UnitInv, Current
  <1> QED BY <1>1, <1>2, <1>3 DEF UnitInv, Current

LEMMA RecordEvolves ==
    ASSUME RawStep, NEW u \in Units, NEW last, RecordInv(last, u)
    PROVE  /\ RecordInv(last, u)'
           /\ \A out : OutputInv(last, out, u) => OutputInv(last, out, u)'
  <1>1. RecordInv(last, u)'
    BY KnownEvolves DEF RecordInv
  <1>2. ASSUME NEW out, OutputInv(last, out, u), NEW setting \in Settings,
               last # None, last.ids = RawInputIdentities(u)',
               UnitSettings(u, setting) = last.settings
        PROVE  out = None \/ out \in Fresh(u, setting)'
    <2>1. Known(last.ids, u)
      BY <1>2 DEF RecordInv
    <2>2. last.ids = RawInputIdentities(u) /\ Fresh(u, setting)' = Fresh(u, setting)
      BY <1>2, <2>1, KnownEvolves
    <2> QED BY <1>2, <2>2 DEF OutputInv, Current
  <1> QED BY <1>1, <1>2 DEF OutputInv, Current

\* What holds of a run and its store is kept while only the raw store changes.
LEMMA RootEvolves ==
    ASSUME RawStep, NEW p, NEW s, NEW lost, RootInv(p, s, lost)
    PROVE  RootInv(p, s, lost)'
  <1>1. ASSUME NEW u \in Units
        PROVE  /\ RecordInv(s.last[u], u)'
               /\ OutputInv(s.last[u], s.out[u], u) => OutputInv(s.last[u], s.out[u], u)'
    BY RecordEvolves DEF RootInv
  <1>2. ProcInv(p, s)'
    <2>1. CASE p = Idle \/ (p.pc = "next" /\ PlanInv(p))
      BY <2>1 DEF ProcInv, PlanInv
    <2>2. CASE p.pc \in {"read", "build", "record"} /\ p # Idle
      <3>1. PlanInv(p) /\ UnitInv(p, s.last[p.unit]) /\ p.unit \in Units /\ Known(p.ids, p.unit)
        BY <2>2 DEF RootInv, ProcInv, UnitInv
      <3>2. UnitInv(p, s.last[p.unit])'
        BY <3>1, UnitEvolves DEF RootInv
      <3>3. RowsInv(p) => RowsInv(p)'
        <4>1. p.ids[Feed[p.unit]] = raw'[Feed[p.unit]].id => raw'[Feed[p.unit]] = raw[Feed[p.unit]]
          BY <3>1, KnownEvolves, InputsArePartitions
        <4> QED BY <4>1 DEF RowsInv
      <3>4. BuiltInv(p) => BuiltInv(p)'
        BY <3>1, KnownEvolves DEF BuiltInv
      <3> QED BY <2>2, <3>1, <3>2, <3>3, <3>4 DEF RootInv, ProcInv, PlanInv
    <2> QED BY <2>1, <2>2 DEF RootInv, ProcInv
  <1> QED BY <1>1, <1>2 DEF RootInv, StoreShape

-----------------------------------------------------------------------------
(* What a step does to one run and its store *)

\* The run and the store of one root change, the raw store does not.
LEMMA OneRoot ==
    ASSUME ReconInv, UNCHANGED <<raw, refreshes>>, NEW root \in Roots, NEW p, NEW s, NEW lost,
           proc' = [proc EXCEPT ![root] = p], store' = [store EXCEPT ![root] = s],
           \A r \in Roots : Lost(r)' = IF r = root THEN lost ELSE Lost(r),
           RootInv(p, s, lost)
    PROVE  ReconInv'
  <1>1. RawInv' /\ RawStep
    BY RawEvolves DEF ReconInv
  <1>2. store' = [r \in Roots |-> store'[r]] /\ proc' = [r \in Roots |-> proc'[r]]
    BY DEF ReconInv
  <1>3. ASSUME NEW r \in Roots
        PROVE  RootInv(proc[r], store[r], Lost(r))'
    <2>1. PICK q, t, gone : q = proc'[r] /\ t = store'[r] /\ gone = Lost(r)'
      OBVIOUS
    <2>2. RootInv(q, t, gone)
      <3>1. CASE r = root
        BY <2>1, <3>1 DEF ReconInv
      <3>2. CASE r # root
        <4>1. q = proc[r] /\ t = store[r] /\ gone = Lost(r)
          BY <2>1, <3>2 DEF ReconInv
        <4> QED BY <4>1 DEF ReconInv
      <3> QED BY <3>1, <3>2
    <2>3. RootInv(q, t, gone)'
      BY <1>1, <2>2, RootEvolves
    <2> QED BY <2>1, <2>3
  <1> QED BY <1>1, <1>2, <1>3 DEF ReconInv

\* A run that takes a step of its own leaves its store alone.
LEMMA OneRun ==
    ASSUME ReconInv, UNCHANGED <<raw, refreshes, store, unrecorded>>, NEW root \in Roots, NEW p,
           proc[root].pc # "record", proc' = [proc EXCEPT ![root] = p],
           ProcInv(p, store[root])
    PROVE  ReconInv'
  <1>1. RootInv(p, store[root], Lost(root))
    BY DEF ReconInv, RootInv
  <1>2. store' = [store EXCEPT ![root] = store[root]]
    BY DEF ReconInv
  <1>3. \A r \in Roots : Lost(r)' = IF r = root THEN Lost(root) ELSE Lost(r)
    BY DEF Lost
  <1> QED BY <1>1, <1>2, <1>3, OneRoot

LEMMA RefreshInv ==
    ASSUME ReconInv, Refresh
    PROVE  ReconInv'
  <1>1. RawInv' /\ RawStep
    BY RawEvolves DEF ReconInv
  <1>2. UNCHANGED <<store, proc, unrecorded>>
    BY DEF Refresh
  <1>3. ASSUME NEW r \in Roots
        PROVE  RootInv(proc[r], store[r], Lost(r))'
    <2>1. PICK q, t, gone : q = proc[r] /\ t = store[r] /\ gone = Lost(r)
      OBVIOUS
    <2>2. RootInv(q, t, gone)'
      BY <1>1, <2>1, RootEvolves DEF ReconInv
    <2>3. q = proc'[r] /\ t = store'[r] /\ gone = Lost(r)'
      BY <1>2, <2>1 DEF Lost
    <2> QED BY <2>2, <2>3
  <1> QED BY <1>1, <1>2, <1>3 DEF ReconInv

LEMMA StartRunInv ==
    ASSUME ReconInv, StartRun
    PROVE  ReconInv'
  <1>1. PICK root \in Roots, engines \in Engines, setting \in EitherSetting, over \in BOOLEAN :
           proc[root] = Idle /\ proc' = [proc EXCEPT ![root] = Started(root, setting, engines, over)]
    BY DEF StartRun, Engines, EitherSetting
  <1>2. ProcInv(Started(root, setting, engines, over), store[root])
    BY DEF ProcInv, PlanInv, Started
  <1>3. proc[root].pc # "record" /\ UNCHANGED <<raw, refreshes, store, unrecorded>>
    BY <1>1 DEF Idle, StartRun
  <1> QED BY <1>1, <1>2, <1>3, OneRun

LEMMA TakeIdentitiesInv ==
    ASSUME ReconInv, NEW root \in Roots, TakeIdentities(root)
    PROVE  ReconInv'
  <1>1. /\ proc[root].pc = "next" /\ PlanInv(proc[root])
        /\ UNCHANGED <<raw, refreshes, store, unrecorded>>
    BY DEF TakeIdentities, ReconInv, RootInv, ProcInv, Idle
  <1>2. PICK u, p :
           /\ u \in proc[root].todo
           /\ p = [pc |-> "read", setting |-> proc[root].setting, engines |-> proc[root].engines,
                   todo |-> proc[root].todo \ {u}, unit |-> u, ids |-> RawInputIdentities(u)]
           /\ proc' = [proc EXCEPT ![root] = p]
    BY DEF TakeIdentities
  <1>3. Known(RawInputIdentities(u), u) /\ u \in Units
    BY <1>1, <1>2, InputsArePartitions DEF ReconInv, RawInv, Known, RawInputIdentities, PlanInv
  <1>4. UnitInv(p, store[root].last[p.unit]) /\ PlanInv(p) /\ p.pc = "read"
    BY <1>1, <1>2, <1>3 DEF UnitInv, PlanInv, Current
  <1> QED BY <1>1, <1>2, <1>4, OneRun DEF ProcInv

LEMMA ReadFeedInv ==
    ASSUME ReconInv, NEW root \in Roots, ReadFeed(root)
    PROVE  ReconInv'
  <1>1. /\ proc[root].pc = "read" /\ PlanInv(proc[root])
        /\ UnitInv(proc[root], store[root].last[proc[root].unit])
        /\ UNCHANGED <<raw, refreshes, store, unrecorded>>
    BY DEF ReadFeed, ReconInv, RootInv, ProcInv, Idle
  <1>2. PICK old, p :
           /\ old = proc[root]
           /\ p = [pc |-> "build", setting |-> old.setting, engines |-> old.engines,
                   todo |-> old.todo, unit |-> old.unit, ids |-> old.ids,
                   rows |-> raw[Feed[old.unit]].content]
           /\ proc' = [proc EXCEPT ![root] = p]
    BY DEF ReadFeed
  <1>3. p.unit = old.unit /\ p.ids = old.ids /\ p.pc = "build" /\ PlanInv(p) /\ RowsInv(p)
    BY <1>1, <1>2 DEF PlanInv, RowsInv
  <1>4. UnitInv(p, store[root].last[p.unit])
    BY <1>1, <1>2, <1>3 DEF UnitInv, Current
  <1> QED BY <1>1, <1>2, <1>3, <1>4, OneRun DEF ProcInv

LEMMA FinishRunInv ==
    ASSUME ReconInv, NEW root \in Roots, FinishRun(root)
    PROVE  ReconInv'
  BY OneRun DEF FinishRun, ProcInv

\* The store when an output has been put in its place, and when a record has.
Publishes(s, t, u, sha) ==
    /\ StoreShape(t) /\ t.last = s.last /\ t.out[u] = sha
    /\ \A v \in Units \ {u} : t.out[v] = s.out[v]
Appends(s, t, u, rec) ==
    /\ StoreShape(t) /\ t.out = s.out /\ t.last[u] = rec
    /\ \A v \in Units \ {u} : t.last[v] = s.last[v]

LEMMA PublishOutput ==
    ASSUME NEW s, StoreShape(s), NEW u \in Units, NEW sha, NEW t, t = [s EXCEPT !.out[u] = sha]
    PROVE  Publishes(s, t, u, sha)
  <1>1. PICK out : out = [s.out EXCEPT ![u] = sha]
    OBVIOUS
  <1>2. out = [v \in Units |-> out[v]] /\ out[u] = sha /\ \A v \in Units \ {u} : out[v] = s.out[v]
    BY <1>1 DEF StoreShape
  <1>3. t = [s EXCEPT !.out = out]
    BY <1>1
  <1>4. t = [out |-> out, last |-> s.last, ragged |-> s.ragged, unreadable |-> s.unreadable]
    BY <1>3 DEF StoreShape
  <1> QED BY <1>2, <1>4 DEF Publishes, StoreShape

LEMMA AppendLine ==
    ASSUME NEW s, StoreShape(s), NEW u \in Units, NEW rec, NEW t, t = [s EXCEPT !.last[u] = rec]
    PROVE  Appends(s, t, u, rec)
  <1>1. PICK last : last = [s.last EXCEPT ![u] = rec]
    OBVIOUS
  <1>2. last = [v \in Units |-> last[v]] /\ last[u] = rec /\ \A v \in Units \ {u} : last[v] = s.last[v]
    BY <1>1 DEF StoreShape
  <1>3. t = [s EXCEPT !.last = last]
    BY <1>1
  <1>4. t = [out |-> s.out, last |-> last, ragged |-> s.ragged, unreadable |-> s.unreadable]
    BY <1>3 DEF StoreShape
  <1> QED BY <1>2, <1>4 DEF Appends, StoreShape

\* Under the contract its record names, a build makes what a fresh run would.
LEMMA BuildIsFresh ==
    ASSUME NEW u, NEW ids, NEW p, NEW setting, p.engines \in Engines,
           NEW rec, rec = Result(u, ids, p, Contents), UnitSettings(u, setting) = rec.settings
    PROVE  rec.sha = None \/ rec.sha \in Fresh(u, setting)
  <1> SUFFICES ASSUME rec.sha # None
               PROVE  rec.sha \in Fresh(u, setting)
    OBVIOUS
  <1>1. rec.sha = Result(u, RawInputIdentities(u),
                         [engines |-> p.engines, setting |-> p.setting], Contents).sha
    BY ResultOfBuild, ShaOfContents
  <1>2. rec.sha = Result(u, RawInputIdentities(u),
                         [engines |-> p.engines, setting |-> setting], Contents).sha
    <2>1. CASE u \in TopKUnits
      <3>1. rec.settings = p.setting
        BY <2>1 DEF Result, TopKResult, Record
      <3> QED BY <1>1, <2>1, <3>1 DEF UnitSettings
    <2>2. CASE u \notin TopKUnits
      BY <1>1, <2>2 DEF Result
    <2> QED BY <2>1, <2>2
  <1> QED BY <1>2 DEF Fresh, FreshBy

\* The unit of a build whose record is lost may have the output of another contract.
Loses(p, s) ==
    /\ s.last[p.unit] # None /\ p.rec.sha # None
    /\ s.last[p.unit].settings # p.rec.settings

LEMMA AtRecord ==
    ASSUME NEW p, NEW s, NEW lost, RootInv(p, s, lost), p.pc = "record"
    PROVE  /\ PlanInv(p) /\ UnitInv(p, s.last[p.unit]) /\ BuiltInv(p)
           /\ p.unit \in Units /\ s.out[p.unit] = p.rec.sha
  BY DEF RootInv, ProcInv, UnitInv, Idle

\* What a build makes is fresh as long as the record before it is current.
LEMMA BuiltIsFresh ==
    ASSUME NEW p, NEW s, NEW lost, RootInv(p, s, lost), p.pc = "record", NEW setting \in Settings,
           Current(p, p.unit), UnitSettings(p.unit, setting) = p.rec.settings
    PROVE  p.rec.sha = None \/ p.rec.sha \in Fresh(p.unit, setting)
  <1>1. PICK held : p.rec = Result(p.unit, p.ids, p, held) /\ Faithful(held, p.ids, p.unit)
    BY AtRecord DEF BuiltInv
  <1>2. p.rec = Result(p.unit, p.ids, p, Contents) /\ p.engines \in Engines
    BY <1>1, AtRecord, ResultOfCurrent DEF Current, PlanInv
  <1> QED BY <1>2, BuildIsFresh

\* A build ends without a record of it: what its unit has is of the record before.
LEMMA LostRecord ==
    ASSUME NEW p, NEW s, NEW lost, RootInv(p, s, lost), p.pc = "record",
           NEW q, NEW t, NEW gone, ProcInv(q, t), q.pc # "record",
           StoreShape(t), t.out = s.out, t.last = s.last,
           lost \subseteq gone, Loses(p, s) => p.unit \in gone
    PROVE  RootInv(q, t, gone)
  <1> SUFFICES ASSUME NEW u \in Units, u \notin gone
               PROVE  OutputInv(s.last[u], s.out[u], u)
    BY DEF RootInv
  <1>1. CASE u = p.unit
    <2> SUFFICES ASSUME NEW setting \in Settings, s.last[u] # None, Current(s.last[u], u),
                        UnitSettings(u, setting) = s.last[u].settings
                 PROVE  s.out[u] = None \/ s.out[u] \in Fresh(u, setting)
      BY DEF OutputInv
    <2>1. Current(p, u) /\ s.out[u] = p.rec.sha
      BY <1>1, AtRecord DEF UnitInv
    <2>2. p.rec.sha = None \/ s.last[u].settings = p.rec.settings
      BY <1>1 DEF Loses
    <2> QED BY <1>1, <2>1, <2>2, BuiltIsFresh
  <1>2. CASE u # p.unit
    BY <1>2 DEF RootInv
  <1> QED BY <1>1, <1>2

LEMMA BuildInv ==
    ASSUME ReconInv, NEW root \in Roots, Build(root)
    PROVE  ReconInv'
  <1>1. PICK p, s, u, rec, t, q :
           /\ p = proc[root] /\ s = store[root] /\ u = p.unit
           /\ rec = Result(u, p.ids, p, HeldBy(p))
           /\ t = [s EXCEPT !.out[u] = rec.sha]
           /\ q = [pc |-> "record", setting |-> p.setting, engines |-> p.engines,
                   todo |-> p.todo, unit |-> u, ids |-> p.ids, rec |-> rec]
           /\ proc' = [proc EXCEPT ![root] = q] /\ store' = [store EXCEPT ![root] = t]
    BY DEF Build
  <1>2. RootInv(p, s, Lost(root)) /\ p.pc = "build" /\ UNCHANGED <<raw, refreshes, unrecorded>>
    BY <1>1 DEF Build, ReconInv
  <1>3. PlanInv(p) /\ UnitInv(p, s.last[u]) /\ RowsInv(p) /\ u \in Units
    BY <1>1, <1>2 DEF RootInv, ProcInv, Idle, UnitInv
  <1>4. Publishes(s, t, u, rec.sha)
    BY <1>1, <1>2, <1>3, PublishOutput DEF RootInv
  <1>5. Faithful(HeldBy(p), p.ids, u)
    BY <1>1, <1>3, InputsArePartitions DEF Faithful, HeldBy, Contents, RowsInv
  <1>6. rec = Result(u, p.ids, q, HeldBy(p)) /\ rec.ids = p.ids
    <2>1. Result(u, p.ids, p, HeldBy(p))
             = Result(u, p.ids, [engines |-> p.engines, setting |-> p.setting], HeldBy(p))
      BY ResultOfBuild
    <2>2. Result(u, p.ids, q, HeldBy(p))
             = Result(u, p.ids, [engines |-> q.engines, setting |-> q.setting], HeldBy(p))
      BY ResultOfBuild
    <2>3. q.engines = p.engines /\ q.setting = p.setting
      BY <1>1
    <2> QED BY <1>1, <2>1, <2>2, <2>3, ResultHasItsIds
  <1>7. q.pc = "record" /\ q.unit = u /\ q.ids = p.ids /\ q.rec = rec
    BY <1>1
  <1>8. PlanInv(q) /\ UnitInv(q, t.last[u]) /\ BuiltInv(q)
    BY <1>1, <1>3, <1>4, <1>5, <1>6, <1>7 DEF PlanInv, UnitInv, Current, BuiltInv, Publishes
  <1>9. RootInv(q, t, Lost(root))
    BY <1>2, <1>4, <1>7, <1>8 DEF RootInv, ProcInv, Publishes
  <1>10. \A r \in Roots : Lost(r)' = IF r = root THEN Lost(root) ELSE Lost(r)
    BY <1>2 DEF Lost
  <1>11. proc' = [proc EXCEPT ![root] = q] /\ store' = [store EXCEPT ![root] = t]
    BY <1>1
  <1>12. UNCHANGED <<raw, refreshes>>
    BY <1>2
  <1> QED BY <1>9, <1>10, <1>11, <1>12, OneRoot

LEMMA LostBy ==
    ASSUME NEW root \in Roots, proc[root].unit \in Units
    PROVE  /\ Loses(proc[root], store[root]) <=> <<root, proc[root].unit>> \in Losing(root)
           /\ \A r \in Roots : \A u : <<r, u>> \in Losing(root) => r = root
  BY DEF Losing, Loses

LEMMA RecordUnitInv ==
    ASSUME ReconInv, NEW root \in Roots, RecordUnit(root)
    PROVE  ReconInv'
  <1>1. PICK p, s, u, rec, t, q :
           /\ p = proc[root] /\ s = store[root] /\ u = p.unit /\ rec = p.rec
           /\ t = AppendRecord(s, u, rec) /\ q = AfterUnit(p)
           /\ proc' = [proc EXCEPT ![root] = q] /\ store' = [store EXCEPT ![root] = t]
    BY DEF RecordUnit
  <1>2. RootInv(p, s, Lost(root)) /\ p.pc = "record" /\ UNCHANGED <<raw, refreshes>>
    BY <1>1 DEF RecordUnit, ReconInv
  <1>3. PlanInv(p) /\ UnitInv(p, s.last[u]) /\ BuiltInv(p) /\ u \in Units /\ s.out[u] = rec.sha
    BY <1>1, <1>2, AtRecord
  <1>4. q.pc = "next" /\ PlanInv(q)
    BY <1>1, <1>3 DEF AfterUnit, PlanInv
  <1>5. StoreShape(s)
    BY <1>2 DEF RootInv
  <1>8. proc' = [proc EXCEPT ![root] = q] /\ store' = [store EXCEPT ![root] = t]
    BY <1>1
  <1>9. UNCHANGED <<raw, refreshes>>
    BY <1>2
  <1>6. CASE s.ragged
    <2>1. StoreShape(t) /\ t.out = s.out /\ t.last = s.last
      <3>1. t = [s EXCEPT !.ragged = FALSE, !.unreadable = TRUE]
        BY <1>1, <1>6 DEF AppendRecord
      <3> QED BY <1>5, <3>1 DEF StoreShape
    <2>2. unrecorded' = unrecorded \cup Losing(root)
      BY <1>1, <1>6 DEF RecordUnit
    <2>3. Lost(root) \subseteq Lost(root)' /\ (Loses(p, s) => u \in Lost(root)')
      BY <1>1, <1>3, <2>2, LostBy DEF Lost
    <2>4. RootInv(q, t, Lost(root)')
      BY <1>1, <1>2, <1>4, <2>1, <2>3, LostRecord DEF ProcInv
    <2>5. \A r \in Roots : Lost(r)' = IF r = root THEN Lost(root)' ELSE Lost(r)
      BY <1>1, <1>3, <2>2, LostBy DEF Lost
    <2> QED BY <1>9, <1>8, <2>4, <2>5, OneRoot
  <1>7. CASE ~ s.ragged
    <2>1. Appends(s, t, u, rec)
      BY <1>1, <1>3, <1>5, <1>7, AppendLine DEF AppendRecord
    <2>2. unrecorded' = unrecorded \ {<<root, u>>}
      BY <1>1, <1>7 DEF RecordUnit
    <2>3. Lost(root)' = Lost(root) \ {u}
      BY <2>2 DEF Lost
    <2>4. RecordInv(rec, u)
      <3>1. PICK held : rec = Result(u, p.ids, p, held) /\ Faithful(held, p.ids, u)
        BY <1>1, <1>3 DEF BuiltInv
      <3>2. rec.ids = p.ids /\ Known(rec.ids, u)
        BY <1>1, <1>3 DEF BuiltInv, UnitInv
      <3>3. Made(rec, u, held)
        BY <1>3, <3>1, <3>2, ResultOfBuild DEF Made, PlanInv
      <3> QED BY <3>1, <3>2, <3>3 DEF RecordInv
    <2>5. OutputInv(rec, s.out[u], u)
      <3>1. rec.ids = p.ids
        BY <1>1, <1>3 DEF BuiltInv
      <3> QED BY <1>1, <1>2, <1>3, <3>1, BuiltIsFresh DEF OutputInv, Current
    <2>6. \A v \in Units \ {u} : v \notin Lost(root)' => OutputInv(s.last[v], s.out[v], v)
      BY <1>1, <1>2, <2>3 DEF RootInv
    <2>7. \A v \in Units : RecordInv(s.last[v], v)
      BY <1>2 DEF RootInv
    <2>8. \A v \in Units : /\ RecordInv(t.last[v], v)
                           /\ v \in Lost(root)' \/ OutputInv(t.last[v], t.out[v], v)
      BY <2>1, <2>4, <2>5, <2>6, <2>7 DEF Appends
    <2>9. RootInv(q, t, Lost(root)')
      BY <1>4, <2>1, <2>8 DEF RootInv, ProcInv, Appends
    <2>10. \A r \in Roots : Lost(r)' = IF r = root THEN Lost(root)' ELSE Lost(r)
      BY <2>2 DEF Lost
    <2> QED BY <1>9, <1>8, <2>9, <2>10, OneRoot
  <1> QED BY <1>6, <1>7

LEMMA CrashInv ==
    ASSUME ReconInv, NEW root \in Roots, Crash(root)
    PROVE  ReconInv'
  <1>1. UNCHANGED <<raw, refreshes>> /\ proc' = [proc EXCEPT ![root] = Idle]
    BY DEF Crash
  <1>2. CASE proc[root].pc # "record"
    <2>1. UNCHANGED <<store, unrecorded>>
      BY <1>2 DEF Crash
    <2> QED BY <1>1, <1>2, <2>1, OneRun DEF ProcInv
  <1>3. CASE proc[root].pc = "record"
    <2>1. PICK p, s : p = proc[root] /\ s = store[root]
      OBVIOUS
    <2>2. RootInv(p, s, Lost(root)) /\ StoreShape(s) /\ p.unit \in Units
      BY <1>3, <2>1, AtRecord DEF ReconInv, RootInv
    <2>3. PICK t : store' = [store EXCEPT ![root] = t] /\ (t = s \/ t = [s EXCEPT !.ragged = TRUE])
      BY <2>1 DEF Crash, ReconInv
    <2>4. StoreShape(t) /\ t.out = s.out /\ t.last = s.last
      BY <2>2, <2>3 DEF StoreShape
    <2>5. unrecorded' = unrecorded \cup Losing(root)
      BY <1>3 DEF Crash
    <2>6. Lost(root) \subseteq Lost(root)' /\ (Loses(p, s) => p.unit \in Lost(root)')
      BY <2>1, <2>2, <2>5, LostBy DEF Lost
    <2>7. ProcInv(Idle, t) /\ Idle.pc # "record"
      BY DEF ProcInv, Idle
    <2>8. RootInv(Idle, t, Lost(root)')
      BY <1>3, <2>1, <2>2, <2>4, <2>6, <2>7, LostRecord
    <2>9. \A r \in Roots : Lost(r)' = IF r = root THEN Lost(root)' ELSE Lost(r)
      BY <2>1, <2>2, <2>5, LostBy DEF Lost
    <2> QED BY <1>1, <2>3, <2>8, <2>9, OneRoot
  <1> QED BY <1>2, <1>3

-----------------------------------------------------------------------------
LEMMA ReconInitInv == ReconInit => ReconInv
  <1> SUFFICES ASSUME ReconInit
               PROVE  ReconInv
    OBVIOUS
  <1>1. /\ store = [r \in Roots |-> EmptyStore] /\ proc = [r \in Roots |-> Idle]
        /\ refreshes = 0
    BY DEF ReconInit
  <1>2. RawInv
    <2>1. PICK c \in RawContents :
             raw = [f \in Partitions |-> [id |-> IF c[f] = Absent THEN 0 ELSE 1, content |-> c[f]]]
      BY DEF ReconInit
    <2> QED BY <1>1, <2>1 DEF RawInv
  <1>3. \A lost : RootInv(Idle, EmptyStore, lost)
    BY DEF RootInv, StoreShape, EmptyStore, ProcInv, RecordInv, OutputInv
  <1> QED BY <1>1, <1>2, <1>3 DEF ReconInv

LEMMA ReconStep ==
    ASSUME ReconInv, [ReconNext]_reconVars
    PROVE  ReconInv'
  <1>1. CASE UNCHANGED reconVars
    <2>1. UNCHANGED <<raw, refreshes, store, proc, unrecorded>>
      BY <1>1 DEF reconVars
    <2>2. RawInv' /\ RawStep
      BY <2>1, RawEvolves DEF ReconInv
    <2>3. ASSUME NEW r \in Roots
          PROVE  RootInv(proc[r], store[r], Lost(r))'
      <3>1. PICK q, t, gone : q = proc[r] /\ t = store[r] /\ gone = Lost(r)
        OBVIOUS
      <3>2. RootInv(q, t, gone)'
        BY <2>2, <3>1, RootEvolves DEF ReconInv
      <3>3. q = proc'[r] /\ t = store'[r] /\ gone = Lost(r)'
        BY <2>1, <3>1 DEF Lost
      <3> QED BY <3>2, <3>3
    <2> QED BY <2>1, <2>2, <2>3 DEF ReconInv
  <1>2. CASE ReconNext
    BY <1>2, RefreshInv, StartRunInv, TakeIdentitiesInv, ReadFeedInv, BuildInv, RecordUnitInv,
       FinishRunInv, CrashInv DEF ReconNext
  <1> QED BY <1>1, <1>2

-----------------------------------------------------------------------------
(* Kept outputs *)

\* The one frame that conforming engines may make of a unit's day.
ConformingFrame(u, setting) ==
    [deltas |-> Contents[Feed[u]], book |-> Contents[Book[u]], setting |-> setting, agrees |-> "same"]

LEMMA ConformingEngines ==
    ASSUME NEW u \in TopKUnits, Conforming(u), NEW engines, NEW setting
    PROVE  FreshBy(engines, u, setting) \in {ConformingFrame(u, setting), None}
  <1>1. PICK deltas, book, engine :
           /\ deltas = Contents[Feed[u]] /\ book = Contents[Book[u]]
           /\ engine = engines[InstrumentOf[u]]
    OBVIOUS
  <1>2. FreshBy(engines, u, setting)
           = TopKResult(u, RawInputIdentities(u), [engines |-> engines, setting |-> setting], Contents).sha
    BY DEF FreshBy, Result
  <1>3. CASE deltas = Absent \/ deltas.rows = 0
    BY <1>1, <1>2, <1>3 DEF TopKResult, Record
  <1>4. CASE ~(deltas = Absent \/ deltas.rows = 0)
    <2>1. FreshBy(engines, u, setting)
             \in {ReconTopKDay(engine[1], engine[2], deltas, book, setting).frame, None}
      BY <1>1, <1>2, <1>4 DEF TopKResult, Record
    <2>2. deltas.native = "same"
      BY <1>1, <1>4, InputsArePartitions, ReconAssumption DEF Conforming, Contents
    <2>3. Reconstruct(engine[1], engine[2], deltas, book, setting)
             \in {ConformingFrame(u, setting), None}
      BY <1>1, <2>2 DEF Reconstruct, ConformingFrame
    <2>4. ReconTopKDay(engine[1], engine[2], deltas, book, setting).frame
             \in {ConformingFrame(u, setting), None}
      BY <2>3 DEF ReconTopKDay
    <2> QED BY <2>1, <2>4
  <1> QED BY <1>3, <1>4

\* Whether a day is certified does not depend on the engine.
LEMMA NoFrameForAny ==
    ASSUME NEW u \in TopKUnits, NEW ids, NEW p, NEW held,
           Result(u, ids, p, held).status \in {Degraded, Inconclusive},
           NEW others, NEW q
    PROVE  Result(u, others, q, held).sha = None
  <1>1. PICK deltas, book, e, d : /\ deltas = held[Feed[u]] /\ book = held[Book[u]]
                                  /\ e = p.engines[InstrumentOf[u]] /\ d = q.engines[InstrumentOf[u]]
    OBVIOUS
  <1>2. CASE deltas = Absent \/ deltas.rows = 0
    BY <1>1, <1>2 DEF Result, TopKResult, Record
  <1>3. CASE ~(deltas = Absent \/ deltas.rows = 0)
    <2>1. ReconTopKDay(e[1], e[2], deltas, book, p.setting).cls # Certified
      BY <1>1, <1>3 DEF Result, TopKResult, Record, ReconTopKDay, Degraded, Inconclusive, Certified
    <2>2. ReconTopKDay(d[1], d[2], deltas, book, q.setting).cls # Certified
      BY <2>1 DEF ReconTopKDay
    <2>3. ReconTopKDay(d[1], d[2], deltas, book, q.setting).frame = None
      BY <2>2 DEF ReconTopKDay
    <2> QED BY <1>1, <1>3, <2>3 DEF Result, TopKResult, Record
  <1> QED BY <1>2, <1>3

LEMMA OutputsAreCurrent == ReconInv => KeptOutputsAreCurrent
  <1> SUFFICES ASSUME ReconInv, NEW root \in Roots, NEW u \in Units, NEW setting \in Settings,
                      UnitIsDone(root, u, setting), ~ Recording(root, u),
                      <<root, u>> \notin unrecorded
               PROVE  /\ store[root].out[u] \in Fresh(u, setting)
                      /\ Conforming(u) => Fresh(u, setting) \subseteq {store[root].out[u], None}
    BY DEF KeptOutputsAreCurrent
  <1>1. PICK last, out : last = store[root].last[u] /\ out = store[root].out[u]
    OBVIOUS
  <1>2. /\ last # None /\ Current(last, u) /\ UnitSettings(u, setting) = last.settings
        /\ \/ last.status = "ok" /\ out # None
           \/ last.status = "missing" /\ u \notin TopKUnits
           \/ last.status \in {Degraded, Inconclusive}
    BY <1>1, ReconAssumption DEF UnitIsDone, Current
  <1>3. RecordInv(last, u) /\ OutputInv(last, out, u)
    BY <1>1 DEF ReconInv, RootInv, Recording, Lost
  <1>4. out = None \/ out \in Fresh(u, setting)
    BY <1>2, <1>3 DEF OutputInv
  <1>5. PICK e \in Engines, s \in EitherSetting :
           last = Result(u, last.ids, [engines |-> e, setting |-> s], Contents)
    BY <1>2, <1>3, ResultOfCurrent DEF RecordInv, Made, Current
  <1>6. ASSUME out = None, NEW d \in Engines
        PROVE  FreshBy(d, u, setting) = None
    <2>1. last.status # "ok"
      BY <1>2, <1>6 DEF Degraded, Inconclusive
    <2>2. CASE u \in TopKUnits
      BY <1>2, <1>5, <2>1, <2>2, NoFrameForAny DEF FreshBy
    <2>3. CASE u \notin TopKUnits
      BY <1>5, <2>1, <2>3 DEF FreshBy, Result, TableResult, Record
    <2> QED BY <2>2, <2>3
  <1>7. out \in Fresh(u, setting)
    <2>1. CASE out = None
      BY <1>5, <1>6, <2>1 DEF Fresh
    <2>2. CASE out # None
      BY <1>4, <2>2
    <2> QED BY <2>1, <2>2
  <1>8. ASSUME Conforming(u), NEW d \in Engines
        PROVE  FreshBy(d, u, setting) \in {out, None}
    <2>1. PICK c \in Engines : out = FreshBy(c, u, setting)
      BY <1>7 DEF Fresh
    <2>2. CASE u \in TopKUnits /\ out # None
      BY <1>8, <2>1, <2>2, ConformingEngines
    <2>3. CASE u \notin TopKUnits
      BY <2>1, <2>3 DEF FreshBy, Result
    <2>4. CASE out = None
      BY <1>6, <2>4
    <2> QED BY <2>2, <2>3, <2>4
  <1> QED BY <1>1, <1>7, <1>8 DEF Fresh

(* An output that the next run of its store would keep is one that a run of now builds,
   and the only one where the engines conform, whatever was refreshed, run by another
   engine or under another contract, or killed in between: runs of one store follow one
   another, as KeptOutputsAreCurrent's model assumes, those of different stores overlap. *)
THEOREM KeptOutputs == ReconSpec => []KeptOutputsAreCurrent
  <1>1. ReconInit => ReconInv
    BY ReconInitInv
  <1>2. ReconInv /\ [ReconNext]_reconVars => ReconInv'
    BY ReconStep
  <1>3. ReconInv => KeptOutputsAreCurrent
    BY OutputsAreCurrent
  <1> QED BY <1>1, <1>2, <1>3, PTL DEF ReconSpec

-----------------------------------------------------------------------------
(* The invariant of the Lake commands: what the identities mean *)

(* M[f][i] is what the file f held when its identity was i.  No state says it, but it
   never changes: some M agrees with all that was read under an identity. *)
RawMeans(M) == \A f \in Partitions : M[f][raw[f].id] = raw[f].content

Past(i) == i \in Nat /\ i <= refreshes + 1

\* The content an output was built from, of one of its inputs.
Read(sha, u, f) == IF u \in TopKUnits THEN (IF f = Feed[u] THEN sha.deltas ELSE sha.book) ELSE sha

\* A record of identity i that was built from other bytes, and a run that will make one.
SpoiltRecord(last, u, f, i, M) ==
    last # None /\ last.ids[f] = i /\ last.status = "ok" /\ Read(last.sha, u, f) # M[f][i]
SpoiltRun(p, u, f, i, M) ==
    /\ p.pc \in {"read", "build", "record"} /\ p.unit = u /\ p.ids[f] = i
    /\ \/ f \in Unread(p) /\ raw[f].id # i
       \/ p.pc = "build" /\ f = Feed[u] /\ p.rows # M[f][i]
       \/ p.pc = "record" /\ p.rec.status = "ok" /\ Read(p.rec.sha, u, f) # M[f][i]
SpoiltAt(p, s, u, f, i, M) == SpoiltRecord(s.last[u], u, f, i, M) \/ SpoiltRun(p, u, f, i, M)
Spoilt(r, u, f, i, M) == SpoiltAt(proc[r], store[r], u, f, i, M)

\* Only a file replaced under two runs spoils the records of two stores.
PairsInv(M) ==
    \A one, two \in Roots, u \in Units : \A f \in Inputs(u) : \A i :
        one # two /\ Spoilt(one, u, f, i, M) /\ Spoilt(two, u, f, i, M)
            => <<u, f, i>> \in replacedUnderTwo

CheckedInv(entries, M) ==
    \A f \in DOMAIN entries : f \in Partitions /\
        (entries[f].ok => Past(entries[f].id) /\ M[f][entries[f].id] = Pinned[f])

CheckingInv(M) ==
    checking # Idle =>
        CheckedInv(checking.entries, M) /\ (checking.pc = "hashing" => checking.file \in Partitions)

\* What verify-inputs passes is what the preregistration pins.
VerifyInv(M) ==
    report.verify # None /\ report.verify.pass =>
        \A f \in Partitions : /\ Past(report.verify.ids[f])
                              /\ M[f][report.verify.ids[f]] = Pinned[f]

ReportShape ==
    report = [verify |-> report.verify, tick |-> report.tick, silence |-> report.silence,
              determinism |-> report.determinism, verdict |-> report.verdict,
              replay |-> report.replay]

OfEngine(engine, name) == engine # None /\ engine[1] = name

AcrossEngines(d) ==
    \E u \in TopKUnits : OfEngine(d.engine1[u], "python") /\ OfEngine(d.engine2[u], "native")

\* x is what a manifest says of what u made over what was held.
Says(x, u, held) ==
    \E e \in Engines, s \in EitherSetting :
        x = Semantic(Result(u, x.ids, [engines |-> e, setting |-> s], held))

\* What two stores say alike was read under its identities, or replaced under both runs.
ComparedInv(d, u, M) ==
    LET x == d.fingerprint[u]
    IN  /\ Known(x.ids, u)
        /\ \E held : Says(x, u, held)
        /\ AcrossEngines(d) /\ x.status = "ok" =>
              \A f \in Inputs(u) : \/ <<u, f, x.ids[f]>> \in replacedUnderTwo
                                   \/ Read(x.sha, u, f) = M[f][x.ids[f]]
        /\ u \in TopKUnits /\ OfEngine(d.engine1[u], "python")
              => x.sha = None \/ x.sha.agrees = "same"

FingerprintInv(M) ==
    report.determinism # None /\ report.determinism.pass =>
        \A u \in DOMAIN report.determinism.fingerprint :
            u \in Units /\ ComparedInv(report.determinism, u, M)

MeaningInv(M) ==
    RawMeans(M) /\ PairsInv(M) /\ CheckingInv(M) /\ VerifyInv(M) /\ FingerprintInv(M)

GateInv == ReconInv /\ ReportShape /\ VerdictIsOfPinnedInputs /\ \E M : MeaningInv(M)

-----------------------------------------------------------------------------
(* What was read *)

LEMMA ReadsHeld ==
    ASSUME NEW u \in Units, NEW ids, NEW p, NEW held, NEW rec, rec = Result(u, ids, p, held),
           rec.status = "ok", NEW f \in Inputs(u)
    PROVE  Read(rec.sha, u, f) = held[f]
  <1>1. CASE u \in TopKUnits
    <2>1. PICK deltas, book, engine, day :
             /\ deltas = held[Feed[u]] /\ book = held[Book[u]] /\ engine = p.engines[InstrumentOf[u]]
             /\ day = ReconTopKDay(engine[1], engine[2], deltas, book, p.setting)
      OBVIOUS
    <2>2. day.cls # "ok"
      BY <2>1 DEF ReconTopKDay, SeedGateVerdict, ClassifyReplay, Certified, Degraded, Inconclusive
    <2>3. rec.sha = day.frame /\ day.frame # None
      BY <1>1, <2>1, <2>2 DEF Result, TopKResult, Record
    <2>4. day.frame = Reconstruct(engine[1], engine[2], deltas, book, p.setting)
      BY <2>1, <2>3 DEF ReconTopKDay
    <2>5. rec.sha.deltas = deltas /\ rec.sha.book = book
      BY <2>3, <2>4 DEF Reconstruct
    <2>6. f = Feed[u] \/ f = Book[u]
      BY <1>1 DEF Inputs
    <2> QED BY <1>1, <2>1, <2>5, <2>6 DEF Read
  <1>2. CASE u \notin TopKUnits
    BY <1>2 DEF Result, TableResult, Record, Read, Inputs
  <1> QED BY <1>1, <1>2

\* What is identified as it is now is not spoilt.
LEMMA NotSpoiltNow ==
    ASSUME ReconInv, NEW M, RawMeans(M), NEW r \in Roots, NEW u \in Units, NEW f \in Inputs(u)
    PROVE  ~ Spoilt(r, u, f, raw[f].id, M)
  <1>1. PICK p, s, i : p = proc[r] /\ s = store[r] /\ i = raw[f].id
    OBVIOUS
  <1>2. RootInv(p, s, Lost(r)) /\ M[f][i] = raw[f].content /\ f \in Partitions
    BY <1>1, InputsArePartitions DEF ReconInv, RawMeans
  <1>3. ~ SpoiltRecord(s.last[u], u, f, i, M)
    <2> SUFFICES ASSUME NEW last, last = s.last[u], last # None, last.ids[f] = i, last.status = "ok"
                 PROVE  Read(last.sha, u, f) = M[f][i]
      BY DEF SpoiltRecord
    <2>1. PICK held : Made(last, u, held) /\ Faithful(held, last.ids, u)
      BY <1>2 DEF RootInv, RecordInv
    <2>2. held[f] = raw[f].content
      BY <1>1, <2>1 DEF Faithful
    <2>3. Read(last.sha, u, f) = held[f]
      BY <2>1, ReadsHeld DEF Made
    <2> QED BY <1>2, <2>2, <2>3
  <1>4. ~ SpoiltRun(p, u, f, i, M)
    <2> SUFFICES ASSUME SpoiltRun(p, u, f, i, M)
                 PROVE  FALSE
      OBVIOUS
    <2>1. /\ p.pc \in {"build", "record"} /\ p.unit = u /\ p.ids[f] = i
          /\ \/ p.pc = "build" /\ f = Feed[u] /\ p.rows # M[f][i]
             \/ p.pc = "record" /\ p.rec.status = "ok" /\ Read(p.rec.sha, u, f) # M[f][i]
      BY <1>1 DEF SpoiltRun
    <2>2. p # Idle
      BY <2>1 DEF Idle
    <2>3. CASE p.pc = "build"
      BY <1>1, <1>2, <2>1, <2>2, <2>3 DEF RootInv, ProcInv, RowsInv
    <2>4. CASE p.pc = "record"
      <3>1. PICK held : p.rec = Result(u, p.ids, p, held) /\ Faithful(held, p.ids, u)
        BY <1>2, <2>1, <2>4, AtRecord DEF BuiltInv
      <3>2. held[f] = raw[f].content
        BY <1>1, <2>1, <3>1 DEF Faithful
      <3>3. Read(p.rec.sha, u, f) = held[f]
        BY <2>1, <2>4, <3>1, ReadsHeld
      <3> QED BY <1>2, <2>1, <2>4, <3>2, <3>3
    <2> QED BY <2>1, <2>3, <2>4
  <1> QED BY <1>1, <1>3, <1>4 DEF Spoilt, SpoiltAt

\* Identities of the records and of the runs are of the past.
LEMMA SpoiltIsPast ==
    ASSUME ReconInv, NEW M, NEW r \in Roots, NEW u \in Units, NEW f \in Inputs(u), NEW i,
           \/ store[r].last[u] # None /\ store[r].last[u].ids[f] = i
           \/ proc[r].pc \in {"read", "build", "record"} /\ proc[r].unit = u /\ proc[r].ids[f] = i
    PROVE  Past(i)
  <1>1. CASE store[r].last[u] # None /\ store[r].last[u].ids[f] = i
    BY <1>1 DEF ReconInv, RootInv, RecordInv, Known, Past
  <1>2. CASE proc[r].pc \in {"read", "build", "record"} /\ proc[r].unit = u /\ proc[r].ids[f] = i
    <2>1. UnitInv(proc[r], store[r].last[u])
      BY <1>2 DEF ReconInv, RootInv, ProcInv, Idle
    <2> QED BY <1>2, <2>1 DEF UnitInv, Known, Past
  <1> QED BY <1>1, <1>2

-----------------------------------------------------------------------------
(* A step of stage 2 spoils nothing but what a refresh replaces *)

\* Nothing is spoilt by a step of one run.
LEMMA OneSpoils ==
    ASSUME ReconInv, UNCHANGED raw, NEW M, NEW root \in Roots, NEW p, NEW s,
           proc' = [proc EXCEPT ![root] = p], store' = [store EXCEPT ![root] = s],
           \A u \in Units : \A f \in Inputs(u) : \A i :
              SpoiltAt(p, s, u, f, i, M) => Spoilt(root, u, f, i, M)
    PROVE  \A r \in Roots, u \in Units : \A f \in Inputs(u) : \A i :
              Spoilt(r, u, f, i, M)' => Spoilt(r, u, f, i, M)
  <1> SUFFICES ASSUME NEW r \in Roots, NEW u \in Units, NEW f \in Inputs(u), NEW i,
                      Spoilt(r, u, f, i, M)'
               PROVE  Spoilt(r, u, f, i, M)
    OBVIOUS
  <1>1. PICK q, t : q = proc'[r] /\ t = store'[r]
    OBVIOUS
  <1>2. SpoiltAt(q, t, u, f, i, M)'
    BY <1>1 DEF Spoilt
  <1>3. SpoiltAt(q, t, u, f, i, M)
    BY <1>2 DEF SpoiltAt, SpoiltRun
  <1>4. CASE r = root
    BY <1>1, <1>3, <1>4 DEF ReconInv
  <1>5. CASE r # root
    <2>1. q = proc[r] /\ t = store[r]
      BY <1>1, <1>5 DEF ReconInv
    <2> QED BY <1>3, <2>1 DEF Spoilt
  <1> QED BY <1>4, <1>5

SpoilsNothing(M) ==
    \A r \in Roots, u \in Units : \A f \in Inputs(u) : \A i :
        Spoilt(r, u, f, i, M)' => Spoilt(r, u, f, i, M)

\* A run that is not at a unit, beside the records it had.
LEMMA RestingSpoilsNothing ==
    ASSUME ReconInv, UNCHANGED raw, NEW M, NEW root \in Roots, NEW p, NEW s,
           proc' = [proc EXCEPT ![root] = p], store' = [store EXCEPT ![root] = s],
           p.pc \notin {"read", "build", "record"}, s.last = store[root].last
    PROVE  SpoilsNothing(M)
  <1>1. ASSUME NEW u, NEW f, NEW i, SpoiltAt(p, s, u, f, i, M)
        PROVE  Spoilt(root, u, f, i, M)
    BY <1>1 DEF SpoiltAt, SpoiltRun, Spoilt
  <1> QED BY <1>1, OneSpoils DEF SpoilsNothing

\* A run that goes on with its unit, or begins one.
LEMMA GoingOnSpoilsNothing ==
    ASSUME ReconInv, UNCHANGED raw, NEW M, NEW root \in Roots, NEW p, NEW s,
           proc' = [proc EXCEPT ![root] = p], store' = [store EXCEPT ![root] = s],
           s.last = store[root].last,
           \A u \in Units : \A f \in Inputs(u) : \A i :
              SpoiltRun(p, u, f, i, M) => SpoiltRun(proc[root], u, f, i, M)
    PROVE  SpoilsNothing(M)
  <1>1. ASSUME NEW u \in Units, NEW f \in Inputs(u), NEW i, SpoiltAt(p, s, u, f, i, M)
        PROVE  Spoilt(root, u, f, i, M)
    BY <1>1 DEF SpoiltAt, Spoilt
  <1> QED BY <1>1, OneSpoils DEF SpoilsNothing

LEMMA BuildSpoilsNothing ==
    ASSUME ReconInv, NEW M, RawMeans(M), NEW root \in Roots, Build(root)
    PROVE  SpoilsNothing(M)
  <1>1. PICK p, s, v, rec, t, q :
           /\ p = proc[root] /\ s = store[root] /\ v = p.unit
           /\ rec = Result(v, p.ids, p, HeldBy(p))
           /\ t = [s EXCEPT !.out[v] = rec.sha]
           /\ q = [pc |-> "record", setting |-> p.setting, engines |-> p.engines,
                   todo |-> p.todo, unit |-> v, ids |-> p.ids, rec |-> rec]
           /\ proc' = [proc EXCEPT ![root] = q] /\ store' = [store EXCEPT ![root] = t]
    BY DEF Build
  <1>2. RootInv(p, s, Lost(root)) /\ p.pc = "build" /\ UNCHANGED raw
    BY <1>1 DEF Build, ReconInv
  <1>3. v \in Units
    BY <1>1, <1>2 DEF RootInv, ProcInv, Idle, UnitInv
  <1>4. t.last = s.last
    BY <1>1, <1>2, <1>3, PublishOutput DEF RootInv, Publishes
  <1>5. q.pc = "record" /\ q.unit = v /\ q.ids = p.ids /\ q.rec = rec
    BY <1>1
  <1>6. ASSUME NEW u \in Units, NEW f \in Inputs(u), NEW i, SpoiltRun(q, u, f, i, M)
        PROVE  SpoiltRun(p, u, f, i, M)
    <2>1. u = v /\ p.ids[f] = i /\ rec.status = "ok" /\ Read(rec.sha, u, f) # M[f][i]
      BY <1>5, <1>6 DEF SpoiltRun, Unread
    <2>2. HeldBy(p)[f] # M[f][i]
      BY <1>1, <2>1, ReadsHeld
    <2>3. CASE f = Feed[u]
      <3>1. p.rows # M[f][i]
        BY <1>1, <2>1, <2>2, <2>3, InputsArePartitions DEF HeldBy, Contents
      <3> QED BY <1>1, <1>2, <2>1, <2>3, <3>1 DEF SpoiltRun
    <2>4. CASE f # Feed[u]
      <3>1. raw[f].content # M[f][i]
        BY <1>1, <2>1, <2>2, <2>4, InputsArePartitions DEF HeldBy, Contents
      <3>2. raw[f].id # i /\ f \in Unread(p)
        BY <1>1, <1>2, <2>1, <2>4, <3>1, InputsArePartitions DEF RawMeans, Unread
      <3> QED BY <1>1, <1>2, <2>1, <3>2 DEF SpoiltRun
    <2> QED BY <2>3, <2>4
  <1>7. proc' = [proc EXCEPT ![root] = q] /\ store' = [store EXCEPT ![root] = t]
    BY <1>1
  <1>8. p = proc[root] /\ t.last = store[root].last /\ UNCHANGED raw
    BY <1>1, <1>2, <1>4
  <1> QED BY <1>6, <1>7, <1>8, GoingOnSpoilsNothing

LEMMA RecordUnitSpoilsNothing ==
    ASSUME ReconInv, NEW M, NEW root \in Roots, RecordUnit(root)
    PROVE  SpoilsNothing(M)
  <1>1. PICK p, s, v, rec, t, q :
           /\ p = proc[root] /\ s = store[root] /\ v = p.unit /\ rec = p.rec
           /\ t = AppendRecord(s, v, rec) /\ q = AfterUnit(p)
           /\ proc' = [proc EXCEPT ![root] = q] /\ store' = [store EXCEPT ![root] = t]
    BY DEF RecordUnit
  <1>2. RootInv(p, s, Lost(root)) /\ p.pc = "record" /\ UNCHANGED raw
    BY <1>1 DEF RecordUnit, ReconInv
  <1>3. v \in Units /\ rec.ids = p.ids /\ q.pc = "next" /\ StoreShape(s)
    BY <1>1, <1>2, AtRecord DEF BuiltInv, AfterUnit, RootInv
  <1>4. proc' = [proc EXCEPT ![root] = q] /\ store' = [store EXCEPT ![root] = t]
    BY <1>1
  <1>5. CASE s.ragged
    <2>1. t = [s EXCEPT !.ragged = FALSE, !.unreadable = TRUE]
      BY <1>1, <1>5 DEF AppendRecord
    <2>2. t.last = store[root].last
      BY <1>1, <1>3, <2>1 DEF StoreShape
    <2> QED BY <1>2, <1>3, <1>4, <2>2, RestingSpoilsNothing
  <1>6. CASE ~ s.ragged
    <2>1. Appends(s, t, v, rec)
      BY <1>1, <1>3, <1>6, AppendLine DEF AppendRecord
    <2>2. ASSUME NEW u \in Units, NEW f \in Inputs(u), NEW i, SpoiltAt(q, t, u, f, i, M)
          PROVE  Spoilt(root, u, f, i, M)
      <3>1. SpoiltRecord(t.last[u], u, f, i, M)
        BY <1>3, <2>2 DEF SpoiltAt, SpoiltRun
      <3>2. CASE u = v
        <4>1. t.last[u] = p.rec
          BY <1>1, <2>1, <3>2 DEF Appends
        <4>2. SpoiltRun(p, u, f, i, M)
          BY <1>1, <1>2, <1>3, <3>1, <3>2, <4>1 DEF SpoiltRecord, SpoiltRun
        <4> QED BY <1>1, <4>2 DEF Spoilt, SpoiltAt
      <3>3. CASE u # v
        BY <1>1, <2>1, <3>1, <3>3 DEF Appends, Spoilt, SpoiltAt
      <3> QED BY <3>2, <3>3
    <2>3. UNCHANGED raw
      BY <1>2
    <2> QED BY <1>4, <2>2, <2>3, OneSpoils DEF SpoilsNothing
  <1> QED BY <1>5, <1>6

LEMMA RunsSpoilNothing ==
    ASSUME ReconInv, ReconNext, ~ Refresh, NEW M, RawMeans(M)
    PROVE  SpoilsNothing(M)
  <1>1. CASE StartRun
    <2>1. PICK root \in Roots : \E p : p.pc = "next" /\ proc' = [proc EXCEPT ![root] = p]
      BY <1>1 DEF StartRun, Started
    <2>2. PICK p : p.pc = "next" /\ proc' = [proc EXCEPT ![root] = p]
      BY <2>1
    <2>3. store' = [store EXCEPT ![root] = store[root]] /\ UNCHANGED raw
      BY <1>1 DEF StartRun, ReconInv
    <2> QED BY <2>2, <2>3, RestingSpoilsNothing
  <1>2. ASSUME NEW root \in Roots, FinishRun(root)
        PROVE  SpoilsNothing(M)
    <2>1. proc' = [proc EXCEPT ![root] = Idle] /\ UNCHANGED raw
          /\ store' = [store EXCEPT ![root] = store[root]]
      BY <1>2 DEF FinishRun, ReconInv
    <2> QED BY <2>1, RestingSpoilsNothing DEF Idle
  <1>3. ASSUME NEW root \in Roots, Crash(root)
        PROVE  SpoilsNothing(M)
    <2>1. PICK s : s = store[root]
      OBVIOUS
    <2>2. proc' = [proc EXCEPT ![root] = Idle] /\ UNCHANGED raw
      BY <1>3 DEF Crash
    <2>3. PICK t : store' = [store EXCEPT ![root] = t] /\ (t = s \/ t = [s EXCEPT !.ragged = TRUE])
      BY <1>3, <2>1 DEF Crash, ReconInv
    <2>4. t.last = store[root].last
      BY <2>1, <2>3 DEF StoreShape, RootInv, ReconInv
    <2> QED BY <2>2, <2>3, <2>4, RestingSpoilsNothing DEF Idle
  <1>4. ASSUME NEW root \in Roots, TakeIdentities(root)
        PROVE  SpoilsNothing(M)
    <2>1. PICK v, p :
             /\ v \in proc[root].todo /\ p.pc = "read" /\ p.unit = v /\ p.ids = RawInputIdentities(v)
             /\ proc' = [proc EXCEPT ![root] = p]
      BY <1>4 DEF TakeIdentities
    <2>2. store' = [store EXCEPT ![root] = store[root]] /\ UNCHANGED raw
      BY <1>4 DEF TakeIdentities, ReconInv
    <2>3. ASSUME NEW u \in Units, NEW f \in Inputs(u), NEW i, SpoiltRun(p, u, f, i, M)
          PROVE  SpoiltRun(proc[root], u, f, i, M)
      BY <2>1, <2>3 DEF SpoiltRun, RawInputIdentities
    <2> QED BY <2>1, <2>2, <2>3, GoingOnSpoilsNothing
  <1>5. ASSUME NEW root \in Roots, ReadFeed(root)
        PROVE  SpoilsNothing(M)
    <2>1. PICK old, p :
             /\ old = proc[root] /\ p.pc = "build" /\ p.unit = old.unit /\ p.ids = old.ids
             /\ p.rows = raw[Feed[old.unit]].content
             /\ proc' = [proc EXCEPT ![root] = p]
      BY <1>5 DEF ReadFeed
    <2>2. store' = [store EXCEPT ![root] = store[root]] /\ UNCHANGED raw /\ old.pc = "read"
      BY <1>5, <2>1 DEF ReadFeed, ReconInv
    <2>3. ASSUME NEW u \in Units, NEW f \in Inputs(u), NEW i, SpoiltRun(p, u, f, i, M)
          PROVE  SpoiltRun(old, u, f, i, M)
      <3>1. old.unit = u /\ old.ids[f] = i /\ f \in Unread(old)
        BY <2>1, <2>2, <2>3 DEF SpoiltRun, Unread
      <3>2. raw[f].id # i
        BY <2>1, <2>2, <2>3, <3>1, InputsArePartitions DEF SpoiltRun, RawMeans
      <3> QED BY <2>2, <3>1, <3>2 DEF SpoiltRun
    <2>4. proc' = [proc EXCEPT ![root] = p] /\ old = proc[root]
      BY <2>1
    <2> QED BY <2>2, <2>3, <2>4, GoingOnSpoilsNothing
  <1> QED BY <1>1, <1>2, <1>3, <1>4, <1>5, BuildSpoilsNothing, RecordUnitSpoilsNothing DEF ReconNext

\* A refresh adds a meaning, and spoils what is to be read under the identity before.
LEMMA RefreshMeans ==
    ASSUME ReconInv, Refresh, NEW M, RawMeans(M), PairsInv(M)
    PROVE  \E N : /\ RawMeans(N)' /\ PairsInv(N)'
                  /\ \A f \in Partitions : \A i : Past(i) => N[f][i] = M[f][i]
  <1>1. PICK f0, c :
           /\ f0 \in Partitions
           /\ raw' = [raw EXCEPT ![f0] = [id |-> refreshes + 2, content |-> c]]
           /\ replacedUnderTwo' = replacedUnderTwo
                 \union {<<u, f0, raw[f0].id>> : u \in {v \in Units : AwaitedByTwo(v, f0)}}
    BY DEF Refresh
  <1>2. PICK N : N = [g \in Partitions |->
                        [j \in Nat |-> IF g = f0 /\ j = refreshes + 2 THEN c ELSE M[g][j]]]
    OBVIOUS
  <1>3. RawInv /\ refreshes \in Nat /\ UNCHANGED <<store, proc>>
    BY DEF ReconInv, RawInv, Refresh
  <1>4. ASSUME NEW f \in Partitions, NEW i, Past(i)
        PROVE  N[f][i] = M[f][i]
    BY <1>2, <1>3, <1>4 DEF Past
  <1>5. /\ raw'[f0].id = refreshes + 2 /\ raw'[f0].content = c
        /\ \A f \in Partitions : f # f0 => raw'[f] = raw[f]
        /\ \A f \in Partitions : raw[f].id \in Nat /\ raw[f].id <= refreshes + 1
    BY <1>1, <1>3 DEF RawInv
  <1>6. N[f0][refreshes + 2] = c
    BY <1>1, <1>2, <1>3
  <1>7. RawMeans(N)'
    <2> SUFFICES ASSUME NEW f \in Partitions
                 PROVE  N[f][raw'[f].id] = raw'[f].content
      BY DEF RawMeans
    <2>1. CASE f = f0
      BY <1>5, <1>6, <2>1
    <2>2. CASE f # f0
      BY <1>4, <1>5, <2>2 DEF RawMeans, Past
    <2> QED BY <2>1, <2>2
  <1>8. ASSUME NEW r \in Roots, NEW u \in Units, NEW f \in Inputs(u), NEW i, Spoilt(r, u, f, i, N)'
        PROVE  \/ Spoilt(r, u, f, i, M)
               \/ /\ f = f0 /\ i = raw[f0].id /\ f \in Unread(proc[r])
                  /\ proc[r].unit = u /\ proc[r].ids[f] = i
    <2>1. PICK p, s : p = proc[r] /\ s = store[r]
      OBVIOUS
    <2>2. SpoiltRecord(s.last[u], u, f, i, N) \/ SpoiltRun(p, u, f, i, N)'
      BY <1>3, <1>8, <2>1 DEF Spoilt, SpoiltAt, SpoiltRecord
    <2>3. \/ s.last[u] # None /\ s.last[u].ids[f] = i
          \/ p.pc \in {"read", "build", "record"} /\ p.unit = u /\ p.ids[f] = i
      BY <2>2 DEF SpoiltRecord, SpoiltRun
    <2>4. Past(i) /\ f \in Partitions
      BY <2>1, <2>3, SpoiltIsPast, InputsArePartitions
    <2>5. N[f][i] = M[f][i]
      BY <1>4, <2>4
    <2>6. CASE SpoiltRecord(s.last[u], u, f, i, N)
      BY <2>1, <2>5, <2>6 DEF SpoiltRecord, Spoilt, SpoiltAt
    <2>7. CASE SpoiltRun(p, u, f, i, N)'
      <3>1. /\ p.pc \in {"read", "build", "record"} /\ p.unit = u /\ p.ids[f] = i
            /\ \/ f \in Unread(p) /\ raw'[f].id # i
               \/ p.pc = "build" /\ f = Feed[u] /\ p.rows # M[f][i]
               \/ p.pc = "record" /\ p.rec.status = "ok" /\ Read(p.rec.sha, u, f) # M[f][i]
        BY <2>5, <2>7 DEF SpoiltRun
      <3>2. CASE f \in Unread(p) /\ raw'[f].id # i
        <4>1. raw[f].id # i \/ (f = f0 /\ raw[f].id = i)
          BY <1>5, <2>4, <3>2
        <4> QED BY <2>1, <3>1, <3>2, <4>1 DEF Spoilt, SpoiltAt, SpoiltRun
      <3>3. CASE ~(f \in Unread(p) /\ raw'[f].id # i)
        BY <2>1, <3>1, <3>3 DEF Spoilt, SpoiltAt, SpoiltRun
      <3> QED BY <3>2, <3>3
    <2> QED BY <2>2, <2>6, <2>7
  <1>9. PairsInv(N)'
    <2> SUFFICES ASSUME NEW one \in Roots, NEW two \in Roots, NEW u \in Units, NEW f \in Inputs(u),
                        NEW i, one # two, Spoilt(one, u, f, i, N)', Spoilt(two, u, f, i, N)'
                 PROVE  <<u, f, i>> \in replacedUnderTwo'
      BY DEF PairsInv
    <2>1. CASE f = f0 /\ i = raw[f0].id
      <3>1. ~ Spoilt(one, u, f, i, M) /\ ~ Spoilt(two, u, f, i, M)
        BY <2>1, NotSpoiltNow
      <3>2. \A r \in {one, two} : f \in Unread(proc[r]) /\ proc[r].unit = u /\ proc[r].ids[f] = i
        BY <1>8, <3>1
      <3>3. AwaitedByTwo(u, f)
        BY <2>1, <3>2 DEF AwaitedByTwo
      <3> QED BY <1>1, <2>1, <3>3
    <2>2. CASE ~(f = f0 /\ i = raw[f0].id)
      <3>1. Spoilt(one, u, f, i, M) /\ Spoilt(two, u, f, i, M)
        BY <1>8, <2>2
      <3> QED BY <1>1, <3>1 DEF PairsInv
    <2> QED BY <2>1, <2>2
  <1> QED BY <1>4, <1>7, <1>9

LEMMA RawIsOf ==
    ASSUME ReconInv, ReconNext, ~ Refresh
    PROVE  UNCHANGED <<raw, refreshes, replacedUnderTwo>>
  BY DEF ReconNext, StartRun, TakeIdentities, ReadFeed, Build, RecordUnit, FinishRun, Crash

LEMMA Stage2Means ==
    ASSUME ReconInv, ReconNext, NEW M, RawMeans(M), PairsInv(M)
    PROVE  /\ \E N : /\ RawMeans(N)' /\ PairsInv(N)'
                     /\ \A f \in Partitions : \A i : Past(i) => N[f][i] = M[f][i]
           /\ replacedUnderTwo \subseteq replacedUnderTwo'
           /\ refreshes \in Nat /\ refreshes' \in Nat /\ refreshes <= refreshes'
  <1>1. CASE Refresh
    <2>1. replacedUnderTwo \subseteq replacedUnderTwo'
      BY <1>1 DEF Refresh
    <2>2. refreshes \in Nat /\ refreshes' = refreshes + 1
      BY <1>1, RefreshRaw DEF ReconInv, RawInv
    <2> QED BY <1>1, <2>1, <2>2, RefreshMeans
  <1>2. CASE ~ Refresh
    <2>1. UNCHANGED <<raw, refreshes, replacedUnderTwo>> /\ refreshes \in Nat
      BY <1>2, RawIsOf DEF ReconInv, RawInv
    <2>2. RawMeans(M)'
      BY <2>1 DEF RawMeans
    <2>3. PairsInv(M)'
      BY <1>2, <2>1, RunsSpoilNothing DEF PairsInv, SpoilsNothing
    <2> QED BY <2>1, <2>2, <2>3
  <1> QED BY <1>1, <1>2

\* What the reports say of the past stays as it is.
LEMMA ReportsKeep ==
    ASSUME refreshes \in Nat, refreshes' \in Nat, refreshes <= refreshes',
           replacedUnderTwo \subseteq replacedUnderTwo', NEW M, NEW N,
           \A f \in Partitions : \A i : Past(i) => N[f][i] = M[f][i]
    PROVE  /\ \A i : Past(i) => Past(i)'
           /\ \A entries : CheckedInv(entries, M) => CheckedInv(entries, N)'
           /\ \A d : \A u \in Units : ComparedInv(d, u, M) => ComparedInv(d, u, N)'
  <1>1. ASSUME NEW i, Past(i)
        PROVE  Past(i)'
    <2>1. i \in Nat /\ i <= refreshes + 1
      BY <1>1 DEF Past
    <2>2. i <= refreshes' + 1
      BY <2>1, SMT
    <2> QED BY <2>1, <2>2 DEF Past
  <1>2. \A entries : CheckedInv(entries, M) => CheckedInv(entries, N)'
    BY <1>1 DEF CheckedInv
  <1>3. ASSUME NEW d, NEW u \in Units, ComparedInv(d, u, M)
        PROVE  ComparedInv(d, u, N)'
    <2>1. PICK x : x = d.fingerprint[u]
      OBVIOUS
    <2>2. Known(x.ids, u)
      BY <1>3, <2>1 DEF ComparedInv
    <2>3. Known(x.ids, u)'
      BY <2>2 DEF Known
    <2>4. \A f \in Inputs(u) : N[f][x.ids[f]] = M[f][x.ids[f]]
      BY <2>2, InputsArePartitions DEF Known, Past
    <2> QED BY <1>3, <2>1, <2>3, <2>4 DEF ComparedInv
  <1> QED BY <1>1, <1>2, <1>3

LEMMA Stage2Inv ==
    ASSUME GateInv, Stage2
    PROVE  GateInv'
  <1>1. ReconInv /\ ReconNext /\ UNCHANGED <<report, checking>>
    BY DEF GateInv, Stage2
  <1>2. PICK M : MeaningInv(M)
    BY DEF GateInv
  <1>3. PICK N : /\ RawMeans(N)' /\ PairsInv(N)'
                 /\ \A f \in Partitions : \A i : Past(i) => N[f][i] = M[f][i]
    BY <1>1, <1>2, Stage2Means DEF MeaningInv
  <1>4. /\ replacedUnderTwo \subseteq replacedUnderTwo'
        /\ refreshes \in Nat /\ refreshes' \in Nat /\ refreshes <= refreshes'
    BY <1>1, <1>2, Stage2Means DEF MeaningInv
  <1>5. /\ \A i : Past(i) => Past(i)'
        /\ \A entries : CheckedInv(entries, M) => CheckedInv(entries, N)'
        /\ \A d : \A u \in Units : ComparedInv(d, u, M) => ComparedInv(d, u, N)'
    BY <1>3, <1>4, ReportsKeep
  <1>6. CheckingInv(N)'
    BY <1>1, <1>2, <1>5 DEF MeaningInv, CheckingInv
  <1>7. VerifyInv(N)'
    BY <1>1, <1>2, <1>3, <1>5 DEF MeaningInv, VerifyInv
  <1>8. FingerprintInv(N)'
    <2>1. PICK d : d = report.determinism
      OBVIOUS
    <2>2. d # None /\ d.pass => \A u \in DOMAIN d.fingerprint : u \in Units /\ ComparedInv(d, u, M)
      BY <1>2, <2>1 DEF MeaningInv, FingerprintInv
    <2>3. d # None /\ d.pass => \A u \in DOMAIN d.fingerprint : u \in Units /\ ComparedInv(d, u, N)'
      BY <1>5, <2>2
    <2>4. report'.determinism = d
      BY <1>1, <2>1
    <2> QED BY <2>3, <2>4 DEF FingerprintInv
  <1>9. MeaningInv(N)'
    BY <1>3, <1>6, <1>7, <1>8 DEF MeaningInv
  <1>10. VerdictIsOfPinnedInputs'
    BY <1>1, <1>4 DEF GateInv, VerdictIsOfPinnedInputs, ReplacedUnderBoth
  <1>11. ReconInv' /\ ReportShape'
    BY <1>1, ReconStep DEF GateInv, ReportShape
  <1> QED BY <1>9, <1>10, <1>11 DEF GateInv

-----------------------------------------------------------------------------
(* The commands *)

LEMMA CommandKeeps ==
    ASSUME GateInv, UNCHANGED reconVars, NEW M, MeaningInv(M)
    PROVE  /\ ReconInv' /\ RawMeans(M)' /\ PairsInv(M)'
           /\ \A entries : CheckedInv(entries, M)' <=> CheckedInv(entries, M)
           /\ \A d, u : ComparedInv(d, u, M)' <=> ComparedInv(d, u, M)
           /\ \A i : Past(i)' <=> Past(i)
  <1>1. ReconInv'
    BY ReconStep DEF GateInv
  <1>2. UNCHANGED <<raw, store, proc, refreshes, replacedUnderTwo>>
    BY DEF reconVars
  <1>3. \A i : Past(i)' <=> Past(i)
    BY <1>2 DEF Past
  <1>4. \A entries : CheckedInv(entries, M)' <=> CheckedInv(entries, M)
    BY <1>3 DEF CheckedInv
  <1>5. \A d, u : ComparedInv(d, u, M)' <=> ComparedInv(d, u, M)
    BY <1>2 DEF ComparedInv, Known
  <1>6. RawMeans(M)'
    BY <1>2 DEF MeaningInv, RawMeans
  <1>7. \A r, u, f, i : Spoilt(r, u, f, i, M)' <=> Spoilt(r, u, f, i, M)
    BY <1>2 DEF Spoilt, SpoiltAt, SpoiltRun
  <1>8. PairsInv(M)'
    BY <1>2, <1>7 DEF MeaningInv, PairsInv
  <1> QED BY <1>1, <1>3, <1>4, <1>5, <1>6, <1>8

LEMMA ReadingCommandInv ==
    ASSUME GateInv, TickScale \/ Silence \/ ReplayConformance \/ VerifyBegin \/ Amend
    PROVE  GateInv'
  <1>1. UNCHANGED reconVars
    BY DEF TickScale, Silence, ReplayConformance, VerifyBegin, Amend
  <1>2. PICK v, t, s, d, w, r :
           report = [verify |-> v, tick |-> t, silence |-> s, determinism |-> d, verdict |-> w,
                     replay |-> r]
    BY DEF GateInv, ReportShape
  <1>3. /\ ReportShape' /\ report'.verify = report.verify
        /\ report'.determinism = report.determinism /\ report'.verdict = report.verdict
    BY <1>2 DEF TickScale, Silence, ReplayConformance, VerifyBegin, Amend, ReportShape
  <1>4. PICK M : MeaningInv(M)
    BY DEF GateInv
  <1>5. CheckingInv(M)'
    <2>1. CASE VerifyBegin
      <3>1. PICK f \in Partitions : checking' = [pc |-> "hashing", entries |-> Entries, file |-> f,
                                                 before |-> raw[f].id]
        BY <2>1 DEF VerifyBegin
      <3>2. CheckedInv(Entries, M)
        BY <1>4 DEF Entries, CheckedInv, MeaningInv, CheckingInv
      <3>3. checking'.entries = Entries /\ checking'.file = f
        BY <3>1
      <3> QED BY <1>1, <1>4, <3>2, <3>3, CommandKeeps DEF CheckingInv
    <2>2. CASE UNCHANGED checking
      BY <1>1, <1>4, <2>2, CommandKeeps DEF CheckingInv, MeaningInv
    <2> QED BY <2>1, <2>2 DEF TickScale, Silence, ReplayConformance, Amend
  <1>6. VerifyInv(M)' /\ FingerprintInv(M)'
    BY <1>1, <1>3, <1>4, CommandKeeps DEF VerifyInv, FingerprintInv, MeaningInv
  <1>7. MeaningInv(M)'
    BY <1>1, <1>4, <1>5, <1>6, CommandKeeps DEF MeaningInv
  <1>8. VerdictIsOfPinnedInputs'
    BY <1>1, <1>3 DEF GateInv, VerdictIsOfPinnedInputs, ReplacedUnderBoth, reconVars
  <1> QED BY <1>1, <1>3, <1>4, <1>7, <1>8, CommandKeeps DEF GateInv

\* The report of verify-inputs, when the last file is done.
LEMMA VerifyEndInv ==
    ASSUME GateInv, VerifyEnd
    PROVE  GateInv'
  <1>1. UNCHANGED reconVars /\ checking.pc = "hashing"
    BY DEF VerifyEnd
  <1>2. PICK M : MeaningInv(M)
    BY DEF GateInv
  <1>3. PICK entries :
           /\ entries = [f \in DOMAIN checking.entries \union {checking.file} |->
                           IF f = checking.file THEN Entry(f, checking.before) ELSE checking.entries[f]]
           /\ \/ /\ DOMAIN entries = Partitions
                 /\ report' = [report EXCEPT !.verify =
                        [contract |-> contract, ids |-> [f \in Partitions |-> entries[f].id],
                         pass |-> \A f \in Partitions : entries[f].ok]]
                 /\ checking' = Idle
              \/ checking' = [pc |-> "next", entries |-> entries] /\ UNCHANGED report
    BY DEF VerifyEnd
  <1>4. checking # Idle
    BY <1>1 DEF Idle
  <1>5. CheckedInv(checking.entries, M) /\ checking.file \in Partitions
    BY <1>1, <1>2, <1>4 DEF MeaningInv, CheckingInv
  <1>6. ASSUME NEW f \in Partitions, NEW before, Entry(f, before).ok
        PROVE  Past(Entry(f, before).id) /\ M[f][Entry(f, before).id] = Pinned[f]
    BY <1>2, <1>6 DEF Entry, MeaningInv, RawMeans, GateInv, ReconInv, RawInv, Past
  <1>7. CheckedInv(entries, M)
    <2> SUFFICES ASSUME NEW f \in DOMAIN entries
                 PROVE  /\ f \in Partitions
                        /\ entries[f].ok => Past(entries[f].id) /\ M[f][entries[f].id] = Pinned[f]
      BY DEF CheckedInv
    <2>1. CASE f = checking.file
      BY <1>3, <1>5, <1>6, <2>1
    <2>2. CASE f # checking.file
      BY <1>3, <1>5, <2>2 DEF CheckedInv
    <2> QED BY <2>1, <2>2
  <1>8. CASE checking' = [pc |-> "next", entries |-> entries] /\ UNCHANGED report
    <2>1. CheckingInv(M)'
      BY <1>1, <1>2, <1>7, <1>8, CommandKeeps DEF CheckingInv
    <2>2. VerifyInv(M)' /\ FingerprintInv(M)'
      BY <1>1, <1>2, <1>8, CommandKeeps DEF VerifyInv, FingerprintInv, MeaningInv
    <2>3. MeaningInv(M)'
      BY <1>1, <1>2, <2>1, <2>2, CommandKeeps DEF MeaningInv
    <2>4. VerdictIsOfPinnedInputs' /\ ReportShape'
      BY <1>1, <1>8 DEF GateInv, VerdictIsOfPinnedInputs, ReplacedUnderBoth, reconVars, ReportShape
    <2> QED BY <1>1, <1>2, <2>3, <2>4, CommandKeeps DEF GateInv
  <1>9. CASE /\ DOMAIN entries = Partitions /\ checking' = Idle
             /\ report' = [report EXCEPT !.verify =
                   [contract |-> contract, ids |-> [f \in Partitions |-> entries[f].id],
                    pass |-> \A f \in Partitions : entries[f].ok]]
    <2>1. PICK v, t, s, d, w, r :
             report = [verify |-> v, tick |-> t, silence |-> s, determinism |-> d, verdict |-> w,
                       replay |-> r]
      BY DEF GateInv, ReportShape
    <2>2. /\ report'.verify.ids = [f \in Partitions |-> entries[f].id]
          /\ report'.verify.pass => \A f \in Partitions : entries[f].ok
          /\ report'.determinism = report.determinism /\ report'.verdict = report.verdict
          /\ ReportShape'
      BY <1>9, <2>1 DEF ReportShape
    <2>3. VerifyInv(M)'
      <3>1. PICK ids : ids = report'.verify.ids
        OBVIOUS
      <3>2. ASSUME report'.verify.pass, NEW f \in Partitions
            PROVE  Past(ids[f]) /\ M[f][ids[f]] = Pinned[f]
        BY <1>7, <1>9, <2>2, <3>1, <3>2 DEF CheckedInv
      <3>3. \A i : Past(i) => Past(i)'
        BY <1>1, <1>2, CommandKeeps
      <3> QED BY <3>1, <3>2, <3>3 DEF VerifyInv
    <2>4. CheckingInv(M)' /\ FingerprintInv(M)'
      BY <1>1, <1>2, <1>9, <2>2, CommandKeeps DEF CheckingInv, FingerprintInv, MeaningInv
    <2>5. MeaningInv(M)'
      BY <1>1, <1>2, <2>3, <2>4, CommandKeeps DEF MeaningInv
    <2>6. VerdictIsOfPinnedInputs'
      BY <1>1, <2>2 DEF GateInv, VerdictIsOfPinnedInputs, ReplacedUnderBoth, reconVars
    <2> QED BY <1>1, <1>2, <2>2, <2>5, <2>6, CommandKeeps DEF GateInv
  <1> QED BY <1>3, <1>8, <1>9

\* An output of the Python engine is marked as what the oracle makes.
LEMMA PythonAgrees ==
    ASSUME NEW u \in TopKUnits, NEW ids, NEW p, NEW held, NEW rec, rec = Result(u, ids, p, held),
           OfEngine(rec.engine, "python"), rec.sha # None
    PROVE  rec.sha.agrees = "same"
  <1>1. PICK engine, day :
           /\ engine = p.engines[InstrumentOf[u]]
           /\ day = ReconTopKDay(engine[1], engine[2], held[Feed[u]], held[Book[u]], p.setting)
    OBVIOUS
  <1>2. rec.sha = day.frame /\ rec.engine = engine
    BY <1>1 DEF Result, TopKResult, Record
  <1>3. day.frame = Reconstruct(engine[1], engine[2], held[Feed[u]], held[Book[u]], p.setting)
    BY <1>1, <1>2 DEF ReconTopKDay
  <1>4. engine[1] = "python"
    BY <1>2 DEF OfEngine
  <1> QED BY <1>2, <1>3, <1>4 DEF Reconstruct

LEMMA MadeIsSaid ==
    ASSUME NEW rec, NEW u, NEW held, Made(rec, u, held)
    PROVE  Says(Semantic(rec), u, held)
  <1>1. PICK e \in Engines, s \in EitherSetting :
           rec = Result(u, rec.ids, [engines |-> e, setting |-> s], held)
    BY DEF Made
  <1>2. Semantic(rec).ids = rec.ids
    BY DEF Semantic
  <1>3. Semantic(rec) = Semantic(Result(u, Semantic(rec).ids, [engines |-> e, setting |-> s], held))
    BY <1>1, <1>2
  <1> QED BY <1>1, <1>3 DEF Says

\* The report of a comparison of two stores.
CompareTo(run1, run2, d) ==
    /\ report' = [report EXCEPT !.determinism = d]
    /\ d = [contract |-> contract,
            pass |-> SemanticManifest(run1) = SemanticManifest(run2),
            fingerprint |-> SemanticManifest(run1),
            units |-> Recorded(run1) \union Recorded(run2),
            engine1 |-> [u \in TopKUnits |-> IF store[run1].last[u] = None THEN None
                                             ELSE store[run1].last[u].engine],
            engine2 |-> [u \in TopKUnits |-> IF store[run2].last[u] = None THEN None
                                             ELSE store[run2].last[u].engine]]

LEMMA CompareStage2Inv ==
    ASSUME GateInv, CompareStage2
    PROVE  GateInv'
  <1>1. UNCHANGED reconVars /\ UNCHANGED checking
    BY DEF CompareStage2
  <1>2. PICK run1 \in Roots, run2 \in Roots :
           \E d : CompareTo(run1, run2, d)
    BY ZenonT(30) DEF CompareStage2, CompareTo
  <1>3. PICK d : CompareTo(run1, run2, d)
    BY <1>2
  <1>4. PICK v, t, s, o, w, r :
           report = [verify |-> v, tick |-> t, silence |-> s, determinism |-> o, verdict |-> w,
                     replay |-> r]
    BY DEF GateInv, ReportShape
  <1>5. /\ ReportShape' /\ report'.verify = report.verify
        /\ report'.determinism = d /\ report'.verdict = report.verdict
    BY <1>3, <1>4 DEF ReportShape, CompareTo
  <1>6. PICK M : MeaningInv(M)
    BY DEF GateInv
  <1>7. ASSUME d.pass, NEW u \in DOMAIN d.fingerprint
        PROVE  u \in Units /\ ComparedInv(d, u, M)
    <2>1. /\ SemanticManifest(run1) = SemanticManifest(run2)
          /\ d.fingerprint = SemanticManifest(run1)
      BY <1>3, <1>7 DEF CompareTo
    <2>2. u \in Recorded(run1) /\ u \in Recorded(run2)
      BY <1>7, <2>1 DEF SemanticManifest
    <2>3. PICK last1, last2, x :
             last1 = store[run1].last[u] /\ last2 = store[run2].last[u] /\ x = d.fingerprint[u]
      OBVIOUS
    <2>4. /\ u \in Units /\ last1 # None /\ last2 # None
          /\ x = Semantic(last1) /\ x = Semantic(last2)
      <3>1. SemanticManifest(run1)[u] = Semantic(last1) /\ SemanticManifest(run2)[u] = Semantic(last2)
        BY <2>2, <2>3 DEF SemanticManifest
      <3> QED BY <2>1, <2>2, <2>3, <3>1 DEF Recorded
    <2>5. /\ x.ids = last1.ids /\ x.ids = last2.ids /\ x.sha = last1.sha /\ x.sha = last2.sha
          /\ x.status = last1.status /\ x.status = last2.status
      BY <2>4 DEF Semantic
    <2>6. Known(last1.ids, u) /\ \E held : Made(last1, u, held)
      BY <2>3, <2>4 DEF GateInv, ReconInv, RootInv, RecordInv
    <2>7. \E held : Says(x, u, held)
      BY <2>4, <2>6, MadeIsSaid
    <2>8. AcrossEngines(d) => run1 # run2
      <3> SUFFICES ASSUME AcrossEngines(d), run1 = run2
                   PROVE  FALSE
        OBVIOUS
      <3>1. PICK k \in TopKUnits :
               OfEngine(d.engine1[k], "python") /\ OfEngine(d.engine2[k], "native")
        BY DEF AcrossEngines
      <3>2. d.engine1[k] = d.engine2[k]
        BY <1>3 DEF CompareTo
      <3> QED BY <3>1, <3>2 DEF OfEngine
    <2>9. ASSUME AcrossEngines(d), x.status = "ok", NEW f \in Inputs(u),
                 Read(x.sha, u, f) # M[f][x.ids[f]]
          PROVE  <<u, f, x.ids[f]>> \in replacedUnderTwo
      <3>1. Spoilt(run1, u, f, x.ids[f], M)
        BY <2>3, <2>4, <2>5, <2>9 DEF Spoilt, SpoiltAt, SpoiltRecord
      <3>2. Spoilt(run2, u, f, x.ids[f], M)
        BY <2>3, <2>4, <2>5, <2>9 DEF Spoilt, SpoiltAt, SpoiltRecord
      <3> QED BY <1>6, <2>4, <2>8, <2>9, <3>1, <3>2 DEF MeaningInv, PairsInv
    <2>10. u \in TopKUnits /\ OfEngine(d.engine1[u], "python") => x.sha = None \/ x.sha.agrees = "same"
      <3> SUFFICES ASSUME u \in TopKUnits, OfEngine(d.engine1[u], "python"), x.sha # None
                   PROVE  x.sha.agrees = "same"
        OBVIOUS
      <3>1. d.engine1[u] = last1.engine
        BY <1>3, <2>3, <2>4 DEF CompareTo
      <3>2. PICK held : Made(last1, u, held)
        BY <2>6
      <3>3. PICK p : last1 = Result(u, last1.ids, p, held)
        BY <3>2 DEF Made
      <3>4. OfEngine(last1.engine, "python") /\ last1.sha # None
        BY <2>5, <3>1
      <3>5. last1.sha.agrees = "same"
        BY <3>3, <3>4, PythonAgrees
      <3> QED BY <2>5, <3>5
    <2>11. Known(x.ids, u)
      BY <2>5, <2>6
    <2> QED BY <2>3, <2>4, <2>7, <2>9, <2>10, <2>11 DEF ComparedInv
  <1>8. FingerprintInv(M)'
    BY <1>1, <1>5, <1>6, <1>7, CommandKeeps DEF FingerprintInv
  <1>9. CheckingInv(M)' /\ VerifyInv(M)'
    BY <1>1, <1>5, <1>6, CommandKeeps DEF MeaningInv, CheckingInv, VerifyInv
  <1>10. MeaningInv(M)'
    BY <1>1, <1>6, <1>8, <1>9, CommandKeeps DEF MeaningInv
  <1>11. VerdictIsOfPinnedInputs'
    BY <1>1, <1>5 DEF GateInv, VerdictIsOfPinnedInputs, ReplacedUnderBoth, reconVars
  <1> QED BY <1>1, <1>5, <1>6, <1>10, <1>11, CommandKeeps DEF GateInv

-----------------------------------------------------------------------------
(* The verdict *)

\* A certified unit that agrees with the oracle is what the oracle makes of it.
LEMMA CertifiedUnit ==
    ASSUME NEW u \in TopKUnits, NEW ids, NEW p, NEW rec, rec = Result(u, ids, p, Pinned),
           rec.status = "ok", rec.cls = Certified, rec.settings = "contract",
           rec.sha = None \/ rec.sha.agrees = "same"
    PROVE  rec.sha = PinnedOutput(u)
  <1>1. PICK engine, day :
           /\ engine = p.engines[InstrumentOf[u]]
           /\ day = ReconTopKDay(engine[1], engine[2], Pinned[Feed[u]], Pinned[Book[u]], p.setting)
    OBVIOUS
  <1>2. /\ rec.sha = day.frame /\ rec.settings = p.setting
        /\ day.cls = Certified /\ day.frame # None
    BY <1>1 DEF Result, TopKResult, Record, Certified
  <1>3. p.setting = "contract"
    BY <1>2
  <1>4. day.frame = Reconstruct(engine[1], engine[2], Pinned[Feed[u]], Pinned[Book[u]], "contract")
    BY <1>1, <1>2, <1>3 DEF ReconTopKDay
  <1>5. day.frame = Reconstruct("python", None, Pinned[Feed[u]], Pinned[Book[u]], "contract")
    BY <1>2, <1>4 DEF Reconstruct
  <1>6. ReconTopKDay("python", None, Pinned[Feed[u]], Pinned[Book[u]], "contract").cls = Certified
    BY <1>1, <1>2 DEF ReconTopKDay
  <1>7. PinnedOutput(u) = Reconstruct("python", None, Pinned[Feed[u]], Pinned[Book[u]], "contract")
    BY <1>6 DEF PinnedOutput, ReconTopKDay
  <1> QED BY <1>2, <1>5, <1>7

LEMMA TableUnit ==
    ASSUME NEW u \in Units \ TopKUnits, NEW ids, NEW p, NEW rec,
           rec = Result(u, ids, p, Pinned), rec.status = "ok"
    PROVE  rec.sha = PinnedOutput(u)
  BY DEF Result, TableResult, Record, PinnedOutput

LEMMA CertifiedDay ==
    ASSUME GateInv, NEW root \in Roots, Present(LakeReports), LakeVerdict(root) = Certified,
           NEW u \in Units
    PROVE  OfPinned(u, store[root].last[u]) \/ ReplacedUnderBoth(u, store[root].last[u])
  <1>1. PICK last, x : last = store[root].last[u] /\ x = Semantic(last)
    OBVIOUS
  <1>2. /\ NoInvalidator(root) /\ ~ Capped(root)
        /\ MeetsRequirement(last, u) \/ OnlyDegraded(last, u)
    BY <1>1 DEF LakeVerdict, Certified
  <1>3. MeetsRequirement(last, u)
    BY <1>1, <1>2 DEF Capped, OnlyDegraded
  <1>4. PICK d : d = report.determinism
    OBVIOUS
  <1>5. PICK M : MeaningInv(M)
    BY DEF GateInv
  <1>6. /\ report.verify.pass /\ d.pass /\ d.fingerprint = SemanticManifest(root)
        /\ last # None /\ FromVerifiedInputs(last, u)
        /\ \A k \in TopKUnits : CrossEngine(k)
        /\ report.verify # None /\ d # None
    BY <1>1, <1>2, <1>4 DEF NoInvalidator, Present, LakeReports
  <1>7. u \in DOMAIN d.fingerprint /\ d.fingerprint[u] = x
    BY <1>1, <1>6 DEF SemanticManifest, Recorded
  <1>8. ComparedInv(d, u, M)
    BY <1>4, <1>5, <1>6, <1>7 DEF MeaningInv, FingerprintInv
  <1>9. /\ x.ids = last.ids /\ x.sha = last.sha /\ x.status = last.status /\ x.cls = last.cls
        /\ x.settings = last.settings
    BY <1>1 DEF Semantic
  <1>10. \A f \in Inputs(u) : M[f][x.ids[f]] = Pinned[f]
    BY <1>5, <1>6, <1>9, InputsArePartitions DEF FromVerifiedInputs, MeaningInv, VerifyInv
  <1>11. \A k \in TopKUnits : OfEngine(d.engine1[k], "python") /\ OfEngine(d.engine2[k], "native")
    BY <1>4, <1>6 DEF CrossEngine, OfEngine
  <1>12. AcrossEngines(d)
    BY <1>11, ReconAssumption DEF AcrossEngines
  <1>13. PICK held : Says(x, u, held)
    BY <1>7, <1>8 DEF ComparedInv
  <1>14. CASE u \in SparseUnits /\ last.status = "missing"
    BY <1>1, <1>14 DEF OfPinned
  <1>15. CASE ReplacedUnderBoth(u, last)
    BY <1>1, <1>15
  <1>16. CASE last.status = "ok" /\ ~ ReplacedUnderBoth(u, last)
    <2>1. PICK p, rec : rec = Result(u, x.ids, p, held) /\ x = Semantic(rec)
      BY <1>13 DEF Says
    <2>2. /\ rec.sha = last.sha /\ rec.status = "ok" /\ rec.cls = last.cls
          /\ rec.settings = last.settings
      BY <1>9, <1>16, <2>1 DEF Semantic
    <2>3. \A f \in Inputs(u) : Read(x.sha, u, f) = Pinned[f]
      BY <1>7, <1>8, <1>9, <1>10, <1>12, <1>16 DEF ComparedInv, ReplacedUnderBoth
    <2>4. \A f \in Inputs(u) : held[f] = Pinned[f]
      BY <1>9, <2>1, <2>2, <2>3, ReadsHeld
    <2>5. rec = Result(u, x.ids, p, Pinned)
      BY <2>1, <2>4, ResultOfInputs
    <2>6. CASE u \in TopKUnits
      <3>1. rec.sha = None \/ rec.sha.agrees = "same"
        BY <1>7, <1>8, <1>9, <1>11, <2>2, <2>6 DEF ComparedInv
      <3>2. rec.cls = Certified /\ rec.settings = "contract"
        BY <1>3, <2>2, <2>6 DEF MeetsRequirement
      <3>3. rec.sha = PinnedOutput(u)
        BY <2>2, <2>5, <2>6, <3>1, <3>2, CertifiedUnit
      <3> QED BY <1>1, <2>2, <3>3 DEF OfPinned
    <2>7. CASE u \notin TopKUnits
      <3>1. rec.sha = PinnedOutput(u)
        BY <2>2, <2>5, <2>7, TableUnit
      <3> QED BY <1>1, <2>2, <3>1 DEF OfPinned
    <2> QED BY <2>6, <2>7
  <1>17. last.status = "ok" \/ (u \in SparseUnits /\ last.status = "missing")
    BY <1>3 DEF MeetsRequirement
  <1> QED BY <1>14, <1>15, <1>16, <1>17

LEMMA VerdictInv ==
    ASSUME GateInv, Verdict
    PROVE  GateInv'
  <1>1. UNCHANGED reconVars /\ UNCHANGED checking
    BY DEF Verdict
  <1>2. PICK root \in Roots :
           /\ Present(LakeReports)
           /\ \E w : /\ report' = [report EXCEPT !.verdict = w]
                     /\ w = [contract |-> contract, lake |-> LakeVerdict(root),
                             records |-> store[root].last]
    BY DEF Verdict
  <1>3. PICK w : /\ report' = [report EXCEPT !.verdict = w]
                 /\ w = [contract |-> contract, lake |-> LakeVerdict(root),
                         records |-> store[root].last]
    BY <1>2
  <1>4. PICK v, t, s, d, o, r :
           report = [verify |-> v, tick |-> t, silence |-> s, determinism |-> d, verdict |-> o,
                     replay |-> r]
    BY DEF GateInv, ReportShape
  <1>5. /\ ReportShape' /\ report'.verify = report.verify
        /\ report'.determinism = report.determinism /\ report'.verdict = w
    BY <1>3, <1>4 DEF ReportShape
  <1>6. PICK M : MeaningInv(M)
    BY DEF GateInv
  <1>7. CheckingInv(M)' /\ VerifyInv(M)' /\ FingerprintInv(M)'
    BY <1>1, <1>5, <1>6, CommandKeeps DEF MeaningInv, CheckingInv, VerifyInv, FingerprintInv
  <1>8. MeaningInv(M)'
    BY <1>1, <1>6, <1>7, CommandKeeps DEF MeaningInv
  <1>9. w.lake = Certified =>
           \A u \in Units : OfPinned(u, w.records[u]) \/ ReplacedUnderBoth(u, w.records[u])
    BY <1>2, <1>3, CertifiedDay
  <1>10. VerdictIsOfPinnedInputs'
    <2>1. UNCHANGED replacedUnderTwo
      BY <1>1 DEF reconVars
    <2> QED BY <1>5, <1>9, <2>1 DEF VerdictIsOfPinnedInputs, Certifies, ReplacedUnderBoth
  <1> QED BY <1>1, <1>5, <1>6, <1>8, <1>10, CommandKeeps DEF GateInv

-----------------------------------------------------------------------------
LEMMA GateInitInv == SourceGateInit => GateInv
  <1> SUFFICES ASSUME SourceGateInit
               PROVE  GateInv
    OBVIOUS
  <1>1. ReconInv
    BY ReconInitInv DEF SourceGateInit
  <1>2. /\ ReportShape /\ report.verify = None /\ report.determinism = None
        /\ report.verdict = None /\ checking = Idle
    BY DEF SourceGateInit, ReportShape
  <1>3. PICK M : M = [f \in Partitions |-> [i \in Nat |-> raw[f].content]]
    OBVIOUS
  <1>4. RawMeans(M)
    BY <1>1, <1>3 DEF RawMeans, ReconInv, RawInv
  <1>5. PairsInv(M)
    <2>1. \A r \in Roots : proc[r] = Idle /\ \A u \in Units : store[r].last[u] = None
      BY DEF SourceGateInit, ReconInit, EmptyStore
    <2> QED BY <2>1 DEF PairsInv, Spoilt, SpoiltAt, SpoiltRecord, SpoiltRun, Idle
  <1>6. MeaningInv(M)
    BY <1>2, <1>4, <1>5 DEF MeaningInv, CheckingInv, VerifyInv, FingerprintInv
  <1> QED BY <1>1, <1>2, <1>6 DEF GateInv, VerdictIsOfPinnedInputs, Certifies

LEMMA GateStep ==
    ASSUME GateInv, [SourceGateNext]_lakeVars
    PROVE  GateInv'
  <1>1. CASE UNCHANGED lakeVars
    <2>1. UNCHANGED reconVars /\ UNCHANGED <<report, checking>>
      BY <1>1 DEF lakeVars
    <2>2. PICK M : MeaningInv(M)
      BY DEF GateInv
    <2>3. CheckingInv(M)' /\ VerifyInv(M)' /\ FingerprintInv(M)'
      BY <2>1, <2>2, CommandKeeps DEF MeaningInv, CheckingInv, VerifyInv, FingerprintInv
    <2>4. MeaningInv(M)'
      BY <2>1, <2>2, <2>3, CommandKeeps DEF MeaningInv
    <2>5. ReportShape' /\ VerdictIsOfPinnedInputs'
      BY <2>1 DEF GateInv, ReportShape, VerdictIsOfPinnedInputs, ReplacedUnderBoth, reconVars
    <2> QED BY <2>1, <2>2, <2>4, <2>5, CommandKeeps DEF GateInv
  <1> QED BY <1>1, Stage2Inv, ReadingCommandInv, VerifyEndInv, CompareStage2Inv, VerdictInv
          DEF SourceGateNext

(* A certified day is the preregistered one: what the verdict vouches for is what the
   contract makes of the pinned inputs, for any refreshes, reruns and deaths between the
   commands and any overlap of the runs of different stores; but for a file replaced after
   the runs of two stores had identified it and before either had read it. *)
THEOREM VerdictsArePinned == SourceGateSpec => []VerdictIsOfPinnedInputs
  <1>1. SourceGateInit => GateInv
    BY GateInitInv
  <1>2. GateInv /\ [SourceGateNext]_lakeVars => GateInv'
    BY GateStep
  <1>3. GateInv => VerdictIsOfPinnedInputs
    BY DEF GateInv
  <1> QED BY <1>1, <1>2, <1>3, PTL DEF SourceGateSpec

-----------------------------------------------------------------------------
(* The invariant of the second vendor's half *)

\* A fetch under way carries the evidence it was approved on.
FetchShape == fetch = Idle \/ "evidence" \in DOMAIN fetch

ChdShape ==
    \E f, v, r, c, d :
        /\ chd = [fetched |-> f, validated |-> v, replayed |-> r, comparison |-> c, decision |-> d]
        /\ v = [o \in Objects |-> v[o]]

Spared(o) == o \notin cutShort \union mixed

\* A plain file of the store is the parquet it holds.
FilesInv ==
    /\ local = [o \in Objects |-> local[o]]
    /\ \A o \in Objects : Magic(local[o]) = "parquet" => local[o] = ParquetOf(local[o])

\* What a command has hashed lies there still, unless it was replaced meanwhile.
LoadingInv ==
    /\ loading # Idle /\ "validate" \in DOMAIN loading.task =>
          loading.task.validate \in Objects /\ loading.todo = <<loading.task.validate>>
    /\ \A o \in Objects : loading.pc = "read" /\ InHand = o /\ o \notin mixed => local[o] = loading.sha

\* A sibling is what its sidecar says it is made of.
SiblingsInv ==
    /\ cache = [o \in Objects |-> cache[o]]
    /\ \A o \in Objects : cache[o] # None /\ Spared(o) => cache[o].parquet = ParquetOf(cache[o].src)

\* A validation vouches for the bytes of the object it names.
Vouches(v) == v # None /\ v.pass => v.parquet = ParquetOf(v.object)
ValidatedInv == \A o \in Objects : Spared(o) => Vouches(chd.validated[o])

ExpansionInv ==
    FetchShape /\ ChdShape /\ FilesInv /\ LoadingInv /\ SiblingsInv /\ ValidatedInv
    /\ ExpansionFollowsTheProbe

LEMMA ShapeOf ==
    ASSUME NEW f, NEW v, NEW r, NEW c, NEW d, v = [o \in Objects |-> v[o]],
           chd' = [fetched |-> f, validated |-> v, replayed |-> r, comparison |-> c, decision |-> d]
    PROVE  ChdShape' /\ chd'.validated = v
  BY DEF ChdShape

\* A report that is not a validation leaves the validations as they are.
LEMMA OtherReport ==
    ASSUME ChdShape,
           \/ \E o, e : chd' = [chd EXCEPT !.fetched[o] = e]
           \/ \E w, e : chd' = [chd EXCEPT !.replayed[w] = e]
           \/ \E c : chd' = [chd EXCEPT !.comparison = c]
           \/ \E d : chd' = [chd EXCEPT !.decision = d]
    PROVE  ChdShape' /\ chd'.validated = chd.validated
  <1> PICK f, v, r, c, d :
         /\ chd = [fetched |-> f, validated |-> v, replayed |-> r, comparison |-> c, decision |-> d]
         /\ v = [o \in Objects |-> v[o]]
    BY DEF ChdShape
  <1>1. CASE \E o, e : chd' = [chd EXCEPT !.fetched[o] = e]
    <2> PICK o, e : chd' = [chd EXCEPT !.fetched[o] = e]
      BY <1>1
    <2> DEFINE g == [f EXCEPT ![o] = e]
    <2>1. chd.fetched = f
      OBVIOUS
    <2>2. chd' = [chd EXCEPT !.fetched = g]
      BY <2>1
    <2> HIDE DEF g
    <2>3. chd' = [fetched |-> g, validated |-> v, replayed |-> r, comparison |-> c, decision |-> d]
      BY <2>2
    <2> QED BY <2>3, ShapeOf
  <1>2. CASE \E w, e : chd' = [chd EXCEPT !.replayed[w] = e]
    <2> PICK w, e : chd' = [chd EXCEPT !.replayed[w] = e]
      BY <1>2
    <2> DEFINE g == [r EXCEPT ![w] = e]
    <2>1. chd.replayed = r
      OBVIOUS
    <2>2. chd' = [chd EXCEPT !.replayed = g]
      BY <2>1
    <2> HIDE DEF g
    <2>3. chd' = [fetched |-> f, validated |-> v, replayed |-> g, comparison |-> c, decision |-> d]
      BY <2>2
    <2> QED BY <2>3, ShapeOf
  <1>3. CASE \E x : chd' = [chd EXCEPT !.comparison = x]
    <2> PICK x : chd' = [chd EXCEPT !.comparison = x]
      BY <1>3
    <2>1. chd' = [fetched |-> f, validated |-> v, replayed |-> r, comparison |-> x, decision |-> d]
      OBVIOUS
    <2> QED BY <2>1, ShapeOf
  <1>4. CASE \E x : chd' = [chd EXCEPT !.decision = x]
    <2> PICK x : chd' = [chd EXCEPT !.decision = x]
      BY <1>4
    <2>1. chd' = [fetched |-> f, validated |-> v, replayed |-> r, comparison |-> c, decision |-> x]
      OBVIOUS
    <2> QED BY <2>1, ShapeOf
  <1> QED BY <1>1, <1>2, <1>3, <1>4

LEMMA ShapeKept ==
    ASSUME ChdShape, chd' = chd
    PROVE  ChdShape'
  BY DEF ChdShape

LEMMA ValidationReport ==
    ASSUME ChdShape, NEW o \in Objects, NEW e, chd' = [chd EXCEPT !.validated[o] = e]
    PROVE  /\ ChdShape'
           /\ \A p \in Objects : chd'.validated[p] = IF p = o THEN e ELSE chd.validated[p]
  <1> PICK f, v, r, c, d :
         /\ chd = [fetched |-> f, validated |-> v, replayed |-> r, comparison |-> c, decision |-> d]
         /\ v = [x \in Objects |-> v[x]]
    BY DEF ChdShape
  <1> DEFINE u == [v EXCEPT ![o] = e]
  <1>1. /\ u = [x \in Objects |-> u[x]]
        /\ \A p \in Objects : u[p] = IF p = o THEN e ELSE v[p]
    OBVIOUS
  <1>2. chd.validated = v
    OBVIOUS
  <1>3. chd' = [chd EXCEPT !.validated = u]
    BY <1>2
  <1> HIDE DEF u
  <1>4. chd' = [fetched |-> f, validated |-> u, replayed |-> r, comparison |-> c, decision |-> d]
    BY <1>3
  <1> QED BY <1>1, <1>2, <1>4, ShapeOf

-----------------------------------------------------------------------------
(* The steps of the second vendor's half *)

\* Files that are put in place are told apart by their form.
LEMMA PutFileKeeps ==
    ASSUME FilesInv, LoadingInv, UNCHANGED loading, NEW o, NEW file, PutFile(o, file),
           Magic(file) = "parquet" => file = ParquetOf(file)
    PROVE  FilesInv' /\ LoadingInv' /\ mixed \subseteq mixed'
  <1>1. /\ local' = [p \in Objects |-> local'[p]]
        /\ \A p \in Objects : local'[p] = IF p = o THEN file ELSE local[p]
    BY DEF PutFile, FilesInv
  <1>2. mixed' = mixed \union (IF loading.pc = "read" /\ InHand = o THEN {o} ELSE {})
    BY DEF PutFile, InHand
  <1>3. FilesInv'
    BY <1>1 DEF FilesInv
  <1>4. LoadingInv'
    BY <1>1, <1>2 DEF LoadingInv, InHand
  <1> QED BY <1>2, <1>3, <1>4

LEMMA SentIsZstd == \A rows : Magic(Zst(rows)) # "parquet"
  BY DEF Magic, Zst

\* A step that adds no sibling and no validation, and asks for no object.
LEMMA ExpansionKept ==
    ASSUME ExpansionInv, FilesInv', LoadingInv', UNCHANGED cache, cutShort \subseteq cutShort',
           mixed \subseteq mixed', ChdShape', chd'.validated = chd.validated,
           fetch' = fetch \/ fetch' = Idle
    PROVE  ExpansionInv'
  <1>1. \A o : Spared(o)' => Spared(o)
    BY DEF Spared
  <1>2. SiblingsInv' /\ ValidatedInv'
    BY <1>1 DEF ExpansionInv, SiblingsInv, ValidatedInv
  <1>3. FetchShape' /\ ExpansionFollowsTheProbe'
    BY DEF ExpansionInv, FetchShape, ExpansionFollowsTheProbe, Idle
  <1> QED BY <1>2, <1>3 DEF ExpansionInv

LEMMA StillFiles ==
    ASSUME ExpansionInv, UNCHANGED <<local, loading, mixed>>
    PROVE  FilesInv' /\ LoadingInv'
  BY DEF ExpansionInv, FilesInv, LoadingInv, InHand

\* The evidence of a fetch approved on the probe's reports is of one file.
LEMMA StartFetchExpansion ==
    ASSUME ExpansionInv, Probe \in Objects, StartFetch
    PROVE  ExpansionInv'
  <1>1. PICK o \in Objects :
           \/ fetch' = [pc |-> "fetch", object |-> o, attempts |-> 0, total |-> 0, evidence |-> None]
           \/ \E w \in Windows :
                 /\ ProbePassed(w)
                 /\ fetch' = [pc |-> "fetch", object |-> o, attempts |-> 0, total |-> 0,
                              evidence |-> [fetched |-> chd.fetched[Probe].sha,
                                            replayed |-> chd.replayed[w].parquet[Probe.hour]]]
    BY DEF StartFetch
  <1>2. UNCHANGED <<cache, chd, cutShort, local, loading, mixed>>
    BY DEF StartFetch
  <1>3. FetchShape' /\ ExpansionFollowsTheProbe'
    <2>1. CASE fetch' = [pc |-> "fetch", object |-> o, attempts |-> 0, total |-> 0, evidence |-> None]
      BY <2>1 DEF FetchShape, ExpansionFollowsTheProbe
    <2>2. ASSUME NEW w \in Windows, ProbePassed(w),
                 fetch' = [pc |-> "fetch", object |-> o, attempts |-> 0, total |-> 0,
                           evidence |-> [fetched |-> chd.fetched[Probe].sha,
                                         replayed |-> chd.replayed[w].parquet[Probe.hour]]]
          PROVE  FetchShape' /\ ExpansionFollowsTheProbe'
      <3>1. /\ chd.validated[Probe] # None /\ chd.validated[Probe].pass
            /\ chd.validated[Probe].object = chd.fetched[Probe].sha
            /\ chd.validated[Probe].parquet = chd.replayed[w].parquet[Probe.hour]
        BY <2>2 DEF ProbePassed, SameBytes
      <3>2. Spared(Probe) => chd.replayed[w].parquet[Probe.hour] = ParquetOf(chd.fetched[Probe].sha)
        BY <3>1 DEF ExpansionInv, ValidatedInv, Vouches
      <3> QED BY <2>2, <3>2, <1>2 DEF FetchShape, ExpansionFollowsTheProbe, Spared
    <2> QED BY <1>1, <2>1, <2>2
  <1>4. FilesInv' /\ LoadingInv' /\ ChdShape'
    BY <1>2, StillFiles, ShapeKept DEF ExpansionInv
  <1>5. SiblingsInv' /\ ValidatedInv'
    BY <1>2 DEF ExpansionInv, SiblingsInv, ValidatedInv, Spared
  <1> QED BY <1>3, <1>4, <1>5 DEF ExpansionInv

LEMMA FetchExpansion ==
    ASSUME ExpansionInv, FetchSucceeds \/ FetchRetries \/ FetchFails \/ FetchKilled
    PROVE  ExpansionInv'
  <1>1. CASE FetchSucceeds
    <2>1. ChdShape' /\ chd'.validated = chd.validated
      BY <1>1, OtherReport DEF FetchSucceeds, ExpansionInv
    <2>2. FilesInv' /\ LoadingInv' /\ mixed \subseteq mixed'
      BY <1>1, PutFileKeeps, SentIsZstd DEF FetchSucceeds, ExpansionInv
    <2> QED BY <1>1, <2>1, <2>2, ExpansionKept DEF FetchSucceeds
  <1>2. CASE FetchRetries
    <2>1. PICK got \in 0..(ObjectBytes - 1) :
             fetch' = [fetch EXCEPT !.attempts = @ + 1, !.total = @ + got]
      BY <1>2 DEF FetchRetries
    <2>2. fetch # Idle
      <3>1. fetch.pc = "fetch"
        BY <1>2 DEF FetchRetries
      <3> QED BY <3>1 DEF Idle
    <2>3. "evidence" \in DOMAIN fetch
      BY <2>2 DEF ExpansionInv, FetchShape
    <2>4. "evidence" \in DOMAIN fetch' /\ fetch'.evidence = fetch.evidence
      BY <2>1, <2>3
    <2>5. UNCHANGED <<cache, chd, cutShort, local, loading, mixed>>
      BY <1>2 DEF FetchRetries
    <2>6. FetchShape' /\ ExpansionFollowsTheProbe'
      BY <2>2, <2>4, <2>5 DEF ExpansionInv, FetchShape, ExpansionFollowsTheProbe
    <2>7. FilesInv' /\ LoadingInv' /\ ChdShape'
      BY <2>5, StillFiles, ShapeKept DEF ExpansionInv
    <2>8. SiblingsInv' /\ ValidatedInv'
      BY <2>5 DEF ExpansionInv, SiblingsInv, ValidatedInv, Spared
    <2> QED BY <2>6, <2>7, <2>8 DEF ExpansionInv
  <1>3. CASE FetchFails
    <2>1. ChdShape' /\ chd'.validated = chd.validated
      BY <1>3, OtherReport DEF FetchFails, ExpansionInv
    <2>2. FilesInv' /\ LoadingInv'
      BY <1>3, StillFiles DEF FetchFails
    <2> QED BY <1>3, <2>1, <2>2, ExpansionKept DEF FetchFails
  <1>4. CASE FetchKilled
    <2>1. FilesInv' /\ LoadingInv' /\ mixed \subseteq mixed'
      BY <1>4, PutFileKeeps, StillFiles, SentIsZstd DEF FetchKilled, ExpansionInv
    <2>2. ChdShape'
      BY <1>4, ShapeKept DEF FetchKilled, ExpansionInv
    <2> QED BY <1>4, <2>1, <2>2, ExpansionKept DEF FetchKilled
  <1> QED BY <1>1, <1>2, <1>3, <1>4

LEMMA SwapExpansion ==
    ASSUME ExpansionInv, Swap
    PROVE  ExpansionInv'
  <1>1. PICK o \in Objects :
           \E file \in ({None, Corrupt, Zst(vendor[o])} \union OtherFiles[o.exchange]) \ {local[o]} :
              PutFile(o, file)
    BY DEF Swap
  <1>2. PICK file \in {None, Corrupt, Zst(vendor[o])} \union OtherFiles[o.exchange] : PutFile(o, file)
    BY <1>1
  <1>3. Magic(file) = "parquet" => file = ParquetOf(file)
    BY SentIsZstd, DecisionAssumption DEF Magic, ParquetOf, Parquet
  <1>4. FilesInv' /\ LoadingInv' /\ mixed \subseteq mixed'
    BY <1>2, <1>3, PutFileKeeps DEF Swap, ExpansionInv
  <1>5. ChdShape'
    BY ShapeKept DEF Swap, ExpansionInv
  <1> QED BY <1>4, <1>5, ExpansionKept DEF Swap

LEMMA ReportExpansion ==
    ASSUME ExpansionInv, Compare \/ Decide
    PROVE  ExpansionInv'
  <1>1. UNCHANGED <<cache, cutShort, fetch, local, loading, mixed>>
    BY DEF Compare, Decide
  <1>2. ChdShape' /\ chd'.validated = chd.validated
    <2>1. \/ \E c : chd' = [chd EXCEPT !.comparison = c]
          \/ \E d : chd' = [chd EXCEPT !.decision = d]
      BY DEF Compare, Decide
    <2> QED BY <2>1, OtherReport DEF ExpansionInv
  <1> QED BY <1>1, <1>2, StillFiles, ExpansionKept

\* A command that begins or goes on to the next object, or ends with nothing done.
LEMMA LoadingGoesOn ==
    ASSUME ExpansionInv, UNCHANGED <<local, cache, fetch, chd, cutShort, mixed>>,
           \/ LoadHash
           \/ /\ loading'.pc # "read"
              /\ loading' = Idle \/ "validate" \notin DOMAIN loading'.task
                 \/ (loading'.task.validate \in Objects /\ loading'.todo = <<loading'.task.validate>>)
    PROVE  ExpansionInv'
  <1>1. LoadingInv'
    <2>1. CASE LoadHash
      <3>1. loading.pc = "hash" /\ loading # Idle
        BY <2>1 DEF LoadHash, Idle
      <3>2. /\ loading' # Idle /\ loading'.task = loading.task /\ loading'.todo = loading.todo
            /\ loading'.sha = local[InHand]
        BY <2>1 DEF LoadHash, Idle
      <3> QED BY <3>1, <3>2 DEF ExpansionInv, LoadingInv, InHand
    <2>2. CASE ~LoadHash
      BY <2>2 DEF LoadingInv
    <2> QED BY <2>1, <2>2
  <1>2. FilesInv' /\ ChdShape'
    BY ShapeKept DEF ExpansionInv, FilesInv
  <1> QED BY <1>1, <1>2, ExpansionKept

LEMMA LoadingExpansion ==
    ASSUME ExpansionInv, ChdValidate \/ ChdReplayWindow \/ LoadOpen \/ LoadHash \/ LoadDies
    PROVE  ExpansionInv'
  <1>1. UNCHANGED <<local, cache, fetch, chd, cutShort, mixed>>
    BY DEF ChdValidate, ChdReplayWindow, LoadOpen, LoadHash, LoadDies
  <1>2. CASE ChdValidate
    <2>1. PICK o \in Objects : loading' = Loading([validate |-> o], <<o>>, <<>>)
      BY <1>2 DEF ChdValidate
    <2> QED BY <1>1, <2>1, LoadingGoesOn DEF Loading
  <1>3. CASE ChdReplayWindow
    <2>1. PICK w, objects : loading' = Loading([replay |-> w], objects, <<>>)
      BY <1>3 DEF ChdReplayWindow
    <2>2. loading'.pc # "read" /\ "validate" \notin DOMAIN loading'.task
      BY <2>1 DEF Loading
    <2> QED BY <1>1, <2>2, LoadingGoesOn
  <1>4. CASE LoadOpen
    <2>1. loading # Idle /\ loading'.pc # "read" /\ loading'.task = loading.task /\ loading'.todo = loading.todo
      BY <1>4 DEF LoadOpen, Idle
    <2>2. \/ "validate" \notin DOMAIN loading'.task
          \/ loading'.task.validate \in Objects /\ loading'.todo = <<loading'.task.validate>>
      BY <2>1 DEF ExpansionInv, LoadingInv
    <2> QED BY <1>1, <2>1, <2>2, LoadingGoesOn
  <1>5. CASE LoadDies
    <2>1. loading' = Idle /\ loading'.pc # "read"
      BY <1>5 DEF LoadDies, Idle
    <2> QED BY <1>1, <2>1, LoadingGoesOn
  <1> QED BY <1>1, <1>2, <1>3, <1>4, <1>5, LoadingGoesOn

-----------------------------------------------------------------------------
(* What a load leaves *)

\* A file that was hashed and not replaced before it was read.
LEMMA ReadAsHashed ==
    ASSUME ExpansionInv, loading.pc = "read", NEW o \in Objects, o = InHand, Spared(o)
    PROVE  /\ local[o] = loading.sha
           /\ cache[o] # None => cache[o].parquet = ParquetOf(cache[o].src)
           /\ Decompressed.parquet = ParquetOf(loading.sha) /\ Decompressed.src = loading.sha
  <1>1. local[o] = loading.sha
    BY DEF ExpansionInv, LoadingInv, Spared
  <1>2. cache[o] # None => cache[o].parquet = ParquetOf(cache[o].src)
    BY DEF ExpansionInv, SiblingsInv
  <1>3. local[InHand] = loading.sha /\ cache[InHand] = cache[o]
    BY <1>1
  <1> DEFINE sibling == cache[InHand]
  <1>4. CASE Rebuilds
    <2>1. Decompressed = Sibling(ParquetOf(loading.sha), loading.sha)
      BY <1>3, <1>4 DEF Decompressed
    <2> QED BY <1>1, <1>2, <2>1 DEF Sibling
  <1>5. CASE ~Rebuilds
    <2>1. Decompressed = sibling /\ sibling # None /\ sibling.src = loading.sha
      BY <1>5 DEF Decompressed, Rebuilds
    <2>2. sibling.parquet = ParquetOf(sibling.src)
      BY <1>2, <1>3, <2>1
    <2> HIDE DEF sibling
    <2> QED BY <1>1, <1>2, <2>1, <2>2
  <1> QED BY <1>4, <1>5

LEMMA LoadedSiblings ==
    ASSUME ExpansionInv, loading.pc = "read", UNCHANGED <<cutShort, mixed>>, cache' = SiblingsAfter
    PROVE  SiblingsInv'
  <1>1. /\ cache' = [o \in Objects |-> cache'[o]]
        /\ \A o \in Objects : cache'[o] = cache[o] \/ (o = InHand /\ cache'[o] = Decompressed)
    BY DEF SiblingsAfter, ExpansionInv, SiblingsInv
  <1>2. \A o : Spared(o)' <=> Spared(o)
    BY DEF Spared
  <1>3. ASSUME NEW o \in Objects, cache'[o] # None, Spared(o)
        PROVE  cache'[o].parquet = ParquetOf(cache'[o].src)
    BY <1>1, <1>3, ReadAsHashed DEF ExpansionInv, SiblingsInv
  <1> QED BY <1>1, <1>2, <1>3 DEF SiblingsInv

\* What a command reports of the object it validated.
LEMMA LoadedProvenance ==
    ASSUME ExpansionInv, loading.pc = "read", Opens, NEW o \in Objects, o = InHand, Spared(o)
    PROVE  Provenance.parquet = ParquetOf(Provenance.object)
  <1>1. CASE loading.magic = "zstd"
    BY <1>1, ReadAsHashed DEF Provenance, Opened
  <1>2. CASE loading.magic # "zstd"
    BY <1>2, ReadAsHashed DEF Provenance, Opens, ExpansionInv, FilesInv
  <1> QED BY <1>1, <1>2

\* A load that ends, with a report of what it validated or replayed.
LEMMA LoadEnds ==
    ASSUME ExpansionInv, NEW o, loading' = Idle, SiblingsInv',
           UNCHANGED <<local, fetch, cutShort, mixed>>,
           \/ \E w, e : chd' = [chd EXCEPT !.replayed[w] = e]
           \/ o \in Objects /\ \E e : chd' = [chd EXCEPT !.validated[o] = e] /\ (Spared(o) => Vouches(e))
    PROVE  ExpansionInv'
  <1>1. FilesInv' /\ LoadingInv'
    BY DEF ExpansionInv, FilesInv, LoadingInv, Idle
  <1>2. FetchShape' /\ ExpansionFollowsTheProbe'
    BY DEF ExpansionInv, FetchShape, ExpansionFollowsTheProbe
  <1>3. ChdShape' /\ ValidatedInv'
    <2>1. CASE \E w, e : chd' = [chd EXCEPT !.replayed[w] = e]
      <3>1. ChdShape' /\ chd'.validated = chd.validated
        BY <2>1, OtherReport DEF ExpansionInv
      <3> QED BY <3>1 DEF ExpansionInv, ValidatedInv, Spared
    <2>2. ASSUME o \in Objects, NEW e, chd' = [chd EXCEPT !.validated[o] = e], Spared(o) => Vouches(e)
          PROVE  ChdShape' /\ ValidatedInv'
      <3>1. /\ ChdShape'
            /\ \A p \in Objects : chd'.validated[p] = IF p = o THEN e ELSE chd.validated[p]
        BY <2>2, ValidationReport DEF ExpansionInv
      <3> QED BY <2>2, <3>1 DEF ExpansionInv, ValidatedInv, Spared
    <2> QED BY <2>1, <2>2
  <1> QED BY <1>1, <1>2, <1>3 DEF ExpansionInv

LEMMA ValidatedObject ==
    ASSUME ExpansionInv, loading # Idle, "validate" \in DOMAIN loading.task
    PROVE  loading.task.validate \in Objects /\ InHand = loading.task.validate
  BY DEF ExpansionInv, LoadingInv, InHand

LEMMA LoadRefusedExpansion ==
    ASSUME ExpansionInv, LoadRefused
    PROVE  ExpansionInv'
  <1>1. loading # Idle /\ loading' = Idle /\ UNCHANGED <<local, fetch, cutShort, mixed>>
    BY DEF LoadRefused, Idle
  <1>2. SiblingsInv'
    <2>1. CASE cache' = cache
      BY <1>1, <2>1 DEF ExpansionInv, SiblingsInv, Spared
    <2>2. CASE loading.pc = "read" /\ cache' = SiblingsAfter
      BY <1>1, <2>2, LoadedSiblings
    <2> QED BY <2>1, <2>2 DEF LoadRefused
  <1>3. CASE "validate" \in DOMAIN loading.task
    <2>1. PICK o, e : /\ o = loading.task.validate
                      /\ e = [contract |-> contract, pass |-> FALSE, object |-> None, parquet |-> None]
                      /\ chd' = [chd EXCEPT !.validated[o] = e]
      BY <1>3 DEF LoadRefused
    <2>2. o \in Objects /\ Vouches(e)
      BY <1>1, <1>3, <2>1, ValidatedObject DEF Vouches
    <2> QED BY <1>1, <1>2, <2>1, <2>2, LoadEnds
  <1>4. CASE "validate" \notin DOMAIN loading.task
    <2>1. PICK w, e : chd' = [chd EXCEPT !.replayed[w] = e]
      BY <1>4 DEF LoadRefused
    <2> QED BY <1>1, <1>2, <2>1, LoadEnds
  <1> QED BY <1>3, <1>4

LEMMA LoadDoneExpansion ==
    ASSUME ExpansionInv, LoadDone
    PROVE  ExpansionInv'
  <1>1. /\ loading # Idle /\ loading.pc = "read" /\ Opens /\ loading' = Idle
        /\ UNCHANGED <<local, fetch, cutShort, mixed>>
    BY DEF LoadDone, Loads, Idle
  <1>2. SiblingsInv'
    BY <1>1, LoadedSiblings DEF LoadDone
  <1>3. CASE "validate" \in DOMAIN loading.task
    <2>1. PICK o, e : /\ o = loading.task.validate
                      /\ e = [contract |-> contract, pass |-> TRUE, object |-> Provenance.object,
                              parquet |-> Provenance.parquet]
                      /\ chd' = [chd EXCEPT !.validated[o] = e]
      BY <1>3 DEF LoadDone
    <2>2. o \in Objects /\ o = InHand
      BY <1>1, <1>3, <2>1, ValidatedObject
    <2>3. Spared(o) => Vouches(e)
      BY <1>1, <2>1, <2>2, LoadedProvenance DEF Vouches
    <2> QED BY <1>1, <1>2, <2>1, <2>2, <2>3, LoadEnds
  <1>4. CASE "validate" \notin DOMAIN loading.task
    <2>1. PICK w, e : chd' = [chd EXCEPT !.replayed[w] = e]
      BY <1>4 DEF LoadDone
    <2> QED BY <1>1, <1>2, <2>1, LoadEnds
  <1> QED BY <1>3, <1>4

\* Of a window the next hour is loaded.
LEMMA LoadNextExpansion ==
    ASSUME ExpansionInv, LoadNext
    PROVE  ExpansionInv'
  <1>1. /\ loading # Idle /\ loading.pc = "read" /\ Len(loading.todo) > 1
        /\ cache' = SiblingsAfter /\ UNCHANGED <<local, fetch, chd, cutShort, mixed>>
    BY DEF LoadNext, Idle
  <1>2. SiblingsInv'
    BY <1>1, LoadedSiblings
  <1>3. "validate" \notin DOMAIN loading.task
    <2> SUFFICES ASSUME "validate" \in DOMAIN loading.task
                 PROVE  FALSE
      OBVIOUS
    <2>1. loading.todo = <<loading.task.validate>>
      BY <1>1 DEF ExpansionInv, LoadingInv
    <2>2. Len(loading.todo) = 1
      BY <2>1
    <2> QED BY <1>1, <2>2
  <1>4. loading'.pc # "read" /\ loading'.task = loading.task
    BY DEF LoadNext, Loading
  <1>5. LoadingInv'
    BY <1>3, <1>4 DEF LoadingInv
  <1>6. FilesInv' /\ ChdShape' /\ FetchShape' /\ ValidatedInv' /\ ExpansionFollowsTheProbe'
    BY <1>1, ShapeKept
       DEF ExpansionInv, FilesInv, FetchShape, ValidatedInv, Spared, ExpansionFollowsTheProbe
  <1> QED BY <1>2, <1>5, <1>6 DEF ExpansionInv

\* Only a command killed before its sidecar leaves a sibling of another object.
LEMMA LoadKilledExpansion ==
    ASSUME ExpansionInv, LoadKilled
    PROVE  ExpansionInv'
  <1>1. loading' = Idle /\ cutShort \subseteq cutShort' /\ UNCHANGED <<local, fetch, chd, mixed>>
    BY DEF LoadKilled
  <1>2. SiblingsInv'
    <2>1. CASE UNCHANGED <<cache, cutShort>>
      BY <1>1, <2>1 DEF ExpansionInv, SiblingsInv, Spared
    <2>2. CASE loading.pc = "read" /\ cache' = SiblingsAfter /\ UNCHANGED cutShort
      BY <1>1, <2>2, LoadedSiblings
    <2>3. CASE /\ \E s : cache' = [cache EXCEPT ![InHand] = s]
               /\ cutShort' = cutShort \union {InHand}
      <3>1. /\ cache' = [o \in Objects |-> cache'[o]]
            /\ \A o \in Objects : o # InHand => cache'[o] = cache[o]
        BY <2>3 DEF ExpansionInv, SiblingsInv
      <3>2. \A o : Spared(o)' => Spared(o) /\ o # InHand
        BY <1>1, <2>3 DEF Spared
      <3> QED BY <3>1, <3>2 DEF ExpansionInv, SiblingsInv
    <2> QED BY <2>1, <2>2, <2>3 DEF LoadKilled
  <1>3. \A o : Spared(o)' => Spared(o)
    BY <1>1 DEF Spared
  <1>4. FilesInv' /\ LoadingInv'
    BY <1>1 DEF ExpansionInv, FilesInv, LoadingInv, Idle
  <1>5. ChdShape' /\ FetchShape' /\ ValidatedInv'
    BY <1>1, <1>3, ShapeKept DEF ExpansionInv, FetchShape, ValidatedInv
  <1>6. ExpansionFollowsTheProbe'
    BY <1>1 DEF ExpansionInv, ExpansionFollowsTheProbe
  <1> QED BY <1>2, <1>4, <1>5, <1>6 DEF ExpansionInv

-----------------------------------------------------------------------------
LEMMA ExpansionInitInv == DecisionInit => ExpansionInv
  <1> SUFFICES ASSUME DecisionInit
               PROVE  ExpansionInv
    OBVIOUS
  <1>1. ChdShape /\ \A o \in Objects : chd.validated[o] = None
    <2> DEFINE none == [o \in Objects |-> None]
               unplayed == [w \in Windows |-> None]
    <2>1. chd = [fetched |-> none, validated |-> none, replayed |-> unplayed,
                 comparison |-> None, decision |-> None]
      BY DEF DecisionInit, NoChdReports
    <2>2. none = [o \in Objects |-> none[o]] /\ \A o \in Objects : none[o] = None
      OBVIOUS
    <2> HIDE DEF none, unplayed
    <2> QED BY <2>1, <2>2 DEF ChdShape
  <1>2. /\ cache = [o \in Objects |-> cache[o]] /\ \A o \in Objects : cache[o] = None
        /\ local = [o \in Objects |-> local[o]] /\ \A o \in Objects : local[o] = None
    BY DEF DecisionInit
  <1>3. fetch = Idle /\ loading = Idle
    BY DEF DecisionInit
  <1>4. FilesInv /\ LoadingInv
    BY <1>2, <1>3 DEF FilesInv, LoadingInv, Magic, Idle
  <1> QED BY <1>1, <1>2, <1>3, <1>4
          DEF ExpansionInv, FetchShape, SiblingsInv, ValidatedInv, Vouches, ExpansionFollowsTheProbe

LEMMA ExpansionStep ==
    ASSUME Probe \in Objects, ExpansionInv, [ChdNext \/ LakeNext]_<<lakeVars, chdVars>>
    PROVE  ExpansionInv'
  <1>1. CASE UNCHANGED chdVars
    <2>1. UNCHANGED <<cache, cutShort, chd, fetch, local, loading, mixed>>
      BY <1>1 DEF chdVars
    <2> QED BY <2>1, StillFiles, ExpansionKept, ShapeKept DEF ExpansionInv
  <1> QED BY <1>1, StartFetchExpansion, FetchExpansion, SwapExpansion, ReportExpansion,
             LoadingExpansion, LoadRefusedExpansion, LoadDoneExpansion, LoadNextExpansion,
             LoadKilledExpansion DEF ChdNext, LakeNext

(* No object beyond the probe is asked for but on a replay of the very bytes that the
   vendor sent for the probe, for any objects, swaps, refetches and reruns, each command
   opening an object three times by its name.  Of the files it opens two things can go
   wrong, and the statement excepts them: a command killed before the sidecar, and a file
   replaced between the hash and the reading.  One command at a time loads objects. *)
THEOREM ExpansionIsEarned == SourceDecisionSpec => []ExpansionFollowsTheProbe
  <1>1. DecisionInit => ExpansionInv
    BY ExpansionInitInv
  <1>2. ExpansionInv /\ [ChdNext \/ LakeNext]_<<lakeVars, chdVars>> => ExpansionInv'
    BY ExpansionStep, DecisionAssumption DEF DecisionAssumption
  <1>3. ExpansionInv => ExpansionFollowsTheProbe
    BY DEF ExpansionInv
  <1> QED BY <1>1, <1>2, <1>3, PTL DEF SourceDecisionSpec

-----------------------------------------------------------------------------
(* The download *)

\* A worker that works on the file of its unit.
Attempting == {"reading", "streaming", "staged", "gone"}

\* What the worker of a unit knows: inside the lock nobody has stopped the run,
\* a staged file is whole, a published one is there and a removed one is not,
\* and the first attempt of a plain run found none.
WorkerInv ==
    \A u \in Requested :
        /\ pc[u] \in Publishing <=> lock = u
        /\ pc[u] \in Publishing => ~ cancel
        /\ pc[u] = "staged" => tmp[u] \in Versions
        /\ pc[u] \in {"replaced", "ok", "skipping", "skip"} => final[u] # NoFile
        /\ pc[u] \in {"removed", "missing"} => final[u] = NoFile
        /\ pc[u] \in {"skipping", "skip"} => ~ overwrite
        /\ pc[u] \in Attempting /\ ~ overwrite /\ attempt[u] <= 1 => final[u] = NoFile
        /\ pc[u] \in Attempting \cup Publishing \cup {"transient"} => attempt[u] >= 1
        /\ pc[u] = "transient" => attempt[u] < Retries
        /\ pc[u] = "cancelled" => cancel

\* What main still owes: a unit it has neither left to submit, nor in flight,
\* nor counted, is one the run had no reason to ask for.
AccountInv ==
    phase # "down" =>
        /\ exit = NoExit
        /\ cancel => \E u \in Requested : pc[u] = "hard_stop" \/ counted[u] = "hard_stop"
        /\ \A u \in Requested :
              /\ u \in todo => pc[u] = "out" /\ counted[u] = "none"
              /\ pc[u] # "out" => counted[u] = "none"
              /\ counted[u] = "cancelled" => cancel
              /\ u \notin todo /\ pc[u] = "out" /\ counted[u] = "none" =>
                    ~ overwrite /\ (final[u] # NoFile \/ u \in Sparse)

\* What is counted is true of the store, and stays so.
CountInv ==
    \A u \in Requested :
        /\ counted[u] \in {"ok", "skip"} => final[u] # NoFile
        /\ counted[u] = "skip" => ~ overwrite
        /\ counted[u] = "missing" => final[u] = NoFile

\* No worker lives outside the pool.
QuietInv ==
    /\ phase \in {"down", "gate"} =>
          lock = Free /\ ~ cancel /\ \A u \in Requested : pc[u] = "out"
    /\ phase = "gate" => \A u \in Requested : counted[u] = "none"

LakeInv ==
    TypeOK /\ WorkerInv /\ AccountInv /\ CountInv /\ QuietInv /\ ExitZeroIsComplete

-----------------------------------------------------------------------------
(* Every action preserves the invariant *)

USE DEF LakeInv, WorkerInv, AccountInv, CountInv, QuietInv, ExitZeroIsComplete,
        TypeOK, Kinds, Endings, Working, Publishing, Statuses, Attempting

LEMMA InitInv == Init => LakeInv
  <1> SUFFICES ASSUME Init PROVE LakeInv
    OBVIOUS
  <1> USE LakeAssumption DEF Init
  <1>1. exit # 0 /\ 0 \in 0 .. Retries /\ 0 \in 0 .. MaxRuns
    OBVIOUS
  <1>2. TypeOK
    BY <1>1
  <1> QED BY <1>1, <1>2

LEMMA LaunchInv ==
    ASSUME LakeInv, NEW ow \in BOOLEAN, Launch(ow)
    PROVE  LakeInv'
  BY LakeAssumption DEF Launch, Pending, Done, workers

LEMMA WorkerStepInv ==
    ASSUME LakeInv, NEW u \in Requested, Worker(u)
    PROVE  LakeInv'
  <1>1. CASE Begin(u)
    BY <1>1, LakeAssumption DEF Begin, Goto, RemoveTmp, Done, main
  <1>2. CASE ReadNothing(u)
    BY <1>2, LakeAssumption DEF ReadNothing, Goto, RemoveTmp, main
  <1>3. CASE ReadSome(u)
    BY <1>3, LakeAssumption DEF ReadSome, Goto, main
  <1>4. CASE ReadAll(u)
    BY <1>4, LakeAssumption DEF ReadAll, Goto, main
  <1>5. CASE Replace(u)
    BY <1>5, LakeAssumption DEF Replace, Goto, RemoveTmp, main
  <1>6. CASE RemoveFinal(u)
    BY <1>6, LakeAssumption DEF RemoveFinal, Goto, main
  <1>7. CASE RecordOutcome(u)
    BY <1>7, LakeAssumption, ZenonT(30) DEF RecordOutcome, ManifestAppend, Goto, main
  <1>8. CASE RecordFails(u)
    <2>1. PICK k \in Working :
             /\ pc' = [pc EXCEPT ![u] = k]
             /\ k \in Kinds
             /\ k = "transient" => attempt[u] < Retries
      <3>1. PICK e \in Kinds :
               pc' = [pc EXCEPT ![u] = IF e = "transient" /\ attempt[u] >= Retries
                                       THEN "fatal" ELSE e]
        BY <1>8 DEF RecordFails, Raises, Goto
      <3>2. attempt[u] >= Retries \/ attempt[u] < Retries
        BY LakeAssumption
      <3>3. CASE e = "transient" /\ attempt[u] >= Retries
        <4>1. pc' = [pc EXCEPT ![u] = "fatal"]
          BY <3>1, <3>3
        <4> QED BY <4>1
      <3>4. CASE ~ (e = "transient" /\ attempt[u] >= Retries)
        <4>1. pc' = [pc EXCEPT ![u] = e] /\ (e = "transient" => attempt[u] < Retries)
          BY <3>1, <3>2, <3>4
        <4> QED BY <4>1
      <3> QED BY <3>3, <3>4
    <2> QED BY <1>8, <2>1, LakeAssumption, ZenonT(30) DEF RecordFails, AppendFails, main
  <1>9. CASE Fails(u)
    BY <1>9, LakeAssumption DEF Fails, Raises, Goto, RemoveTmp, main
  <1>10. CASE SignalStop(u)
    BY <1>10, LakeAssumption DEF SignalStop, Goto, files, main
  <1>11. CASE Retry(u)
    BY <1>11, LakeAssumption DEF Retry, Goto, RemoveTmp, main
  <1>12. CASE Note(u)
    BY <1>12, LakeAssumption, ZenonT(30) DEF Note, ManifestAppend, Goto, main
  <1>13. CASE NoteFails(u)
    BY <1>13, LakeAssumption DEF NoteFails, AppendFails, Goto, main
  <1>14. CASE Cancelled(u)
    BY <1>14, LakeAssumption DEF Cancelled, Goto, RemoveTmp, main
  <1> QED BY <1>1, <1>2, <1>3, <1>4, <1>5, <1>6, <1>7, <1>8, <1>9, <1>10, <1>11,
             <1>12, <1>13, <1>14 DEF Worker

\* A process that ends leaves what it told and what it published.
LEMMA EndedInv ==
    ASSUME LakeInv, ForgetWorkers, phase' = "down", todo' = {},
           exit' \in (0 .. 4) \cup {NoExit}, ExitZeroIsComplete', CountInv',
           counted' \in [Requested -> (Endings \ {"raised"}) \cup {"none"}],
           ragged' \in BOOLEAN, UNCHANGED <<overwrite, runs, final, tmp, manifest>>
    PROVE  LakeInv'
  <1>1. /\ \A u \in Requested : pc'[u] = "out" /\ attempt'[u] = 0 /\ lock' # u
        /\ DOMAIN pc' = Requested /\ DOMAIN attempt' = Requested
        /\ lock' = Free /\ cancel' = FALSE
    BY LakeAssumption DEF ForgetWorkers
  <1>2. attempt' \in [Requested -> 0 .. Retries]
    <2>1. 0 \in 0 .. Retries
      BY LakeAssumption
    <2> QED BY <2>1 DEF ForgetWorkers
  <1>3. TypeOK'
    BY <1>2 DEF ForgetWorkers
  <1>4. WorkerInv'
    BY <1>1
  <1> QED BY <1>1, <1>3, <1>4

\* The steps of main.
LEMMA NothingPendingInv ==
    ASSUME LakeInv, NothingPending
    PROVE  LakeInv'
  <1>1. CountInv' /\ ExitZeroIsComplete'
    BY DEF NothingPending, Exit, files
  <1> QED BY <1>1, EndedInv DEF NothingPending, Exit, files

LEMMA RefuseInv ==
    ASSUME LakeInv, Refuse
    PROVE  LakeInv'
  <1>1. CountInv' /\ ExitZeroIsComplete'
    BY DEF Refuse, Exit, files
  <1> QED BY <1>1, EndedInv DEF Refuse, Exit, files

LEMMA ProceedInv ==
    ASSUME LakeInv, Proceed \/ Filled
    PROVE  LakeInv'
  BY LakeAssumption DEF Proceed, Filled, files, workers

LEMMA SubmitInv ==
    ASSUME LakeInv, NEW u \in Requested, Submit(u)
    PROVE  LakeInv'
  BY LakeAssumption DEF Submit, Goto, files

LEMMA AccountStepInv ==
    ASSUME LakeInv, NEW u \in Requested, Account(u)
    PROVE  LakeInv'
  BY LakeAssumption DEF Account, Goto, files

LEMMA PropagateInv ==
    ASSUME LakeInv, NEW u \in Requested, Propagate(u)
    PROVE  LakeInv'
  BY LakeAssumption DEF Propagate, files, workers

LEMMA UnwoundInv ==
    ASSUME LakeInv, Unwound
    PROVE  LakeInv'
  <1>1. CountInv' /\ ExitZeroIsComplete'
    BY DEF Unwound, Exit, files
  <1> QED BY <1>1, EndedInv DEF Unwound, Exit, files

\* A run that ends with 0 has accounted every unit it asked for.
LEMMA FinishInv ==
    ASSUME LakeInv, Finish
    PROVE  LakeInv'
  <1>1. \A u \in Requested : pc[u] = "out"
    BY DEF Finish, InFlight
  <1>2. ExitCode \in 0 .. 4
    BY DEF ExitCode
  <1>3. ASSUME ExitCode = 0 PROVE ExitZeroIsComplete'
    <2>1. \A u \in Requested : /\ counted[u] \notin {"hard_stop", "error"}
                               /\ counted[u] = "missing" => u \in Sparse
      BY <1>3 DEF ExitCode
    <2>2. ~ cancel
      <3>1. phase = "collect"
        BY DEF Finish
      <3>2. cancel => \E u \in Requested : pc[u] = "hard_stop" \/ counted[u] = "hard_stop"
        BY <3>1 DEF AccountInv
      <3>3. \A u \in Requested : pc[u] # "hard_stop"
        BY <1>1
      <3>4. \A u \in Requested : counted[u] # "hard_stop"
        BY <2>1
      <3> QED BY <3>2, <3>3, <3>4, Zenon
    <2>3. todo = {}
      <3>1. todo = {} \/ cancel
        BY DEF Finish
      <3> QED BY <2>2, <3>1
    <2>4. counted' = counted
      BY <2>3 DEF Finish, LakeInv, TypeOK
    <2>5. UNCHANGED <<final, overwrite>>
      BY DEF Finish, Exit, files
    <2> QED BY <1>1, <2>1, <2>2, <2>3, <2>4, <2>5 DEF Finish
  <1>4. ExitZeroIsComplete'
    BY <1>3 DEF Finish, Exit
  <1>5. CountInv' /\ counted' \in [Requested -> (Endings \ {"raised"}) \cup {"none"}]
    BY DEF Finish, Exit, files
  <1> QED BY <1>2, <1>4, <1>5, EndedInv DEF Finish, Exit, files

LEMMA KillInv ==
    ASSUME LakeInv, Kill
    PROVE  LakeInv'
  <1>1. CountInv' /\ ExitZeroIsComplete'
    BY LakeAssumption DEF Kill
  <1>2. ragged' \in BOOLEAN
    BY DEF Kill, Appending
  <1> QED BY <1>1, <1>2, EndedInv DEF Kill

LEMMA NextInv == LakeInv /\ [Next]_vars => LakeInv'
  <1> SUFFICES ASSUME LakeInv, [Next]_vars PROVE LakeInv'
    OBVIOUS
  <1>1. CASE Main
    BY <1>1, NothingPendingInv, RefuseInv, ProceedInv, SubmitInv, AccountStepInv,
       PropagateInv, UnwoundInv, FinishInv DEF Main
  <1>2. CASE UNCHANGED vars
    BY <1>2 DEF vars, files, main, workers
  <1> QED BY <1>1, <1>2, LaunchInv, WorkerStepInv, KillInv DEF Next

-----------------------------------------------------------------------------
(* Theorems *)

\* The inductive invariant holds of every behaviour.
THEOREM LakeInvariant == Spec => []LakeInv
  <1>1. Init => LakeInv
    BY InitInv
  <1>2. LakeInv /\ [Next]_vars => LakeInv'
    BY NextInv
  <1> QED BY <1>1, <1>2, PTL DEF Spec

\* Every variable keeps its type: no file is published before its stream ended.
THEOREM LakeTypeCorrect == Spec => []TypeOK
  <1>1. LakeInv => TypeOK
    OBVIOUS
  <1> QED BY <1>1, LakeInvariant, PTL

\* What a run tells is true of the store, however many units and workers there
\* are and whatever earlier runs, crashes and torn lines left behind.
THEOREM RunsTellTheTruth == Spec => []ExitAndReportAreTrue
  <1>1. LakeInv => ExitAndReportAreTrue
    BY DEF ExitAndReportAreTrue, ReportMatchesStore
  <1> QED BY <1>1, LakeInvariant, PTL

\* What a step may do to the store: nothing after the stop, and before it only
\* an attempt that found no file, or was told to overwrite, replaces one.
LEMMA StoreStep ==
    ASSUME LakeInv, [Next]_vars
    PROVE  /\ cancel => UNCHANGED <<final, manifest, ragged>>
           /\ \A u \in Requested :
                 final[u] # NoFile /\ final'[u] # final[u] => overwrite \/ attempt[u] > 1
  <1> DEFINE A == /\ cancel => UNCHANGED <<final, manifest, ragged>>
                  /\ \A u \in Requested :
                        final[u] # NoFile /\ final'[u] # final[u]
                            => overwrite \/ attempt[u] > 1
  <1>1. ASSUME NEW w \in Requested, Replace(w) \/ RemoveFinal(w) PROVE A
    <2>1. /\ ~ cancel /\ pc[w] \in Attempting /\ attempt[w] >= 1
          /\ \A u \in Requested : u # w => final'[u] = final[u]
      BY <1>1 DEF Replace, RemoveFinal
    <2>2. final[w] # NoFile => overwrite \/ attempt[w] > 1
      BY <2>1
    <2> QED BY <2>1, <2>2
  <1>2. ASSUME NEW w \in Requested, Worker(w), ~ Replace(w), ~ RemoveFinal(w) PROVE A
    <2>1. final' = final
      BY <1>2 DEF Worker, Begin, ReadNothing, ReadSome, ReadAll, RecordOutcome, RecordFails,
                  Fails, SignalStop, Retry, Note, NoteFails, Cancelled, files
    <2>2. cancel => UNCHANGED <<manifest, ragged>>
      BY <1>2 DEF Worker, Begin, ReadNothing, ReadSome, ReadAll, RecordOutcome, RecordFails,
                  Fails, SignalStop, Retry, Note, NoteFails, Cancelled, files
    <2> QED BY <2>1, <2>2
  <1>3. CASE Main
    BY <1>3 DEF Main, NothingPending, Refuse, Proceed, Filled, Unwound, Finish,
                Submit, Account, Propagate, Exit, files
  <1>4. CASE Kill
    <2>1. cancel => lock = Free
      OBVIOUS
    <2> QED BY <1>4, <2>1 DEF Kill, Appending
  <1>5. ASSUME NEW ow \in BOOLEAN, Launch(ow) PROVE A
    BY <1>5 DEF Launch
  <1>6. CASE UNCHANGED vars
    BY <1>6 DEF vars, files
  <1> QED BY <1>1, <1>2, <1>3, <1>4, <1>5, <1>6 DEF Next

\* A hard stop is a point in time: no worker publishes, removes or records
\* anything after it, and no published partition is lost to a plain run.
THEOREM StopIsFinal == Spec => NothingAfterStop
  <1>1. LakeInv /\ [Next]_vars =>
           [/\ cancel => UNCHANGED <<final, manifest, ragged>>
            /\ \A u \in Requested :
                  final[u] # NoFile /\ final'[u] # final[u]
                      => overwrite \/ attempt[u] > 1]_vars
    BY StoreStep
  <1> QED BY <1>1, LakeInvariant, PTL DEF Spec, NothingAfterStop
=============================================================================
