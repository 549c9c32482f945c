----------------------------- MODULE G0BNLedger -----------------------------
(***************************************************************************)
(* The append-only G0-BN attempt ledger of eval/g0bn_ledger.py: ledger     *)
(* instances (Python objects, in one process or in several) that keep a    *)
(* history of execution events in memory, bind it to a file under an       *)
(* exclusive lock and rewrite the file after every event.                  *)
(*                                                                         *)
(* A history is the sequence of its events.  The hash chain of the code    *)
(* identifies a history by the hash of its last event, so "same chain      *)
(* head" is "same sequence" here.  A trial identity is a model value;      *)
(* PinOf gives the protocol config and development data identity it        *)
(* carries.                                                                *)
(***************************************************************************)
EXTENDS Naturals, FiniteSets, SequencesExt

CONSTANTS
    Instances,   \* ledger objects
    Paths,       \* canonical (realpath) ledger files
    Trials,      \* canonical g0bn-trial-v1 identities
    Results,     \* result payloads, up to their hash
    Pins,        \* protocol config + data identity pairs
    PinOf,       \* the pair every identity carries
    MaxEvents,   \* bound on the events one instance keeps
    NoResult, NoFile, NoPath, Free

ASSUME PinAssumption == PinOf \in [Trials -> Pins]

ASSUME SentinelAssumption ==
    /\ NoResult \notin Results
    /\ NoPath \notin Paths
    /\ Free \notin Instances

VARIABLES
    disk,     \* what open(path) reads
    stable,   \* what a machine crash leaves of it (directory entry synced)
    lock,     \* holder of the flock on path + ".lock"
    phase,    \* where an instance is inside its current call
    path,     \* _path: the file the instance is bound to
    target,   \* the file the current call works on
    mem,      \* _identities and _events of an instance
    acked     \* history of the last save of each path that returned

vars == <<disk, stable, lock, phase, path, target, mem, acked>>

-----------------------------------------------------------------------------
(* Data *)

EventKinds == {"started", "aborted", "completed"}

Event == [trial : Trials, kind : EventKinds, result : Results \cup {NoResult}]

Image == [known : SUBSET Trials,
          result : [Trials -> Results \cup {NoResult}],
          events : Seq(Event)]

ASSUME NoFileAssumption == NoFile \notin Image

EmptyImage == [known |-> {},
               result |-> [t \in Trials |-> NoResult],
               events |-> <<>>]

\* The history a file holds; a missing file holds none.
History(f) == IF f = NoFile THEN <<>> ELSE f.events

\* _register_identity: the first identity pins config and data identity, and
\* a drifting one is refused before anything is stored.
Registrable(m, t) == \A u \in m.known : PinOf[u] = PinOf[t]

\* _register_identity followed by _append_event.
Extended(m, t, k, r) ==
    [known  |-> m.known \cup {t},
     result |-> IF k = "completed" THEN [m.result EXCEPT ![t] = r] ELSE m.result,
     events |-> Append(m.events, [trial |-> t, kind |-> k, result |-> r])]

\* What _parse_file accepts: one pin, an event for every identity, every
\* completed event carrying its identity's non-null result, and every result
\* witnessed by a completed event.
WellFormed(f) ==
    /\ \A t, u \in f.known : PinOf[t] = PinOf[u]
    /\ f.known = {f.events[n].trial : n \in DOMAIN f.events}
    /\ \A n \in DOMAIN f.events : f.events[n].kind = "completed" =>
          /\ f.events[n].result # NoResult
          /\ f.events[n].result = f.result[f.events[n].trial]
    /\ \A t \in Trials : f.result[t] # NoResult =>
          \E n \in DOMAIN f.events :
             f.events[n].kind = "completed" /\ f.events[n].trial = t

Loadable(f) == f # NoFile /\ WellFormed(f)

-----------------------------------------------------------------------------
Init ==
    /\ disk = [p \in Paths |-> NoFile]
    /\ stable = [p \in Paths |-> NoFile]
    /\ lock = [p \in Paths |-> Free]
    /\ phase = [i \in Instances |-> "absent"]
    /\ path = [i \in Instances |-> NoPath]
    /\ target = [i \in Instances |-> NoPath]
    /\ mem = [i \in Instances |-> EmptyImage]
    /\ acked = [p \in Paths |-> <<>>]

\* Mutant: the writer lock is taken over from its holder.
OpenLockStealing(i, p) ==
    /\ lock' = [lock EXCEPT ![p] = i]
    /\ target' = [target EXCEPT ![i] = p]

\* flock(LOCK_EX | LOCK_NB): contention raises and changes nothing.
OpenLock(i, p) ==
    /\ lock[p] = Free
    /\ lock' = [lock EXCEPT ![p] = i]
    /\ target' = [target EXCEPT ![i] = p]

\* The instance object is gone, and every lock it held with it.
Vanish(i) ==
    /\ lock' = [p \in Paths |-> IF lock[p] = i THEN Free ELSE lock[p]]
    /\ phase' = [phase EXCEPT ![i] = "absent"]
    /\ path' = [path EXCEPT ![i] = NoPath]
    /\ target' = [target EXCEPT ![i] = NoPath]
    /\ mem' = [mem EXCEPT ![i] = EmptyImage]
    /\ UNCHANGED <<disk, stable, acked>>

(* Construction *)

\* G0BNLedger(): an unbound ledger.
NewUnbound(i) ==
    /\ phase[i] = "absent"
    /\ phase' = [phase EXCEPT ![i] = "ready"]
    /\ UNCHANGED <<disk, stable, lock, path, target, mem, acked>>

\* G0BNLedger(path): the lock comes first ...
BindFresh(i, p) ==
    /\ phase[i] = "absent"
    /\ OpenLock(i, p)
    /\ phase' = [phase EXCEPT ![i] = "binding"]
    /\ UNCHANGED <<disk, stable, path, mem, acked>>

\* Mutant: the existence check is not repeated under the lock.
BindUnchecked(i) ==
    /\ phase[i] = "binding"
    /\ path' = [path EXCEPT ![i] = target[i]]
    /\ phase' = [phase EXCEPT ![i] = "ready"]
    /\ UNCHANGED <<disk, stable, lock, target, mem, acked>>

\* ... then, under it, the check that no history is there to fork.
BindCheck(i) ==
    /\ phase[i] = "binding"
    /\ \/ /\ disk[target[i]] # NoFile
          /\ Vanish(i)
       \/ /\ disk[target[i]] = NoFile
          /\ path' = [path EXCEPT ![i] = target[i]]
          /\ phase' = [phase EXCEPT ![i] = "ready"]
          /\ UNCHANGED <<disk, stable, lock, target, mem, acked>>

\* load(path, bind=True): the lock before the read.
LoadBound(i, p) ==
    /\ phase[i] = "absent"
    /\ OpenLock(i, p)
    /\ phase' = [phase EXCEPT ![i] = "loading"]
    /\ UNCHANGED <<disk, stable, path, mem, acked>>

LoadRead(i) ==
    /\ phase[i] = "loading"
    /\ \/ /\ ~ Loadable(disk[target[i]])
          /\ Vanish(i)
       \/ /\ Loadable(disk[target[i]])
          /\ mem' = [mem EXCEPT ![i] = disk[target[i]]]
          /\ path' = [path EXCEPT ![i] = target[i]]
          /\ phase' = [phase EXCEPT ![i] = "ready"]
          /\ UNCHANGED <<disk, stable, lock, target, acked>>

\* load(path, bind=False): no lock, never persists.
LoadReadOnly(i, p) ==
    /\ phase[i] = "absent"
    /\ Loadable(disk[p])
    /\ mem' = [mem EXCEPT ![i] = disk[p]]
    /\ phase' = [phase EXCEPT ![i] = "ready"]
    /\ UNCHANGED <<disk, stable, lock, path, target, acked>>

(* Recording: the event enters memory, then a bound instance persists. *)

Record(i, t, k, r) ==
    /\ phase[i] = "ready"
    /\ Len(mem[i].events) < MaxEvents
    /\ Registrable(mem[i], t)
    /\ mem' = [mem EXCEPT ![i] = Extended(mem[i], t, k, r)]
    /\ target' = [target EXCEPT ![i] = path[i]]
    /\ phase' = [phase EXCEPT ![i] = IF path[i] = NoPath THEN "ready" ELSE "writing"]
    /\ UNCHANGED <<disk, stable, lock, path, acked>>

RecordStart(i, t) == Record(i, t, "started", NoResult)

RecordAbort(i, t) == Record(i, t, "aborted", NoResult)

\* Mutant: a rerun's result replaces the pinned one.
RecordCompletionForking(i, t, r) == Record(i, t, "completed", r)

\* A result that conflicts with the pinned one fails closed.
RecordCompletion(i, t, r) ==
    /\ mem[i].result[t] \in {NoResult, r}
    /\ Record(i, t, "completed", r)

(* save *)

SaveOwn(i) ==
    /\ phase[i] = "ready"
    /\ path[i] # NoPath
    /\ target' = [target EXCEPT ![i] = path[i]]
    /\ phase' = [phase EXCEPT ![i] = "writing"]
    /\ UNCHANGED <<disk, stable, lock, path, mem, acked>>

\* Any other target is locked for the length of the call.
SaveElsewhere(i, p) ==
    /\ phase[i] = "ready"
    /\ path[i] # p
    /\ OpenLock(i, p)
    /\ phase' = [phase EXCEPT ![i] = "reconciling"]
    /\ UNCHANGED <<disk, stable, path, mem, acked>>

\* The finally clause of save: only a transient lock is released.
EndSave(i) ==
    /\ phase' = [phase EXCEPT ![i] = "ready"]
    /\ target' = [target EXCEPT ![i] = NoPath]
    /\ lock' = IF target[i] = path[i] THEN lock
                                      ELSE [lock EXCEPT ![target[i]] = Free]

\* Mutant: the lengths are compared, the chain heads are not.
ExtendsByLength(i, f) ==
    f # NoFile => WellFormed(f) /\ Len(f.events) <= Len(mem[i].events)

\* _require_extends, under the transient lock.
Extends(i, f) ==
    f # NoFile => WellFormed(f) /\ IsPrefix(f.events, mem[i].events)

Reconcile(i) ==
    /\ phase[i] = "reconciling"
    /\ \/ /\ Extends(i, disk[target[i]])
          /\ phase' = [phase EXCEPT ![i] = "writing"]
          /\ UNCHANGED <<lock, target>>
       \/ /\ ~ Extends(i, disk[target[i]])
          /\ EndSave(i)
    /\ UNCHANGED <<disk, stable, path, mem, acked>>

\* _write_file up to os.replace: the temporary file is complete and synced
\* before it takes the name.
Replace(i) ==
    /\ phase[i] = "writing"
    /\ disk' = [disk EXCEPT ![target[i]] = mem[i]]
    /\ phase' = [phase EXCEPT ![i] = "replaced"]
    /\ UNCHANGED <<stable, lock, path, target, mem, acked>>

\* An OSError before os.replace: the temporary file is removed, the call
\* raises, and the event it was persisting stays in memory.
WriteFails(i) ==
    /\ phase[i] = "writing"
    /\ EndSave(i)
    /\ UNCHANGED <<disk, stable, path, mem, acked>>

\* Mutant: the call returns without syncing the directory.
SyncDirSkipped(i) ==
    /\ phase[i] = "replaced"
    /\ acked' = [acked EXCEPT ![target[i]] = mem[i].events]
    /\ EndSave(i)
    /\ UNCHANGED <<disk, stable, path, mem>>

\* _fsync_dir, and the call returns.
SyncDir(i) ==
    /\ phase[i] = "replaced"
    /\ stable' = [stable EXCEPT ![target[i]] = disk[target[i]]]
    /\ acked' = [acked EXCEPT ![target[i]] = mem[i].events]
    /\ EndSave(i)
    /\ UNCHANGED <<disk, path, mem>>

SyncDirFails(i) ==
    /\ phase[i] = "replaced"
    /\ EndSave(i)
    /\ UNCHANGED <<disk, stable, path, mem, acked>>

(* The end of an instance, and the machine *)

\* close(): the history stays readable, the instance is no longer durable.
Close(i) ==
    /\ phase[i] = "ready"
    /\ path[i] # NoPath
    /\ lock' = [lock EXCEPT ![path[i]] = Free]
    /\ path' = [path EXCEPT ![i] = NoPath]
    /\ UNCHANGED <<disk, stable, phase, target, mem, acked>>

\* __del__ between two calls, or the death of the process inside one.
Die(i) ==
    /\ phase[i] # "absent"
    /\ Vanish(i)

\* The kernel writes the directory entry back on its own.
Flush(p) ==
    /\ stable' = [stable EXCEPT ![p] = disk[p]]
    /\ UNCHANGED <<disk, lock, phase, path, target, mem, acked>>

MachineCrash ==
    /\ disk' = stable
    /\ lock' = [p \in Paths |-> Free]
    /\ phase' = [i \in Instances |-> "absent"]
    /\ path' = [i \in Instances |-> NoPath]
    /\ target' = [i \in Instances |-> NoPath]
    /\ mem' = [i \in Instances |-> EmptyImage]
    /\ UNCHANGED <<stable, acked>>

-----------------------------------------------------------------------------
CallStep(i) ==
    \/ BindCheck(i) \/ LoadRead(i) \/ Reconcile(i)
    \/ Replace(i) \/ WriteFails(i) \/ SyncDir(i) \/ SyncDirFails(i)

Call(i) ==
    \/ NewUnbound(i) \/ SaveOwn(i) \/ Close(i)
    \/ \E p \in Paths : \/ BindFresh(i, p) \/ LoadBound(i, p)
                        \/ LoadReadOnly(i, p) \/ SaveElsewhere(i, p)
    \/ \E t \in Trials : \/ RecordStart(i, t) \/ RecordAbort(i, t)
                         \/ \E r \in Results : RecordCompletion(i, t, r)

Next ==
    \/ \E i \in Instances : Call(i) \/ CallStep(i) \/ Die(i)
    \/ \E p \in Paths : Flush(p)
    \/ MachineCrash

Spec == Init /\ [][Next]_vars

-----------------------------------------------------------------------------
(* Properties *)

\* Every variable has its type.
TypeOK ==
    /\ disk \in [Paths -> Image \cup {NoFile}]
    /\ stable \in [Paths -> Image \cup {NoFile}]
    /\ lock \in [Paths -> Instances \cup {Free}]
    /\ phase \in [Instances -> {"absent", "binding", "loading", "ready",
                                "reconciling", "writing", "replaced"}]
    /\ path \in [Instances -> Paths \cup {NoPath}]
    /\ target \in [Instances -> Paths \cup {NoPath}]
    /\ mem \in [Instances -> Image]
    /\ acked \in [Paths -> Seq(Event)]

\* Every durable binding, and every write in progress, is covered by the
\* path's lock, so two live instances never write one file
\* (_open_lock's docstring: concurrent writers would lose updates).
WriterHoldsLock ==
    \A i \in Instances :
        /\ path[i] # NoPath => lock[path[i]] = i
        /\ phase[i] \in {"writing", "replaced"} => lock[target[i]] = i

\* save() skips _require_extends for an instance's own path.  That is safe
\* because a bound instance's history always extends the file's.
BoundExtendsDisk ==
    \A i \in Instances :
        path[i] # NoPath => IsPrefix(History(disk[path[i]]), mem[i].events)

\* Every file ever published, and every file a machine crash can bring back,
\* passes the loader's own validation: a ledger is never locked out of its
\* history by what it wrote itself.
FilesLoadable ==
    \A p \in Paths : \A f \in {disk[p], stable[p]} : f # NoFile => WellFormed(f)

\* A record_* or save call that returned is never undone: the history it
\* wrote survives every process and machine crash.
AckedIsStable == \A p \in Paths : IsPrefix(acked[p], History(stable[p]))

\* What survives a machine crash is append-only: no step of any instance
\* drops or changes an event of the durable history.
StableAppendOnly ==
    [][\A p \in Paths : IsPrefix(History(stable[p]), History(stable'[p]))]_vars

\* The first completion pins an identity's result for good, and an attempted
\* identity never leaves the ledger (effective N never shrinks).
OutcomesImmutable ==
    [][\A p \in Paths : stable[p] # NoFile =>
          /\ stable'[p] # NoFile
          /\ stable[p].known \subseteq stable'[p].known
          /\ \A t \in Trials : stable[p].result[t] # NoResult =>
                stable'[p].result[t] = stable[p].result[t]]_vars

\* The ledger implements the durable log: the log of a file is its history, a
\* step extends one log or acknowledges it, and a machine crash takes back only
\* what no call has acknowledged.
LogOf == [p \in Paths |-> History(disk[p])]

Log == INSTANCE DurableLog WITH log <- LogOf

ImplementsDurableLog == Log!Spec

=============================================================================
