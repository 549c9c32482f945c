------------------------------ MODULE G0BNProofs ------------------------------
(***************************************************************************)
(* Theorems about the trial ledger, for any number of instances, files,    *)
(* trials and events, and about the development driver over it, for any    *)
(* number of processes, any ladder (trials may repeat), any results and    *)
(* any number of runs.  LedgerInv says, beside the checked invariants,     *)
(* what a call in progress knows about the file it works on.  A step of    *)
(* the driver is a step of the ledger, so LedgerInv carries over; DriverInv *)
(* adds what a process inside its run knows.                               *)
(***************************************************************************)
EXTENDS G0BNDevelopment, TLAPS

-----------------------------------------------------------------------------
(* Prefixes *)

\* A prefix, element by element.
LEMMA PrefixPointwise ==
    ASSUME NEW S, NEW s \in Seq(S), NEW t \in Seq(S)
    PROVE  IsPrefix(s, t) <=>
              /\ Len(s) <= Len(t)
              /\ \A k \in 1 .. Len(s) : s[k] = t[k]
  <1>1. CASE Len(s) <= Len(t)
    <2>1. /\ SubSeq(s, 1, Len(s)) \in Seq(S) /\ Len(SubSeq(s, 1, Len(s))) = Len(s)
          /\ SubSeq(t, 1, Len(s)) \in Seq(S) /\ Len(SubSeq(t, 1, Len(s))) = Len(s)
          /\ \A k \in 1 .. Len(s) : /\ SubSeq(s, 1, Len(s))[k] = s[k]
                                    /\ SubSeq(t, 1, Len(s))[k] = t[k]
      BY <1>1
    <2>2. SubSeq(s, 1, Len(s)) = SubSeq(t, 1, Len(s)) <=>
             \A k \in 1 .. Len(s) : s[k] = t[k]
      BY <2>1
    <2> QED BY <1>1, <2>2 DEF IsPrefix
  <1>2. CASE ~ (Len(s) <= Len(t))
    BY <1>2 DEF IsPrefix
  <1> QED BY <1>1, <1>2

\* The order on histories.
LEMMA PrefixReflexive ==
    ASSUME NEW S, NEW s \in Seq(S)
    PROVE  IsPrefix(s, s)
  BY PrefixPointwise

LEMMA PrefixTransitive ==
    ASSUME NEW S, NEW s \in Seq(S), NEW t \in Seq(S), NEW u \in Seq(S),
           IsPrefix(s, t), IsPrefix(t, u)
    PROVE  IsPrefix(s, u)
  <1>1. /\ Len(s) <= Len(t) /\ \A k \in 1 .. Len(s) : s[k] = t[k]
        /\ Len(t) <= Len(u) /\ \A k \in 1 .. Len(t) : t[k] = u[k]
    BY PrefixPointwise
  <1>2. Len(s) <= Len(u) /\ \A k \in 1 .. Len(s) : s[k] = u[k]
    BY <1>1
  <1> QED BY <1>2, PrefixPointwise

LEMMA PrefixEmpty ==
    ASSUME NEW S, NEW s \in Seq(S)
    PROVE  IsPrefix(<<>>, s)
  <1>1. <<>> \in Seq(S) /\ Len(<<>>) = 0 /\ Len(s) \in Nat
    OBVIOUS
  <1>2. Len(<<>>) <= Len(s) /\ \A k \in 1 .. Len(<<>>) : <<>>[k] = s[k]
    BY <1>1
  <1> QED BY <1>1, <1>2, PrefixPointwise

LEMMA PrefixAppend ==
    ASSUME NEW S, NEW s \in Seq(S), NEW t \in Seq(S), NEW e \in S, IsPrefix(s, t)
    PROVE  IsPrefix(s, Append(t, e))
  <1>1. Append(t, e) \in Seq(S) /\ Len(Append(t, e)) = Len(t) + 1
    OBVIOUS
  <1>2. \A k \in 1 .. Len(t) : Append(t, e)[k] = t[k]
    OBVIOUS
  <1>3. Len(s) <= Len(t) /\ \A k \in 1 .. Len(s) : s[k] = t[k]
    BY PrefixPointwise
  <1>4. /\ Len(s) <= Len(Append(t, e))
        /\ \A k \in 1 .. Len(s) : s[k] = Append(t, e)[k]
    BY <1>1, <1>2, <1>3
  <1> QED BY <1>1, <1>4, PrefixPointwise

-----------------------------------------------------------------------------
(* Images *)

\* The history of a file is a sequence of events, missing file or not.
LEMMA HistoryType ==
    ASSUME NEW f \in Image \cup {NoFile}
    PROVE  History(f) \in Seq(Event)
  BY DEF History, Image

\* A fresh ledger passes the loader's validation.
LEMMA EmptyWellFormed == EmptyImage \in Image /\ WellFormed(EmptyImage)
  <1>1. EmptyImage \in Image
    BY DEF EmptyImage, Image
  <1>2. DOMAIN EmptyImage.events = {}
    BY DEF EmptyImage
  <1>3. EmptyImage.known = {} /\ \A t \in Trials : EmptyImage.result[t] = NoResult
    BY DEF EmptyImage
  <1> QED BY <1>1, <1>2, <1>3 DEF WellFormed

\* Recording an event: memory stays an image and its history only grows.
LEMMA ExtendedImage ==
    ASSUME NEW m \in Image, NEW t \in Trials, NEW k \in EventKinds,
           NEW r \in Results \cup {NoResult}
    PROVE  /\ Extended(m, t, k, r) \in Image
           /\ Extended(m, t, k, r).events
                 = Append(m.events, [trial |-> t, kind |-> k, result |-> r])
           /\ [trial |-> t, kind |-> k, result |-> r] \in Event
  BY DEF Extended, Image, Event

\* Recording an event: a ledger the loader accepts stays one, provided that
\* the pins agree and that a completion does not contradict the stored result.
LEMMA ExtendedWellFormed ==
    ASSUME NEW m \in Image, WellFormed(m), NEW t \in Trials,
           NEW k \in EventKinds, NEW r \in Results \cup {NoResult},
           Registrable(m, t),
           k = "completed" => r # NoResult /\ m.result[t] \in {NoResult, r}
    PROVE  WellFormed(Extended(m, t, k, r))
  <1> DEFINE e == [trial |-> t, kind |-> k, result |-> r]
             x == Extended(m, t, k, r)
             L == Len(m.events)
  <1>1. /\ m.events \in Seq(Event) /\ L \in Nat /\ m.known \subseteq Trials
        /\ m.result \in [Trials -> Results \cup {NoResult}]
        /\ DOMAIN m.events = 1 .. L
    BY DEF Image
  <1>2. /\ x.known = m.known \cup {t}
        /\ x.events = Append(m.events, e)
        /\ x.result = IF k = "completed" THEN [m.result EXCEPT ![t] = r] ELSE m.result
    BY DEF Extended
  <1>3. /\ DOMAIN x.events = 1 .. (L + 1)
        /\ x.events[L + 1] = e
        /\ \A n \in 1 .. L : x.events[n] = m.events[n]
    BY <1>1, <1>2, e \in Event DEF Event
  <1>4. \A n \in 1 .. L : m.events[n].trial \in Trials
    <2>1. \A n \in 1 .. L : m.events[n] \in Event
      BY <1>1
    <2> QED BY <2>1 DEF Event
  <1>5. \A a, b \in x.known : PinOf[a] = PinOf[b]
    BY <1>2 DEF WellFormed, Registrable
  <1>6. x.known = {x.events[n].trial : n \in DOMAIN x.events}
    <2>1. m.known = {m.events[n].trial : n \in 1 .. L}
      BY <1>1 DEF WellFormed
    <2>2. 1 .. (L + 1) = (1 .. L) \cup {L + 1}
      BY <1>1
    <2>3. {x.events[n].trial : n \in 1 .. (L + 1)}
             = {m.events[n].trial : n \in 1 .. L} \cup {t}
      BY <1>3, <2>2
    <2> QED BY <1>2, <1>3, <2>1, <2>3
  <1>7. ASSUME NEW n \in DOMAIN x.events, x.events[n].kind = "completed"
        PROVE  /\ x.events[n].result # NoResult
               /\ x.events[n].result = x.result[x.events[n].trial]
    <2>1. CASE n = L + 1
      BY <1>1, <1>2, <1>3, <1>7, <2>1
    <2>2. CASE n \in 1 .. L
      <3>1. /\ m.events[n].kind = "completed" /\ m.events[n].trial \in Trials
            /\ x.events[n] = m.events[n]
        BY <1>3, <1>4, <1>7, <2>2
      <3>2. /\ m.events[n].result # NoResult
            /\ m.events[n].result = m.result[m.events[n].trial]
        BY <1>1, <2>2, <3>1 DEF WellFormed
      <3>3. x.result[m.events[n].trial] = m.result[m.events[n].trial]
        BY <1>1, <1>2, <3>1, <3>2
      <3> QED BY <3>1, <3>2, <3>3
    <2> QED BY <1>1, <1>3, <2>1, <2>2
  <1>8. ASSUME NEW a \in Trials, x.result[a] # NoResult
        PROVE  \E n \in DOMAIN x.events :
                  x.events[n].kind = "completed" /\ x.events[n].trial = a
    <2>1. CASE k = "completed" /\ a = t
      <3>1. L + 1 \in DOMAIN x.events
        BY <1>1, <1>3
      <3> QED BY <1>3, <2>1, <3>1
    <2>2. CASE ~ (k = "completed" /\ a = t)
      <3>1. m.result[a] # NoResult
        BY <1>1, <1>2, <1>8, <2>2
      <3>2. PICK n \in 1 .. L : m.events[n].kind = "completed" /\ m.events[n].trial = a
        BY <1>1, <3>1 DEF WellFormed
      <3>3. n \in DOMAIN x.events
        BY <1>1, <1>3
      <3> QED BY <1>3, <3>2, <3>3
    <2> QED BY <2>1, <2>2
  <1> QED BY <1>5, <1>6, <1>7, <1>8 DEF WellFormed

\* Of two ledgers the loader accepts, one whose history extends the other's
\* knows all its identities and agrees with it on every result.
LEMMA OutcomesFollowHistory ==
    ASSUME NEW f \in Image, NEW g \in Image, WellFormed(f), WellFormed(g),
           IsPrefix(f.events, g.events)
    PROVE  /\ f.known \subseteq g.known
           /\ \A t \in Trials : f.result[t] # NoResult => g.result[t] = f.result[t]
  <1>1. /\ f.events \in Seq(Event) /\ DOMAIN f.events = 1 .. Len(f.events)
        /\ g.events \in Seq(Event) /\ DOMAIN g.events = 1 .. Len(g.events)
        /\ Len(f.events) \in Nat /\ Len(g.events) \in Nat
    BY DEF Image
  <1>2. /\ \A n \in DOMAIN f.events : n \in DOMAIN g.events
        /\ \A n \in DOMAIN f.events : g.events[n] = f.events[n]
    BY <1>1, PrefixPointwise
  <1>3. f.known \subseteq g.known
    BY <1>2 DEF WellFormed
  <1>4. ASSUME NEW t \in Trials, f.result[t] # NoResult
        PROVE  g.result[t] = f.result[t]
    <2>1. PICK n \in DOMAIN f.events :
             f.events[n].kind = "completed" /\ f.events[n].trial = t
      BY <1>4 DEF WellFormed
    <2>2. f.events[n].result = f.result[t]
      BY <2>1 DEF WellFormed
    <2>3. g.events[n].result = g.result[t]
      BY <1>2, <2>1 DEF WellFormed
    <2> QED BY <1>2, <2>2, <2>3
  <1> QED BY <1>3, <1>4

-----------------------------------------------------------------------------
(* The inductive invariant *)

\* What a call in progress has established about the file it works on: it
\* holds the lock; a write was preceded by the check that it extends the file;
\* between os.replace and the directory sync the file is the instance's own.
CallInv(i) ==
    /\ phase[i] \in {"absent", "binding", "loading"} => path[i] = NoPath
    /\ phase[i] \in {"binding", "loading", "reconciling", "writing", "replaced"} =>
          target[i] \in Paths /\ lock[target[i]] = i
    /\ phase[i] = "reconciling" => target[i] # path[i]
    /\ phase[i] = "writing" => IsPrefix(History(disk[target[i]]), mem[i].events)
    /\ phase[i] = "replaced" => disk[target[i]] = mem[i]

\* What the lock protects.
BindingInv(i) ==
    path[i] # NoPath =>
        /\ lock[path[i]] = i
        /\ IsPrefix(History(disk[path[i]]), mem[i].events)

\* A file and what a machine crash makes of it.
FileInv(p) ==
    /\ disk[p] # NoFile => WellFormed(disk[p])
    /\ stable[p] # NoFile => WellFormed(stable[p]) /\ disk[p] # NoFile
    /\ IsPrefix(acked[p], History(stable[p]))
    /\ IsPrefix(History(stable[p]), History(disk[p]))

LedgerInv ==
    /\ TypeOK
    /\ \A i \in Instances : CallInv(i) /\ BindingInv(i) /\ WellFormed(mem[i])
    /\ \A p \in Paths : FileInv(p)

\* A ledger that was never opened.
LEMMA InitInv == Init => LedgerInv
  <1> SUFFICES ASSUME Init PROVE LedgerInv
    OBVIOUS
  <1>1. <<>> \in Seq(Event)
    OBVIOUS
  <1>0. IsPrefix(<<>>, <<>>)
    BY <1>1, PrefixReflexive
  <1>2. TypeOK
    BY <1>1, EmptyWellFormed DEF Init, TypeOK
  <1>3. \A i \in Instances : CallInv(i) /\ BindingInv(i) /\ WellFormed(mem[i])
    BY EmptyWellFormed DEF Init, CallInv, BindingInv
  <1>4. \A p \in Paths : FileInv(p)
    BY <1>0 DEF Init, FileInv, History
  <1> QED BY <1>2, <1>3, <1>4 DEF LedgerInv

-----------------------------------------------------------------------------
(* Every action preserves it *)

\* An unbound ledger holds no lock.
LEMMA NewUnboundInv ==
    ASSUME LedgerInv, NEW i \in Instances, NewUnbound(i)
    PROVE  LedgerInv'
  <1> USE DEF LedgerInv
  <1>1. TypeOK'
    BY SentinelAssumption DEF TypeOK, NewUnbound
  <1>2. ASSUME NEW j \in Instances
        PROVE  (CallInv(j) /\ BindingInv(j) /\ WellFormed(mem[j]))'
    BY SentinelAssumption DEF TypeOK, CallInv, BindingInv, NewUnbound
  <1>3. ASSUME NEW p \in Paths
        PROVE  FileInv(p)'
    BY SentinelAssumption DEF TypeOK, FileInv, NewUnbound
  <1> QED BY <1>1, <1>2, <1>3

\* Taking a free lock disturbs no instance that holds one.
LEMMA BindFreshInv ==
    ASSUME LedgerInv, NEW i \in Instances, NEW q \in Paths, BindFresh(i, q)
    PROVE  LedgerInv'
  <1> USE DEF LedgerInv
  <1>1. TypeOK'
    BY SentinelAssumption DEF TypeOK, BindFresh, OpenLock
  <1>2. ASSUME NEW j \in Instances
        PROVE  (CallInv(j) /\ BindingInv(j) /\ WellFormed(mem[j]))'
    BY SentinelAssumption DEF TypeOK, CallInv, BindingInv, BindFresh, OpenLock
  <1>3. ASSUME NEW p \in Paths
        PROVE  FileInv(p)'
    BY SentinelAssumption DEF TypeOK, FileInv, BindFresh, OpenLock
  <1> QED BY <1>1, <1>2, <1>3

\* Taking a free lock disturbs no instance that holds one.
LEMMA LoadBoundInv ==
    ASSUME LedgerInv, NEW i \in Instances, NEW q \in Paths, LoadBound(i, q)
    PROVE  LedgerInv'
  <1> USE DEF LedgerInv
  <1>1. TypeOK'
    BY SentinelAssumption DEF TypeOK, LoadBound, OpenLock
  <1>2. ASSUME NEW j \in Instances
        PROVE  (CallInv(j) /\ BindingInv(j) /\ WellFormed(mem[j]))'
    BY SentinelAssumption DEF TypeOK, CallInv, BindingInv, LoadBound, OpenLock
  <1>3. ASSUME NEW p \in Paths
        PROVE  FileInv(p)'
    BY SentinelAssumption DEF TypeOK, FileInv, LoadBound, OpenLock
  <1> QED BY <1>1, <1>2, <1>3

\* The transient lock is not the bound one.
LEMMA SaveElsewhereInv ==
    ASSUME LedgerInv, NEW i \in Instances, NEW q \in Paths, SaveElsewhere(i, q)
    PROVE  LedgerInv'
  <1> USE DEF LedgerInv
  <1>1. TypeOK'
    BY SentinelAssumption DEF TypeOK, SaveElsewhere, OpenLock
  <1>2. ASSUME NEW j \in Instances
        PROVE  (CallInv(j) /\ BindingInv(j) /\ WellFormed(mem[j]))'
    BY SentinelAssumption DEF TypeOK, CallInv, BindingInv, SaveElsewhere, OpenLock
  <1>3. ASSUME NEW p \in Paths
        PROVE  FileInv(p)'
    BY SentinelAssumption DEF TypeOK, FileInv, SaveElsewhere, OpenLock
  <1> QED BY <1>1, <1>2, <1>3

\* A bound instance may skip the reconciliation.
LEMMA SaveOwnInv ==
    ASSUME LedgerInv, NEW i \in Instances, SaveOwn(i)
    PROVE  LedgerInv'
  <1> USE DEF LedgerInv
  <1>1. TypeOK'
    BY SentinelAssumption DEF TypeOK, SaveOwn
  <1>2. ASSUME NEW j \in Instances
        PROVE  (CallInv(j) /\ BindingInv(j) /\ WellFormed(mem[j]))'
    BY SentinelAssumption DEF TypeOK, CallInv, BindingInv, SaveOwn
  <1>3. ASSUME NEW p \in Paths
        PROVE  FileInv(p)'
    BY SentinelAssumption DEF TypeOK, FileInv, SaveOwn
  <1> QED BY <1>1, <1>2, <1>3

\* What a vanishing instance held was its own.
LEMMA VanishInv ==
    ASSUME LedgerInv, NEW i \in Instances, Vanish(i)
    PROVE  LedgerInv'
  <1> USE DEF LedgerInv
  <1>1. TypeOK'
    BY EmptyWellFormed, SentinelAssumption DEF TypeOK, Vanish
  <1>2. ASSUME NEW j \in Instances
        PROVE  (CallInv(j) /\ BindingInv(j) /\ WellFormed(mem[j]))'
    BY EmptyWellFormed, SentinelAssumption DEF TypeOK, CallInv, BindingInv, Vanish
  <1>3. ASSUME NEW p \in Paths
        PROVE  FileInv(p)'
    BY SentinelAssumption DEF TypeOK, FileInv, Vanish
  <1> QED BY <1>1, <1>2, <1>3

\* An instance that finds no file binds to it with a history that extends it.
LEMMA BindCheckInv ==
    ASSUME LedgerInv, NEW i \in Instances, BindCheck(i)
    PROVE  LedgerInv'
  <1>1. CASE Vanish(i)
    BY <1>1, VanishInv
  <1>2. CASE ~ Vanish(i)
    <2> USE DEF LedgerInv
    <2>1. /\ phase[i] = "binding" /\ disk[target[i]] = NoFile
          /\ path' = [path EXCEPT ![i] = target[i]]
          /\ phase' = [phase EXCEPT ![i] = "ready"]
          /\ UNCHANGED <<disk, stable, lock, target, mem, acked>>
      BY <1>2 DEF BindCheck
    <2>2. IsPrefix(History(disk[target[i]]), mem[i].events)
      <3>1. mem[i].events \in Seq(Event)
        BY DEF TypeOK, Image
      <3> QED BY <2>1, <3>1, PrefixEmpty DEF History
    <2>3. TypeOK'
      BY <2>1 DEF TypeOK
    <2>4. ASSUME NEW j \in Instances
          PROVE  (CallInv(j) /\ BindingInv(j) /\ WellFormed(mem[j]))'
      BY <2>1, <2>2, SentinelAssumption DEF TypeOK, CallInv, BindingInv
    <2>5. ASSUME NEW p \in Paths
          PROVE  FileInv(p)'
      BY <2>1 DEF FileInv
    <2> QED BY <2>3, <2>4, <2>5
  <1> QED BY <1>1, <1>2

\* A loaded history is the file's own.
LEMMA LoadReadInv ==
    ASSUME LedgerInv, NEW i \in Instances, LoadRead(i)
    PROVE  LedgerInv'
  <1>1. CASE Vanish(i)
    BY <1>1, VanishInv
  <1>2. CASE ~ Vanish(i)
    <2> USE DEF LedgerInv
    <2>1. /\ phase[i] = "loading" /\ Loadable(disk[target[i]])
          /\ mem' = [mem EXCEPT ![i] = disk[target[i]]]
          /\ path' = [path EXCEPT ![i] = target[i]]
          /\ phase' = [phase EXCEPT ![i] = "ready"]
          /\ UNCHANGED <<disk, stable, lock, target, acked>>
      BY <1>2 DEF LoadRead
    <2>2. /\ disk[target[i]] \in Image /\ WellFormed(disk[target[i]])
          /\ disk[target[i]] # NoFile
      BY <2>1 DEF Loadable, TypeOK, CallInv
    <2>3. IsPrefix(History(disk[target[i]]), disk[target[i]].events)
      <3>1. disk[target[i]].events \in Seq(Event)
        BY <2>2 DEF Image
      <3> QED BY <2>2, <3>1, PrefixReflexive DEF History
    <2>4. TypeOK'
      BY <2>1, <2>2 DEF TypeOK
    <2>5. ASSUME NEW j \in Instances
          PROVE  (CallInv(j) /\ BindingInv(j) /\ WellFormed(mem[j]))'
      BY <2>1, <2>2, <2>3, SentinelAssumption DEF TypeOK, CallInv, BindingInv
    <2>6. ASSUME NEW p \in Paths
          PROVE  FileInv(p)'
      BY <2>1 DEF FileInv
    <2> QED BY <2>4, <2>5, <2>6
  <1> QED BY <1>1, <1>2

\* A read-only copy binds nothing.
LEMMA LoadReadOnlyInv ==
    ASSUME LedgerInv, NEW i \in Instances, NEW q \in Paths, LoadReadOnly(i, q)
    PROVE  LedgerInv'
  <1> USE DEF LedgerInv
  <1>1. TypeOK'
    BY SentinelAssumption DEF TypeOK, LoadReadOnly, Loadable
  <1>2. ASSUME NEW j \in Instances
        PROVE  (CallInv(j) /\ BindingInv(j) /\ WellFormed(mem[j]))'
    BY SentinelAssumption DEF TypeOK, CallInv, BindingInv, LoadReadOnly, Loadable
  <1>3. ASSUME NEW p \in Paths
        PROVE  FileInv(p)'
    BY SentinelAssumption DEF TypeOK, FileInv, LoadReadOnly, Loadable
  <1> QED BY <1>1, <1>2, <1>3

\* An event enters memory: a bound instance's history still extends its file.
LEMMA RecordInv ==
    ASSUME LedgerInv, NEW i \in Instances, NEW t \in Trials,
           NEW k \in EventKinds, NEW r \in Results \cup {NoResult},
           Record(i, t, k, r),
           k = "completed" => r # NoResult /\ mem[i].result[t] \in {NoResult, r}
    PROVE  LedgerInv'
  <1> USE DEF LedgerInv
  <1> DEFINE x == Extended(mem[i], t, k, r)
  <1>1. mem[i] \in Image /\ mem[i].events \in Seq(Event) /\ WellFormed(mem[i])
    BY DEF TypeOK, Image
  <1>2. /\ phase[i] = "ready"
        /\ Registrable(mem[i], t)
        /\ mem' = [mem EXCEPT ![i] = x]
        /\ target' = [target EXCEPT ![i] = path[i]]
        /\ phase' = [phase EXCEPT ![i] = IF path[i] = NoPath THEN "ready" ELSE "writing"]
        /\ UNCHANGED <<disk, stable, lock, path, acked>>
    BY DEF Record
  <1>3. x \in Image /\ WellFormed(x)
    BY <1>1, <1>2, ExtendedImage, ExtendedWellFormed
  <1>4. path[i] # NoPath => IsPrefix(History(disk[path[i]]), x.events)
    <2>1. SUFFICES ASSUME path[i] # NoPath
                   PROVE  IsPrefix(History(disk[path[i]]), x.events)
      OBVIOUS
    <2>2. /\ History(disk[path[i]]) \in Seq(Event)
          /\ IsPrefix(History(disk[path[i]]), mem[i].events)
      BY <2>1, HistoryType DEF TypeOK, BindingInv
    <2>3. /\ x.events = Append(mem[i].events, [trial |-> t, kind |-> k, result |-> r])
          /\ [trial |-> t, kind |-> k, result |-> r] \in Event
      BY <1>1, ExtendedImage
    <2> QED BY <1>1, <2>2, <2>3, PrefixAppend
  <1> HIDE DEF x
  <1>5. TypeOK'
    BY <1>2, <1>3 DEF TypeOK
  <1>6. ASSUME NEW j \in Instances
        PROVE  (CallInv(j) /\ BindingInv(j) /\ WellFormed(mem[j]))'
    BY <1>2, <1>3, <1>4, SentinelAssumption DEF TypeOK, CallInv, BindingInv
  <1>7. ASSUME NEW p \in Paths
        PROVE  FileInv(p)'
    BY <1>2 DEF FileInv
  <1> QED BY <1>5, <1>6, <1>7

\* The end of a call that changes no file releases at most the lock it took.
LEMMA EndSaveInv ==
    ASSUME LedgerInv, NEW i \in Instances,
           phase[i] \in {"reconciling", "writing", "replaced"},
           EndSave(i), UNCHANGED <<disk, stable, path, mem, acked>>
    PROVE  LedgerInv'
  <1> USE DEF LedgerInv
  <1>1. TypeOK'
    BY DEF TypeOK, CallInv, EndSave
  <1>2. ASSUME NEW j \in Instances
        PROVE  (CallInv(j) /\ BindingInv(j) /\ WellFormed(mem[j]))'
    BY SentinelAssumption DEF TypeOK, CallInv, BindingInv, EndSave
  <1>3. ASSUME NEW p \in Paths
        PROVE  FileInv(p)'
    BY DEF FileInv
  <1> QED BY <1>1, <1>2, <1>3

\* A target that is not a prefix is left alone; one that is may be replaced.
LEMMA ReconcileInv ==
    ASSUME LedgerInv, NEW i \in Instances, Reconcile(i)
    PROVE  LedgerInv'
  <1>1. CASE EndSave(i)
    BY <1>1, EndSaveInv DEF Reconcile
  <1>2. CASE ~ EndSave(i)
    <2> USE DEF LedgerInv
    <2>1. /\ phase[i] = "reconciling"
          /\ Extends(i, disk[target[i]])
          /\ phase' = [phase EXCEPT ![i] = "writing"]
          /\ UNCHANGED <<disk, stable, lock, path, target, mem, acked>>
      BY <1>2 DEF Reconcile
    <2>2. IsPrefix(History(disk[target[i]]), mem[i].events)
      <3>1. mem[i].events \in Seq(Event)
        BY DEF TypeOK, Image
      <3> QED BY <2>1, <3>1, PrefixEmpty DEF Extends, History
    <2>3. TypeOK'
      BY <2>1 DEF TypeOK
    <2>4. ASSUME NEW j \in Instances
          PROVE  (CallInv(j) /\ BindingInv(j) /\ WellFormed(mem[j]))'
      BY <2>1, <2>2 DEF TypeOK, CallInv, BindingInv
    <2>5. ASSUME NEW p \in Paths
          PROVE  FileInv(p)'
      BY <2>1 DEF FileInv
    <2> QED BY <2>3, <2>4, <2>5
  <1> QED BY <1>1, <1>2

\* os.replace publishes an extension of the file, and no other instance is
\* bound to the file or at work on it.
LEMMA ReplaceInv ==
    ASSUME LedgerInv, NEW i \in Instances, Replace(i)
    PROVE  LedgerInv'
  <1> USE DEF LedgerInv
  <1>1. /\ phase[i] = "writing" /\ target[i] \in Paths /\ lock[target[i]] = i
        /\ IsPrefix(History(disk[target[i]]), mem[i].events)
        /\ disk' = [disk EXCEPT ![target[i]] = mem[i]]
        /\ phase' = [phase EXCEPT ![i] = "replaced"]
        /\ UNCHANGED <<stable, lock, path, target, mem, acked>>
    BY DEF Replace, CallInv
  <1>2. /\ mem[i] \in Image /\ mem[i] # NoFile /\ mem[i].events \in Seq(Event)
        /\ WellFormed(mem[i]) /\ History(mem[i]) = mem[i].events
    BY NoFileAssumption DEF TypeOK, Image, History
  <1>3. IsPrefix(mem[i].events, mem[i].events)
    BY <1>2, PrefixReflexive
  <1>4. TypeOK'
    BY <1>1, <1>2 DEF TypeOK
  <1>5. ASSUME NEW j \in Instances
        PROVE  (CallInv(j) /\ BindingInv(j) /\ WellFormed(mem[j]))'
    <2>1. CASE j = i
      BY <1>1, <1>2, <1>3, <2>1 DEF TypeOK, CallInv, BindingInv
    <2>2. CASE j # i
      BY <1>1, <2>2 DEF TypeOK, CallInv, BindingInv
    <2> QED BY <2>1, <2>2
  <1>6. ASSUME NEW p \in Paths
        PROVE  FileInv(p)'
    <2>1. CASE p = target[i]
      <3>1. IsPrefix(History(stable[p]), mem[i].events)
        <4>1. History(stable[p]) \in Seq(Event) /\ History(disk[p]) \in Seq(Event)
          BY HistoryType DEF TypeOK
        <4> QED BY <1>1, <1>2, <2>1, <4>1, PrefixTransitive DEF FileInv
      <3> QED BY <1>1, <1>2, <2>1, <3>1 DEF TypeOK, FileInv
    <2>2. CASE p # target[i]
      BY <1>1, <2>2 DEF TypeOK, FileInv
    <2> QED BY <2>1, <2>2
  <1> QED BY <1>4, <1>5, <1>6

\* Once the directory is synced, what the call acknowledges is stable.
LEMMA SyncDirInv ==
    ASSUME LedgerInv, NEW i \in Instances, SyncDir(i)
    PROVE  LedgerInv'
  <1> USE DEF LedgerInv
  <1>1. /\ phase[i] = "replaced" /\ target[i] \in Paths
        /\ disk[target[i]] = mem[i]
        /\ stable' = [stable EXCEPT ![target[i]] = disk[target[i]]]
        /\ acked' = [acked EXCEPT ![target[i]] = mem[i].events]
        /\ EndSave(i)
        /\ UNCHANGED <<disk, path, mem>>
    BY DEF SyncDir, CallInv
  <1>2. /\ mem[i] \in Image /\ mem[i] # NoFile /\ mem[i].events \in Seq(Event)
        /\ WellFormed(mem[i]) /\ History(mem[i]) = mem[i].events
    BY NoFileAssumption DEF TypeOK, Image, History
  <1>3. IsPrefix(mem[i].events, mem[i].events)
    BY <1>2, PrefixReflexive
  <1>4. TypeOK'
    BY <1>1, <1>2 DEF TypeOK, EndSave
  <1>5. ASSUME NEW j \in Instances
        PROVE  (CallInv(j) /\ BindingInv(j) /\ WellFormed(mem[j]))'
    BY <1>1, SentinelAssumption DEF TypeOK, CallInv, BindingInv, EndSave
  <1>6. ASSUME NEW p \in Paths
        PROVE  FileInv(p)'
    BY <1>1, <1>2, <1>3 DEF TypeOK, FileInv
  <1> QED BY <1>4, <1>5, <1>6

\* Unbinding gives up the lock and the promise together.
LEMMA CloseInv ==
    ASSUME LedgerInv, NEW i \in Instances, Close(i)
    PROVE  LedgerInv'
  <1> USE DEF LedgerInv
  <1>1. TypeOK'
    BY SentinelAssumption DEF TypeOK, Close
  <1>2. ASSUME NEW j \in Instances
        PROVE  (CallInv(j) /\ BindingInv(j) /\ WellFormed(mem[j]))'
    BY SentinelAssumption DEF TypeOK, CallInv, BindingInv, Close
  <1>3. ASSUME NEW p \in Paths
        PROVE  FileInv(p)'
    BY SentinelAssumption DEF TypeOK, FileInv, Close
  <1> QED BY <1>1, <1>2, <1>3

\* The kernel's write-back makes the file's own history stable.
LEMMA FlushInv ==
    ASSUME LedgerInv, NEW q \in Paths, Flush(q)
    PROVE  LedgerInv'
  <1> USE DEF LedgerInv
  <1>1. TypeOK'
    BY DEF TypeOK, Flush
  <1>2. ASSUME NEW j \in Instances
        PROVE  (CallInv(j) /\ BindingInv(j) /\ WellFormed(mem[j]))'
    BY DEF CallInv, BindingInv, Flush
  <1>3. ASSUME NEW p \in Paths
        PROVE  FileInv(p)'
    <2>1. /\ acked[p] \in Seq(Event)
          /\ History(stable[p]) \in Seq(Event) /\ History(disk[p]) \in Seq(Event)
      BY HistoryType DEF TypeOK
    <2>2. /\ IsPrefix(acked[p], History(disk[p]))
          /\ IsPrefix(History(disk[p]), History(disk[p]))
      BY <2>1, PrefixTransitive, PrefixReflexive DEF FileInv
    <2> QED BY <2>2 DEF TypeOK, FileInv, Flush
  <1> QED BY <1>1, <1>2, <1>3

\* A machine crash brings back what was stable, and no instance survives it.
LEMMA MachineCrashInv ==
    ASSUME LedgerInv, MachineCrash
    PROVE  LedgerInv'
  <1> USE DEF LedgerInv
  <1>1. TypeOK'
    BY EmptyWellFormed DEF TypeOK, MachineCrash
  <1>2. ASSUME NEW j \in Instances
        PROVE  (CallInv(j) /\ BindingInv(j) /\ WellFormed(mem[j]))'
    BY EmptyWellFormed DEF CallInv, BindingInv, MachineCrash
  <1>3. ASSUME NEW p \in Paths
        PROVE  FileInv(p)'
    <2>1. IsPrefix(History(stable[p]), History(stable[p]))
      <3>1. History(stable[p]) \in Seq(Event)
        BY HistoryType DEF TypeOK
      <3> QED BY <3>1, PrefixReflexive
    <2> QED BY <2>1 DEF FileInv, MachineCrash
  <1> QED BY <1>1, <1>2, <1>3

-----------------------------------------------------------------------------
(* The theorems *)

\* Every step of every instance, of the kernel and of the machine.
LEMMA NextInv == LedgerInv /\ [Next]_vars => LedgerInv'
  <1> SUFFICES ASSUME LedgerInv, [Next]_vars PROVE LedgerInv'
    OBVIOUS
  <1>1. ASSUME NEW i \in Instances, Call(i) PROVE LedgerInv'
    <2>1. CASE NewUnbound(i) BY <2>1, NewUnboundInv
    <2>2. CASE SaveOwn(i) BY <2>2, SaveOwnInv
    <2>3. CASE Close(i) BY <2>3, CloseInv
    <2>4. ASSUME NEW p \in Paths, BindFresh(i, p) PROVE LedgerInv'
      BY <2>4, BindFreshInv
    <2>5. ASSUME NEW p \in Paths, LoadBound(i, p) PROVE LedgerInv'
      BY <2>5, LoadBoundInv
    <2>6. ASSUME NEW p \in Paths, LoadReadOnly(i, p) PROVE LedgerInv'
      BY <2>6, LoadReadOnlyInv
    <2>7. ASSUME NEW p \in Paths, SaveElsewhere(i, p) PROVE LedgerInv'
      BY <2>7, SaveElsewhereInv
    <2>8. ASSUME NEW t \in Trials, RecordStart(i, t) PROVE LedgerInv'
      BY <2>8, RecordInv DEF RecordStart, EventKinds
    <2>9. ASSUME NEW t \in Trials, RecordAbort(i, t) PROVE LedgerInv'
      BY <2>9, RecordInv DEF RecordAbort, EventKinds
    <2>10. ASSUME NEW t \in Trials, NEW r \in Results, RecordCompletion(i, t, r)
           PROVE  LedgerInv'
      BY <2>10, RecordInv, SentinelAssumption DEF RecordCompletion, EventKinds
    <2> QED BY <1>1, <2>1, <2>2, <2>3, <2>4, <2>5, <2>6, <2>7, <2>8, <2>9, <2>10
            DEF Call
  <1>2. ASSUME NEW i \in Instances, CallStep(i) PROVE LedgerInv'
    <2>1. CASE BindCheck(i) BY <2>1, BindCheckInv
    <2>2. CASE LoadRead(i) BY <2>2, LoadReadInv
    <2>3. CASE Reconcile(i) BY <2>3, ReconcileInv
    <2>4. CASE Replace(i) BY <2>4, ReplaceInv
    <2>5. CASE WriteFails(i) BY <2>5, EndSaveInv DEF WriteFails
    <2>6. CASE SyncDir(i) BY <2>6, SyncDirInv
    <2>7. CASE SyncDirFails(i) BY <2>7, EndSaveInv DEF SyncDirFails
    <2> QED BY <1>2, <2>1, <2>2, <2>3, <2>4, <2>5, <2>6, <2>7 DEF CallStep
  <1>3. ASSUME NEW i \in Instances, Die(i) PROVE LedgerInv'
    BY <1>3, VanishInv DEF Die
  <1>4. ASSUME NEW p \in Paths, Flush(p) PROVE LedgerInv'
    BY <1>4, FlushInv
  <1>5. CASE MachineCrash BY <1>5, MachineCrashInv
  <1>6. CASE UNCHANGED vars
    BY <1>6 DEF vars, LedgerInv, TypeOK, CallInv, BindingInv, FileInv
  <1> QED BY <1>1, <1>2, <1>3, <1>4, <1>5, <1>6 DEF Next

\* The inductive invariant holds of every behaviour.
THEOREM LedgerInvariant == Spec => []LedgerInv
  <1>1. Init => LedgerInv
    BY InitInv
  <1>2. LedgerInv /\ [Next]_vars => LedgerInv'
    BY NextInv
  <1> QED BY <1>1, <1>2, PTL DEF Spec

\* Every variable keeps its type.
THEOREM TypeCorrect == Spec => []TypeOK
  <1>1. LedgerInv => TypeOK
    BY DEF LedgerInv
  <1> QED BY <1>1, LedgerInvariant, PTL

\* No instance is bound to a file, or writes one, without the file's lock.
THEOREM WritersExcludeEachOther == Spec => []WriterHoldsLock
  <1>1. LedgerInv => WriterHoldsLock
    BY DEF LedgerInv, CallInv, BindingInv, WriterHoldsLock
  <1> QED BY <1>1, LedgerInvariant, PTL

\* A bound instance knows everything its file holds, so that its own saves
\* need no reconciliation.
THEOREM OwnSavesAreSafe == Spec => []BoundExtendsDisk
  <1>1. LedgerInv => BoundExtendsDisk
    BY DEF LedgerInv, BindingInv, BoundExtendsDisk
  <1> QED BY <1>1, LedgerInvariant, PTL

\* The loader accepts every file the ledger ever publishes.
THEOREM EveryFileLoads == Spec => []FilesLoadable
  <1>1. LedgerInv => FilesLoadable
    BY DEF LedgerInv, FileInv, FilesLoadable
  <1> QED BY <1>1, LedgerInvariant, PTL

\* What a returned call wrote survives every crash.
THEOREM ReturnedCallsAreDurable == Spec => []AckedIsStable
  <1>1. LedgerInv => AckedIsStable
    BY DEF LedgerInv, FileInv, AckedIsStable
  <1> QED BY <1>1, LedgerInvariant, PTL

\* The stable copy of a file changes only to the file's present content.
LEMMA StableStep ==
    ASSUME LedgerInv, [Next]_vars, NEW p \in Paths
    PROVE  stable'[p] = stable[p] \/ stable'[p] = disk[p]
  <1>1. stable \in [Paths -> Image \cup {NoFile}]
    BY DEF LedgerInv, TypeOK
  <1>2. ASSUME NEW i \in Instances, Call(i) PROVE stable' = stable
    BY <1>2 DEF Call, NewUnbound, SaveOwn, Close, BindFresh, LoadBound, LoadReadOnly,
                SaveElsewhere, RecordStart, RecordAbort, RecordCompletion, Record
  <1>3. ASSUME NEW i \in Instances, SyncDir(i)
        PROVE  stable'[p] = stable[p] \/ stable'[p] = disk[p]
    BY <1>1, <1>3 DEF SyncDir
  <1>4. ASSUME NEW i \in Instances, CallStep(i), ~ SyncDir(i) PROVE stable' = stable
    BY <1>4 DEF CallStep, BindCheck, LoadRead, Reconcile, Replace, WriteFails,
                SyncDirFails, Vanish
  <1>5. ASSUME NEW i \in Instances, Die(i) PROVE stable' = stable
    BY <1>5 DEF Die, Vanish
  <1>6. ASSUME NEW q \in Paths, Flush(q)
        PROVE  stable'[p] = stable[p] \/ stable'[p] = disk[p]
    BY <1>1, <1>6 DEF Flush
  <1>7. CASE MachineCrash BY <1>7 DEF MachineCrash
  <1>8. CASE UNCHANGED vars BY <1>8 DEF vars
  <1> QED BY <1>2, <1>3, <1>4, <1>5, <1>6, <1>7, <1>8 DEF Next

\* The durable history of a file only grows.
THEOREM DurableHistoryGrows == Spec => StableAppendOnly
  <1>1. ASSUME LedgerInv, [Next]_vars, NEW p \in Paths
        PROVE  IsPrefix(History(stable[p]), History(stable'[p]))
    <2>1. History(stable[p]) \in Seq(Event)
      BY <1>1, HistoryType DEF LedgerInv, TypeOK
    <2>2. IsPrefix(History(stable[p]), History(stable[p]))
      BY <2>1, PrefixReflexive
    <2>3. IsPrefix(History(stable[p]), History(disk[p]))
      BY <1>1 DEF LedgerInv, FileInv
    <2> QED BY <1>1, <2>2, <2>3, StableStep
  <1>2. LedgerInv /\ [Next]_vars =>
           [\A p \in Paths : IsPrefix(History(stable[p]), History(stable'[p]))]_vars
    BY <1>1
  <1> QED BY <1>2, LedgerInvariant, PTL DEF Spec, StableAppendOnly

\* A durable identity stays, and a durable result is never replaced.
LEMMA StableKept ==
    ASSUME LedgerInv, [Next]_vars, NEW p \in Paths, stable[p] # NoFile
    PROVE  /\ stable'[p] # NoFile
           /\ stable[p].known \subseteq stable'[p].known
           /\ \A t \in Trials : stable[p].result[t] # NoResult =>
                 stable'[p].result[t] = stable[p].result[t]
  <1>1. CASE stable'[p] = stable[p]
    BY <1>1
  <1>2. CASE stable'[p] = disk[p]
    <2>1. /\ disk[p] # NoFile /\ disk[p] \in Image /\ stable[p] \in Image
          /\ WellFormed(disk[p]) /\ WellFormed(stable[p])
          /\ IsPrefix(History(stable[p]), History(disk[p]))
      BY DEF LedgerInv, TypeOK, FileInv
    <2>2. IsPrefix(stable[p].events, disk[p].events)
      BY <2>1 DEF History
    <2> QED BY <1>2, <2>1, <2>2, OutcomesFollowHistory
  <1> QED BY <1>1, <1>2, StableStep

\* No step changes an outcome or drops an identity that is durable.
THEOREM OutcomesAreImmutable == Spec => OutcomesImmutable
  <1> DEFINE Kept(p) ==
        stable[p] # NoFile =>
          /\ stable'[p] # NoFile
          /\ stable[p].known \subseteq stable'[p].known
          /\ \A t \in Trials : stable[p].result[t] # NoResult =>
                stable'[p].result[t] = stable[p].result[t]
  <1>1. LedgerInv /\ [Next]_vars => [\A p \in Paths : Kept(p)]_vars
    BY StableKept
  <1> QED BY <1>1, LedgerInvariant, PTL DEF Spec, OutcomesImmutable

-----------------------------------------------------------------------------
(* Refinement *)

\* A call that touches neither the files nor the acknowledgements is invisible
\* to the log's clients.
LEMMA QuietSteps ==
    ASSUME NEW i \in Instances,
           Call(i) \/ Die(i) \/ (CallStep(i) /\ ~ Replace(i) /\ ~ SyncDir(i))
    PROVE  disk' = disk /\ acked' = acked
  <1>1. CASE Call(i)
    BY <1>1 DEF Call, NewUnbound, SaveOwn, Close, BindFresh, LoadBound, LoadReadOnly,
                SaveElsewhere, RecordStart, RecordAbort, RecordCompletion, Record
  <1>2. CASE Die(i) BY <1>2 DEF Die, Vanish
  <1>3. CASE CallStep(i) /\ ~ Replace(i) /\ ~ SyncDir(i)
    BY <1>3 DEF CallStep, BindCheck, LoadRead, Reconcile, WriteFails, SyncDirFails,
                Vanish
  <1> QED BY <1>1, <1>2, <1>3

\* Every step of the ledger is a step of the durable log or a stutter.
LEMMA LogStep == LedgerInv /\ [Next]_vars => [Log!Next]_<<LogOf, acked>>
  <1> SUFFICES ASSUME LedgerInv, [Next]_vars PROVE [Log!Next]_<<LogOf, acked>>
    OBVIOUS
  <1>1. TypeOK
    BY DEF LedgerInv
  <1>2. CASE disk' = disk /\ acked' = acked
    BY <1>2 DEF LogOf
  <1>3. ASSUME NEW i \in Instances, Replace(i) PROVE Log!Next
    <2>1. /\ target[i] \in Paths /\ IsPrefix(History(disk[target[i]]), mem[i].events)
          /\ disk' = [disk EXCEPT ![target[i]] = mem[i]] /\ acked' = acked
          /\ mem[i] # NoFile
      BY <1>1, <1>3, NoFileAssumption DEF Replace, LedgerInv, CallInv, TypeOK
    <2>2. /\ LogOf[target[i]] = History(disk[target[i]])
          /\ LogOf'[target[i]] = mem[i].events
          /\ LogOf' = [LogOf EXCEPT ![target[i]] = LogOf'[target[i]]]
      BY <1>1, <2>1 DEF LogOf, History, TypeOK
    <2>3. IsPrefix(LogOf[target[i]], LogOf'[target[i]])
      BY <2>1, <2>2
    <2>4. Log!Grow(target[i])
      BY <2>1, <2>2, <2>3 DEF Log!Grow, Log!IsPrefix, IsPrefix
    <2> QED BY <2>1, <2>4 DEF Log!Next
  <1>4. ASSUME NEW i \in Instances, SyncDir(i) PROVE Log!Next
    <2>1. /\ target[i] \in Paths /\ disk[target[i]] = mem[i] /\ mem[i] # NoFile
          /\ acked' = [acked EXCEPT ![target[i]] = mem[i].events] /\ disk' = disk
      BY <1>1, <1>4, NoFileAssumption DEF SyncDir, LedgerInv, CallInv, TypeOK
    <2>2. LogOf[target[i]] = mem[i].events /\ LogOf' = LogOf
      BY <2>1 DEF LogOf, History
    <2>3. Log!Acknowledge(target[i])
      BY <2>1, <2>2 DEF Log!Acknowledge
    <2> QED BY <2>1, <2>3 DEF Log!Next
  <1>5. CASE MachineCrash
    <2>1. disk' = stable /\ acked' = acked
      BY <1>5 DEF MachineCrash
    <2>2. /\ DOMAIN LogOf' = Paths
          /\ \A p \in Paths : /\ LogOf'[p] = History(stable[p])
                              /\ LogOf[p] = History(disk[p])
      BY <2>1 DEF LogOf
    <2>3. \A p \in Paths : /\ IsPrefix(acked[p], LogOf'[p])
                           /\ IsPrefix(LogOf'[p], LogOf[p])
      BY <2>2 DEF LedgerInv, FileInv
    <2>4. Log!Crash
      BY <2>1, <2>2, <2>3 DEF Log!Crash, Log!IsPrefix, IsPrefix
    <2> QED BY <2>4 DEF Log!Next
  <1>6. ASSUME NEW p \in Paths, Flush(p) PROVE disk' = disk /\ acked' = acked
    BY <1>6 DEF Flush
  <1>7. CASE UNCHANGED vars BY <1>2, <1>7 DEF vars
  <1> QED BY <1>2, <1>3, <1>4, <1>5, <1>6, <1>7, QuietSteps DEF Next

\* The ledger keeps the promise of its class docstring: it is a durable log.
THEOREM LedgerIsDurableLog == Spec => ImplementsDurableLog
  <1>1. Init => Log!Init
    BY DEF Init, Log!Init, LogOf, History
  <1>2. LedgerInv /\ [Next]_vars => [Log!Next]_<<LogOf, acked>>
    BY LogStep
  <1> QED BY <1>1, <1>2, LedgerInvariant, PTL DEF Spec, ImplementsDurableLog, Log!Spec

-----------------------------------------------------------------------------
(* The development driver *)

Terminal == {"aborted", "completed"}

\* The last event of a trial in a history is a terminal one.
SettledIn(h, t) ==
    \E n \in DOMAIN h :
        /\ h[n].trial = t /\ h[n].kind \in Terminal
        /\ \A m \in DOMAIN h : h[m].trial = t => m <= n

\* Where a process is inside its run, and in which call of the ledger.
CallOf(i) ==
    /\ pc[i] = "opening" =>
          phase[i] \in {"binding", "loading"} /\ target[i] = LedgerPath
    /\ pc[i] \in {"ladder", "fitting", "done"} =>
          phase[i] = "ready" /\ path[i] = LedgerPath
    /\ pc[i] \in {"starting", "recording"} =>
          /\ phase[i] \in {"writing", "replaced"}
          /\ path[i] = LedgerPath /\ target[i] = LedgerPath

\* How far it is: the trial it works on is in its history, and every trial it
\* has passed is settled there, unless it is working on the same one again.
\* Between two calls, its history is what is stable.
ProgressOf(i) ==
    /\ cursor[i] \in 1 .. Len(Ladder[i]) + 1
    /\ pc[i] = "opening" => cursor[i] = 1
    /\ pc[i] = "done" => cursor[i] = Len(Ladder[i]) + 1
    /\ pc[i] \in {"starting", "fitting", "recording"} =>
          cursor[i] \in DOMAIN Ladder[i] /\ Ladder[i][cursor[i]] \in mem[i].known
    /\ pc[i] \in {"ladder", "done"} /\ cursor[i] > 1 => stable[LedgerPath] = mem[i]
    /\ pc[i] = "recording" => SettledIn(mem[i].events, Ladder[i][cursor[i]])
    /\ pc[i] \in {"ladder", "starting", "fitting", "recording", "done"} =>
          \A n \in DOMAIN Ladder[i] : n < cursor[i] =>
              \/ SettledIn(mem[i].events, Ladder[i][n])
              \/ /\ pc[i] \in {"starting", "fitting"}
                 /\ Ladder[i][n] = Ladder[i][cursor[i]]

\* Every attempt is durable.
AttemptsAreStable ==
    \A t \in attempted : stable[LedgerPath] # NoFile /\ t \in stable[LedgerPath].known

DriverInv ==
    /\ LedgerInv
    /\ DOMAIN pc = Instances /\ DOMAIN cursor = Instances
    /\ \A i \in Instances : CallOf(i) /\ ProgressOf(i)
    /\ AttemptsAreStable

-----------------------------------------------------------------------------
(* Histories *)

\* A terminal event settles its trial; an event of another trial unsettles none.
LEMMA SettledAppend ==
    ASSUME NEW h \in Seq(Event), NEW e \in Event
    PROVE  /\ \A t : SettledIn(h, t) /\ e.trial # t => SettledIn(Append(h, e), t)
           /\ e.kind \in Terminal => SettledIn(Append(h, e), e.trial)
  <1> DEFINE x == Append(h, e)
             L == Len(h)
  <1>1. /\ L \in Nat /\ DOMAIN h = 1 .. L /\ DOMAIN x = 1 .. L + 1
        /\ x[L + 1] = e /\ \A n \in 1 .. L : x[n] = h[n]
    OBVIOUS
  <1> HIDE DEF x
  <1>2. ASSUME NEW t, SettledIn(h, t), e.trial # t
        PROVE  SettledIn(x, t)
    <2>1. PICK n \in 1 .. L : /\ h[n].trial = t /\ h[n].kind \in Terminal
                              /\ \A m \in 1 .. L : h[m].trial = t => m <= n
      BY <1>1, <1>2 DEF SettledIn
    <2>2. \A m \in 1 .. L + 1 : x[m].trial = t => m <= n
      BY <1>1, <1>2, <2>1
    <2>3. n \in DOMAIN x /\ x[n].trial = t /\ x[n].kind \in Terminal
      BY <1>1, <2>1
    <2> QED BY <1>1, <2>2, <2>3 DEF SettledIn
  <1>3. ASSUME e.kind \in Terminal
        PROVE  SettledIn(x, e.trial)
    <2>1. L + 1 \in DOMAIN x /\ \A m \in DOMAIN x : m <= L + 1
      BY <1>1
    <2> QED BY <1>1, <1>3, <2>1 DEF SettledIn
  <1> QED BY <1>2, <1>3 DEF x

\* The last event of a settled trial is unique, and terminal.
LEMMA SettledLast ==
    ASSUME NEW h \in Seq(Event), NEW t, SettledIn(h, t)
    PROVE  /\ \E m \in DOMAIN h : h[m].trial = t
           /\ LastKind(h, t) \in {"aborted", "completed"}
  <1> DEFINE LastRung(n) == h[n].trial = t /\ \A m \in DOMAIN h : h[m].trial = t => m <= n
             c == CHOOSE n \in DOMAIN h : LastRung(n)
  <1>1. DOMAIN h = 1 .. Len(h) /\ Len(h) \in Nat
    OBVIOUS
  <1>2. PICK n \in DOMAIN h : LastRung(n) /\ h[n].kind \in Terminal
    BY DEF SettledIn
  <1>3. c \in DOMAIN h /\ LastRung(c)
    BY <1>2
  <1>4. c <= n /\ n <= c
    BY <1>2, <1>3
  <1>5. c = n
    BY <1>1, <1>2, <1>3, <1>4
  <1>6. LastKind(h, t) = h[c].kind
    BY DEF LastKind
  <1> QED BY <1>2, <1>5, <1>6 DEF Terminal

\* What a record_* call adds to the history in memory.
LEMMA RecordSettles ==
    ASSUME LedgerInv, NEW i \in Instances, NEW t \in Trials, NEW k \in EventKinds,
           NEW r \in Results \cup {NoResult}, Record(i, t, k, r)
    PROVE  /\ t \in mem'[i].known /\ mem[i].known \subseteq mem'[i].known
           /\ \A u : SettledIn(mem[i].events, u) /\ u # t => SettledIn(mem'[i].events, u)
           /\ k \in Terminal => SettledIn(mem'[i].events, t)
  <1> DEFINE e == [trial |-> t, kind |-> k, result |-> r]
  <1>1. mem[i] \in Image /\ mem'[i] = Extended(mem[i], t, k, r)
    BY DEF Record, LedgerInv, TypeOK
  <1>2. /\ mem'[i].events = Append(mem[i].events, e) /\ e \in Event
        /\ mem[i].events \in Seq(Event)
    BY <1>1, ExtendedImage DEF Image
  <1>3. mem'[i].known = mem[i].known \cup {t}
    BY <1>1 DEF Extended
  <1>4. e.trial = t /\ e.kind = k
    OBVIOUS
  <1> HIDE DEF e
  <1> QED BY <1>2, <1>3, <1>4, SettledAppend

-----------------------------------------------------------------------------
(* Steps *)

\* The driver acts on the ledger through its calls only.
LEMMA DriverStepsAreLedgerSteps == DriverInv /\ [DevNext]_allVars => [Next]_vars
  <1> SUFFICES ASSUME DriverInv, [DevNext]_allVars PROVE [Next]_vars
    OBVIOUS
  <1>0. \A i \in Instances : cursor[i] \in Nat
    BY DEF DriverInv, ProgressOf
  <1>1. ASSUME NEW i \in Instances, OpenLedger(i) PROVE Next
    BY <1>1, LadderAssumption DEF OpenLedger, Next, Call
  <1>2. ASSUME NEW i \in Instances, Step(i) PROVE Next \/ UNCHANGED vars
    <2>1. CASE LedgerOpened(i) \/ Persist(i) \/ PersistFails(i) \/ StartReturns(i)
                  \/ RecordReturns(i)
      BY <2>1 DEF LedgerOpened, Persist, PersistFails, StartReturns, RecordReturns,
                  Next, CallStep
    <2>2. CASE StartTrial(i)
      <3>1. cursor[i] \in DOMAIN Ladder[i] /\ Ladder[i] \in Seq(Trials)
        BY <2>2, LadderAssumption DEF StartTrial, DriverInv, ProgressOf
      <3>2. Ladder[i][cursor[i]] \in Trials
        BY <3>1
      <3> QED BY <2>2, <3>2 DEF StartTrial, Next, Call
    <2>3. CASE FitFails(i) \/ \E r \in Results : FitReturns(i, r)
      <3>1. cursor[i] \in DOMAIN Ladder[i] /\ Ladder[i] \in Seq(Trials)
        BY <2>3, LadderAssumption DEF FitFails, FitReturns, DriverInv, ProgressOf
      <3>2. Ladder[i][cursor[i]] \in Trials
        BY <3>1
      <3> QED BY <2>3, <3>2 DEF FitFails, FitReturns, Next, Call
    <2>4. CASE StartRefused(i) \/ RunReturns(i) \/ \E r \in Results : FitConflicts(i, r)
      BY <2>4 DEF StartRefused, RunReturns, FitConflicts
    <2> QED BY <1>2, <2>1, <2>2, <2>3, <2>4 DEF Step
  <1>3. ASSUME NEW i \in Instances, ProcessEnds(i) PROVE Next \/ UNCHANGED vars
    BY <1>3 DEF ProcessEnds, Next
  <1>4. CASE PowerLoss BY <1>4 DEF PowerLoss, Next
  <1>5. CASE UNCHANGED allVars BY <1>5 DEF allVars
  <1> QED BY <1>1, <1>2, <1>3, <1>4, <1>5 DEF DevNext

\* A step of one process leaves every other one where it was, and what is
\* stable of a file another one is bound to.
LEMMA OthersStay ==
    ASSUME DriverInv, NEW i \in Instances, OpenLedger(i) \/ Step(i) \/ ProcessEnds(i),
           NEW j \in Instances, j # i
    PROVE  /\ pc'[j] = pc[j] /\ cursor'[j] = cursor[j]
           /\ phase'[j] = phase[j] /\ path'[j] = path[j] /\ target'[j] = target[j]
           /\ mem'[j] = mem[j]
           /\ path[j] = LedgerPath => stable'[LedgerPath] = stable[LedgerPath]
  <1> USE DEF Goto
  <1>1. /\ DOMAIN pc = Instances /\ DOMAIN cursor = Instances /\ TypeOK
        /\ LedgerPath # NoPath /\ LedgerPath \in Paths
    BY LadderAssumption, SentinelAssumption DEF DriverInv, LedgerInv
  <1>2. CASE OpenLedger(i)
    BY <1>1, <1>2 DEF OpenLedger, BindFresh, LoadBound, OpenLock, TypeOK
  <1>3. CASE LedgerOpened(i)
    BY <1>1, <1>3 DEF LedgerOpened, BindCheck, LoadRead, Vanish, TypeOK
  <1>4. CASE StartTrial(i) \/ FitFails(i) \/ \E r \in Results : FitReturns(i, r)
    BY <1>1, <1>4 DEF StartTrial, FitFails, FitReturns, RecordStart, RecordAbort,
                      RecordCompletion, Record, TypeOK
  <1>5. CASE StartRefused(i) \/ RunReturns(i) \/ \E r \in Results : FitConflicts(i, r)
    BY <1>1, <1>5 DEF StartRefused, RunReturns, FitConflicts, vars
  <1>6. CASE Persist(i) \/ PersistFails(i)
    BY <1>1, <1>6 DEF Persist, PersistFails, Replace, WriteFails, SyncDirFails, EndSave,
                      drvVars, TypeOK
  <1>7. CASE StartReturns(i) \/ RecordReturns(i)
    <2>1. SyncDir(i)
      BY <1>7 DEF StartReturns, RecordReturns
    <2>2. path[j] = LedgerPath => target[i] # LedgerPath
      BY <1>1, <2>1 DEF SyncDir, DriverInv, LedgerInv, CallInv, BindingInv
    <2>3. path[j] = LedgerPath => stable'[LedgerPath] = stable[LedgerPath]
      BY <1>1, <2>1, <2>2 DEF SyncDir, TypeOK
    <2> QED BY <1>1, <1>7, <2>1, <2>3
            DEF StartReturns, RecordReturns, SyncDir, EndSave, TypeOK
  <1>8. CASE ProcessEnds(i)
    BY <1>1, <1>8 DEF ProcessEnds, Die, Vanish, vars, TypeOK
  <1> QED BY <1>2, <1>3, <1>4, <1>5, <1>6, <1>7, <1>8 DEF Step

\* So what is known of every other process stays true.
LEMMA OthersInv ==
    ASSUME DriverInv, NEW i \in Instances, OpenLedger(i) \/ Step(i) \/ ProcessEnds(i),
           NEW j \in Instances, j # i
    PROVE  (CallOf(j) /\ ProgressOf(j))'
  <1>1. CallOf(j) /\ ProgressOf(j)
    BY DEF DriverInv
  <1>2. CallOf(j)'
    BY <1>1, OthersStay DEF CallOf
  <1>3. pc[j] \in {"ladder", "done"} => stable'[LedgerPath] = stable[LedgerPath]
    BY <1>1, OthersStay DEF CallOf
  <1>4. ProgressOf(j)'
    BY <1>1, <1>3, OthersStay DEF ProgressOf
  <1> QED BY <1>2, <1>4

\* A process that opens the ledger has passed no trial.
LEMMA OpeningInv ==
    ASSUME DriverInv, NEW i \in Instances,
           OpenLedger(i) \/ LedgerOpened(i) \/ ProcessEnds(i)
    PROVE  (CallOf(i) /\ ProgressOf(i))'
  <1> USE DEF Goto
  <1>1. /\ DOMAIN pc = Instances /\ DOMAIN cursor = Instances /\ TypeOK
        /\ LedgerPath # NoPath /\ LedgerPath \in Paths /\ Ladder[i] \in Seq(Trials)
        /\ Len(Ladder[i]) \in Nat
        /\ CallOf(i) /\ ProgressOf(i) /\ CallInv(i)
    BY LadderAssumption, SentinelAssumption DEF DriverInv, LedgerInv
  <1>2. CASE OpenLedger(i)
    BY <1>1, <1>2 DEF OpenLedger, BindFresh, LoadBound, OpenLock, TypeOK, CallOf, ProgressOf
  <1>3. CASE LedgerOpened(i)
    BY <1>1, <1>3 DEF LedgerOpened, BindCheck, LoadRead, Vanish, TypeOK, CallOf, ProgressOf
  <1>4. CASE ProcessEnds(i)
    BY <1>1, <1>4 DEF ProcessEnds, CallOf, ProgressOf
  <1> QED BY <1>2, <1>3, <1>4

\* A record_* call: the trial at the cursor is in memory, and settled by an
\* abort or a completion; what was settled before stays so.
LEMMA RecordingInv ==
    ASSUME DriverInv, NEW i \in Instances,
           StartTrial(i) \/ FitFails(i) \/ \E r \in Results : FitReturns(i, r)
    PROVE  (CallOf(i) /\ ProgressOf(i))'
  <1> USE DEF Goto
  <1> DEFINE t == Ladder[i][cursor[i]]
  <1>1. /\ DOMAIN pc = Instances /\ DOMAIN cursor = Instances /\ TypeOK
        /\ LedgerPath # NoPath /\ Ladder[i] \in Seq(Trials) /\ Len(Ladder[i]) \in Nat
        /\ DOMAIN Ladder[i] = 1 .. Len(Ladder[i])
        /\ CallOf(i) /\ ProgressOf(i) /\ LedgerInv
    BY LadderAssumption, SentinelAssumption DEF DriverInv, LedgerInv
  <1>2. cursor[i] \in DOMAIN Ladder[i]
    BY <1>1 DEF StartTrial, FitFails, FitReturns, ProgressOf
  <1>3. t \in Trials
    BY <1>1, <1>2
  <1>4. path[i] = LedgerPath /\ phase[i] = "ready"
    BY <1>1 DEF StartTrial, FitFails, FitReturns, CallOf
  <1>5. cursor' = cursor /\ stable' = stable
    BY DEF StartTrial, FitFails, FitReturns, RecordStart, RecordAbort, RecordCompletion, Record
  <1> HIDE DEF t
  <1>6. CASE StartTrial(i)
    <2>1. Record(i, t, "started", NoResult) /\ pc[i] = "ladder" /\ pc'[i] = "starting"
      BY <1>1, <1>6 DEF StartTrial, RecordStart, t
    <2>2. /\ t \in mem'[i].known
          /\ \A u : SettledIn(mem[i].events, u) /\ u # t => SettledIn(mem'[i].events, u)
      BY <1>1, <1>3, <2>1, RecordSettles DEF EventKinds
    <2>3. CallOf(i)'
      BY <1>1, <1>4, <2>1 DEF Record, CallOf, TypeOK
    <2>4. \A n \in DOMAIN Ladder[i] : n < cursor[i] =>
             SettledIn(mem'[i].events, Ladder[i][n]) \/ Ladder[i][n] = t
      BY <1>1, <2>1, <2>2 DEF ProgressOf
    <2>5. ProgressOf(i)'
      BY <1>1, <1>2, <1>5, <2>1, <2>2, <2>4 DEF ProgressOf, t
    <2> QED BY <2>3, <2>5
  <1>7. CASE FitFails(i) \/ \E r \in Results : FitReturns(i, r)
    <2>1. PICK k \in Terminal, r \in Results \cup {NoResult} : Record(i, t, k, r)
      BY <1>7 DEF FitFails, FitReturns, RecordAbort, RecordCompletion, Terminal, t
    <2>2. pc[i] = "fitting" /\ pc'[i] = "recording"
      BY <1>1, <1>7 DEF FitFails, FitReturns
    <2>3. k \in EventKinds
      BY DEF Terminal, EventKinds
    <2>4. /\ t \in mem'[i].known
          /\ \A u : SettledIn(mem[i].events, u) /\ u # t => SettledIn(mem'[i].events, u)
          /\ SettledIn(mem'[i].events, t)
      BY <1>1, <1>3, <2>1, <2>3, RecordSettles
    <2>5. CallOf(i)'
      BY <1>1, <1>4, <2>1, <2>2 DEF Record, CallOf, TypeOK
    <2>6. \A n \in DOMAIN Ladder[i] : n < cursor[i] => SettledIn(mem'[i].events, Ladder[i][n])
      BY <1>1, <2>2, <2>4 DEF ProgressOf, t
    <2>7. ProgressOf(i)'
      BY <1>1, <1>2, <1>5, <2>2, <2>4, <2>6 DEF ProgressOf, t
    <2> QED BY <2>5, <2>7
  <1> QED BY <1>6, <1>7

\* The call returns: the history it wrote is stable, and the cursor moves on.
LEMMA ReturningInv ==
    ASSUME DriverInv, NEW i \in Instances, StartReturns(i) \/ RecordReturns(i)
    PROVE  /\ (CallOf(i) /\ ProgressOf(i))'
           /\ stable'[LedgerPath] = mem[i] /\ mem[i] # NoFile
           /\ Ladder[i][cursor[i]] \in mem[i].known
  <1> USE DEF Goto
  <1>1. /\ DOMAIN pc = Instances /\ DOMAIN cursor = Instances /\ TypeOK
        /\ LedgerPath \in Paths /\ Ladder[i] \in Seq(Trials) /\ Len(Ladder[i]) \in Nat
        /\ DOMAIN Ladder[i] = 1 .. Len(Ladder[i])
        /\ CallOf(i) /\ ProgressOf(i) /\ CallInv(i)
    BY LadderAssumption DEF DriverInv, LedgerInv
  <1>2. SyncDir(i) /\ pc[i] \in {"starting", "recording"}
    BY DEF StartReturns, RecordReturns
  <1>3. /\ target[i] = LedgerPath /\ path[i] = LedgerPath /\ cursor[i] \in DOMAIN Ladder[i]
        /\ Ladder[i][cursor[i]] \in mem[i].known
    BY <1>1, <1>2 DEF CallOf, ProgressOf
  <1>4. stable'[LedgerPath] = mem[i] /\ mem' = mem /\ path' = path /\ phase'[i] = "ready"
    BY <1>1, <1>2, <1>3 DEF SyncDir, EndSave, CallInv, TypeOK
  <1>5. mem[i] # NoFile
    BY <1>1, NoFileAssumption DEF TypeOK
  <1>6. CASE StartReturns(i)
    <2>1. pc[i] = "starting" /\ pc'[i] = "fitting" /\ cursor' = cursor
      BY <1>1, <1>6 DEF StartReturns
    <2> QED BY <1>1, <1>3, <1>4, <1>5, <2>1 DEF CallOf, ProgressOf
  <1>7. CASE RecordReturns(i)
    <2>1. pc[i] = "recording" /\ pc'[i] = "ladder" /\ cursor'[i] = cursor[i] + 1
      BY <1>1, <1>7 DEF RecordReturns
    <2>2. /\ SettledIn(mem[i].events, Ladder[i][cursor[i]])
          /\ \A n \in DOMAIN Ladder[i] : n < cursor[i] => SettledIn(mem[i].events, Ladder[i][n])
      BY <1>1, <2>1 DEF ProgressOf
    <2>3. \A n \in DOMAIN Ladder[i] : n < cursor[i] + 1 => SettledIn(mem[i].events, Ladder[i][n])
      BY <1>1, <1>3, <2>2
    <2>4. CallOf(i)'
      BY <1>3, <1>4, <2>1 DEF CallOf
    <2>5. ProgressOf(i)'
      BY <1>1, <1>3, <1>4, <2>1, <2>3 DEF ProgressOf
    <2> QED BY <1>3, <1>4, <1>5, <2>4, <2>5
  <1> QED BY <1>6, <1>7

\* The steps between: a write, a refusal, a failure, the end of the ladder.
LEMMA BetweenInv ==
    ASSUME DriverInv, NEW i \in Instances,
           \/ StartRefused(i) \/ RunReturns(i) \/ \E r \in Results : FitConflicts(i, r)
           \/ Persist(i) \/ PersistFails(i)
    PROVE  (CallOf(i) /\ ProgressOf(i))'
  <1> USE DEF Goto
  <1>1. /\ DOMAIN pc = Instances /\ DOMAIN cursor = Instances /\ TypeOK
        /\ Ladder[i] \in Seq(Trials) /\ Len(Ladder[i]) \in Nat
        /\ CallOf(i) /\ ProgressOf(i)
    BY LadderAssumption DEF DriverInv, LedgerInv
  <1>2. CASE StartRefused(i) \/ \E r \in Results : FitConflicts(i, r)
    <2>1. pc'[i] = "failed" /\ cursor' = cursor
      BY <1>1, <1>2 DEF StartRefused, FitConflicts
    <2> QED BY <1>1, <2>1 DEF CallOf, ProgressOf
  <1>3. CASE RunReturns(i)
    <2>1. /\ pc[i] = "ladder" /\ pc'[i] = "done" /\ cursor' = cursor /\ UNCHANGED vars
          /\ cursor[i] = Len(Ladder[i]) + 1
      BY <1>1, <1>3 DEF RunReturns, ProgressOf
    <2> QED BY <1>1, <2>1 DEF CallOf, ProgressOf, vars
  <1>4. CASE Persist(i)
    <2>1. /\ pc' = pc /\ cursor' = cursor /\ mem' = mem /\ stable' = stable /\ path' = path
          /\ target' = target /\ phase'[i] = "replaced" /\ pc[i] \in {"starting", "recording"}
      BY <1>1, <1>4 DEF Persist, Replace, drvVars, TypeOK
    <2> QED BY <1>1, <2>1 DEF CallOf, ProgressOf
  <1>5. CASE PersistFails(i)
    <2>1. pc'[i] = "failed" /\ cursor' = cursor
      BY <1>1, <1>5 DEF PersistFails
    <2> QED BY <1>1, <2>1 DEF CallOf, ProgressOf
  <1> QED BY <1>2, <1>3, <1>4, <1>5

\* The stable copy forgets no attempt, and a start that returned is in it.
LEMMA AttemptsStayStable ==
    ASSUME DriverInv, [DevNext]_allVars
    PROVE  AttemptsAreStable'
  <1>1. LedgerInv /\ [Next]_vars /\ LedgerPath \in Paths
    BY DriverStepsAreLedgerSteps, LadderAssumption DEF DriverInv
  <1>2. ASSUME NEW t \in attempted
        PROVE  stable'[LedgerPath] # NoFile /\ t \in stable'[LedgerPath].known
    BY <1>1, StableKept DEF DriverInv, AttemptsAreStable
  <1>3. CASE attempted' = attempted
    BY <1>2, <1>3 DEF AttemptsAreStable
  <1>4. ASSUME NEW i \in Instances, StartReturns(i)
        PROVE  AttemptsAreStable'
    <2>1. attempted' = attempted \cup {Ladder[i][cursor[i]]}
      BY <1>4 DEF StartReturns
    <2>2. /\ stable'[LedgerPath] # NoFile
          /\ Ladder[i][cursor[i]] \in stable'[LedgerPath].known
      BY <1>4, ReturningInv
    <2> QED BY <1>2, <2>1, <2>2 DEF AttemptsAreStable
  <1>5. CASE \A i \in Instances : ~ StartReturns(i)
    <2>1. attempted' = attempted
      BY <1>5 DEF DevNext, Step, allVars, drvVars, OpenLedger, LedgerOpened, StartTrial,
                  StartRefused, FitFails, FitReturns, FitConflicts, Persist, PersistFails,
                  RecordReturns, RunReturns, ProcessEnds, PowerLoss
    <2> QED BY <1>3, <2>1
  <1> QED BY <1>4, <1>5

LEMMA DriverStepInv == DriverInv /\ [DevNext]_allVars => DriverInv'
  <1> SUFFICES ASSUME DriverInv, [DevNext]_allVars PROVE DriverInv'
    OBVIOUS
  <1>1. LedgerInv'
    BY DriverStepsAreLedgerSteps, NextInv DEF DriverInv
  <1>2. AttemptsAreStable'
    BY AttemptsStayStable
  <1>3. (DOMAIN pc = Instances /\ DOMAIN cursor = Instances)'
    BY DEF DriverInv, DevNext, Step, allVars, drvVars, OpenLedger, LedgerOpened,
           StartTrial, StartRefused, FitFails, FitReturns, FitConflicts, Persist,
           PersistFails, StartReturns, RecordReturns, RunReturns, ProcessEnds, PowerLoss, Goto
  <1>4. ASSUME NEW j \in Instances PROVE (CallOf(j) /\ ProgressOf(j))'
    <2>1. ASSUME NEW i \in Instances, OpenLedger(i) \/ Step(i) \/ ProcessEnds(i)
          PROVE  (CallOf(j) /\ ProgressOf(j))'
      <3>1. CASE i # j BY <2>1, <3>1, OthersInv
      <3>2. CASE i = j
        BY <2>1, <3>2, OpeningInv, RecordingInv, ReturningInv, BetweenInv DEF Step
      <3> QED BY <3>1, <3>2
    <2>2. CASE PowerLoss
      <3>1. pc'[j] = "idle" /\ cursor' = cursor
        BY <2>2 DEF PowerLoss
      <3> QED BY <3>1 DEF DriverInv, CallOf, ProgressOf
    <2>3. CASE UNCHANGED allVars
      BY <2>3 DEF allVars, drvVars, vars, DriverInv, CallOf, ProgressOf
    <2> QED BY <2>1, <2>2, <2>3 DEF DevNext
  <1> QED BY <1>1, <1>2, <1>3, <1>4 DEF DriverInv

\* Before any run there is nothing to account for.
LEMMA DriverInitInv == DevInit => DriverInv
  <1> SUFFICES ASSUME DevInit PROVE DriverInv
    OBVIOUS
  <1>1. LedgerInv
    BY InitInv DEF DevInit
  <1>2. ASSUME NEW i \in Instances PROVE CallOf(i) /\ ProgressOf(i)
    <2>1. pc[i] = "idle" /\ cursor[i] = 1 /\ Len(Ladder[i]) \in Nat
      BY LadderAssumption DEF DevInit
    <2> QED BY <2>1 DEF CallOf, ProgressOf
  <1> QED BY <1>1, <1>2 DEF DevInit, DriverInv, AttemptsAreStable

-----------------------------------------------------------------------------
(* The theorems *)

\* The inductive invariant holds of every behaviour of the driver.
THEOREM DriverInvariant == DevSpec => []DriverInv
  BY DriverInitInv, DriverStepInv, PTL DEF DevSpec

\* Under the driver the ledger is used as its own specification allows.
THEOREM DriverUsesTheLedger == DevSpec => Spec
  <1>1. DevInit => Init
    BY DEF DevInit
  <1> QED BY <1>1, DriverStepsAreLedgerSteps, DriverInvariant, PTL DEF DevSpec, Spec

\* No crash of a process or of the machine erases an attempted identity from
\* the file or from what is stable of it: effective N never shrinks.
THEOREM AttemptsCount == DevSpec => []AttemptsAreCounted
  <1>1. ASSUME DriverInv, NEW t \in attempted
        PROVE  /\ disk[LedgerPath] # NoFile /\ t \in disk[LedgerPath].known
               /\ stable[LedgerPath] # NoFile /\ t \in stable[LedgerPath].known
    <2>1. stable[LedgerPath] # NoFile /\ t \in stable[LedgerPath].known
      BY <1>1 DEF DriverInv, AttemptsAreStable
    <2>2. /\ disk[LedgerPath] # NoFile /\ disk[LedgerPath] \in Image
          /\ stable[LedgerPath] \in Image
          /\ WellFormed(disk[LedgerPath]) /\ WellFormed(stable[LedgerPath])
          /\ IsPrefix(History(stable[LedgerPath]), History(disk[LedgerPath]))
      BY <1>1, <2>1, LadderAssumption DEF DriverInv, LedgerInv, TypeOK, FileInv
    <2>3. stable[LedgerPath].known \subseteq disk[LedgerPath].known
      BY <2>1, <2>2, OutcomesFollowHistory DEF History
    <2> QED BY <2>1, <2>2, <2>3
  <1>2. DriverInv => AttemptsAreCounted
    BY <1>1 DEF AttemptsAreCounted
  <1> QED BY <1>2, DriverInvariant, PTL

\* The ladder is accounted for: beside every attempt, a run that returned has
\* settled, durably, every trial of its ladder.
THEOREM TheLadderIsAccounted == DevSpec => []LadderIsAccounted
  <1>1. ASSUME DriverInv, NEW i \in Instances, pc[i] = "done", NEW n \in DOMAIN Ladder[i]
        PROVE  /\ \E m \in DOMAIN History(stable[LedgerPath]) :
                     History(stable[LedgerPath])[m].trial = Ladder[i][n]
               /\ LastKind(History(stable[LedgerPath]), Ladder[i][n])
                     \in {"aborted", "completed"}
    <2>1. /\ n \in 1 .. Len(Ladder[i]) /\ Len(Ladder[i]) \in Nat
          /\ cursor[i] = Len(Ladder[i]) + 1
      BY <1>1, LadderAssumption DEF DriverInv, ProgressOf
    <2>2. SettledIn(mem[i].events, Ladder[i][n]) /\ stable[LedgerPath] = mem[i]
      BY <1>1, <2>1 DEF DriverInv, ProgressOf
    <2>3. mem[i] # NoFile /\ mem[i].events \in Seq(Event)
      BY <1>1, NoFileAssumption DEF DriverInv, LedgerInv, TypeOK, Image
    <2>4. History(stable[LedgerPath]) = mem[i].events
      BY <2>2, <2>3 DEF History
    <2> QED BY <2>2, <2>3, <2>4, SettledLast
  <1>2. DriverInv => ReturnedRunIsComplete
    BY <1>1 DEF ReturnedRunIsComplete
  <1> QED BY <1>2, AttemptsCount, DriverInvariant, PTL DEF LadderIsAccounted
=============================================================================
