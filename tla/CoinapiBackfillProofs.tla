------------------------- MODULE CoinapiBackfillProofs -------------------------
(***************************************************************************)
(* Theorems about CoinapiBackfill for any units, manifests, prices, caps   *)
(* and number of runs: the cap holds of what was really spent, a report    *)
(* says what its run added to the ledger, exit code 0 is vouched for by    *)
(* the state records, and a crash makes no conflict.                       *)
(***************************************************************************)
EXTENDS CoinapiBackfill, SumTheorems

\* The unit being worked on.
Current(u) == todo # << >> /\ u = Head(todo)

Phases == {"down", "authorizing", "next", "listing", "getting", "billing",
           "streaming", "staged", "stated", "published"}

\* Every variable the invariant speaks of has its type; the units of a range
\* are of no matter to it.
TypeInv ==
    /\ final \in [Units -> Versions \cup {NoFile, Rotten}]
    /\ state \in [Manifests -> [Units -> Versions \cup {NoFile}]]
    /\ plain \in [Units -> Manifests \cup {NoManifest}]
    /\ results \in [Units -> Statuses]
    /\ ledger \in [Manifests -> Nat] /\ committed \in [Manifests -> Nat]
    /\ manifest \in Manifests \cup {NoManifest}
    /\ phase \in Phases
    /\ spent \in Nat /\ approve \in Nat
    /\ Reviewed => todo \in Seq(Units)

\* Where the process is says what it has at hand.
PhaseInv ==
    /\ phase = "down" => todo = << >>
    /\ phase \notin {"down", "authorizing", "next"} => todo # << >>
    /\ exit # NoExit => phase = "down"
    /\ phase \in {"authorizing", "billing", "staged"} => Reviewed
    /\ phase \in {"staged", "stated"} => body \in Versions

\* The state record of the manifest names the bytes of the file.
Vouched(u) == final[u] \in Versions /\ state[manifest][u] = final[u]

\* The current unit: a file is replaced only under --overwrite, and its state
\* record names the new bytes before the file has them.
UnitInv(u) ==
    Current(u) =>
        /\ phase \in {"listing", "getting", "billing", "streaming", "staged", "stated"} =>
              overwrite \/ final[u] = NoFile
        /\ phase = "stated" /\ Reviewed => state[manifest][u] = body
        /\ phase = "published" /\ Reviewed => Vouched(u)

\* What a run says of a unit: `ok` and `done` are vouched for, until the run
\* works on the unit again or has ended with another code than 0.
ResultInv(u) ==
    Reviewed =>
        /\ results[u] \in {"ok", "done"} =>
              \/ Vouched(u)
              \/ phase = "stated" /\ Current(u)
              \/ phase = "down" /\ exit # 0
        /\ results[u] = "conflict" =>
              ~ overwrite /\ final[u] # NoFile /\ plain[u] # manifest
        /\ exit = 0 => results[u] \in {"none", "ok", "done"}

\* A file a plain run of a manifest left behind has its state record there.
PlainInv(u) ==
    plain[u] # NoManifest => final[u] # NoFile /\ state[plain[u]][u] = final[u]

\* The spend of the process is that of the ledger, and of the store's history.
SpendInv ==
    /\ Reviewed /\ phase \in {"getting", "billing"} => spent + Price[Head(todo)] <= approve
    /\ ~ cut =>
          /\ ledger = committed
          /\ Reviewed /\ phase \notin {"down", "authorizing"} => ~ ragged
          /\ Reviewed /\ phase # "down" => spent = ledger[manifest]
          /\ Reviewed /\ billed # {} => committed[manifest] <= approve

BackfillInv ==
    /\ TypeInv /\ PhaseInv /\ SpendInv
    /\ \A u \in Units : UnitInv(u) /\ ResultInv(u) /\ PlainInv(u)

-----------------------------------------------------------------------------
(* Constants and the current unit *)

LEMMA Constants ==
    /\ Price \in [Units -> Nat] /\ Approvals \subseteq Nat
    /\ NoFile \notin Versions /\ Rotten \notin Versions /\ NoFile # Rotten
    /\ NoManifest \notin Manifests /\ NoExit # 0
  BY BackfillAssumption

\* In manifest mode the current unit is a fill unit.
LEMMA CurrentUnit ==
    ASSUME TypeInv, Reviewed, todo # << >>
    PROVE  /\ Head(todo) \in Units /\ Tail(todo) \in Seq(Units)
           /\ Price[Head(todo)] \in Nat
  <1>1. todo \in Seq(Units)
    BY DEF TypeInv
  <1>2. Head(todo) \in Units /\ Tail(todo) \in Seq(Units)
    BY <1>1
  <1> QED BY <1>2, Constants

\* The end of a unit touches its status only, whatever the unit is.
LEMMA EndUnitTypes ==
    ASSUME TypeInv, NEW s \in Statuses, EndUnit(s), todo # << >>
    PROVE  /\ results' \in [Units -> Statuses] /\ phase' = "next"
           /\ Reviewed => todo' \in Seq(Units)
           /\ \A u \in Units : results'[u] = results[u] \/ (Current(u) /\ results'[u] = s)
  <1>1. results \in [Units -> Statuses]
    BY DEF TypeInv
  <1>2. /\ results' = [results EXCEPT ![Head(todo)] = s]
        /\ todo' = Tail(todo) /\ phase' = "next"
    BY DEF EndUnit, u0
  <1>3. results' \in [Units -> Statuses]
    BY <1>1, <1>2
  <1>4. \A u \in Units : results'[u] = results[u] \/ (Current(u) /\ results'[u] = s)
    BY <1>1, <1>2 DEF Current
  <1> QED BY <1>2, <1>3, <1>4, CurrentUnit

\* The ledger's rows are amounts.
LEMMA BilledTypes ==
    ASSUME TypeInv, Reviewed, todo # << >>, AppendBilled(Head(todo))
    PROVE  ledger' \in [Manifests -> Nat] /\ committed' \in [Manifests -> Nat]
  <1>1. manifest \in Manifests /\ Price[Head(todo)] \in Nat
    BY CurrentUnit DEF TypeInv, Reviewed
  <1>2. ledger[manifest] \in Nat /\ committed[manifest] \in Nat
    BY <1>1 DEF TypeInv
  <1> QED BY <1>1, <1>2 DEF TypeInv, AppendBilled

-----------------------------------------------------------------------------
(* Every action preserves the invariant *)

\* The first row a run appends.
LEMMA AuthorizationInv ==
    ASSUME BackfillInv, AppendAuthorization
    PROVE  BackfillInv'
  <1> USE DEF BackfillInv, Reviewed, At, Current
  <1>1. TypeInv'
    BY Constants DEF TypeInv, PhaseInv, Statuses, Phases, AppendAuthorization, AppendRow, files, args
  <1>2. PhaseInv'
    BY Constants DEF TypeInv, PhaseInv, Phases, AppendAuthorization, AppendRow, files, args
  <1>3. SpendInv'
    BY Constants DEF TypeInv, PhaseInv, SpendInv, Phases, AppendAuthorization, AppendRow, files, args
  <1>4. ASSUME NEW u \in Units PROVE UnitInv(u)'
    BY <1>4, Constants DEF TypeInv, PhaseInv, UnitInv, Vouched, Phases, AppendAuthorization, AppendRow, files, args
  <1>5. ASSUME NEW u \in Units PROVE ResultInv(u)'
    BY <1>5, Constants DEF TypeInv, PhaseInv, UnitInv, ResultInv, PlainInv, Vouched, Phases, Statuses, AppendAuthorization, AppendRow, files, args
  <1>6. ASSUME NEW u \in Units PROVE PlainInv(u)'
    BY <1>6, Constants DEF TypeInv, PhaseInv, UnitInv, PlainInv, Phases, AppendAuthorization, AppendRow, files, args
  <1> QED BY <1>1, <1>2, <1>3, <1>4, <1>5, <1>6

\* A unit that is passed over is vouched for, foreign or drifted.
LEMMA ResumeInv ==
    ASSUME BackfillInv, Resume
    PROVE  BackfillInv'
  <1> USE DEF BackfillInv, Reviewed, At, Current
  <1>a. todo # << >>
    BY DEF Resume, ResumeStatus, EndUnit, u0, files, rows, args
  <1>b. Reviewed => /\ Head(todo) \in Units /\ Tail(todo) \in Seq(Units)
                    /\ Price[Head(todo)] \in Nat
    BY <1>a, CurrentUnit
  <1>1. TypeInv'
    BY Constants, <1>a, <1>b DEF TypeInv, PhaseInv, Statuses, Phases, Resume, ResumeStatus, EndUnit, u0, files, rows, args
  <1>2. PhaseInv'
    BY Constants, <1>a, <1>b DEF TypeInv, PhaseInv, Phases, Resume, ResumeStatus, EndUnit, u0, files, rows, args
  <1>3. SpendInv'
    BY Constants, <1>a, <1>b DEF TypeInv, PhaseInv, SpendInv, Phases, Resume, ResumeStatus, EndUnit, u0, files, rows, args
  <1>4. ASSUME NEW u \in Units PROVE UnitInv(u)'
    BY <1>4, Constants, <1>a, <1>b DEF TypeInv, PhaseInv, UnitInv, Vouched, Phases, Resume, ResumeStatus, EndUnit, u0, files, rows, args
  <1>5. ASSUME NEW u \in Units PROVE ResultInv(u)'
    BY <1>5, Constants, <1>a, <1>b DEF TypeInv, PhaseInv, UnitInv, ResultInv, PlainInv, Vouched, Phases, Statuses, Resume, ResumeStatus, EndUnit, u0, files, rows, args
  <1>6. ASSUME NEW u \in Units PROVE PlainInv(u)'
    BY <1>6, Constants, <1>a, <1>b DEF TypeInv, PhaseInv, UnitInv, PlainInv, Phases, Resume, ResumeStatus, EndUnit, u0, files, rows, args
  <1> QED BY <1>1, <1>2, <1>3, <1>4, <1>5, <1>6

\* The budget check.
LEMMA LocatedInv ==
    ASSUME BackfillInv, Located
    PROVE  BackfillInv'
  <1> USE DEF BackfillInv, Reviewed, At, Current
  <1>a. todo # << >>
    BY DEF Located, EndUnit, u0, files, rows, args
  <1>b. Reviewed => /\ Head(todo) \in Units /\ Tail(todo) \in Seq(Units)
                    /\ Price[Head(todo)] \in Nat
    BY <1>a, CurrentUnit
  <1>1. TypeInv'
    BY Constants, <1>a, <1>b DEF TypeInv, PhaseInv, Statuses, Phases, Located, EndUnit, u0, files, rows, args
  <1>2. PhaseInv'
    BY Constants, <1>a, <1>b DEF TypeInv, PhaseInv, Phases, Located, EndUnit, u0, files, rows, args
  <1>3. SpendInv'
    BY Constants, <1>a, <1>b DEF TypeInv, PhaseInv, SpendInv, Phases, Located, EndUnit, u0, files, rows, args
  <1>4. ASSUME NEW u \in Units PROVE UnitInv(u)'
    BY <1>4, Constants, <1>a, <1>b DEF TypeInv, PhaseInv, UnitInv, Vouched, Phases, Located, EndUnit, u0, files, rows, args
  <1>5. ASSUME NEW u \in Units PROVE ResultInv(u)'
    BY <1>5, Constants, <1>a, <1>b DEF TypeInv, PhaseInv, UnitInv, ResultInv, PlainInv, Vouched, Phases, Statuses, Located, EndUnit, u0, files, rows, args
  <1>6. ASSUME NEW u \in Units PROVE PlainInv(u)'
    BY <1>6, Constants, <1>a, <1>b DEF TypeInv, PhaseInv, UnitInv, PlainInv, Phases, Located, EndUnit, u0, files, rows, args
  <1> QED BY <1>1, <1>2, <1>3, <1>4, <1>5, <1>6

\* The vendor has no file.
LEMMA MissingInv ==
    ASSUME BackfillInv, Missing
    PROVE  BackfillInv'
  <1> USE DEF BackfillInv, Reviewed, At, Current
  <1>a. todo # << >>
    BY DEF Missing, AppendRow, EndUnit, u0, files, args
  <1>b. Reviewed => /\ Head(todo) \in Units /\ Tail(todo) \in Seq(Units)
                    /\ Price[Head(todo)] \in Nat
    BY <1>a, CurrentUnit
  <1>1. TypeInv'
    BY Constants, <1>a, <1>b DEF TypeInv, PhaseInv, Statuses, Phases, Missing, AppendRow, EndUnit, u0, files, args
  <1>2. PhaseInv'
    BY Constants, <1>a, <1>b DEF TypeInv, PhaseInv, Phases, Missing, AppendRow, EndUnit, u0, files, args
  <1>3. SpendInv'
    BY Constants, <1>a, <1>b DEF TypeInv, PhaseInv, SpendInv, Phases, Missing, AppendRow, EndUnit, u0, files, args
  <1>4. ASSUME NEW u \in Units PROVE UnitInv(u)'
    BY <1>4, Constants, <1>a, <1>b DEF TypeInv, PhaseInv, UnitInv, Vouched, Phases, Missing, AppendRow, EndUnit, u0, files, args
  <1>5. ASSUME NEW u \in Units PROVE ResultInv(u)'
    BY <1>5, Constants, <1>a, <1>b DEF TypeInv, PhaseInv, UnitInv, ResultInv, PlainInv, Vouched, Phases, Statuses, Missing, AppendRow, EndUnit, u0, files, args
  <1>6. ASSUME NEW u \in Units PROVE PlainInv(u)'
    BY <1>6, Constants, <1>a, <1>b DEF TypeInv, PhaseInv, UnitInv, PlainInv, Phases, Missing, AppendRow, EndUnit, u0, files, args
  <1> QED BY <1>1, <1>2, <1>3, <1>4, <1>5, <1>6

\* The vendor answers.
LEMMA GetBodyInv ==
    ASSUME BackfillInv, GetBody
    PROVE  BackfillInv'
  <1> USE DEF BackfillInv, Reviewed, At, Current
  <1>1. TypeInv'
    BY Constants DEF TypeInv, PhaseInv, Statuses, Phases, GetBody, u0, files, rows, args
  <1>2. PhaseInv'
    BY Constants DEF TypeInv, PhaseInv, Phases, GetBody, u0, files, rows, args
  <1>3. SpendInv'
    BY Constants DEF TypeInv, PhaseInv, SpendInv, Phases, GetBody, u0, files, rows, args
  <1>4. ASSUME NEW u \in Units PROVE UnitInv(u)'
    BY <1>4, Constants DEF TypeInv, PhaseInv, UnitInv, Vouched, Phases, GetBody, u0, files, rows, args
  <1>5. ASSUME NEW u \in Units PROVE ResultInv(u)'
    BY <1>5, Constants DEF TypeInv, PhaseInv, UnitInv, ResultInv, PlainInv, Vouched, Phases, Statuses, GetBody, u0, files, rows, args
  <1>6. ASSUME NEW u \in Units PROVE PlainInv(u)'
    BY <1>6, Constants DEF TypeInv, PhaseInv, UnitInv, PlainInv, Phases, GetBody, u0, files, rows, args
  <1> QED BY <1>1, <1>2, <1>3, <1>4, <1>5, <1>6

\* The price goes to the ledger and to the budget.
LEMMA CommitInv ==
    ASSUME BackfillInv, Commit
    PROVE  BackfillInv'
  <1> USE DEF BackfillInv, Reviewed, At, Current
  <1>a. todo # << >>
    BY DEF Commit, AppendBilled, u0, files, args
  <1>b. Reviewed => /\ Head(todo) \in Units /\ Tail(todo) \in Seq(Units)
                    /\ Price[Head(todo)] \in Nat
    BY <1>a, CurrentUnit
  <1>1. TypeInv'
    BY Constants, <1>a, <1>b, SMTT(30) DEF TypeInv, PhaseInv, Statuses, Phases, Commit, AppendBilled, u0, files, args
  <1>2. PhaseInv'
    BY Constants, <1>a, <1>b DEF TypeInv, PhaseInv, Phases, Commit, AppendBilled, u0, files, args
  <1>3. SpendInv'
    BY Constants, <1>a, <1>b DEF TypeInv, PhaseInv, SpendInv, Phases, Commit, AppendBilled, u0, files, args
  <1>4. ASSUME NEW u \in Units PROVE UnitInv(u)'
    BY <1>4, Constants, <1>a, <1>b DEF TypeInv, PhaseInv, UnitInv, Vouched, Phases, Commit, AppendBilled, u0, files, args
  <1>5. ASSUME NEW u \in Units PROVE ResultInv(u)'
    BY <1>5, Constants, <1>a, <1>b DEF TypeInv, PhaseInv, UnitInv, ResultInv, PlainInv, Vouched, Phases, Statuses, Commit, AppendBilled, u0, files, args
  <1>6. ASSUME NEW u \in Units PROVE PlainInv(u)'
    BY <1>6, Constants, <1>a, <1>b DEF TypeInv, PhaseInv, UnitInv, PlainInv, Phases, Commit, AppendBilled, u0, files, args
  <1> QED BY <1>1, <1>2, <1>3, <1>4, <1>5, <1>6

\* A billing row that could not be written whole.
LEMMA CommitFailsInv ==
    ASSUME BackfillInv, CommitFails
    PROVE  BackfillInv'
  <1> USE DEF BackfillInv, Reviewed, At, Current
  <1>a. todo # << >>
    BY DEF CommitFails, AppendBilled, EndUnit, u0, files, rows, args
  <1>b. Reviewed => /\ Head(todo) \in Units /\ Tail(todo) \in Seq(Units)
                    /\ Price[Head(todo)] \in Nat
    BY <1>a, CurrentUnit
  <1>c. \/ UNCHANGED <<ledger, committed>>
        \/ ledger' \in [Manifests -> Nat] /\ committed' \in [Manifests -> Nat]
    BY <1>a, BilledTypes DEF CommitFails, PhaseInv, rows, u0
  <1>d. /\ results' \in [Units -> Statuses] /\ phase' = "next"
        /\ Reviewed => todo' \in Seq(Units)
    BY <1>a, EndUnitTypes DEF CommitFails, Statuses
  <1>1. TypeInv'
    BY <1>c, <1>d DEF TypeInv, Phases, CommitFails, files, args
  <1>2. PhaseInv'
    BY Constants, <1>a, <1>b DEF TypeInv, PhaseInv, Phases, CommitFails, AppendBilled, EndUnit, u0, files, rows, args
  <1>3. SpendInv'
    BY Constants, <1>a, <1>b DEF TypeInv, PhaseInv, SpendInv, Phases, CommitFails, AppendBilled, EndUnit, u0, files, rows, args
  <1>4. ASSUME NEW u \in Units PROVE UnitInv(u)'
    BY <1>4, Constants, <1>a, <1>b DEF TypeInv, PhaseInv, UnitInv, Vouched, Phases, CommitFails, AppendBilled, EndUnit, u0, files, rows, args
  <1>5. ASSUME NEW u \in Units PROVE ResultInv(u)'
    BY <1>5, Constants, <1>a, <1>b DEF TypeInv, PhaseInv, UnitInv, ResultInv, PlainInv, Vouched, Phases, Statuses, CommitFails, AppendBilled, EndUnit, u0, files, rows, args
  <1>6. ASSUME NEW u \in Units PROVE PlainInv(u)'
    BY <1>6, Constants, <1>a, <1>b DEF TypeInv, PhaseInv, UnitInv, PlainInv, Phases, CommitFails, AppendBilled, EndUnit, u0, files, rows, args
  <1> QED BY <1>1, <1>2, <1>3, <1>4, <1>5, <1>6

\* The body is downloaded.
LEMMA StreamInv ==
    ASSUME BackfillInv, Stream
    PROVE  BackfillInv'
  <1> USE DEF BackfillInv, Reviewed, At, Current
  <1>1. TypeInv'
    BY Constants DEF TypeInv, PhaseInv, Statuses, Phases, Stream, u0, files, rows, args
  <1>2. PhaseInv'
    BY Constants DEF TypeInv, PhaseInv, Phases, Stream, u0, files, rows, args
  <1>3. SpendInv'
    BY Constants DEF TypeInv, PhaseInv, SpendInv, Phases, Stream, u0, files, rows, args
  <1>4. ASSUME NEW u \in Units PROVE UnitInv(u)'
    BY <1>4, Constants DEF TypeInv, PhaseInv, UnitInv, Vouched, Phases, Stream, u0, files, rows, args
  <1>5. ASSUME NEW u \in Units PROVE ResultInv(u)'
    BY <1>5, Constants DEF TypeInv, PhaseInv, UnitInv, ResultInv, PlainInv, Vouched, Phases, Statuses, Stream, u0, files, rows, args
  <1>6. ASSUME NEW u \in Units PROVE PlainInv(u)'
    BY <1>6, Constants DEF TypeInv, PhaseInv, UnitInv, PlainInv, Phases, Stream, u0, files, rows, args
  <1> QED BY <1>1, <1>2, <1>3, <1>4, <1>5, <1>6

\* The record comes before the file.
LEMMA WriteStateInv ==
    ASSUME BackfillInv, WriteState
    PROVE  BackfillInv'
  <1> USE DEF BackfillInv, Reviewed, At, Current
  <1>1. TypeInv'
    BY Constants DEF TypeInv, PhaseInv, Statuses, Phases, WriteState, u0, rows, args
  <1>2. PhaseInv'
    BY Constants DEF TypeInv, PhaseInv, Phases, WriteState, u0, rows, args
  <1>3. SpendInv'
    BY Constants DEF TypeInv, PhaseInv, SpendInv, Phases, WriteState, u0, rows, args
  <1>4. ASSUME NEW u \in Units PROVE UnitInv(u)'
    BY <1>4, Constants DEF TypeInv, PhaseInv, UnitInv, Vouched, Phases, WriteState, u0, rows, args
  <1>5. ASSUME NEW u \in Units PROVE ResultInv(u)'
    BY <1>5, Constants DEF TypeInv, PhaseInv, UnitInv, ResultInv, PlainInv, Vouched, Phases, Statuses, WriteState, u0, rows, args
  <1>6. ASSUME NEW u \in Units PROVE PlainInv(u)'
    BY <1>6, Constants DEF TypeInv, PhaseInv, UnitInv, PlainInv, Phases, WriteState, u0, rows, args
  <1> QED BY <1>1, <1>2, <1>3, <1>4, <1>5, <1>6

\* The file takes its name.
LEMMA PublishInv ==
    ASSUME BackfillInv, Publish
    PROVE  BackfillInv'
  <1> USE DEF BackfillInv, Reviewed, At, Current
  <1>1. TypeInv'
    BY Constants DEF TypeInv, PhaseInv, Statuses, Phases, Publish, u0, rows, args
  <1>2. PhaseInv'
    BY Constants DEF TypeInv, PhaseInv, Phases, Publish, u0, rows, args
  <1>3. SpendInv'
    BY Constants DEF TypeInv, PhaseInv, SpendInv, Phases, Publish, u0, rows, args
  <1>4. ASSUME NEW u \in Units PROVE UnitInv(u)'
    BY <1>4, Constants DEF TypeInv, PhaseInv, UnitInv, Vouched, Phases, Publish, u0, rows, args
  <1>5. ASSUME NEW u \in Units PROVE ResultInv(u)'
    BY <1>5, Constants DEF TypeInv, PhaseInv, UnitInv, ResultInv, PlainInv, Vouched, Phases, Statuses, Publish, u0, rows, args
  <1>6. ASSUME NEW u \in Units PROVE PlainInv(u)'
    BY <1>6, Constants DEF TypeInv, PhaseInv, UnitInv, PlainInv, Phases, Publish, u0, rows, args
  <1> QED BY <1>1, <1>2, <1>3, <1>4, <1>5, <1>6

\* The unit is done.
LEMMA AppendOkInv ==
    ASSUME BackfillInv, AppendOk
    PROVE  BackfillInv'
  <1> USE DEF BackfillInv, Reviewed, At, Current
  <1>a. todo # << >>
    BY DEF AppendOk, AppendRow, EndUnit, u0, files, args
  <1>b. Reviewed => /\ Head(todo) \in Units /\ Tail(todo) \in Seq(Units)
                    /\ Price[Head(todo)] \in Nat
    BY <1>a, CurrentUnit
  <1>1. TypeInv'
    BY Constants, <1>a, <1>b DEF TypeInv, PhaseInv, Statuses, Phases, AppendOk, AppendRow, EndUnit, u0, files, args
  <1>2. PhaseInv'
    BY Constants, <1>a, <1>b DEF TypeInv, PhaseInv, Phases, AppendOk, AppendRow, EndUnit, u0, files, args
  <1>3. SpendInv'
    BY Constants, <1>a, <1>b DEF TypeInv, PhaseInv, SpendInv, Phases, AppendOk, AppendRow, EndUnit, u0, files, args
  <1>4. ASSUME NEW u \in Units PROVE UnitInv(u)'
    BY <1>4, Constants, <1>a, <1>b DEF TypeInv, PhaseInv, UnitInv, Vouched, Phases, AppendOk, AppendRow, EndUnit, u0, files, args
  <1>5. ASSUME NEW u \in Units PROVE ResultInv(u)'
    BY <1>5, Constants, <1>a, <1>b DEF TypeInv, PhaseInv, UnitInv, ResultInv, PlainInv, Vouched, Phases, Statuses, AppendOk, AppendRow, EndUnit, u0, files, args
  <1>6. ASSUME NEW u \in Units PROVE PlainInv(u)'
    BY <1>6, Constants, <1>a, <1>b DEF TypeInv, PhaseInv, UnitInv, PlainInv, Phases, AppendOk, AppendRow, EndUnit, u0, files, args
  <1> QED BY <1>1, <1>2, <1>3, <1>4, <1>5, <1>6

\* The unit is an error.
LEMMA UnitFailsInv ==
    ASSUME BackfillInv, UnitFails
    PROVE  BackfillInv'
  <1> USE DEF BackfillInv, Reviewed, At, Current
  <1>a. todo # << >>
    BY DEF UnitFails, EndUnit, u0, files, rows, args
  <1>b. Reviewed => /\ Head(todo) \in Units /\ Tail(todo) \in Seq(Units)
                    /\ Price[Head(todo)] \in Nat
    BY <1>a, CurrentUnit
  <1>1. TypeInv'
    BY Constants, <1>a, <1>b DEF TypeInv, PhaseInv, Statuses, Phases, UnitFails, EndUnit, u0, files, rows, args
  <1>2. PhaseInv'
    BY Constants, <1>a, <1>b DEF TypeInv, PhaseInv, Phases, UnitFails, EndUnit, u0, files, rows, args
  <1>3. SpendInv'
    BY Constants, <1>a, <1>b DEF TypeInv, PhaseInv, SpendInv, Phases, UnitFails, EndUnit, u0, files, rows, args
  <1>4. ASSUME NEW u \in Units PROVE UnitInv(u)'
    BY <1>4, Constants, <1>a, <1>b DEF TypeInv, PhaseInv, UnitInv, Vouched, Phases, UnitFails, EndUnit, u0, files, rows, args
  <1>5. ASSUME NEW u \in Units PROVE ResultInv(u)'
    BY <1>5, Constants, <1>a, <1>b DEF TypeInv, PhaseInv, UnitInv, ResultInv, PlainInv, Vouched, Phases, Statuses, UnitFails, EndUnit, u0, files, rows, args
  <1>6. ASSUME NEW u \in Units PROVE PlainInv(u)'
    BY <1>6, Constants, <1>a, <1>b DEF TypeInv, PhaseInv, UnitInv, PlainInv, Phases, UnitFails, EndUnit, u0, files, rows, args
  <1> QED BY <1>1, <1>2, <1>3, <1>4, <1>5, <1>6

\* A run that ends by itself.
LEMMA FinishInv ==
    ASSUME BackfillInv, Finish
    PROVE  BackfillInv'
  <1> USE DEF BackfillInv, Reviewed, At, Current
  <1>1. TypeInv'
    BY Constants DEF TypeInv, PhaseInv, Statuses, Phases, Finish, Ends, CompleteReport, files, rows, args
  <1>2. PhaseInv'
    BY Constants DEF TypeInv, PhaseInv, Phases, Finish, Ends, CompleteReport, files, rows, args
  <1>3. SpendInv'
    BY Constants DEF TypeInv, PhaseInv, SpendInv, Phases, Finish, Ends, CompleteReport, files, rows, args
  <1>4. ASSUME NEW u \in Units PROVE UnitInv(u)'
    BY <1>4, Constants DEF TypeInv, PhaseInv, UnitInv, Vouched, Phases, Finish, Ends, CompleteReport, files, rows, args
  <1>5. ASSUME NEW u \in Units PROVE ResultInv(u)'
    BY <1>5, Constants DEF TypeInv, PhaseInv, UnitInv, ResultInv, PlainInv, Vouched, Phases, Statuses, Finish, Ends, CompleteReport, files, rows, args
  <1>6. ASSUME NEW u \in Units PROVE PlainInv(u)'
    BY <1>6, Constants DEF TypeInv, PhaseInv, UnitInv, PlainInv, Phases, Finish, Ends, CompleteReport, files, rows, args
  <1> QED BY <1>1, <1>2, <1>3, <1>4, <1>5, <1>6

\* A run the vendor's quota ends.
LEMMA QuotaAbortInv ==
    ASSUME BackfillInv, QuotaAbort
    PROVE  BackfillInv'
  <1> USE DEF BackfillInv, Reviewed, At, Current
  <1>1. TypeInv'
    BY Constants DEF TypeInv, PhaseInv, Statuses, Phases, QuotaAbort, Ends, files, rows, args
  <1>2. PhaseInv'
    BY Constants DEF TypeInv, PhaseInv, Phases, QuotaAbort, Ends, files, rows, args
  <1>3. SpendInv'
    BY Constants DEF TypeInv, PhaseInv, SpendInv, Phases, QuotaAbort, Ends, files, rows, args
  <1>4. ASSUME NEW u \in Units PROVE UnitInv(u)'
    BY <1>4, Constants DEF TypeInv, PhaseInv, UnitInv, Vouched, Phases, QuotaAbort, Ends, files, rows, args
  <1>5. ASSUME NEW u \in Units PROVE ResultInv(u)'
    BY <1>5, Constants DEF TypeInv, PhaseInv, UnitInv, ResultInv, PlainInv, Vouched, Phases, Statuses, QuotaAbort, Ends, files, rows, args
  <1>6. ASSUME NEW u \in Units PROVE PlainInv(u)'
    BY <1>6, Constants DEF TypeInv, PhaseInv, UnitInv, PlainInv, Phases, QuotaAbort, Ends, files, rows, args
  <1> QED BY <1>1, <1>2, <1>3, <1>4, <1>5, <1>6

\* A run that is killed.
LEMMA KillInv ==
    ASSUME BackfillInv, Kill
    PROVE  BackfillInv'
  <1> USE DEF BackfillInv, Reviewed, At, Current
  <1>a. /\ phase # "down" /\ phase' = "down" /\ exit' = NoExit /\ todo' = << >>
        /\ UNCHANGED <<files, args, spent, results, billed, plain>>
    BY DEF Kill
  <1>b. << >> \in Seq(Units)
    OBVIOUS
  <1>c. \/ UNCHANGED <<ledger, committed, cut>>
        \/ At("billing") /\ AppendBilled(Head(todo)) /\ UNCHANGED cut
    BY DEF Kill, rows, u0
  <1>d. ASSUME UNCHANGED <<ledger, committed, cut>> PROVE TypeInv' /\ SpendInv'
    <2>1. TypeInv'
      BY <1>a, <1>b, <1>d DEF TypeInv, Phases, files, args
    <2>2. SpendInv'
      BY <1>a, <1>d DEF SpendInv, files, args
    <2> QED BY <2>1, <2>2
  <1>e. ASSUME At("billing"), AppendBilled(Head(todo)), UNCHANGED cut
        PROVE  TypeInv' /\ SpendInv'
    <2>0. /\ todo # << >> /\ Reviewed /\ manifest \in Manifests
          /\ Price[Head(todo)] \in Nat
      BY <1>e, CurrentUnit DEF PhaseInv, TypeInv
    <2>1. ledger' \in [Manifests -> Nat] /\ committed' \in [Manifests -> Nat]
      BY <1>e, <2>0, BilledTypes
    <2>2. TypeInv'
      BY <1>a, <1>b, <2>1 DEF TypeInv, Phases, files, args
    <2>3. ~ cut => /\ ledger' = committed'
                   /\ committed'[manifest] = spent + Price[Head(todo)]
      BY <1>e, <2>0 DEF TypeInv, SpendInv, AppendBilled
    <2>4. spent + Price[Head(todo)] <= approve
      BY <1>e, <2>0 DEF SpendInv
    <2>5. SpendInv'
      BY <1>a, <1>e, <2>3, <2>4 DEF SpendInv, files, args
    <2> QED BY <2>2, <2>5
  <1>1. TypeInv' /\ SpendInv'
    BY <1>c, <1>d, <1>e
  <1>2. PhaseInv'
    BY <1>a DEF PhaseInv
  <1>4. ASSUME NEW u \in Units PROVE UnitInv(u)'
    BY <1>a DEF UnitInv
  <1>5. ASSUME NEW u \in Units PROVE ResultInv(u)'
    BY <1>a, <1>5, Constants DEF ResultInv, files, args
  <1>6. ASSUME NEW u \in Units PROVE PlainInv(u)'
    BY <1>a, <1>6 DEF PlainInv, files, args
  <1> QED BY <1>1, <1>2, <1>4, <1>5, <1>6

\* Bytes drift.
LEMMA RotInv ==
    ASSUME BackfillInv, NEW v \in Units, Rot(v)
    PROVE  BackfillInv'
  <1> USE DEF BackfillInv, Reviewed, At, Current
  <1>1. TypeInv'
    BY Constants DEF TypeInv, PhaseInv, Statuses, Phases, Rot, rows, args
  <1>2. PhaseInv'
    BY Constants DEF TypeInv, PhaseInv, Phases, Rot, rows, args
  <1>3. SpendInv'
    BY Constants DEF TypeInv, PhaseInv, SpendInv, Phases, Rot, rows, args
  <1>4. ASSUME NEW u \in Units PROVE UnitInv(u)'
    BY <1>4, Constants DEF TypeInv, PhaseInv, UnitInv, Vouched, Phases, Rot, rows, args
  <1>5. ASSUME NEW u \in Units PROVE ResultInv(u)'
    BY <1>5, Constants DEF TypeInv, PhaseInv, UnitInv, ResultInv, PlainInv, Vouched, Phases, Statuses, Rot, rows, args
  <1>6. ASSUME NEW u \in Units PROVE PlainInv(u)'
    BY <1>6, Constants DEF TypeInv, PhaseInv, UnitInv, PlainInv, Phases, Rot, rows, args
  <1> QED BY <1>1, <1>2, <1>3, <1>4, <1>5, <1>6

\* What a run works on is a run of the units of its manifest.
LEMMA SelectedUnits ==
    ASSUME NEW m \in Manifests, NEW lo, NEW hi, NEW plan \in Selected(m, lo, hi)
    PROVE  plan \in Seq(Units)
  <1>1. UnitsOf[m] \in Seq(Units)
    BY BackfillAssumption
  <1>2. PICK j \in 1 .. Len(UnitsOf[m]), k \in 0 .. Len(UnitsOf[m]) :
           plan = SubSeq(UnitsOf[m], j, k)
    BY DEF Selected, Windows
  <1>3. \A n \in j .. k : UnitsOf[m][n] \in Units
    BY <1>1
  <1> QED BY <1>1, <1>2, <1>3

\* A run starts with nothing at hand and with the ledger's spend as its own.
LEMMA LaunchInv ==
    ASSUME BackfillInv, Launch
    PROVE  BackfillInv'
  <1> USE DEF BackfillInv, Reviewed, Current
  <1> DEFINE Plans == /\ manifest' \in Manifests /\ approve' \in Nat
                      /\ spent' = ledger[manifest'] /\ todo' \in Seq(Units) /\ todo' # << >>
                      /\ phase' = "authorizing"
             Refuses == /\ manifest' \in Manifests /\ approve' \in Nat
                        /\ spent' = 0 /\ todo' = << >> /\ phase' = "down"
             Ranges == /\ manifest' = NoManifest /\ approve' = 0
                       /\ spent' = 0 /\ phase' = "next"
  <1>0. phase = "down" => todo = << >>
    BY DEF PhaseInv
  <1>1. (\E ow \in BOOLEAN : Starts(ow)) /\ (Plans \/ Refuses \/ Ranges)
    <2>1. ASSUME NEW m \in Manifests, NEW ap \in Approvals, NEW lo \in Days, NEW hi \in Days,
                 NEW ow \in BOOLEAN, LaunchManifest(m, ap, ow, lo, hi)
          PROVE  Starts(ow) /\ Plans
      BY <2>1, Constants, SelectedUnits DEF LaunchManifest
    <2>2. ASSUME NEW m \in Manifests, NEW ap \in Approvals, NEW lo \in Days, NEW hi \in Days,
                 NEW ow \in BOOLEAN, Refuse(m, ap, ow, lo, hi)
          PROVE  Starts(ow) /\ Refuses
      BY <1>0, <2>2, Constants DEF Refuse, Starts
    <2>3. ASSUME NEW days, NEW ow \in BOOLEAN, LaunchRange(days, ow)
          PROVE  Starts(ow) /\ Ranges
      BY <2>3 DEF LaunchRange
    <2> HIDE DEF Plans, Refuses, Ranges
    <2> QED BY <2>1, <2>2, <2>3 DEF Launch
  <1>2. /\ phase = "down" /\ todo = << >>
        /\ results' = [u \in Units |-> "none"] /\ billed' = {} /\ exit' = NoExit
        /\ UNCHANGED <<files, rows, plain>>
    BY <1>0, <1>1 DEF Starts
  <1>3. << >> \in Seq(Units)
    OBVIOUS
  <1>4. TypeInv'
    <2>1. /\ manifest' \in Manifests \cup {NoManifest} /\ approve' \in Nat
          /\ phase' \in Phases /\ spent' \in Nat
          /\ manifest' # NoManifest => todo' \in Seq(Units)
      <3>1. CASE Plans BY <3>1 DEF TypeInv, Phases
      <3>2. CASE Refuses BY <1>3, <3>2 DEF Phases
      <3>3. CASE Ranges BY <3>3 DEF Phases
      <3> QED BY <1>1, <3>1, <3>2, <3>3
    <2>2. results' \in [Units -> Statuses]
      BY <1>2 DEF Statuses
    <2> QED BY <1>2, <2>1, <2>2 DEF TypeInv, files, rows
  <1>5. PhaseInv'
    BY <1>1, <1>2, Constants DEF PhaseInv
  <1>6. SpendInv'
    BY <1>1, <1>2 DEF SpendInv, rows
  <1>7. ASSUME NEW u \in Units PROVE (UnitInv(u) /\ ResultInv(u) /\ PlainInv(u))'
    BY <1>1, <1>2, <1>7, Constants DEF UnitInv, ResultInv, PlainInv, files
  <1> QED BY <1>4, <1>5, <1>6, <1>7

LEMMA BackfillStep == BackfillInv /\ [Next]_vars => BackfillInv'
  <1>1. ASSUME BackfillInv, UNCHANGED vars PROVE BackfillInv'
    BY <1>1 DEF vars, files, rows, args, BackfillInv, TypeInv, PhaseInv, SpendInv, UnitInv,
                ResultInv, PlainInv, Vouched, Current, Reviewed
  <1>2. ASSUME BackfillInv, Unit PROVE BackfillInv'
    BY <1>2, ResumeInv, LocatedInv, MissingInv, GetBodyInv, CommitInv, CommitFailsInv,
       StreamInv, WriteStateInv, PublishInv, AppendOkInv, UnitFailsInv DEF Unit
  <1> QED BY <1>1, <1>2, LaunchInv, AuthorizationInv, FinishInv, QuotaAbortInv, KillInv,
             RotInv DEF Next

\* An empty store.
LEMMA BackfillStart == Init => BackfillInv
  <1> SUFFICES ASSUME Init PROVE BackfillInv
    OBVIOUS
  <1>1. << >> \in Seq(Units)
    OBVIOUS
  <1>2. TypeInv
    BY <1>1, Constants DEF Init, TypeInv, Phases, Statuses
  <1>3. PhaseInv /\ SpendInv
    BY DEF Init, PhaseInv, SpendInv, Reviewed
  <1>4. \A u \in Units : UnitInv(u) /\ ResultInv(u) /\ PlainInv(u)
    BY DEF Init, UnitInv, ResultInv, PlainInv, Current
  <1> QED BY <1>2, <1>3, <1>4 DEF BackfillInv

-----------------------------------------------------------------------------
(* The theorems *)

\* The inductive invariant holds of every behaviour.
THEOREM BackfillInvariant == Spec => []BackfillInv
  BY BackfillStart, BackfillStep, PTL DEF Spec

\* --approve-usd caps what was really spent under a manifest over all its runs,
\* the failed and the killed ones and those of torn rows included.
THEOREM TheCapHolds == Spec => []SpendWithinApproval
  <1>1. BackfillInv => SpendWithinApproval
    BY DEF BackfillInv, SpendInv, SpendWithinApproval
  <1> QED BY <1>1, BackfillInvariant, PTL

\* Exit code 0 of a reviewed run means that every unit it selected is on disk
\* with the bytes its state record names.
THEOREM SuccessIsVouched == Spec => []ExitZeroIsVouched
  <1>1. ASSUME BackfillInv, Reviewed, exit = 0, NEW u \in Units, results[u] # "none"
        PROVE  final[u] \in Versions /\ state[manifest][u] = final[u]
    BY <1>1, Constants DEF BackfillInv, PhaseInv, ResultInv, Vouched, Current
  <1>2. BackfillInv => ExitZeroIsVouched
    BY <1>1 DEF ExitZeroIsVouched
  <1> QED BY <1>2, BackfillInvariant, PTL

\* A plain run of a manifest never finds a conflict in what an earlier plain
\* run of it left behind, wherever that one was killed.
THEOREM NoConflictByCrash == Spec => []CrashNeverConflicts
  <1>1. BackfillInv => CrashNeverConflicts
    BY DEF BackfillInv, ResultInv, CrashNeverConflicts
  <1> QED BY <1>1, BackfillInvariant, PTL

-----------------------------------------------------------------------------
(* What a run reports *)

AfterBilling == {"streaming", "staged", "stated", "published"}

Running == phase # "down" \/ exit # NoExit

\* A unit is billed once, when it is worked on, and what the units billed cost
\* is what the run has added to the ledger.
ReportInv ==
    /\ prior \in Nat /\ billed \subseteq Units /\ IsFiniteSet(billed)
    /\ Reviewed =>
          /\ \A j, k \in 1 .. Len(todo) : j < k => todo[j] # todo[k]
          /\ \A j \in 1 .. Len(todo) : todo[j] \in billed => j = 1 /\ phase \in AfterBilling
          /\ Running /\ ~ cut => prior + Cost(billed, Price) = ledger[manifest]

\* A step that bills nothing the ledger then lacks.
Quiet ==
    /\ UNCHANGED <<billed, manifest, prior>>
    /\ \/ todo' = << >>
       \/ todo # << >> /\ todo' = Tail(todo)
       \/ todo' = todo /\ (phase \in AfterBilling => phase' \in AfterBilling)
    /\ Running' /\ ~ cut' => Running /\ ~ cut /\ UNCHANGED ledger

LEMMA QuietReports ==
    ASSUME BackfillInv, ReportInv, Quiet
    PROVE  ReportInv'
  <1>1. ASSUME Reviewed
        PROVE  /\ \A j, k \in 1 .. Len(todo') : j < k => todo'[j] # todo'[k]
               /\ \A j \in 1 .. Len(todo') : todo'[j] \in billed => j = 1 /\ phase' \in AfterBilling
    <2>1. todo \in Seq(Units)
      BY <1>1 DEF BackfillInv, TypeInv
    <2>2. CASE todo' = << >>
      <3>1. Len(todo') = 0
        BY <2>2
      <3>2. \A j \in 1 .. Len(todo') : FALSE
        BY <3>1
      <3> QED BY <3>2
    <2>3. CASE todo # << >> /\ todo' = Tail(todo)
      <3>1. /\ \A j \in 1 .. Len(todo') : todo'[j] = todo[j + 1]
            /\ Len(todo') = Len(todo) - 1 /\ Len(todo) \in Nat
        BY <2>1, <2>3
      <3>2. \A j \in 1 .. Len(todo') : j + 1 \in 1 .. Len(todo) /\ j + 1 # 1
        BY <3>1
      <3>3. \A j, k \in 1 .. Len(todo') : j < k => j + 1 < k + 1
        OBVIOUS
      <3> QED BY <1>1, <3>1, <3>2, <3>3 DEF ReportInv
    <2>4. CASE todo' = todo /\ (phase \in AfterBilling => phase' \in AfterBilling)
      BY <1>1, <2>4 DEF ReportInv
    <2> QED BY <2>2, <2>3, <2>4 DEF Quiet
  <1>2. Reviewed' <=> Reviewed
    BY DEF Quiet, Reviewed
  <1>3. Cost(billed, Price)' = Cost(billed, Price)
    BY DEF Quiet, Cost
  <1> QED BY <1>1, <1>2, <1>3 DEF ReportInv, Quiet

\* Every other action but the commit of a billing row is such a step.
LEMMA QuietSteps ==
    ASSUME BackfillInv,
           \/ AppendAuthorization \/ Resume \/ Located \/ Missing \/ GetBody \/ CommitFails
           \/ Stream \/ WriteState \/ Publish \/ AppendOk \/ UnitFails
           \/ Finish \/ QuotaAbort \/ Kill \/ \E u \in Units : Rot(u)
    PROVE  Quiet
  <1> USE DEF Quiet, Running, AfterBilling, args, rows, At
  <1>1. AppendAuthorization => Quiet
    BY DEF AppendAuthorization, AppendRow
  <1>2. Resume => Quiet
    BY DEF Resume, EndUnit
  <1>3. Located => Quiet
    BY DEF Located, EndUnit
  <1>4. Missing => Quiet
    BY DEF Missing, AppendRow, EndUnit
  <1>5. GetBody => Quiet
    BY DEF GetBody
  <1>6. CommitFails => Quiet
    BY DEF CommitFails, EndUnit
  <1>7. Stream => Quiet
    BY DEF Stream
  <1>8. WriteState => Quiet
    BY DEF WriteState
  <1>9. Publish => Quiet
    BY DEF Publish
  <1>10. AppendOk => Quiet
    BY DEF AppendOk, AppendRow, EndUnit
  <1>11. UnitFails => Quiet
    BY DEF UnitFails, EndUnit
  <1>0. ASSUME NEW code, Ends(code), phase # "down" PROVE Quiet
    BY <1>0 DEF Ends
  <1>12. Finish => Quiet
    BY <1>0 DEF Finish
  <1>13. QuotaAbort => Quiet
    BY <1>0 DEF QuotaAbort
  <1>14. Kill => Quiet
    BY DEF Kill
  <1>15. ASSUME NEW u \in Units, Rot(u) PROVE Quiet
    BY <1>15 DEF Rot
  <1> QED BY <1>1, <1>2, <1>3, <1>4, <1>5, <1>6, <1>7, <1>8, <1>9, <1>10, <1>11, <1>12, <1>13,
             <1>14, <1>15

\* The unit whose price goes to the ledger was not billed before.
LEMMA CommitReports ==
    ASSUME BackfillInv, ReportInv, Commit
    PROVE  ReportInv'
  <1>1. /\ phase = "billing" /\ todo # << >> /\ phase' = "streaming"
        /\ AppendBilled(Head(todo)) /\ billed' = billed \cup {Head(todo)}
        /\ UNCHANGED <<manifest, prior, todo, exit, cut>>
    BY DEF Commit, At, u0, args
  <1>2. Reviewed /\ Reviewed'
    BY <1>1 DEF BackfillInv, PhaseInv, Reviewed
  <1>3. todo \in Seq(Units) /\ Head(todo) = todo[1] /\ 1 \in 1 .. Len(todo) /\ Head(todo) \in Units
    BY <1>1, <1>2 DEF BackfillInv, TypeInv
  <1>4. Head(todo) \notin billed
    BY <1>1, <1>2, <1>3 DEF ReportInv, AfterBilling
  <1>5. IsFiniteSet(billed) /\ billed \subseteq Units /\ Price \in [Units -> Nat]
    BY Constants DEF ReportInv
  <1>6. Cost(billed', Price) = Price[Head(todo)] + Cost(billed, Price)
    <2>1. \A u \in billed \cup {Head(todo)} : Price[u] \in Nat
      BY <1>3, <1>5
    <2> QED BY <1>1, <1>4, <1>5, <2>1, SumInsert DEF Cost
  <1>7. Cost(billed, Price) \in Nat /\ Price[Head(todo)] \in Nat /\ prior \in Nat
    BY <1>3, <1>5, SumOfNaturals DEF Cost, ReportInv
  <1>8. ASSUME ~ cut PROVE prior + Cost(billed', Price) = ledger'[manifest]
    <2>1. prior + Cost(billed, Price) = ledger[manifest]
      BY <1>1, <1>2, <1>8 DEF ReportInv, Running
    <2>2. ~ ragged
      BY <1>1, <1>2, <1>8 DEF BackfillInv, SpendInv
    <2>3. manifest \in Manifests /\ ledger \in [Manifests -> Nat]
      BY <1>2 DEF BackfillInv, TypeInv, Reviewed
    <2>4. ledger'[manifest] = ledger[manifest] + Price[Head(todo)]
      BY <1>1, <2>2, <2>3 DEF AppendBilled
    <2> QED BY <1>6, <1>7, <2>1, <2>4
  <1>9. IsFiniteSet(billed') /\ billed' \subseteq Units
    BY <1>1, <1>3, <1>5, FS_AddElement
  <1>10. \A j, k \in 1 .. Len(todo) : j < k => todo[j] # todo[k]
    BY <1>2 DEF ReportInv
  <1>11. ASSUME NEW j \in 1 .. Len(todo), todo[j] \in billed' PROVE j = 1
    <2>1. CASE todo[j] \in billed
      BY <1>2, <2>1 DEF ReportInv
    <2>2. CASE todo[j] = Head(todo)
      <3>1. ~ (1 < j)
        BY <1>3, <1>10, <2>2
      <3> QED BY <3>1
    <2> QED BY <1>1, <1>11, <2>1, <2>2
  <1>12. Cost(billed, Price)' = Cost(billed', Price)
    BY DEF Cost
  <1> QED BY <1>1, <1>7, <1>8, <1>9, <1>10, <1>11, <1>12 DEF ReportInv, AfterBilling, Running

\* The units of a window are distinct.
LEMMA SelectedDistinct ==
    ASSUME NEW m \in Manifests, NEW lo, NEW hi, NEW plan \in Selected(m, lo, hi)
    PROVE  \A j, k \in 1 .. Len(plan) : j < k => plan[j] # plan[k]
  <1> DEFINE s == UnitsOf[m]
  <1>1. s \in Seq(Units) /\ \A j, k \in 1 .. Len(s) : j < k => s[j] # s[k]
    <2>1. s \in Seq(Units) /\ DOMAIN s = 1 .. Len(s)
      BY BackfillAssumption
    <2>2. \A j, k \in DOMAIN s : j < k => s[j] # s[k]
      BY BackfillAssumption
    <2> QED BY <2>1, <2>2
  <1>2. PICK a \in 1 .. Len(s), b \in 0 .. Len(s) : plan = SubSeq(s, a, b)
    BY DEF Selected, Windows
  <1> HIDE DEF s
  <1>3. /\ \A j \in 1 .. Len(plan) : plan[j] = s[a + j - 1]
        /\ Len(plan) = IF a <= b THEN b - a + 1 ELSE 0
        /\ Len(s) \in Nat
    BY <1>1, <1>2
  <1>4. ASSUME NEW j \in 1 .. Len(plan), NEW k \in 1 .. Len(plan), j < k
        PROVE  plan[j] # plan[k]
    <2>1. a + j - 1 \in 1 .. Len(s) /\ a + k - 1 \in 1 .. Len(s) /\ a + j - 1 < a + k - 1
      BY <1>2, <1>3, <1>4
    <2> QED BY <1>1, <1>3, <2>1
  <1> QED BY <1>4

LEMMA LaunchReports ==
    ASSUME BackfillInv, ReportInv, Launch
    PROVE  ReportInv'
  <1>1. ASSUME NEW ow \in BOOLEAN, Starts(ow)
        PROVE  /\ phase = "down" /\ billed' = {} /\ exit' = NoExit
               /\ UNCHANGED <<ledger, cut>> /\ todo = << >>
               /\ IsFiniteSet(billed') /\ Cost(billed, Price)' = 0
    <2>1. phase = "down" /\ billed' = {} /\ exit' = NoExit /\ UNCHANGED <<ledger, cut>>
      BY <1>1 DEF Starts, rows
    <2> QED BY <2>1, FS_EmptySet, SumEmpty DEF BackfillInv, PhaseInv, Cost
  <1>2. ASSUME NEW m \in Manifests, NEW ap \in Approvals, NEW lo \in Days, NEW hi \in Days,
               NEW ow \in BOOLEAN, LaunchManifest(m, ap, ow, lo, hi)
        PROVE  ReportInv'
    <2>1. PICK plan \in Selected(m, lo, hi) :
             /\ Starts(ow) /\ manifest' = m /\ prior' = ledger[m] /\ todo' = plan
      BY <1>2 DEF LaunchManifest
    <2>2. \A j, k \in 1 .. Len(todo') : j < k => todo'[j] # todo'[k]
      BY <2>1, SelectedDistinct
    <2>3. ledger[m] \in Nat
      BY DEF BackfillInv, TypeInv
    <2> QED BY <1>1, <2>1, <2>2, <2>3 DEF ReportInv
  <1>3. ASSUME NEW m \in Manifests, NEW ap \in Approvals, NEW lo \in Days, NEW hi \in Days,
               NEW ow \in BOOLEAN, Refuse(m, ap, ow, lo, hi)
        PROVE  ReportInv'
    <2>1. Starts(ow) /\ prior' = 0 /\ UNCHANGED <<todo, phase>>
      BY <1>3 DEF Refuse
    <2>2. todo' = << >> /\ phase' = "down" /\ exit' = NoExit
      BY <1>1, <2>1
    <2>3. Len(todo') = 0
      BY <2>2
    <2>4. \A j \in 1 .. Len(todo') : FALSE
      BY <2>3
    <2> QED BY <1>1, <2>1, <2>2, <2>4 DEF ReportInv, Running
  <1>4. ASSUME NEW days, NEW ow \in BOOLEAN, LaunchRange(days, ow)
        PROVE  ReportInv'
    <2>1. Starts(ow) /\ prior' = 0 /\ ~ Reviewed'
      BY <1>4 DEF LaunchRange, Reviewed
    <2> QED BY <1>1, <2>1 DEF ReportInv
  <1> QED BY <1>2, <1>3, <1>4 DEF Launch

LEMMA ReportStep == BackfillInv /\ ReportInv /\ [Next]_vars => ReportInv'
  <1>1. ASSUME BackfillInv, ReportInv, UNCHANGED vars PROVE ReportInv'
    <2>1. Quiet
      BY <1>1 DEF vars, files, rows, args, Quiet, Running
    <2> QED BY <1>1, <2>1, QuietReports
  <1>2. ASSUME BackfillInv, ReportInv, Next PROVE ReportInv'
    BY <1>2, LaunchReports, CommitReports, QuietSteps, QuietReports DEF Next, Unit
  <1> QED BY <1>1, <1>2

LEMMA ReportStart == Init => ReportInv
  <1>1. IsFiniteSet({})
    BY FS_EmptySet
  <1> QED BY <1>1 DEF Init, ReportInv, Reviewed

\* What an execution report says was spent is what its run added to the ledger,
\* whatever became of the units after they were billed; and with the cap it is
\* the spend that was approved.
THEOREM SpendIsAccountedTheorem == Spec => []SpendIsAccounted
  <1>1. Init => BackfillInv /\ ReportInv
    BY BackfillStart, ReportStart
  <1>2. BackfillInv /\ ReportInv /\ [Next]_vars => (BackfillInv /\ ReportInv)'
    BY BackfillStep, ReportStep
  <1>3. BackfillInv => SpendWithinApproval
    BY DEF BackfillInv, SpendInv, SpendWithinApproval
  <1>4. BackfillInv /\ ReportInv => ReportedSpendIsLedgers
    <2>1. NoExit \notin {0, 1, 5}
      BY BackfillAssumption
    <2> QED BY <2>1 DEF ReportInv, Running, ReportedSpendIsLedgers, MeasuredUsd
  <1>5. BackfillInv /\ ReportInv => SpendIsAccounted
    BY <1>3, <1>4 DEF SpendIsAccounted
  <1> QED BY <1>1, <1>2, <1>5, PTL DEF Spec
================================================================================
