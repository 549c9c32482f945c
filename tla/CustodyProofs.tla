----------------------------- MODULE CustodyProofs -----------------------------
(***************************************************************************)
(* Theorems about the way of the holdout into custody and out of it, for   *)
(* any days, products, users, layers, evidence and number of shells,       *)
(* plans, edits, builds, processes, freezes, results and commands.         *)
(*   AcquisitionGate  A day of the holdout is placed by the custodian: the *)
(*      invariant follows a command of the packet through the gate, with   *)
(*      what each step has established about its command, its plan and the *)
(*      days file that the work reads again, while plan commands rewrite   *)
(*      the files under it.                                                *)
(*   HoldoutBuild  An attestation anybody can see stands beside the        *)
(*      outputs it hashes, through every crash and power loss, and what it *)
(*      vouches for is what the custodian sealed: one invariant follows    *)
(*      the four output files through the order of the system calls, the   *)
(*      other the documents from the inventory to the decoded rows.        *)
(*   DevelopmentFreeze  Every outcome in the ledger was computed from the  *)
(*      one build it is pinned to, and an accepted freeze answers for      *)
(*      every attempt.                                                     *)
(*   HoldoutConsumption  The invariant says what a command in progress     *)
(*      knows of the record it has read, which another command may have    *)
(*      replaced meanwhile, and what more it knows in a behaviour where    *)
(*      commands do not overlap.                                           *)
(***************************************************************************)
EXTENDS AcquisitionGate, HoldoutBuild, DevelopmentFreeze, HoldoutConsumption,
        WellFoundedInduction, TLAPS

-----------------------------------------------------------------------------
(* The gate *)

Names == {"plan", "packet"} \cup Partitions

\* Every packet there is puts the same three destinations under custody.
CustodyScope == <<Root("raw", "holdout"), Root("processed", "holdout"),
                  Root("reports", "holdout")>>

\* A packet's command works below the roots of its own partition.
OfItsPartition(c) ==
    /\ c.partition \in Partitions /\ c.daysFile = c.partition
    /\ c.out \in {Root("raw", c.partition), Root("processed", c.partition)}
    /\ c.report = Root("reports", c.partition)

-----------------------------------------------------------------------------
(* The inductive invariant *)

\* The plan command writes what it planned.
PlannerInv ==
    planner # NoPlanner =>
        /\ planner = [todo |-> planner.todo, open |-> planner.open, plan |-> planner.plan]
        /\ planner.todo \in Seq(Names)
        /\ \E c, o \in Users : planner.plan = Plan(c, o)

\* Nobody edits a packet.
FilesInv ==
    /\ DOMAIN files = Names
    /\ files["packet"] # Truncated => \E c, o \in Users : files["packet"] = Packet(Plan(c, o))

\* A days file that was verified is that of its partition until the work reads
\* it, or has just been emptied by a plan command.
ShellInv(i) ==
    LET s == shells[i]
        days == Elements(Days(s.command.partition))
    IN  /\ s.pc \in {"idle", "waiting", "verify", "days", "launch", "work"}
        /\ s.pc \in {"waiting", "verify"} =>
              s = [pc |-> s.pc, command |-> s.command, user |-> s.user, scope |-> s.scope]
        /\ s.pc \in {"days", "launch"} =>
              s = [pc |-> s.pc, command |-> s.command, user |-> s.user, scope |-> s.scope,
                   plan |-> s.plan]
        /\ s.pc = "work" =>
              s = [pc |-> s.pc, command |-> s.command, user |-> s.user, scope |-> s.scope,
                   plan |-> s.plan, todo |-> s.todo, seen |-> s.seen]
        /\ s.pc # "idle" => OfItsPartition(s.command) /\ s.scope = CustodyScope
        /\ s.pc \in {"days", "launch", "work"} => ValidPlan(s.plan)
        /\ s.pc \in {"launch", "work"} /\ s.command.partition = "holdout" =>
              s.user = s.plan.custodian
        /\ s.pc = "launch" =>
              files[s.command.partition] \in {Truncated, Days(s.command.partition)}
        /\ s.pc = "work" => s.todo \subseteq days /\ s.seen \subseteq days

ShellsInv == DOMAIN shells = Gated /\ \A i \in Gated : ShellInv(i)

GateInv == PlannerInv /\ FilesInv /\ ShellsInv /\ JanuaryStaysInCustody

-----------------------------------------------------------------------------
(* Plans and packets *)

LEMMA PlannedDays ==
    ASSUME NEW c, NEW o, NEW p \in Partitions
    PROVE  Plan(c, o)[p].days = Days(p)
  BY DEF Plan, PartitionBlock, Partitions

\* A command is of its partition, and its packet's scope is under custody.
LEMMA PacketCommands ==
    ASSUME NEW u, NEW o
    PROVE  /\ Packet(Plan(u, o)).scope = CustodyScope
           /\ \A c \in Packet(Plan(u, o)).commands : OfItsPartition(c)
  <1>1. Plan(u, o).scope = CustodyScope
    BY DEF Plan, HoldoutScope, PartitionBlock, CustodyScope
  <1>2. ASSUME NEW p \in Partitions, NEW s \in Stages
        PROVE  OfItsPartition(Command(Plan(u, o), p, s))
    <2>1. Plan(u, o)[p] = PartitionBlock(p)
      BY DEF Plan, Partitions
    <2>2. /\ Command(Plan(u, o), p, s).partition = p
          /\ Command(Plan(u, o), p, s).daysFile = p
          /\ Command(Plan(u, o), p, s).report = PartitionBlock(p).report
          /\ Command(Plan(u, o), p, s).out
                \in {PartitionBlock(p).raw, PartitionBlock(p).normalized}
      BY <2>1 DEF Command
    <2> QED BY <2>2 DEF OfItsPartition, PartitionBlock
  <1> QED BY <1>1, <1>2 DEF Packet, Commands

LEMMA GateInitInv == GateInit => GateInv
  <1> SUFFICES ASSUME GateInit PROVE GateInv
    OBVIOUS
  <1>1. ShellsInv
    BY DEF GateInit, Idle, ShellsInv, ShellInv
  <1> QED BY <1>1 DEF GateInit, GateInv, PlannerInv, FilesInv, JanuaryStaysInCustody, Names

-----------------------------------------------------------------------------
(* The plan command and the hand *)

\* A rewrite of a file leaves every shell what it knows, unless it leaves other
\* days in a days file.
LEMMA Rewrite ==
    ASSUME GateInv, NEW f \in Names, NEW content,
           files' = [files EXCEPT ![f] = content], UNCHANGED <<shells, placed>>,
           \/ f \notin Partitions
           \/ content \in {Truncated, Days(f)}
           \/ \A i \in Gated : ~ Running(i)
    PROVE  ShellsInv' /\ JanuaryStaysInCustody'
  <1>1. files'[f] = content /\ \A g \in Names : g # f => files'[g] = files[g]
    BY DEF GateInv, FilesInv
  <1>2. ASSUME NEW i \in Gated PROVE ShellInv(i)'
    <2>1. ShellInv(i) /\ shells'[i] = shells[i]
      BY <1>2 DEF GateInv, ShellsInv
    <2>2. ASSUME shells[i].pc = "launch"
          PROVE  files'[shells[i].command.partition]
                    \in {Truncated, Days(shells[i].command.partition)}
      <3>1. /\ shells[i].command.partition \in Partitions /\ Running(i)
            /\ files[shells[i].command.partition]
                    \in {Truncated, Days(shells[i].command.partition)}
        BY <2>1, <2>2 DEF ShellInv, OfItsPartition, Running
      <3> QED BY <1>1, <1>2, <3>1 DEF Names
    <2> QED BY <2>1, <2>2 DEF ShellInv
  <1> QED BY <1>2 DEF GateInv, ShellsInv, JanuaryStaysInCustody

LEMMA PlanSteps ==
    ASSUME GateInv, StartPlan \/ OpenFile \/ CloseFile \/ PlanKilled
    PROVE  GateInv'
  <1>1. CASE StartPlan
    <2>1. PICK c \in Users, o \in Users, elsewhere \in BOOLEAN :
             planner' = [todo |-> WriteOrder(elsewhere), open |-> FALSE, plan |-> Plan(c, o)]
      BY <1>1 DEF StartPlan
    <2>2. WriteOrder(elsewhere) \in Seq(Names)
      <3>1. /\ <<"development", "holdout">> \in Seq(Names)
            /\ <<"plan", "packet", "development", "holdout">> \in Seq(Names)
        BY DEF Names, Partitions
      <3> QED BY <3>1 DEF WriteOrder
    <2> HIDE DEF Plan, WriteOrder
    <2>3. PlannerInv'
      BY <2>1, <2>2 DEF PlannerInv
    <2> QED BY <1>1, <2>3 DEF StartPlan, GateInv, FilesInv, ShellsInv, ShellInv,
                              JanuaryStaysInCustody
  <1>2. ASSUME OpenFile \/ CloseFile
        PROVE  /\ planner = [todo |-> planner.todo, open |-> planner.open,
                             plan |-> planner.plan]
               /\ planner.todo \in Seq(Names) /\ Head(planner.todo) \in Names
               /\ Tail(planner.todo) \in Seq(Names)
               /\ \E c, o \in Users : planner.plan = Plan(c, o)
    <2>1. planner.todo # <<>> /\ NoPlanner.todo = <<>>
      BY <1>2 DEF OpenFile, CloseFile, NoPlanner
    <2>2. planner # NoPlanner
      BY <2>1
    <2>3. /\ planner = [todo |-> planner.todo, open |-> planner.open, plan |-> planner.plan]
          /\ planner.todo \in Seq(Names) /\ \E c, o \in Users : planner.plan = Plan(c, o)
      BY <2>2 DEF GateInv, PlannerInv
    <2> QED BY <2>1, <2>3
  <1>3. CASE OpenFile
    <2> DEFINE f == Head(planner.todo)
    <2>1. /\ f \in Names /\ files' = [files EXCEPT ![f] = Truncated]
          /\ planner' = [planner EXCEPT !.open = TRUE]
          /\ UNCHANGED <<shells, placed>>
      BY <1>2, <1>3 DEF OpenFile
    <2>2. PlannerInv'
      <3>1. /\ planner' = [todo |-> planner'.todo, open |-> planner'.open,
                           plan |-> planner'.plan]
            /\ planner'.todo = planner.todo /\ planner'.plan = planner.plan
        BY <1>2, <1>3, <2>1
      <3> QED BY <1>2, <1>3, <3>1 DEF PlannerInv
    <2>3. FilesInv'
      BY <2>1 DEF GateInv, FilesInv
    <2>4. ShellsInv' /\ JanuaryStaysInCustody'
      BY <2>1, Rewrite
    <2> QED BY <2>2, <2>3, <2>4 DEF GateInv
  <1>4. CASE CloseFile
    <2> DEFINE f == Head(planner.todo)
               rest == Tail(planner.todo)
    <2>1. /\ f \in Names /\ files' = [files EXCEPT ![f] = Content(f, planner.plan)]
          /\ planner' = IF rest = <<>> THEN NoPlanner
                        ELSE [planner EXCEPT !.todo = rest, !.open = FALSE]
          /\ UNCHANGED <<shells, placed>>
      BY <1>2, <1>4 DEF CloseFile
    <2>2. PlannerInv'
      <3>1. CASE planner' = NoPlanner
        BY <3>1 DEF PlannerInv
      <3>2. CASE planner' = [planner EXCEPT !.todo = rest, !.open = FALSE]
        <4>1. /\ planner' = [todo |-> planner'.todo, open |-> planner'.open,
                             plan |-> planner'.plan]
              /\ planner'.todo = rest /\ planner'.plan = planner.plan
          BY <1>2, <1>4, <3>2
        <4> QED BY <1>2, <1>4, <4>1 DEF PlannerInv
      <3> QED BY <2>1, <3>1, <3>2
    <2>3. PICK c \in Users, o \in Users : planner.plan = Plan(c, o)
      BY <1>2, <1>4
    <2>4. /\ f = "packet" => Content(f, planner.plan) = Packet(Plan(c, o))
          /\ f \in Partitions => Content(f, planner.plan) = Days(f)
      BY <2>3, PlannedDays DEF Content, Partitions
    <2>5. FilesInv'
      BY <2>1, <2>4 DEF GateInv, FilesInv
    <2>6. ShellsInv' /\ JanuaryStaysInCustody'
      BY <2>1, <2>4, Rewrite
    <2> QED BY <2>2, <2>5, <2>6 DEF GateInv
  <1>5. CASE PlanKilled
    BY <1>5 DEF PlanKilled, GateInv, PlannerInv, FilesInv, ShellsInv, ShellInv,
                JanuaryStaysInCustody
  <1> QED BY <1>1, <1>3, <1>4, <1>5

LEMMA EditInv ==
    ASSUME GateInv, Edit
    PROVE  GateInv'
  <1>1. PICK f \in Names \ {"packet"} : \E content : files' = [files EXCEPT ![f] = content]
    BY DEF Edit, Names, Partitions
  <1>2. (\A i \in Gated : ~ Running(i)) /\ UNCHANGED <<planner, shells, placed>>
    BY DEF Edit
  <1>3. ShellsInv' /\ JanuaryStaysInCustody'
    BY <1>1, <1>2, Rewrite
  <1>4. FilesInv'
    BY <1>1 DEF GateInv, FilesInv, Names
  <1> QED BY <1>2, <1>3, <1>4 DEF GateInv, PlannerInv

-----------------------------------------------------------------------------
(* The gated commands *)

\* A step of one shell that leaves the files alone.
LEMMA ShellStep ==
    ASSUME GateInv, NEW i \in Gated, NEW s, shells' = [shells EXCEPT ![i] = s],
           UNCHANGED <<files, planner>>, ShellInv(i)', JanuaryStaysInCustody'
    PROVE  GateInv'
  <1>1. \A j \in Gated : ShellInv(j)'
    <2> TAKE j \in Gated
    <2>1. CASE j = i
      BY <2>1
    <2>2. CASE j # i
      <3>1. shells'[j] = shells[j] /\ ShellInv(j)
        BY <2>2 DEF GateInv, ShellsInv
      <3> QED BY <3>1 DEF ShellInv
    <2> QED BY <2>1, <2>2
  <1> QED BY <1>1 DEF GateInv, ShellsInv, PlannerInv, FilesInv

\* A shell that ends.
LEMMA EndsInv ==
    ASSUME GateInv, NEW i \in Gated, Ends(i), JanuaryStaysInCustody'
    PROVE  GateInv'
  <1>1. shells'[i] = Idle
    BY DEF Ends, GateInv, ShellsInv
  <1>2. ShellInv(i)'
    BY <1>1 DEF ShellInv, Idle
  <1> QED BY <1>2, ShellStep DEF Ends

\* The lock, the gate and its refusals.
LEMMA GateSteps ==
    ASSUME GateInv, NEW i \in Gated,
           Launch(i) \/ Acquire(i) \/ LockTimesOut(i) \/ PlanVerified(i) \/ DaysVerified(i)
             \/ Refused(i) \/ Killed(i)
    PROVE  GateInv'
  <1> DEFINE s == shells[i]
  <1>1. ShellInv(i)
    BY DEF GateInv, ShellsInv
  <1>2. CASE Launch(i)
    <2>1. PICK c \in files.packet.commands, u \in Users :
             shells' = [shells EXCEPT ![i] = [pc |-> "waiting", command |-> c, user |-> u,
                                              scope |-> files.packet.scope]]
      BY <1>2 DEF Launch
    <2>2. OfItsPartition(c) /\ files.packet.scope = CustodyScope
      <3>1. PICK v, o \in Users : files["packet"] = Packet(Plan(v, o))
        BY <1>2 DEF Launch, GateInv, FilesInv
      <3> QED BY <2>1, <3>1, PacketCommands
    <2>3. shells'[i] = [pc |-> "waiting", command |-> c, user |-> u, scope |-> CustodyScope]
      BY <2>1, <2>2 DEF GateInv, ShellsInv
    <2>4. ShellInv(i)'
      BY <2>2, <2>3 DEF ShellInv
    <2>5. JanuaryStaysInCustody'
      BY <1>2 DEF Launch, GateInv, JanuaryStaysInCustody
    <2> QED BY <1>2, <2>1, <2>4, <2>5, ShellStep DEF Launch
  <1>3. CASE Acquire(i)
    <2>1. /\ s.pc = "waiting" /\ shells' = [shells EXCEPT ![i] = [s EXCEPT !.pc = "verify"]]
          /\ UNCHANGED <<files, planner, placed>>
      BY <1>3 DEF Acquire
    <2>2. shells'[i] = [pc |-> "verify", command |-> s.command, user |-> s.user,
                        scope |-> s.scope]
      BY <1>1, <2>1 DEF GateInv, ShellsInv, ShellInv
    <2>3. ShellInv(i)'
      BY <1>1, <2>1, <2>2 DEF ShellInv
    <2> QED BY <2>1, <2>3, ShellStep DEF GateInv, JanuaryStaysInCustody
  <1>4. CASE LockTimesOut(i)
    <2>1. shells'[i] = Idle
      BY <1>4 DEF LockTimesOut, GateInv, ShellsInv
    <2>2. ShellInv(i)'
      BY <2>1 DEF ShellInv, Idle
    <2> QED BY <1>4, <2>2, ShellStep DEF LockTimesOut, GateInv, JanuaryStaysInCustody
  <1>5. CASE PlanVerified(i)
    <2>1. s.pc = "verify" /\ ValidPlan(files.plan)
      BY <1>5 DEF PlanVerified, VerifiesPlan
    <2>2. shells'[i] = [pc |-> "days", command |-> s.command, user |-> s.user,
                        scope |-> s.scope, plan |-> files.plan]
      BY <1>5 DEF PlanVerified, GateInv, ShellsInv
    <2>3. ShellInv(i)'
      BY <1>1, <2>1, <2>2 DEF ShellInv
    <2> QED BY <1>5, <2>3, ShellStep DEF PlanVerified, GateInv, JanuaryStaysInCustody
  <1>6. CASE DaysVerified(i)
    <2>1. /\ s.pc = "days"
          /\ files[s.command.partition] = s.plan[s.command.partition].daysDigest
          /\ s.command.partition = "holdout" => s.user = s.plan.custodian
          /\ shells' = [shells EXCEPT ![i] = [s EXCEPT !.pc = "launch"]]
          /\ UNCHANGED <<files, planner, placed>>
      BY <1>6 DEF DaysVerified, VerifiesDays
    <2>2. shells'[i] = [pc |-> "launch", command |-> s.command, user |-> s.user,
                        scope |-> s.scope, plan |-> s.plan]
      BY <1>1, <2>1 DEF GateInv, ShellsInv, ShellInv
    <2>3. files[s.command.partition] = Days(s.command.partition)
      <3>1. ValidPlan(s.plan) /\ s.command.partition \in Partitions
        BY <1>1, <2>1 DEF ShellInv, OfItsPartition
      <3>2. \A p \in Partitions : s.plan[p].daysDigest = Days(p)
        BY <3>1 DEF ValidPlan, ValidPartition, Partitions
      <3> QED BY <2>1, <3>1, <3>2
    <2>4. ShellInv(i)'
      BY <1>1, <2>1, <2>2, <2>3 DEF ShellInv
    <2> QED BY <2>1, <2>4, ShellStep DEF GateInv, JanuaryStaysInCustody
  <1>7. CASE Refused(i) \/ Killed(i)
    <2>1. Ends(i) /\ JanuaryStaysInCustody'
      BY <1>7 DEF Refused, Killed, GateInv, JanuaryStaysInCustody
    <2> QED BY <2>1, EndsInv
  <1> QED BY <1>2, <1>3, <1>4, <1>5, <1>6, <1>7

\* The roots of the two partitions are apart.
LEMMA RootsApart ==
    ASSUME NEW c, OfItsPartition(c), NEW root \in {c.out, c.report}
    PROVE  root \in Elements(CustodyScope) <=> c.partition = "holdout"
  <1>1. Elements(CustodyScope)
           = {Root("raw", "holdout"), Root("processed", "holdout"), Root("reports", "holdout")}
    <2>1. DOMAIN CustodyScope = 1 .. 3
      BY DEF CustodyScope
    <2> QED BY <2>1 DEF Elements, CustodyScope
  <1>2. CASE c.partition = "holdout"
    BY <1>1, <1>2 DEF OfItsPartition
  <1>3. CASE c.partition = "development"
    BY <1>1, <1>3 DEF OfItsPartition, Root
  <1> QED BY <1>2, <1>3 DEF OfItsPartition, Partitions

\* What the work of a verified command places keeps January in custody.
LEMMA EntryInCustody ==
    ASSUME NEW i, ShellInv(i), shells[i].pc = "work",
           NEW d \in Elements(Days(shells[i].command.partition)),
           NEW root \in {shells[i].command.out, shells[i].command.report}
    PROVE  LET e == DayEntry(i, d, root)
           IN  IF e.day \in Elements(HoldoutDays)
               THEN e.root \in Elements(e.scope) /\ e.user = e.custodian /\ e.user # e.operator
               ELSE e.root \notin Elements(e.scope)
  <1> DEFINE s == shells[i]
             e == DayEntry(i, d, root)
  <1>1. /\ OfItsPartition(s.command) /\ s.scope = CustodyScope
        /\ s.plan.custodian # s.plan.operator
        /\ s.command.partition = "holdout" => s.user = s.plan.custodian
    BY DEF ShellInv, ValidPlan, ValidCustody
  <1>2. /\ e.day = d /\ e.root = root /\ e.user = s.user /\ e.scope = s.scope
        /\ e.custodian = s.plan.custodian /\ e.operator = s.plan.operator
    BY DEF DayEntry
  <1>3. d \in Elements(HoldoutDays) <=> s.command.partition = "holdout"
    BY <1>1, DaysAssumption DEF OfItsPartition, Partitions, Days
  <1>4. root \in Elements(CustodyScope) <=> s.command.partition = "holdout"
    BY <1>1, RootsApart
  <1> QED BY <1>1, <1>2, <1>3, <1>4

LEMMA WorkSteps ==
    ASSUME GateInv, NEW i \in Gated,
           ReadDaysFile(i) \/ PlaceDay(i) \/ WriteReport(i)
    PROVE  GateInv'
  <1> DEFINE s == shells[i]
  <1>1. ShellInv(i)
    BY DEF GateInv, ShellsInv
  <1>2. CASE ReadDaysFile(i)
    <2> DEFINE days == files[s.command.daysFile]
    <2>1. /\ s.pc = "launch" /\ days # <<>>
          /\ shells' = [shells EXCEPT ![i] =
                [pc |-> "work", command |-> s.command, user |-> s.user, scope |-> s.scope,
                 plan |-> s.plan, todo |-> Elements(days), seen |-> {}]]
          /\ UNCHANGED <<files, planner, placed>>
      BY <1>2 DEF ReadDaysFile
    <2>2. days = Days(s.command.partition)
      BY <1>1, <2>1 DEF ShellInv, OfItsPartition, Truncated
    <2>3. shells'[i] = [pc |-> "work", command |-> s.command, user |-> s.user,
                        scope |-> s.scope, plan |-> s.plan, todo |-> Elements(days),
                        seen |-> {}]
      BY <2>1 DEF GateInv, ShellsInv
    <2> HIDE DEF days
    <2>4. ShellInv(i)'
      BY <1>1, <2>1, <2>2, <2>3 DEF ShellInv
    <2> QED BY <2>1, <2>4, ShellStep DEF GateInv, JanuaryStaysInCustody
  <1>3. CASE PlaceDay(i)
    <2>1. PICK d \in s.todo :
             /\ placed' \in {placed, placed \cup {DayEntry(i, d, s.command.out)}}
             /\ shells' = [shells EXCEPT ![i].todo = @ \ {d}, ![i].seen = @ \cup {d}]
      BY <1>3 DEF PlaceDay
    <2>2. s.pc = "work" /\ d \in Elements(Days(s.command.partition))
      BY <1>1, <1>3, <2>1 DEF PlaceDay, ShellInv
    <2>3. shells'[i] = [pc |-> "work", command |-> s.command, user |-> s.user,
                        scope |-> s.scope, plan |-> s.plan, todo |-> s.todo \ {d},
                        seen |-> s.seen \cup {d}]
      BY <1>1, <2>1, <2>2 DEF GateInv, ShellsInv, ShellInv
    <2>4. ShellInv(i)'
      BY <1>1, <2>2, <2>3 DEF ShellInv
    <2>5. JanuaryStaysInCustody'
      BY <1>1, <2>1, <2>2, EntryInCustody DEF GateInv, JanuaryStaysInCustody
    <2>6. shells' = [shells EXCEPT ![i] = shells'[i]]
      BY <2>1 DEF GateInv, ShellsInv
    <2> QED BY <1>3, <2>4, <2>5, <2>6, ShellStep DEF PlaceDay
  <1>4. CASE WriteReport(i)
    <2>1. /\ s.pc = "work" /\ Ends(i)
          /\ placed' = placed \cup {DayEntry(i, d, s.command.report) : d \in s.seen}
      BY <1>4 DEF WriteReport
    <2>2. s.seen \subseteq Elements(Days(s.command.partition))
      BY <1>1, <2>1 DEF ShellInv
    <2>3. JanuaryStaysInCustody'
      BY <1>1, <2>1, <2>2, EntryInCustody DEF GateInv, JanuaryStaysInCustody
    <2> QED BY <2>1, <2>3, EndsInv
  <1> QED BY <1>2, <1>3, <1>4

-----------------------------------------------------------------------------
(* The theorem *)

LEMMA GateNextInv ==
    ASSUME GateInv, [GateNext]_gateVars
    PROVE  GateInv'
  <1>1. CASE UNCHANGED gateVars
    BY <1>1 DEF gateVars, GateInv, PlannerInv, FilesInv, ShellsInv, ShellInv,
                JanuaryStaysInCustody
  <1>2. CASE GateNext
    BY <1>2, PlanSteps, EditInv, GateSteps, WorkSteps DEF GateNext
  <1> QED BY <1>1, <1>2

\* g0bn_acquisition_preflight.py: whatever is replanned, torn, edited between
\* commands or killed, and whoever runs which command of a packet, January stays
\* below the roots under custody and is written by the custodian alone, and the
\* development roots hold development days only.
THEOREM JanuaryInCustody == GateSpec => []JanuaryStaysInCustody
  <1>1. GateInit => GateInv
    BY GateInitInv
  <1>2. GateInv /\ [GateNext]_gateVars => GateInv'
    BY GateNextInv
  <1>3. GateInv => JanuaryStaysInCustody
    BY DEF GateInv
  <1> QED BY <1>1, <1>2, <1>3, PTL DEF GateSpec

-----------------------------------------------------------------------------
(* The build: its outputs, then its documents *)

\* What the materializer has in memory.
IsBuild(m) ==
    m = [pc |-> m.pc, config |-> m.config, plan |-> m.plan, freeze |-> m.freeze,
         inventory |-> m.inventory, claim |-> m.claim, fds |-> m.fds, rows |-> m.rows]

AfterManifest == {"write attestation", "sync attestation", "rename", "sync directory"}
AfterMatrix == {"write manifest", "sync manifest"} \cup AfterManifest
Decoded == {"write matrix", "sync matrix"} \cup AfterMatrix
Hashed == {"decode"} \cup Decoded
Claimed == {"open", "hash"} \cup Hashed
BuildSteps == {"claim"} \cup Claimed

MatShape == mat = NoMaterializer \/ (IsBuild(mat) /\ mat.pc \in BuildSteps)

\* Every output is a file; one that is not being written is settled.
OutShape ==
    /\ DOMAIN built = Outputs /\ built = [f \in Outputs |-> built[f]]
    /\ \A f \in Outputs :
          /\ built[f] = File(built[f].state, built[f].data, built[f].pending)
          /\ built[f].state = "absent" => "bytes" \notin built[f].pending

\* What a system call makes of a file: the entry or the bytes become durable,
\* or another entry is pending.
LEMMA FilePending ==
    ASSUME NEW x, NEW state, NEW data, NEW pending, NEW other,
           x = File(state, data, pending)
    PROVE  /\ [x EXCEPT !.pending = other] = File(state, data, other)
           /\ x.state = state /\ x.data = data /\ x.pending = pending
  BY DEF File

-----------------------------------------------------------------------------
(* The outputs *)

\* What a build has written so far is what it has in memory, and nobody can
\* see an attestation before its last step.
WrittenInv ==
    /\ mat # NoMaterializer /\ mat.pc # "sync directory" => ~ Visible("attestation")
    /\ mat.pc = "sync matrix" => built["matrix"] = File("whole", mat.rows, {"bytes", "entry"})
    /\ mat.pc \in AfterMatrix => built["matrix"] = Durable(mat.rows)
    /\ mat.pc = "sync manifest" => built["manifest"] = File("whole", TheManifest, {"bytes", "entry"})
    /\ mat.pc \in AfterManifest => built["manifest"] = Durable(TheManifest)
    /\ mat.pc = "sync attestation" => built["tmp"] = File("whole", TheAttestation, {"bytes", "entry"})
    /\ mat.pc = "rename" => built["tmp"] = File("whole", TheAttestation, {"entry"})

\* A visible attestation has had its bytes synced before it got its name.
OutputsInv ==
    /\ MatShape /\ OutShape /\ WrittenInv
    /\ AttestationMatchesOutputs
    /\ Visible("attestation") => "bytes" \notin built["attestation"].pending

\* Steps that touch neither the outputs nor a build's memory of them.
LEMMA DocumentStep ==
    ASSUME OutputsInv, UNCHANGED built, mat' = mat \/ mat' = NoMaterializer
    PROVE  OutputsInv'
  <1>1. CASE mat' = mat
    BY <1>1 DEF OutputsInv, MatShape, OutShape, WrittenInv, AttestationMatchesOutputs,
                Visible, Attested, TheManifest, TheAttestation
  <1>2. CASE mat' = NoMaterializer
    <2>1. NoMaterializer.pc = "none"
      BY DEF NoMaterializer
    <2> QED BY <1>2, <2>1
            DEF OutputsInv, MatShape, OutShape, WrittenInv, AttestationMatchesOutputs,
                Visible, Attested, AfterMatrix, AfterManifest
  <1> QED BY <1>1, <1>2

\* The steps before the first output.
LEMMA EarlyStep ==
    ASSUME OutputsInv, UNCHANGED built, ~ Visible("attestation"), IsBuild(mat)',
           mat'.pc \in {"claim", "open", "hash", "decode", "write matrix"}
    PROVE  OutputsInv'
  BY DEF OutputsInv, MatShape, OutShape, WrittenInv, AttestationMatchesOutputs, Visible,
         BuildSteps, Claimed, Hashed, Decoded, AfterMatrix, AfterManifest

LEMMA Goes ==
    ASSUME IsBuild(mat), NEW step \in BuildSteps, Proceed(step)
    PROVE  /\ IsBuild(mat)' /\ mat'.pc = step
           /\ mat'.config = mat.config /\ mat'.plan = mat.plan /\ mat'.freeze = mat.freeze
           /\ mat'.inventory = mat.inventory /\ mat'.claim = mat.claim
           /\ mat'.fds = mat.fds /\ mat'.rows = mat.rows
           /\ TheManifest' = TheManifest /\ TheAttestation' = TheAttestation
  <1>1. /\ IsBuild(mat)' /\ mat'.pc = step
        /\ mat'.config = mat.config /\ mat'.plan = mat.plan /\ mat'.freeze = mat.freeze
        /\ mat'.inventory = mat.inventory /\ mat'.claim = mat.claim
        /\ mat'.fds = mat.fds /\ mat'.rows = mat.rows
    BY DEF IsBuild, Proceed
  <1> QED BY <1>1 DEF TheManifest, TheAttestation

LEMMA InBuild ==
    ASSUME OutputsInv, mat.pc \in BuildSteps
    PROVE  IsBuild(mat) /\ mat # NoMaterializer
  <1>1. NoMaterializer.pc = "none"
    BY DEF NoMaterializer
  <1>2. "none" \notin BuildSteps
    BY DEF BuildSteps, Claimed, Hashed, Decoded, AfterMatrix, AfterManifest
  <1> QED BY <1>1, <1>2 DEF OutputsInv, MatShape

\* A write or a sync of one output before the attestation has its name.
LEMMA OutputStep ==
    ASSUME OutputsInv, IsBuild(mat), mat # NoMaterializer, mat.pc # "sync directory",
           NEW f \in Outputs \ {"attestation"},
           NEW data, NEW pending,
           built' = [built EXCEPT ![f] = File("whole", data, pending)],
           NEW next \in BuildSteps \ {"sync directory"}, Proceed(next), WrittenInv'
    PROVE  OutputsInv'
  <1>1. MatShape'
    BY Goes DEF MatShape
  <1>2. ~ Visible("attestation")'
    BY DEF OutputsInv, OutShape, WrittenInv, Visible, Outputs
  <1>3. OutShape'
    BY DEF OutputsInv, OutShape, File
  <1> QED BY <1>1, <1>2, <1>3 DEF OutputsInv, AttestationMatchesOutputs

\* Which of the four a step writes, and to what, decides the invariant.
LEMMA MatrixSteps ==
    ASSUME OutputsInv, WriteMatrix \/ SyncMatrix
    PROVE  OutputsInv'
  <1> USE DEF BuildSteps, Claimed, Hashed, Decoded, AfterMatrix, AfterManifest
  <1>1. IsBuild(mat) /\ mat # NoMaterializer /\ mat.pc # "sync directory"
    BY InBuild DEF WriteMatrix, SyncMatrix
  <1>2. ~ Visible("attestation") /\ DOMAIN built = Outputs
    BY <1>1 DEF OutputsInv, OutShape, WrittenInv
  <1>3. CASE WriteMatrix
    <2>1. /\ built' = [built EXCEPT !["matrix"] = File("whole", mat.rows, {"bytes", "entry"})]
          /\ Proceed("sync matrix")
      BY <1>3 DEF WriteMatrix, Create
    <2>2. /\ mat'.pc = "sync matrix" /\ mat'.rows = mat.rows
          /\ built'["matrix"] = File("whole", mat.rows, {"bytes", "entry"})
          /\ ~ Visible("attestation")'
      BY <1>1, <1>2, <2>1, Goes DEF Outputs, Visible
    <2>3. WrittenInv'
      BY <2>2 DEF WrittenInv
    <2> QED BY <1>1, <2>1, <2>3, OutputStep DEF Outputs
  <1>4. CASE SyncMatrix
    <2>1. /\ Synced("matrix") = Durable(mat.rows)
          /\ built' = [built EXCEPT !["matrix"] = Durable(mat.rows)]
          /\ Proceed("write manifest")
      <3>1. built["matrix"] = File("whole", mat.rows, {"bytes", "entry"})
        BY <1>4 DEF SyncMatrix, OutputsInv, WrittenInv
      <3>2. Synced("matrix") = Durable(mat.rows)
        BY <3>1, FilePending DEF Synced, Durable
      <3> QED BY <1>4, <3>2 DEF SyncMatrix
    <2>2. /\ mat'.pc = "write manifest" /\ mat'.rows = mat.rows
          /\ built'["matrix"] = Durable(mat.rows)
          /\ ~ Visible("attestation")'
      BY <1>1, <1>2, <2>1, Goes DEF Outputs, Visible, Durable
    <2>3. WrittenInv'
      BY <2>2 DEF WrittenInv
    <2> QED BY <1>1, <2>1, <2>3, OutputStep DEF Outputs, Durable
  <1> QED BY <1>3, <1>4

LEMMA ManifestSteps ==
    ASSUME OutputsInv, WriteManifest \/ SyncManifest
    PROVE  OutputsInv'
  <1> USE DEF BuildSteps, Claimed, Hashed, Decoded, AfterMatrix, AfterManifest
  <1>1. IsBuild(mat) /\ mat # NoMaterializer /\ mat.pc # "sync directory"
    BY InBuild DEF WriteManifest, SyncManifest
  <1>2. /\ ~ Visible("attestation") /\ DOMAIN built = Outputs
        /\ built["matrix"] = Durable(mat.rows)
    BY <1>1 DEF OutputsInv, OutShape, WrittenInv, WriteManifest, SyncManifest
  <1>3. CASE WriteManifest
    <2>1. /\ built' = [built EXCEPT !["manifest"] = File("whole", TheManifest, {"bytes", "entry"})]
          /\ Proceed("sync manifest")
      BY <1>3 DEF WriteManifest, Create
    <2>2. /\ mat'.pc = "sync manifest" /\ mat'.rows = mat.rows /\ TheManifest' = TheManifest
          /\ built'["manifest"] = File("whole", TheManifest, {"bytes", "entry"})
          /\ built'["matrix"] = built["matrix"] /\ ~ Visible("attestation")'
      BY <1>1, <1>2, <2>1, Goes DEF Outputs, Visible
    <2>3. WrittenInv'
      BY <1>2, <2>2 DEF WrittenInv, Durable
    <2> QED BY <1>1, <2>1, <2>3, OutputStep DEF Outputs
  <1>4. CASE SyncManifest
    <2>1. /\ Synced("manifest") = Durable(TheManifest)
          /\ built' = [built EXCEPT !["manifest"] = Durable(TheManifest)]
          /\ Proceed("write attestation")
      <3>1. built["manifest"] = File("whole", TheManifest, {"bytes", "entry"})
        BY <1>4 DEF SyncManifest, OutputsInv, WrittenInv
      <3>2. Synced("manifest") = Durable(TheManifest)
        BY <3>1, FilePending DEF Synced, Durable
      <3> QED BY <1>4, <3>2 DEF SyncManifest
    <2>2. /\ mat'.pc = "write attestation" /\ mat'.rows = mat.rows
          /\ TheManifest' = TheManifest /\ built'["manifest"] = Durable(TheManifest)
          /\ built'["matrix"] = built["matrix"] /\ ~ Visible("attestation")'
      BY <1>1, <1>2, <2>1, Goes DEF Outputs, Visible, Durable
    <2>3. WrittenInv'
      BY <1>2, <2>2 DEF WrittenInv, Durable
    <2> QED BY <1>1, <2>1, <2>3, OutputStep DEF Outputs, Durable
  <1> QED BY <1>3, <1>4

LEMMA AttestationSteps ==
    ASSUME OutputsInv, WriteAttestation \/ SyncAttestation
    PROVE  OutputsInv'
  <1> USE DEF BuildSteps, Claimed, Hashed, Decoded, AfterMatrix, AfterManifest
  <1>1. IsBuild(mat) /\ mat # NoMaterializer /\ mat.pc # "sync directory"
    BY InBuild DEF WriteAttestation, SyncAttestation
  <1>2. /\ ~ Visible("attestation") /\ DOMAIN built = Outputs
        /\ built["matrix"] = Durable(mat.rows) /\ built["manifest"] = Durable(TheManifest)
    BY <1>1 DEF OutputsInv, OutShape, WrittenInv, WriteAttestation, SyncAttestation
  <1>3. CASE WriteAttestation
    <2>1. /\ built' = [built EXCEPT !["tmp"] = File("whole", TheAttestation, {"bytes", "entry"})]
          /\ Proceed("sync attestation")
      BY <1>3 DEF WriteAttestation, Create
    <2>2. /\ mat'.pc = "sync attestation" /\ mat'.rows = mat.rows
          /\ TheManifest' = TheManifest /\ TheAttestation' = TheAttestation
          /\ built'["tmp"] = File("whole", TheAttestation, {"bytes", "entry"})
          /\ built'["matrix"] = built["matrix"] /\ built'["manifest"] = built["manifest"]
          /\ ~ Visible("attestation")'
      BY <1>1, <1>2, <2>1, Goes DEF Outputs, Visible
    <2>3. WrittenInv'
      BY <1>2, <2>2 DEF WrittenInv, Durable
    <2> QED BY <1>1, <2>1, <2>3, OutputStep DEF Outputs
  <1>4. CASE SyncAttestation
    <2>1. /\ built' = [built EXCEPT !["tmp"] = File("whole", TheAttestation, {"entry"})]
          /\ Proceed("rename")
      <3>1. built["tmp"] = File("whole", TheAttestation, {"bytes", "entry"})
        BY <1>4 DEF SyncAttestation, OutputsInv, WrittenInv
      <3>2. [built["tmp"] EXCEPT !.pending = built["tmp"].pending \ {"bytes"}]
               = File("whole", TheAttestation, {"entry"})
        BY <3>1, FilePending
      <3> QED BY <1>4, <3>2 DEF SyncAttestation
    <2>2. /\ mat'.pc = "rename" /\ mat'.rows = mat.rows
          /\ TheManifest' = TheManifest /\ TheAttestation' = TheAttestation
          /\ built'["tmp"] = File("whole", TheAttestation, {"entry"})
          /\ built'["matrix"] = built["matrix"] /\ built'["manifest"] = built["manifest"]
          /\ ~ Visible("attestation")'
      BY <1>1, <1>2, <2>1, Goes DEF Outputs, Visible
    <2>3. WrittenInv'
      BY <1>2, <2>2 DEF WrittenInv, Durable
    <2> QED BY <1>1, <2>1, <2>3, OutputStep DEF Outputs
  <1> QED BY <1>3, <1>4

\* The attestation gets its name when its bytes and the outputs are durable.
LEMMA PublishStep ==
    ASSUME OutputsInv, PublishAttestation
    PROVE  OutputsInv' /\ built'["attestation"].data = TheAttestation
  <1> USE DEF BuildSteps, Claimed, Hashed, Decoded, AfterMatrix, AfterManifest
  <1>1. IsBuild(mat) /\ mat.pc = "rename" /\ DOMAIN built = Outputs
    BY InBuild DEF PublishAttestation, OutputsInv, OutShape
  <1>2. /\ built["tmp"] = File("whole", TheAttestation, {"entry"})
        /\ built["matrix"] = Durable(mat.rows) /\ built["manifest"] = Durable(TheManifest)
    BY <1>1 DEF OutputsInv, WrittenInv
  <1>3. /\ mat'.pc = "sync directory" /\ IsBuild(mat)' /\ mat'.rows = mat.rows
        /\ TheManifest' = TheManifest
    BY <1>1, Goes DEF PublishAttestation
  <1>4. /\ built' = [built EXCEPT !["attestation"] = File("whole", TheAttestation, {"entry"}),
                              !["tmp"] = Absent]
    <2>1. [built["tmp"] EXCEPT !.pending = built["tmp"].pending \cup {"entry"}]
             = File("whole", TheAttestation, {"entry"})
      <3>1. built["tmp"].pending \cup {"entry"} = {"entry"}
        BY <1>2, FilePending
      <3> QED BY <1>2, <3>1, FilePending
    <2> QED BY <2>1 DEF PublishAttestation
  <1>5. /\ built'["attestation"] = File("whole", TheAttestation, {"entry"})
        /\ built'["matrix"] = built["matrix"] /\ built'["manifest"] = built["manifest"]
    BY <1>1, <1>4 DEF Outputs
  <1>6. OutShape'
    BY <1>1, <1>4 DEF OutputsInv, OutShape, File, Absent
  <1>7. TheAttestation.matrix = mat.rows /\ TheAttestation.manifest = TheManifest
    BY DEF TheAttestation
  <1>8. /\ built'["attestation"].state = "whole" /\ "bytes" \notin built'["attestation"].pending
        /\ built'["attestation"].data = TheAttestation
    BY <1>5 DEF File
  <1>9. AttestationMatchesOutputs'
    BY <1>2, <1>5, <1>7, <1>8 DEF AttestationMatchesOutputs, Attested, Durable
  <1>10. WrittenInv' /\ MatShape'
    BY <1>2, <1>3, <1>5 DEF WrittenInv, MatShape, Durable
  <1> QED BY <1>6, <1>8, <1>9, <1>10 DEF OutputsInv

LEMMA FinishStep ==
    ASSUME OutputsInv, FinishBuild
    PROVE  OutputsInv' /\ (Visible("attestation")' => Visible("attestation"))
                       /\ built'["attestation"].data = built["attestation"].data
  <1>1. /\ built["attestation"] = File(built["attestation"].state, built["attestation"].data,
                                     built["attestation"].pending)
        /\ DOMAIN built = Outputs
    BY DEF OutputsInv, OutShape, Outputs
  <1>2. /\ built' = [built EXCEPT !["attestation"] =
                      File(built["attestation"].state, built["attestation"].data,
                           built["attestation"].pending \ {"entry"})]
        /\ mat' = NoMaterializer
    <2>1. [built["attestation"] EXCEPT !.pending = built["attestation"].pending \ {"entry"}]
             = File(built["attestation"].state, built["attestation"].data,
                    built["attestation"].pending \ {"entry"})
      BY <1>1, FilePending
    <2> QED BY <2>1 DEF FinishBuild
  <1>3. /\ built'["attestation"].state = built["attestation"].state
        /\ built'["attestation"].data = built["attestation"].data
        /\ "bytes" \notin built["attestation"].pending => "bytes" \notin built'["attestation"].pending
        /\ built'["matrix"] = built["matrix"] /\ built'["manifest"] = built["manifest"]
    BY <1>1, <1>2 DEF Outputs, File
  <1>4. OutShape'
    BY <1>2 DEF OutputsInv, OutShape, File
  <1>5. WrittenInv' /\ MatShape'
    BY <1>2 DEF WrittenInv, MatShape, NoMaterializer, AfterMatrix, AfterManifest
  <1>6. AttestationMatchesOutputs'
    BY <1>3 DEF OutputsInv, AttestationMatchesOutputs, Visible, Attested, Durable
  <1> QED BY <1>3, <1>4, <1>5, <1>6 DEF OutputsInv, Visible

\* A power loss can undo the rename, and then nobody sees the attestation; the
\* outputs beside one that stays were synced before it.
LEMMA MachineStep ==
    ASSUME OutputsInv, MachineStops
    PROVE  OutputsInv' /\ (Visible("attestation")' => Visible("attestation"))
                       /\ (Visible("attestation")' =>
                             built'["attestation"].data = built["attestation"].data)
  <1>1. PICK torn \in SUBSET {f \in Outputs : "bytes" \in built[f].pending},
             gone \in SUBSET {f \in Outputs : "entry" \in built[f].pending} :
          built' = [f \in Outputs |->
                    IF f = "tmp" /\ "attestation" \in gone THEN Settled("attestation")
                    ELSE IF f \in gone THEN Absent
                    ELSE IF f \in torn THEN TornFile ELSE Settled(f)]
    BY DEF MachineStops
  <1>2. \A f \in Outputs : Settled(f) = File(built[f].state, built[f].data, {})
    <2> TAKE f \in Outputs
    <2>1. built[f] = File(built[f].state, built[f].data, built[f].pending)
      BY DEF OutputsInv, OutShape
    <2>2. [built[f] EXCEPT !.pending = {}] = File(built[f].state, built[f].data, {})
      BY <2>1 DEF File
    <2> QED BY <2>2 DEF Settled
  <1>3. OutShape'
    <2>1. \A f \in Outputs : built'[f] \in {Settled(f), Settled("attestation"), Absent, TornFile}
      BY <1>1 DEF Outputs
    <2>2. \A f \in Outputs : /\ built'[f] = File(built'[f].state, built'[f].data, built'[f].pending)
                             /\ built'[f].pending = {}
      BY <1>2, <2>1 DEF File, Absent, TornFile, Outputs
    <2> QED BY <1>1, <2>2 DEF OutShape
  <1>4. mat' = NoMaterializer
    BY DEF MachineStops
  <1>5. WrittenInv' /\ MatShape'
    BY <1>4 DEF WrittenInv, MatShape, NoMaterializer, AfterMatrix, AfterManifest
  <1>6. ASSUME Visible("attestation")'
        PROVE  /\ Visible("attestation") /\ AttestationMatchesOutputs'
               /\ "bytes" \notin built'["attestation"].pending
               /\ built'["attestation"].data = built["attestation"].data
    <2>1. "attestation" \notin gone
      BY <1>1, <1>6 DEF Outputs, Visible, Absent, File
    <2>2. "attestation" \notin torn /\ Visible("attestation")
      <3>1. built["attestation"].state # "absent" => "bytes" \notin built["attestation"].pending
        BY DEF OutputsInv, Visible
      <3>2. built["attestation"].state = "absent" => "bytes" \notin built["attestation"].pending
        BY DEF OutputsInv, OutShape, Outputs
      <3>3. "attestation" \notin torn
        BY <3>1, <3>2
      <3>4. built'["attestation"] = Settled("attestation")
        BY <1>1, <2>1, <3>3 DEF Outputs
      <3> QED BY <1>2, <1>6, <3>3, <3>4 DEF Visible, File, Outputs
    <2>3. built["matrix"] = Durable(Attested.matrix) /\ built["manifest"] = Durable(Attested.manifest)
          /\ built["attestation"].state = "whole"
      BY <2>2 DEF OutputsInv, AttestationMatchesOutputs
    <2>4. /\ built'["attestation"] = File("whole", Attested, {})
          /\ built'["matrix"] = Settled("matrix") /\ built'["manifest"] = Settled("manifest")
      <3>1. {"matrix", "manifest"} \cap (torn \cup gone) = {}
        BY <2>3 DEF Durable, File
      <3> QED BY <1>1, <1>2, <2>1, <2>2, <2>3, <3>1 DEF Outputs, Attested
    <2>5. built'["matrix"] = built["matrix"] /\ built'["manifest"] = built["manifest"]
      BY <1>2, <2>3, <2>4 DEF Durable, File, Outputs
    <2>6. built'["attestation"].state = "whole" /\ built'["attestation"].data = Attested
          /\ built'["attestation"].pending = {}
      BY <2>4 DEF File
    <2> QED BY <2>2, <2>3, <2>5, <2>6 DEF AttestationMatchesOutputs, Attested, Durable
  <1> QED BY <1>3, <1>5, <1>6 DEF OutputsInv, AttestationMatchesOutputs

LEMMA OutputsInit == HoldoutInit => OutputsInv
  <1> SUFFICES ASSUME HoldoutInit PROVE OutputsInv
    OBVIOUS
  <1>1. /\ mat = NoMaterializer /\ mat.pc = "none" /\ built = [f \in Outputs |-> Absent]
        /\ Absent.state = "absent" /\ Absent.pending = {}
        /\ Absent = File(Absent.state, Absent.data, Absent.pending)
    BY DEF HoldoutInit, NoMaterializer, Absent, File
  <1> HIDE DEF Absent
  <1>2. OutShape
    BY <1>1 DEF OutShape
  <1>3. MatShape /\ WrittenInv
    BY <1>1 DEF MatShape, WrittenInv, AfterMatrix, AfterManifest
  <1>4. ~ Visible("attestation")
    BY <1>1 DEF Visible, Outputs
  <1> QED BY <1>2, <1>3, <1>4 DEF OutputsInv, AttestationMatchesOutputs

LEMMA EarlySteps ==
    ASSUME OutputsInv, StartBuild \/ ReadClaim \/ OpenAll \/ Hash \/ Decode
    PROVE  OutputsInv'
  <1> USE DEF BuildSteps, Claimed, Hashed, Decoded, AfterMatrix, AfterManifest
  <1>1. CASE StartBuild
    <2>1. IsBuild(mat)' /\ mat'.pc = "claim"
      BY <1>1 DEF StartBuild, IsBuild
    <2> QED BY <1>1, <2>1, EarlyStep DEF StartBuild, Outputs
  <1>2. ASSUME ReadClaim \/ OpenAll \/ Hash \/ Decode
        PROVE  IsBuild(mat) /\ ~ Visible("attestation") /\ UNCHANGED built
    <2>1. mat.pc \in {"claim", "open", "hash", "decode"} /\ UNCHANGED built
      BY <1>2 DEF ReadClaim, OpenAll, Hash, Decode
    <2> QED BY <2>1, InBuild DEF OutputsInv, WrittenInv
  <1>3. CASE ReadClaim
    <2>1. IsBuild(mat)' /\ mat'.pc = "open"
      BY <1>2, <1>3 DEF ReadClaim, IsBuild
    <2> QED BY <1>2, <1>3, <2>1, EarlyStep
  <1>4. CASE OpenAll
    <2>1. IsBuild(mat)' /\ mat'.pc = "hash"
      BY <1>2, <1>4 DEF OpenAll, IsBuild
    <2> QED BY <1>2, <1>4, <2>1, EarlyStep
  <1>5. CASE Hash
    BY <1>2, <1>5, Goes, EarlyStep DEF Hash
  <1>6. CASE Decode
    <2>1. IsBuild(mat)' /\ mat'.pc = "write matrix"
      BY <1>2, <1>6 DEF Decode, IsBuild
    <2> QED BY <1>2, <1>6, <2>1, EarlyStep
  <1> QED BY <1>1, <1>3, <1>4, <1>5, <1>6

LEMMA OutputsNext == OutputsInv /\ [HoldoutNext]_holdoutVars => OutputsInv'
  <1> SUFFICES ASSUME OutputsInv, [HoldoutNext]_holdoutVars PROVE OutputsInv'
    OBVIOUS
  <1>1. CASE Renormalize \/ MintInventory \/ VerifyInventory \/ PinConfig \/ BuildPlan
             \/ EditPlan \/ BuildFreeze \/ Claim \/ BuildStops \/ UNCHANGED holdoutVars
    BY <1>1, DocumentStep
       DEF Renormalize, MintInventory, VerifyInventory, PinConfig, BuildPlan, EditPlan,
           BuildFreeze, Claim, BuildStops, holdoutVars
  <1>2. CASE StartBuild \/ ReadClaim \/ OpenAll \/ Hash \/ Decode
    BY <1>2, EarlySteps
  <1>3. CASE \/ WriteMatrix \/ SyncMatrix \/ WriteManifest \/ SyncManifest
             \/ WriteAttestation \/ SyncAttestation \/ PublishAttestation \/ FinishBuild
             \/ MachineStops
    BY <1>3, MatrixSteps, ManifestSteps, AttestationSteps, PublishStep, FinishStep,
       MachineStep
  <1> QED BY <1>1, <1>2, <1>3 DEF HoldoutNext

\* The invariant of the outputs.
THEOREM OutputsInvariant == HoldoutSpec => []OutputsInv
  <1> QED BY OutputsInit, OutputsNext, PTL DEF HoldoutSpec

\* eval/writer.py: whoever sees an attestation finds beside it, whole and
\* durable, the matrix and the manifest it hashes, whatever died in between.
THEOREM AttestationsHaveTheirOutputs == HoldoutSpec => []AttestationMatchesOutputs
  <1>1. OutputsInv => AttestationMatchesOutputs
    BY DEF OutputsInv
  <1> QED BY <1>1, OutputsInvariant, PTL

-----------------------------------------------------------------------------
(* What an attestation vouches for *)

IsConfig(c) == c = [cert |-> c.cert, sealed |-> c.sealed]
HasObjects(inv) ==
    \A o \in inv.objects : o = [day |-> o.day, layer |-> o.layer, sha |-> o.sha]

\* A config pins what it was given, an inventory lists objects.
DocsInv ==
    /\ docs = [inventory |-> docs.inventory, config |-> docs.config, plan |-> docs.plan,
               freeze |-> docs.freeze, claim |-> docs.claim]
    /\ docs.config # None => IsConfig(docs.config)
    /\ docs.inventory # None => HasObjects(docs.inventory)

\* A build works on the documents it validated, and on the bytes it hashed.
SealedInv ==
    mat # NoMaterializer =>
        /\ IsConfig(mat.config) /\ HasObjects(mat.inventory)
        /\ ValidFreeze(mat.freeze, mat.config, mat.plan, mat.inventory)
        /\ mat.pc \in Claimed => /\ mat.claim.config = Sha(mat.config)
                                 /\ mat.claim.plan = Sha(mat.plan)
                                 /\ mat.claim.freeze = Sha(mat.freeze)
        /\ mat.pc \in Hashed =>
              \A o \in NormalizedObjects(mat.plan) : mat.fds[o.day].held = o.sha
        /\ mat.pc \in Decoded =>
              /\ DOMAIN mat.rows = mat.plan.included
              /\ \A o \in NormalizedObjects(mat.plan) : mat.rows[o.day] = o.sha

SealInv == OutputsInv /\ DocsInv /\ SealedInv /\ AttestedRowsAreSealed

LEMMA SealInit == HoldoutInit => SealInv
  <1>1. HoldoutInit => DocsInv /\ SealedInv
    BY DEF HoldoutInit, DocsInv, SealedInv
  <1>2. HoldoutInit => ~ Visible("attestation")
    BY DEF HoldoutInit, Visible, Absent, File, Outputs
  <1> QED BY <1>1, <1>2, OutputsInit DEF SealInv, AttestedRowsAreSealed

\* Every object of the store is an object of an inventory.
LEMMA StoreObjects ==
    ASSUME NEW days
    PROVE  \A o \in ObjectsOf(days) : o = [day |-> o.day, layer |-> o.layer, sha |-> o.sha]
  BY DEF ObjectsOf

LEMMA DocsNext == DocsInv /\ [HoldoutNext]_holdoutVars => DocsInv'
  <1> SUFFICES ASSUME DocsInv, [HoldoutNext]_holdoutVars PROVE DocsInv'
    OBVIOUS
  <1>1. ASSUME NEW e, NEW x, NEW objects,
               \A o \in objects : o = [day |-> o.day, layer |-> o.layer, sha |-> o.sha],
               docs' = [docs EXCEPT !.inventory = Inventory(e, x, objects)]
        PROVE  DocsInv'
    <2>1. HasObjects(Inventory(e, x, objects))
      BY <1>1 DEF HasObjects, Inventory
    <2> HIDE DEF Inventory
    <2> QED BY <1>1, <2>1 DEF DocsInv
  <1>2. CASE MintInventory
    BY <1>1, <1>2, StoreObjects DEF MintInventory
  <1>3. CASE VerifyInventory
    <2>1. PICK e \in Evidence, x \in Excludable :
             docs' = [docs EXCEPT !.inventory = Inventory(e, x, ObjectsOf(Window \ x))]
      BY <1>3 DEF VerifyInventory
    <2> QED BY <1>1, <2>1, StoreObjects
  <1>4. CASE PinConfig
    <2>1. PICK cert : docs' = [docs EXCEPT !.config = [cert |-> cert, sealed |-> TRUE]]
      BY <1>4 DEF PinConfig
    <2>2. IsConfig([cert |-> cert, sealed |-> TRUE])
      BY DEF IsConfig
    <2> QED BY <2>1, <2>2 DEF DocsInv
  <1>5. CASE BuildPlan \/ BuildFreeze \/ Claim
    BY <1>5 DEF BuildPlan, BuildFreeze, Claim, DocsInv
  <1>6. CASE EditPlan
    BY <1>6 DEF EditPlan, DocsInv
  <1>7. CASE UNCHANGED docs
    BY <1>7 DEF DocsInv
  <1> QED BY <1>2, <1>3, <1>4, <1>5, <1>6, <1>7
          DEF HoldoutNext, holdoutVars, Renormalize, StartBuild, ReadClaim, OpenAll, Hash,
              Decode, WriteMatrix, SyncMatrix, WriteManifest, SyncManifest,
              WriteAttestation, SyncAttestation, PublishAttestation, FinishBuild, Create,
              BuildStops, MachineStops

\* Every included day has one normalized object in a valid plan, and no other
\* day has one.
LEMMA NormalizedDays ==
    ASSUME NEW plan, ValidAllowlist(plan.allowlist, plan.included)
    PROVE  /\ \A o \in NormalizedObjects(plan) : o.day \in plan.included
           /\ \A d \in plan.included :
                 \E o \in NormalizedObjects(plan) : o.day = d
  <1>1. {<<o.day, o.layer>> : o \in plan.allowlist} = plan.included \X Layers
    BY DEF ValidAllowlist
  <1>2. ASSUME NEW o \in plan.allowlist PROVE o.day \in plan.included
    <2>1. <<o.day, o.layer>> \in plan.included \X Layers
      BY <1>1
    <2> QED BY <2>1
  <1>3. ASSUME NEW d \in plan.included
        PROVE  \E o \in NormalizedObjects(plan) : o.day = d
    <2>1. <<d, "normalized">> \in plan.included \X Layers
      BY LayersAssumption
    <2>2. PICK o \in plan.allowlist : <<o.day, o.layer>> = <<d, "normalized">>
      BY <1>1, <2>1
    <2> QED BY <2>2 DEF NormalizedObjects
  <1> QED BY <1>2, <1>3 DEF NormalizedObjects

\* What a build has decoded is what the config's seal lists.
LEMMA DecodedIsSealed ==
    ASSUME SealedInv, mat # NoMaterializer, mat.pc \in Decoded
    PROVE  LET sealed == TheAttestation.config.cert.seal
           IN  /\ TheAttestation.claim.config = TheAttestation.config
               /\ TheAttestation.claim.plan = TheAttestation.plan
               /\ TheAttestation.claim.freeze = TheAttestation.freeze
               /\ DOMAIN TheAttestation.matrix = sealed.included
               /\ \A d \in sealed.included :
                     [day |-> d, layer |-> "normalized", sha |-> TheAttestation.matrix[d]]
                        \in sealed.objects
  <1> DEFINE seal == mat.config.cert.seal
  <1>1. /\ TheAttestation.config = Sha(mat.config) /\ TheAttestation.plan = Sha(mat.plan)
        /\ TheAttestation.freeze = Sha(mat.freeze) /\ TheAttestation.claim = mat.claim
        /\ TheAttestation.matrix = mat.rows
    BY DEF TheAttestation
  <1>2. mat.pc \in Claimed
    BY DEF Claimed, Hashed
  <1>3. /\ mat.claim.config = Sha(mat.config) /\ mat.claim.plan = Sha(mat.plan)
        /\ mat.claim.freeze = Sha(mat.freeze)
    BY <1>2 DEF SealedInv
  <1>4. Sha(mat.config).cert = mat.config.cert
    BY DEF SealedInv, IsConfig, Sha
  <1>5. /\ ValidInventory(mat.inventory, mat.config)
        /\ mat.plan.included = mat.inventory.included
        /\ mat.plan.allowlist = mat.inventory.objects
        /\ ValidAllowlist(mat.plan.allowlist, mat.plan.included)
    BY DEF SealedInv, ValidFreeze, ValidHoldoutPlan, AnchoredIn
  <1>6. seal.included = mat.plan.included /\ seal.objects = mat.plan.allowlist
    BY <1>5 DEF ValidInventory, SealContent
  <1>7. /\ DOMAIN mat.rows = mat.plan.included
        /\ \A o \in NormalizedObjects(mat.plan) : mat.rows[o.day] = o.sha
    BY DEF SealedInv
  <1>8. ASSUME NEW d \in seal.included
        PROVE  [day |-> d, layer |-> "normalized", sha |-> mat.rows[d]] \in seal.objects
    <2>1. PICK o \in NormalizedObjects(mat.plan) : o.day = d
      BY <1>5, <1>6, <1>8, NormalizedDays
    <2>2. o \in mat.plan.allowlist /\ o.layer = "normalized" /\ o.sha = mat.rows[d]
      BY <1>7, <2>1 DEF NormalizedObjects
    <2>3. o = [day |-> o.day, layer |-> o.layer, sha |-> o.sha]
      BY <1>5, <2>2 DEF SealedInv, HasObjects
    <2> QED BY <1>6, <2>1, <2>2, <2>3
  <1> QED BY <1>1, <1>3, <1>4, <1>6, <1>7, <1>8

\* The build reads its documents once, hashes what it holds open and decodes
\* just that.
LEMMA SealedNext ==
    ASSUME SealInv, [HoldoutNext]_holdoutVars
    PROVE  SealedInv'
  <1> USE DEF BuildSteps, Claimed, Hashed, Decoded, AfterMatrix, AfterManifest
  <1>1. CASE mat' = mat
    BY <1>1 DEF SealInv, SealedInv
  <1>2. CASE mat' = NoMaterializer
    BY <1>2 DEF SealedInv
  <1>3. CASE StartBuild
    <2>1. /\ mat'.pc = "claim" /\ mat'.config = docs.config /\ mat'.plan = docs.plan
          /\ mat'.freeze = docs.freeze /\ mat'.inventory = docs.inventory
          /\ docs.config # None
          /\ ValidFreeze(docs.freeze, docs.config, docs.plan, docs.inventory)
      BY <1>3 DEF StartBuild
    <2>2. docs.inventory # None
      BY <2>1 DEF ValidFreeze, ValidHoldoutPlan, AnchoredIn
    <2> QED BY <2>1, <2>2 DEF SealInv, DocsInv, SealedInv
  <1>4. ASSUME mat.pc \in BuildSteps
        PROVE  /\ mat # NoMaterializer /\ IsBuild(mat) /\ IsConfig(mat.config)
               /\ HasObjects(mat.inventory)
               /\ ValidFreeze(mat.freeze, mat.config, mat.plan, mat.inventory)
    BY <1>4, InBuild DEF SealInv, SealedInv
  <1>5. CASE ReadClaim
    <2>1. /\ mat.pc = "claim" /\ mat' = [mat EXCEPT !.pc = "open", !.claim = docs.claim]
          /\ docs.claim.config = Sha(mat.config) /\ docs.claim.plan = Sha(mat.plan)
          /\ docs.claim.freeze = Sha(mat.freeze)
      BY <1>5 DEF ReadClaim, ValidClaim
    <2>2. /\ mat'.pc = "open" /\ mat'.config = mat.config /\ mat'.plan = mat.plan
          /\ mat'.freeze = mat.freeze /\ mat'.inventory = mat.inventory
          /\ mat'.claim = docs.claim
      BY <1>4, <2>1 DEF IsBuild
    <2> QED BY <1>4, <2>1, <2>2 DEF SealedInv
  <1>6. CASE OpenAll
    <2>1. mat.pc = "open" /\ \E fds : mat' = [mat EXCEPT !.pc = "hash", !.fds = fds]
      BY <1>6 DEF OpenAll
    <2>2. /\ mat'.pc = "hash" /\ mat'.config = mat.config /\ mat'.plan = mat.plan
          /\ mat'.freeze = mat.freeze /\ mat'.inventory = mat.inventory
          /\ mat'.claim = mat.claim
      BY <1>4, <2>1 DEF IsBuild
    <2> QED BY <1>4, <2>1, <2>2 DEF SealInv, SealedInv
  <1>7. CASE Hash
    <2>1. mat.pc = "hash" /\ Proceed("decode")
          /\ \A o \in NormalizedObjects(mat.plan) : mat.fds[o.day].held = o.sha
      BY <1>7 DEF Hash
    <2>2. /\ mat'.pc = "decode" /\ mat'.config = mat.config /\ mat'.plan = mat.plan
          /\ mat'.freeze = mat.freeze /\ mat'.inventory = mat.inventory
          /\ mat'.claim = mat.claim /\ mat'.fds = mat.fds
      BY <1>4, <2>1, Goes
    <2> QED BY <1>4, <2>1, <2>2 DEF SealInv, SealedInv
  <1>8. CASE Decode
    <2> DEFINE rows == [d \in mat.plan.included |-> DecodedFrom(mat.fds[d])]
    <2>1. mat.pc = "decode" /\ mat' = [mat EXCEPT !.pc = "write matrix", !.rows = rows]
      BY <1>8 DEF Decode
    <2>2. /\ mat'.pc = "write matrix" /\ mat'.config = mat.config /\ mat'.plan = mat.plan
          /\ mat'.freeze = mat.freeze /\ mat'.inventory = mat.inventory
          /\ mat'.claim = mat.claim /\ mat'.fds = mat.fds /\ mat'.rows = rows
      BY <1>4, <2>1 DEF IsBuild
    <2>3. \A o \in NormalizedObjects(mat.plan) :
             o.day \in mat.plan.included /\ mat.fds[o.day].held = o.sha
      BY <1>4, <2>1, NormalizedDays DEF SealInv, SealedInv, ValidFreeze, ValidHoldoutPlan
    <2>4. DOMAIN rows = mat.plan.included
          /\ \A o \in NormalizedObjects(mat.plan) : rows[o.day] = o.sha
      BY <2>3 DEF DecodedFrom
    <2> HIDE DEF rows
    <2> QED BY <1>4, <2>1, <2>2, <2>3, <2>4 DEF SealInv, SealedInv
  <1>9. ASSUME NEW step \in Decoded, mat.pc \in Decoded, Proceed(step)
        PROVE  SealedInv'
    BY <1>4, <1>9, Goes DEF SealInv, SealedInv
  <1> QED BY <1>1, <1>2, <1>3, <1>5, <1>6, <1>7, <1>8, <1>9
          DEF HoldoutNext, holdoutVars, Renormalize, MintInventory, VerifyInventory,
              PinConfig, BuildPlan, EditPlan, BuildFreeze, Claim, WriteMatrix, SyncMatrix,
              WriteManifest, SyncManifest, WriteAttestation, SyncAttestation,
              PublishAttestation, FinishBuild, Create, BuildStops, MachineStops

\* Only a publication makes an attestation visible.
LEMMA AttestationKept ==
    ASSUME OutputsInv, [HoldoutNext]_holdoutVars, ~ PublishAttestation
    PROVE  Visible("attestation")' => /\ Visible("attestation")
                                      /\ Attested' = Attested
  <1>1. CASE UNCHANGED built
    BY <1>1 DEF Visible, Attested
  <1>2. ASSUME NEW f \in Outputs \ {"attestation"}, NEW x, built' = [built EXCEPT ![f] = x]
        PROVE  Visible("attestation")' => Visible("attestation") /\ Attested' = Attested
    BY <1>2 DEF OutputsInv, OutShape, Visible, Attested, Outputs
  <1>3. CASE \/ WriteMatrix \/ SyncMatrix \/ WriteManifest \/ SyncManifest
             \/ WriteAttestation \/ SyncAttestation
    BY <1>2, <1>3 DEF WriteMatrix, SyncMatrix, WriteManifest, SyncManifest,
                      WriteAttestation, SyncAttestation, Create, Outputs
  <1>4. CASE FinishBuild \/ MachineStops
    BY <1>4, FinishStep, MachineStep DEF Attested
  <1> QED BY <1>1, <1>3, <1>4
          DEF HoldoutNext, holdoutVars, Renormalize, MintInventory, VerifyInventory,
              PinConfig, BuildPlan, EditPlan, BuildFreeze, Claim, StartBuild, ReadClaim,
              OpenAll, Hash, Decode, BuildStops

LEMMA SealNext ==
    ASSUME SealInv, [HoldoutNext]_holdoutVars
    PROVE  SealInv'
  <1>1. OutputsInv' /\ DocsInv' /\ SealedInv'
    BY OutputsNext, DocsNext, SealedNext DEF SealInv
  <1>2. CASE PublishAttestation
    <2>1. mat # NoMaterializer /\ mat.pc \in Decoded
      BY <1>2, InBuild DEF PublishAttestation, SealInv, BuildSteps, Claimed, Hashed, Decoded,
                           AfterMatrix, AfterManifest
    <2>2. Attested' = TheAttestation
      BY <1>2, PublishStep DEF SealInv, Attested
    <2> QED BY <1>1, <2>1, <2>2, DecodedIsSealed DEF SealInv, AttestedRowsAreSealed
  <1>3. CASE ~ PublishAttestation
    BY <1>1, <1>3, AttestationKept DEF SealInv, AttestedRowsAreSealed
  <1> QED BY <1>2, <1>3

\* bars/produce.py: whatever is normalised anew, edited, swapped or killed, an
\* attestation vouches for rows decoded from the very objects the custodian's
\* seal lists, under the config, plan and freeze the one claim was made over.
THEOREM AttestationsAreSealed == HoldoutSpec => []AttestedRowsAreSealed
  <1>1. HoldoutInit => SealInv
    BY SealInit
  <1>2. SealInv /\ [HoldoutNext]_holdoutVars => SealInv'
    BY SealNext
  <1>3. SealInv => AttestedRowsAreSealed
    BY DEF SealInv
  <1> QED BY <1>1, <1>2, <1>3, PTL DEF HoldoutSpec

-----------------------------------------------------------------------------
(* The freeze: one build for every outcome *)

Built == DevBuilds \cup {NoBuild}

\* The trials of any build, on the ladder and off it.
Trials == {Trial(b, rung) : b \in DevBuilds, rung \in {Ladder[n] : n \in Nat} \cup Variants}

LogType == [pin : Built, attempted : SUBSET Trials,
            scored : SUBSET [trial : Trials, series : Built \X Built], events : Nat]

RunPcs == {"read matrix", "read manifest", "verify", "start", "fit", "done", "closed"}
ProducerPcs == {"open matrix", "close matrix", "open manifest", "close manifest", "return"}

RunType == [pc : RunPcs, identity : DevBuilds, rows : Built, manifest : Built,
            log : LogType, next : Nat, forecasts : SUBSET Trials]

TypeInv ==
    /\ devFiles \in [{"matrix", "manifest"} -> Built]
    /\ producer = NoProducer \/ producer \in [pc : ProducerPcs, build : DevBuilds]
    /\ identities \subseteq DevBuilds
    /\ trials \in LogType
    /\ run = NoRun \/ run \in RunType
    /\ merit \in Merits

\* A ledger: what it keeps is of the build it is pinned to.
LogInv(log) ==
    /\ log.pin = NoBuild \/ log.pin \in identities
    /\ log.pin = NoBuild => log.scored = {}
    /\ \A s \in log.scored : s.series = <<log.pin, log.pin>>

\* A run: it is of a build that was returned, it has verified its two files
\* before its first trial, and until it closes the ledger it knows all of it.
RunInv ==
    run # NoRun =>
        /\ run.identity \in identities
        /\ run.pc \in {"start", "fit", "done", "closed"} => InputsVerified(run)
        /\ run.pc # "closed" => run.log = trials
        /\ run.pc = "fit" => run.log.pin = run.identity

FreezeInv == TypeInv /\ LogInv(trials) /\ RunInv /\ AcceptedFreezeCountsEverything

-----------------------------------------------------------------------------
(* The ladder and the ledger *)

\* What a record_* call leaves in the ledger is of the trial's build.
LEMMA LoggedInv ==
    ASSUME NEW log \in LogType, LogInv(log), NEW b \in identities, b \in DevBuilds,
           NEW t \in Trials, t[1] = b, Registrable(log, t), b # NoBuild
    PROVE  /\ Logged(log, t) \in LogType /\ LogInv(Logged(log, t))
           /\ Logged(log, t).pin = b
  <1> DEFINE x == Logged(log, t)
  <1>0. /\ t[1] \in Built /\ log.attempted \cup {t} \in SUBSET Trials
        /\ log.events + 1 \in Nat
    BY DEF LogType, Built
  <1>1. x \in LogType
    BY <1>0 DEF Logged, LogType
  <1>2. x.pin = b /\ x.scored = log.scored
    BY DEF Logged, LogType
  <1> HIDE DEF x
  <1>3. LogInv(x)
    BY <1>2 DEF LogInv, Registrable
  <1> QED BY <1>1, <1>2, <1>3 DEF x

\* A completion keeps the series of its build.
LEMMA CompletedInv ==
    ASSUME NEW log \in LogType, LogInv(log), NEW b \in identities, b \in DevBuilds,
           NEW t \in Trials, t[1] = b, Registrable(log, t), b # NoBuild
    PROVE  /\ Completed(log, t, <<b, b>>) \in LogType
           /\ LogInv(Completed(log, t, <<b, b>>))
           /\ Completed(log, t, <<b, b>>).pin = b
  <1> DEFINE y == Logged(log, t)
             x == Completed(log, t, <<b, b>>)
             c == [trial |-> t, series |-> <<b, b>>]
  <1>1. y \in LogType /\ LogInv(y) /\ y.pin = b
    BY LoggedInv
  <1>2. c \in [trial : Trials, series : Built \X Built] /\ c.series = <<b, b>>
    BY DEF Built
  <1>3. x = [y EXCEPT !.scored = @ \cup {c}]
    BY DEF Completed
  <1> HIDE DEF y, x, c
  <1>4. x \in LogType /\ x.pin = b /\ x.scored = y.scored \cup {c}
    BY <1>1, <1>2, <1>3 DEF LogType
  <1>5. LogInv(x)
    BY <1>1, <1>2, <1>4 DEF LogInv
  <1> QED BY <1>4, <1>5 DEF x

\* A rung of a run, and a variant, are trials of the build.
LEMMA TrialType ==
    ASSUME NEW b \in DevBuilds, NEW rung \in {Ladder[n] : n \in Nat} \cup Variants
    PROVE  Trial(b, rung) \in Trials /\ Trial(b, rung)[1] = b
  <1>1. Trial(b, rung)[1] = b
    BY DEF Trial
  <1> QED BY <1>1 DEF Trials

-----------------------------------------------------------------------------
(* The steps *)

\* The steps of the producer, and of a run that is not at a trial.
LEMMA QuietSteps ==
    ASSUME FreezeInv,
           \/ StartWrite \/ WriteDevMatrix \/ WriteDevManifest \/ WriteReturns \/ ProducerKilled
           \/ StartRun \/ ReadMatrix \/ ReadManifest \/ VerifyInputs \/ CloseLedger \/ RunEnds
           \/ DevMachineStops \/ FreezeRun \/ AcceptFreeze \/ UNCHANGED devFreezeVars
    PROVE  TypeInv' /\ LogInv(trials)' /\ RunInv' /\ merit' = merit
  <1>0. run.pc # "none" => run # NoRun
    BY DEF NoRun
  <1> USE DEF FreezeInv, TypeInv, NoRun, NoProducer
  <1>1. ASSUME StartWrite \/ WriteDevMatrix \/ WriteDevManifest \/ WriteReturns \/ ProducerKilled
        PROVE  /\ TypeInv' /\ identities \subseteq identities' /\ run' = run
               /\ trials' = trials /\ merit' = merit
    <2>1. CASE StartWrite
      <3>1. PICK b \in DevBuilds : producer' = [pc |-> "open matrix", build |-> b]
        BY <2>1 DEF StartWrite
      <3>2. producer' \in [pc : ProducerPcs, build : DevBuilds]
        BY <3>1 DEF ProducerPcs
      <3>3. UNCHANGED <<devFiles, identities, trials, run, merit>>
        BY <2>1 DEF StartWrite
      <3> QED BY <3>2, <3>3
    <2>2. CASE WriteDevMatrix \/ WriteDevManifest
      <3>1. ASSUME NEW f \in {"matrix", "manifest"}, NEW opening, NEW closing \in ProducerPcs,
                   NEW next \in ProducerPcs, WriteFile(f, opening, closing, next),
                   opening # "none", closing # "none", producer.pc \in {opening, closing}
            PROVE  /\ devFiles' \in [{"matrix", "manifest"} -> Built]
                   /\ producer' \in [pc : ProducerPcs, build : DevBuilds]
        <4>1. producer \in [pc : ProducerPcs, build : DevBuilds]
          BY <3>1
        <4>2. producer.build \in Built /\ Unreadable \in Built
          BY <4>1 DEF Built, Unreadable
        <4>3. producer' \in [pc : ProducerPcs, build : DevBuilds]
          BY <3>1, <4>1 DEF WriteFile
        <4>4. devFiles' \in [{"matrix", "manifest"} -> Built]
          BY <3>1, <4>2 DEF WriteFile
        <4> QED BY <4>3, <4>4
      <3>2. /\ devFiles' \in [{"matrix", "manifest"} -> Built]
            /\ producer' \in [pc : ProducerPcs, build : DevBuilds]
        <4>1. CASE WriteDevMatrix
          BY <3>1, <4>1 DEF WriteDevMatrix, WriteFile, ProducerPcs
        <4>2. CASE WriteDevManifest
          BY <3>1, <4>2 DEF WriteDevManifest, WriteFile, ProducerPcs
        <4> QED BY <2>2, <4>1, <4>2
      <3>3. UNCHANGED <<identities, trials, run, merit>>
        BY <2>2 DEF WriteDevMatrix, WriteDevManifest, WriteFile
      <3> QED BY <3>2, <3>3
    <2>3. CASE WriteReturns \/ ProducerKilled
      BY <2>3 DEF WriteReturns, ProducerKilled
    <2> QED BY <1>1, <2>1, <2>2, <2>3
  <1>2. ASSUME StartRun \/ ReadMatrix \/ ReadManifest \/ VerifyInputs \/ CloseLedger \/ RunEnds
                  \/ DevMachineStops
        PROVE  /\ TypeInv' /\ identities' = identities /\ RunInv'
               /\ trials' = trials /\ merit' = merit
    <2>1. CASE StartRun
      <3>1. /\ trials' = trials /\ identities' = identities /\ merit' = merit
            /\ devFiles' = devFiles /\ producer' = producer
        BY <2>1 DEF StartRun
      <3>2. PICK b \in identities :
               run' = [pc |-> "read matrix", identity |-> b, rows |-> Unreadable,
                       manifest |-> Unreadable, log |-> trials, next |-> 1, forecasts |-> {}]
        BY <2>1 DEF StartRun
      <3>3. run' \in RunType
        BY <3>2 DEF RunType, RunPcs, Built, Unreadable
      <3>4. run'.pc = "read matrix" /\ run'.identity = b /\ run'.log = trials
        BY <3>2
      <3> QED BY <3>1, <3>3, <3>4 DEF RunInv
    <2>2. CASE ReadMatrix \/ ReadManifest
      <3>0. run.pc \in {"read matrix", "read manifest"}
        BY <2>2 DEF ReadMatrix, ReadManifest, ReadInput
      <3>1. /\ run # NoRun /\ run \in RunType /\ run.pc \in {"read matrix", "read manifest"}
            /\ devFiles["matrix"] \in Built /\ devFiles["manifest"] \in Built
        BY <1>0, <3>0
      <3>2. /\ UNCHANGED <<devFiles, producer, identities, trials, merit>>
            /\ \/ run' = [run EXCEPT !.rows = devFiles["matrix"], !.pc = "read manifest"]
               \/ run' = [run EXCEPT !.manifest = devFiles["manifest"], !.pc = "verify"]
        BY <2>2, <3>1 DEF ReadMatrix, ReadManifest, ReadInput
      <3>3. /\ run' \in RunType /\ run'.pc \in {"read manifest", "verify"}
            /\ run'.identity = run.identity /\ run'.log = run.log
        BY <3>1, <3>2 DEF RunType, RunPcs
      <3>4. RunInv'
        BY <3>1, <3>2, <3>3 DEF RunInv
      <3> QED BY <3>2, <3>3, <3>4
    <2>3. CASE VerifyInputs \/ CloseLedger
      <3>1. /\ run # NoRun /\ run \in RunType /\ InputsVerified(run) /\ run.log = trials
            /\ run.identity \in identities
        BY <2>3 DEF VerifyInputs, CloseLedger, RunInv
      <3>2. /\ UNCHANGED <<devFiles, producer, identities, trials, merit>>
            /\ \/ run' = [run EXCEPT !.pc = "start"]
               \/ run' = [run EXCEPT !.pc = "closed"]
        BY <2>3 DEF VerifyInputs, CloseLedger
      <3>3. /\ run' \in RunType /\ run'.pc \in {"start", "closed"}
            /\ run'.identity = run.identity /\ run'.log = run.log
            /\ run'.rows = run.rows /\ run'.manifest = run.manifest
        BY <3>1, <3>2 DEF RunType, RunPcs
      <3>4. RunInv'
        BY <3>1, <3>2, <3>3 DEF RunInv, InputsVerified
      <3> QED BY <3>2, <3>3, <3>4
    <2>4. CASE RunEnds
      BY <2>4 DEF RunEnds, RunInv
    <2>5. CASE DevMachineStops
      BY <2>5 DEF DevMachineStops, RunInv, Built, Unreadable
    <2> QED BY <1>2, <2>1, <2>2, <2>3, <2>4, <2>5
  <1>3. ASSUME FreezeRun \/ AcceptFreeze \/ UNCHANGED devFreezeVars
        PROVE  /\ TypeInv' /\ identities' = identities /\ run' = run
               /\ trials' = trials /\ merit' = merit
    BY <1>3 DEF FreezeRun, AcceptFreeze, devFreezeVars
  <1>4. ASSUME identities \subseteq identities', trials' = trials PROVE LogInv(trials)'
    BY <1>4 DEF LogInv
  <1>5. ASSUME identities \subseteq identities', trials' = trials, run' = run PROVE RunInv'
    BY <1>5 DEF RunInv, InputsVerified
  <1> HIDE DEF FreezeInv, TypeInv
  <1> QED BY <1>1, <1>2, <1>3, <1>4, <1>5

\* The steps at a trial of the ladder, and the trials off it.
LEMMA TrialSteps ==
    ASSUME FreezeInv,
           RecordStart \/ FitCompletes \/ FitAborts \/ AttemptVariant
    PROVE  TypeInv' /\ LogInv(trials)' /\ RunInv' /\ merit' = merit
  <1>1. /\ identities' = identities /\ merit' = merit /\ devFiles' = devFiles
        /\ producer' = producer
    BY DEF RecordStart, FitCompletes, FitAborts, AttemptVariant
  <1>2. ASSUME LogInv(trials'), trials' \in LogType, run' = NoRun \/ run' \in RunType, RunInv'
        PROVE  TypeInv' /\ LogInv(trials)' /\ RunInv' /\ merit' = merit
    BY <1>1, <1>2 DEF FreezeInv, TypeInv, LogInv
  <1>3. ASSUME run.pc \in {"start", "fit"}
        PROVE  /\ run \in RunType /\ run # NoRun /\ run.log = trials /\ InputsVerified(run)
               /\ run.identity \in identities /\ run.identity \in DevBuilds
               /\ run.identity # NoBuild
               /\ Rung \in Trials /\ Rung[1] = run.identity
               /\ run.log \in LogType /\ LogInv(run.log)
    <2>1. run # NoRun
      BY <1>3 DEF NoRun
    <2>2. run \in RunType /\ run.next \in Nat /\ run.identity \in DevBuilds
      BY <2>1 DEF FreezeInv, TypeInv, RunType
    <2>3. Rung \in Trials /\ Rung[1] = run.identity
      BY <2>2, TrialType DEF Rung
    <2> QED BY <1>3, <2>1, <2>2, <2>3, SelectionAssumption DEF FreezeInv, TypeInv, RunInv, RunType
  <1>4. CASE RecordStart
    <2>1. /\ run.pc = "start" /\ Registrable(run.log, Rung)
          /\ trials' = Logged(run.log, Rung)
          /\ run' = [run EXCEPT !.pc = "fit", !.log = Logged(run.log, Rung)]
      BY <1>4 DEF RecordStart
    <2>2. trials' \in LogType /\ LogInv(trials') /\ trials'.pin = run.identity
      BY <1>3, <2>1, LoggedInv
    <2>3. /\ run' \in RunType /\ run'.pc = "fit" /\ run'.log = trials'
          /\ run'.identity = run.identity /\ run'.rows = run.rows
          /\ run'.manifest = run.manifest
      BY <1>3, <2>1, <2>2 DEF RunPcs, RunType
    <2>4. RunInv'
      BY <1>1, <1>3, <2>1, <2>2, <2>3 DEF RunInv, InputsVerified
    <2> QED BY <1>2, <2>2, <2>3, <2>4
  <1>5. ASSUME NEW r \in RunType, run.pc = "fit", r.pc = "fit", r.log = trials',
               trials' \in LogType, r.identity = run.identity, r.rows = run.rows,
               r.manifest = run.manifest, run' = NextRung(r)
        PROVE  run' \in RunType /\ RunInv'
    <2>0. \/ run' = [r EXCEPT !.pc = "done"]
          \/ run' = [r EXCEPT !.pc = "start", !.next = r.next + 1]
      BY <1>5 DEF NextRung
    <2>1. /\ run' \in RunType /\ run'.pc \in {"done", "start"} /\ run'.log = r.log
          /\ run'.identity = r.identity /\ run'.rows = r.rows /\ run'.manifest = r.manifest
      <3>2. r \in RunType
        BY <1>5
      <3>0. r.next \in Nat
        BY <3>2 DEF RunType
      <3>1. r.next + 1 \in Nat /\ "done" \in RunPcs /\ "start" \in RunPcs
        BY <3>0 DEF RunPcs
      <3>3. CASE run' = [r EXCEPT !.pc = "done"]
        BY <3>1, <3>2, <3>3 DEF RunType
      <3>4. CASE run' = [r EXCEPT !.pc = "start", !.next = r.next + 1]
        BY <3>1, <3>2, <3>4 DEF RunType
      <3> QED BY <2>0, <3>3, <3>4
    <2> QED BY <1>1, <1>3, <1>5, <2>1 DEF RunInv, InputsVerified
  <1>6. run.pc = "fit" => Registrable(run.log, Rung)
    BY <1>3 DEF FreezeInv, RunInv, Registrable
  <1>7. CASE FitCompletes
    <2> DEFINE log == Completed(run.log, Rung, <<run.rows, run.manifest>>)
               r == [run EXCEPT !.log = log, !.forecasts = @ \cup {Rung}]
    <2>1. run.pc = "fit" /\ trials' = log /\ run' = NextRung(r)
      BY <1>7 DEF FitCompletes
    <2>2. <<run.rows, run.manifest>> = <<run.identity, run.identity>>
      BY <1>3, <2>1 DEF InputsVerified
    <2>3. log \in LogType /\ LogInv(log)
      BY <1>3, <1>6, <2>1, <2>2, CompletedInv
    <2> HIDE DEF log
    <2>4. /\ r \in RunType /\ r.pc = "fit" /\ r.log = log /\ r.identity = run.identity
          /\ r.rows = run.rows /\ r.manifest = run.manifest
      BY <1>3, <2>1, <2>3 DEF RunType
    <2> HIDE DEF r
    <2> QED BY <1>2, <1>5, <2>1, <2>3, <2>4
  <1>8. CASE FitAborts
    <2> DEFINE log == Logged(run.log, Rung)
               r == [run EXCEPT !.log = log]
    <2>1. run.pc = "fit" /\ trials' = log /\ run' = NextRung(r)
      BY <1>8 DEF FitAborts
    <2>2. log \in LogType /\ LogInv(log)
      BY <1>3, <1>6, <2>1, LoggedInv
    <2> HIDE DEF log
    <2>3. /\ r \in RunType /\ r.pc = "fit" /\ r.log = log /\ r.identity = run.identity
          /\ r.rows = run.rows /\ r.manifest = run.manifest
      BY <1>3, <2>1, <2>2 DEF RunType
    <2> HIDE DEF r
    <2> QED BY <1>2, <1>5, <2>1, <2>2, <2>3
  <1>9. CASE AttemptVariant
    <2>1. PICK v \in Variants, b \in identities :
             /\ Registrable(trials, Trial(b, v))
             /\ \/ trials' = Completed(Logged(trials, Trial(b, v)), Trial(b, v), <<b, b>>)
                \/ trials' = Logged(trials, Trial(b, v))
      BY <1>9 DEF AttemptVariant
    <2>2. run.pc \in {"none", "closed"} /\ run' = run
      BY <1>9 DEF AttemptVariant, LedgerFree
    <2>3. b \in DevBuilds /\ b # NoBuild /\ trials \in LogType /\ LogInv(trials)
      BY SelectionAssumption DEF FreezeInv, TypeInv
    <2>4. Trial(b, v) \in Trials /\ Trial(b, v)[1] = b
      BY <2>3, TrialType
    <2>5. /\ Logged(trials, Trial(b, v)) \in LogType /\ LogInv(Logged(trials, Trial(b, v)))
          /\ Logged(trials, Trial(b, v)).pin = b
      BY <2>1, <2>3, <2>4, LoggedInv
    <2>6. Registrable(Logged(trials, Trial(b, v)), Trial(b, v))
      BY <2>4, <2>5 DEF Registrable
    <2>7. trials' \in LogType /\ LogInv(trials')
      BY <2>1, <2>3, <2>4, <2>5, <2>6, CompletedInv
    <2>8. run = NoRun \/ run \in RunType
      BY DEF FreezeInv, TypeInv
    <2>9. RunInv'
      BY <1>1, <2>2, <2>8 DEF FreezeInv, RunInv, RunPcs, RunType, NoRun, InputsVerified
    <2> QED BY <1>2, <2>2, <2>7, <2>8, <2>9
  <1> QED BY <1>4, <1>7, <1>8, <1>9

-----------------------------------------------------------------------------
(* The choice *)

\* Two ranked candidates are comparable, and what beats is transitive.
LEMMA BeatsOrders ==
    ASSUME merit \in Merits, NEW mode,
           NEW m \in DOMAIN Ranked, NEW n \in DOMAIN Ranked, NEW k \in DOMAIN Ranked
    PROVE  /\ m # n => Beats(mode, m, n) \/ Beats(mode, n, m)
           /\ Beats(mode, m, n) /\ Beats(mode, n, k) => Beats(mode, m, k)
  <1>1. \A x \in DOMAIN Ranked :
           x \in Nat /\ merit[Ranked[x]].lift \in Int /\ merit[Ranked[x]].net \in Int
    <2>1. ASSUME NEW x \in DOMAIN Ranked
          PROVE  x \in Nat /\ merit[Ranked[x]] \in [lift : Int, net : Int, withstands : Int]
      <3>1. x \in Nat
        <4>1. DOMAIN Ranked = 1 .. Len(Ranked) /\ Len(Ranked) \in Nat
          BY SelectionAssumption
        <4> QED BY <4>1
      <3>2. Ranked[x] \in Candidates
        BY DEF Candidates
      <3> QED BY <3>1, <3>2, SelectionAssumption
    <2> QED BY <2>1
  <1> QED BY <1>1 DEF Beats

\* Of any of the ranked candidates one beats the others.
LEMMA BestExists ==
    ASSUME merit \in Merits, NEW mode,
           NEW pool, pool \subseteq DOMAIN Ranked, pool # {}
    PROVE  \E m \in pool : \A n \in pool \ {m} : Beats(mode, m, n)
  <1> DEFINE upto(k) == {n \in pool : n <= k}
             Best(P, m) == \A n \in P \ {m} : Beats(mode, m, n)
             T == {k \in Nat : upto(k) # {} /\ ~ \E m \in upto(k) : Best(upto(k), m)}
  <1>1. DOMAIN Ranked = 1 .. Len(Ranked) /\ Len(Ranked) \in Nat
    BY SelectionAssumption
  <1>2. T = {}
    <2>1. SUFFICES ASSUME T # {} PROVE FALSE
      OBVIOUS
    <2>2. PICK k \in T : \A j \in T : ~ (<<j, k>> \in OpToRel(<, Nat))
      <3> HIDE DEF T
      <3>1. T \subseteq Nat
        BY DEF T
      <3> QED BY <2>1, <3>1, NatLessThanWellFounded, WFMin, Zenon
    <2>3. k \in Nat /\ upto(k) # {} /\ ~ \E m \in upto(k) : Best(upto(k), m)
      OBVIOUS
    <2>4. PICK x \in pool : x <= k
      BY <2>3
    <2>5. k - 1 \in Nat /\ k - 1 \notin T
      <3>1. k - 1 \in Nat
        <4>1. x \in 1 .. Len(Ranked) /\ k \in Nat /\ x <= k
          BY <1>1, <2>3, <2>4
        <4> HIDE DEF T
        <4> QED BY <1>1, <4>1
      <3> HIDE DEF T
      <3>2. <<k - 1, k>> \in OpToRel(<, Nat)
        BY <2>3, <3>1 DEF OpToRel
      <3> QED BY <2>2, <3>1, <3>2
    <2>6. upto(k) = IF k \in pool THEN upto(k - 1) \cup {k} ELSE upto(k - 1)
      <3>1. ASSUME NEW n \in pool PROVE n <= k <=> n <= k - 1 \/ n = k
        <4>1. n \in Int /\ k \in Int
          BY <1>1, <2>3
        <4> QED BY <4>1
      <3>2. k <= k
        BY <2>3
      <3> QED BY <3>1, <3>2
    <2>7. upto(k - 1) # {}
      <3>1. ASSUME upto(k - 1) = {} PROVE FALSE
        <4>1. k \in pool /\ upto(k) = {k}
          BY <2>3, <2>6, <3>1
        <4>2. Best(upto(k), k)
          BY <4>1
        <4> QED BY <2>3, <4>1, <4>2
      <3> QED BY <3>1
    <2>8. PICK m \in upto(k - 1) : Best(upto(k - 1), m)
      BY <2>5, <2>7
    <2>9. k \in pool /\ m # k
      BY <1>1, <2>3, <2>6, <2>8
    <2>10. m \in upto(k) /\ k \in upto(k)
      BY <2>6, <2>9
    <2>11. CASE Beats(mode, m, k)
      BY <2>3, <2>6, <2>8, <2>9, <2>10, <2>11
    <2>12. CASE Beats(mode, k, m)
      <3>1. ASSUME NEW n \in upto(k) \ {k} PROVE Beats(mode, k, n)
        <4>1. n = m \/ Beats(mode, m, n)
          BY <2>6, <2>8, <2>9
        <4> QED BY <2>9, <2>12, <4>1, BeatsOrders
      <3> QED BY <2>3, <2>10, <3>1
    <2> QED BY <2>9, <2>11, <2>12, BeatsOrders
  <1>3. upto(Len(Ranked)) = pool
    BY <1>1
  <1> QED BY <1>1, <1>2, <1>3

\* What a run selects, when no primary horizon is blocked.
LEMMA SelectIsTheChoice ==
    ASSUME merit \in Merits, NEW r, NEW h, Predictive(r, h) # {}
    PROVE  IsTheChoice(Select(r, h), h, r.identity, r.log)
  <1> DEFINE all == Cardinality(r.log.attempted)
             mode == IF Trades(r, h) # {} THEN "trade" ELSE "predictive"
             pool == IF mode = "trade" THEN Trades(r, h) ELSE Predictive(r, h)
             m == CHOOSE x \in pool : \A n \in pool \ {x} : Beats(mode, x, n)
             tradable(c) == /\ merit[c].lift > 0 /\ merit[c].net > 0
                            /\ all <= merit[c].withstands
             choice == Select(r, h)
  <1>1. /\ Predictive(r, h) \subseteq DOMAIN Ranked /\ Trades(r, h) \subseteq Predictive(r, h)
        /\ BaseComplete(r, h)
    BY DEF Predictive, Trades
  <1>2. pool # {} /\ pool \subseteq Predictive(r, h)
    BY <1>1
  <1>3. m \in pool /\ \A n \in pool \ {m} : Beats(mode, m, n)
    <2> HIDE DEF pool, mode
    <2> QED BY <1>1, <1>2, BestExists
  <1>4. choice.mode = mode /\ choice.candidate = Ranked[m]
    BY DEF Select
  <1>5. \A c \in Selectable : \E n \in DOMAIN Ranked : c = Ranked[n]
    BY SelectionAssumption DEF Candidates
  <1>6. \A n \in DOMAIN Ranked : Ranked[n] \in Selectable =>
           /\ n \in Predictive(r, h) <=> merit[Ranked[n]].lift > 0
           /\ n \in Trades(r, h) <=> tradable(Ranked[n])
    BY <1>1 DEF Predictive, Trades, EffectiveN
  <1>7. m \in DOMAIN Ranked /\ Ranked[m] \in Selectable /\ m \in Predictive(r, h)
    BY <1>1, <1>2, <1>3 DEF Predictive
  <1>8. Trial(r.identity, <<h, Ranked[m]>>) \in ScoredTrials(r.log)
    BY <1>1, <1>7 DEF BaseComplete
  <1>9. mode = "trade" <=> \E c \in Selectable : tradable(c)
    <2>1. mode = "trade" <=> Trades(r, h) # {}
      OBVIOUS
    <2>2. \A n \in Trades(r, h) : n \in DOMAIN Ranked /\ Ranked[n] \in Selectable
      BY <1>1 DEF Predictive
    <2> HIDE DEF mode, tradable
    <2> QED BY <1>5, <1>6, <2>1, <2>2
  <1>10. mode = "trade" => tradable(Ranked[m])
    <2>1. mode = "trade" => m \in Trades(r, h)
      BY <1>3
    <2> QED BY <1>6, <1>7, <2>1
  <1>11. ASSUME NEW c \in Selectable
         PROVE  IF mode = "trade" THEN tradable(c) => merit[c].net <= merit[Ranked[m]].net
                ELSE merit[c].lift <= merit[Ranked[m]].lift
    <2>1. PICK n \in DOMAIN Ranked : c = Ranked[n]
      BY <1>5
    <2>2. /\ merit[c] \in [lift : Int, net : Int, withstands : Int]
          /\ merit[Ranked[m]] \in [lift : Int, net : Int, withstands : Int]
      BY <1>7, <2>1, SelectionAssumption DEF Candidates
    <2>3. n \in pool => n = m \/ Beats(mode, m, n)
      BY <1>3
    <2>4. CASE mode = "trade"
      <3>1. tradable(c) => n \in pool
        BY <1>6, <2>1, <2>4
      <3> HIDE DEF mode, pool, m, tradable
      <3> QED BY <2>1, <2>2, <2>3, <2>4, <3>1 DEF Beats
    <2>5. CASE mode # "trade"
      <3>1. pool = Predictive(r, h) /\ merit[Ranked[m]].lift > 0
        BY <1>7, <2>5 DEF Predictive
      <3>2. merit[c].lift > 0 => n \in pool
        BY <1>6, <2>1, <3>1
      <3> HIDE DEF mode, pool, m, tradable
      <3> QED BY <2>1, <2>2, <2>3, <2>5, <3>1, <3>2 DEF Beats
    <2> QED BY <2>4, <2>5
  <1> HIDE DEF mode, m
  <1> QED BY <1>4, <1>7, <1>8, <1>9, <1>10, <1>11 DEF IsTheChoice

\* What has been accepted stays as it was accepted; what is accepted now is
\* derived from the ledger of this moment, which the run still holds.
LEMMA AcceptedSteps ==
    ASSUME FreezeInv, DevFreezeNext \/ UNCHANGED devFreezeVars,
           merit' = merit
    PROVE  AcceptedFreezeCountsEverything'
  <1>1. CASE accepted' = accepted
    BY <1>1 DEF FreezeInv, AcceptedFreezeCountsEverything, IsTheChoice
  <1>2. CASE AcceptFreeze
    <2> DEFINE a == [freeze |-> Derived(run), log |-> run.log]
               Counts(x) == /\ x.freeze.n = Cardinality(x.log.attempted)
                            /\ \A h \in Primary :
                                 IsTheChoice(x.freeze.selected[h], h, x.freeze.identity, x.log)
    <2>1. run.log = trials
      <3>1. run.pc = "done"
        BY <1>2 DEF AcceptFreeze
      <3>2. run # NoRun
        BY <3>1 DEF NoRun
      <3> QED BY <3>1, <3>2 DEF FreezeInv, RunInv
    <2>2. accepted' = accepted \cup {a}
      BY <1>2, <2>1 DEF AcceptFreeze
    <2>3. \A h \in Primary : Predictive(run, h) # {}
      BY <1>2 DEF AcceptFreeze, CanFreeze, FreezeBlocked
    <2>4. Counts(a)
      <3>1. /\ a.log = run.log /\ a.freeze.n = Cardinality(run.log.attempted)
            /\ a.freeze.identity = run.identity
            /\ \A h \in Primary : a.freeze.selected[h] = Select(run, h)
        BY DEF Derived, EffectiveN
      <3>2. \A h \in Primary : IsTheChoice(Select(run, h), h, run.identity, run.log)
        BY <2>3, SelectIsTheChoice DEF FreezeInv, TypeInv
      <3> HIDE DEF a
      <3> QED BY <3>1, <3>2
    <2>5. \A x \in accepted : Counts(x)
      BY DEF FreezeInv, AcceptedFreezeCountsEverything
    <2>6. \A x \in accepted' : Counts(x)
      <3> HIDE DEF a, Counts
      <3> QED BY <2>2, <2>4, <2>5
    <2> HIDE DEF a
    <2> QED BY <2>6 DEF AcceptedFreezeCountsEverything, IsTheChoice
  <1>3. CASE \/ StartWrite \/ WriteDevMatrix \/ WriteDevManifest \/ WriteReturns \/ ProducerKilled
             \/ StartRun \/ ReadMatrix \/ ReadManifest \/ VerifyInputs
             \/ RecordStart \/ FitCompletes \/ FitAborts \/ CloseLedger \/ RunEnds
             \/ AttemptVariant \/ DevMachineStops \/ FreezeRun \/ UNCHANGED devFreezeVars
    <2>1. accepted' = accepted
      BY <1>3 DEF StartWrite, WriteDevMatrix, WriteDevManifest, WriteFile, WriteReturns,
                  ProducerKilled, StartRun, ReadMatrix, ReadManifest, ReadInput, VerifyInputs,
                  RecordStart, FitCompletes, FitAborts, CloseLedger, RunEnds, AttemptVariant,
                  DevMachineStops, FreezeRun, devFreezeVars
    <2> QED BY <1>1, <2>1
  <1> QED BY <1>2, <1>3 DEF DevFreezeNext

LEMMA FreezeInit == DevFreezeInit => FreezeInv
  <1> SUFFICES ASSUME DevFreezeInit PROVE FreezeInv
    OBVIOUS
  <1>1. NoRun.pc = "none"
    BY DEF NoRun
  <1>2. /\ trials = [pin |-> NoBuild, attempted |-> {}, scored |-> {}, events |-> 0]
        /\ trials \in LogType
    BY DEF DevFreezeInit, LogType, Built
  <1>3. TypeInv
    BY <1>2 DEF DevFreezeInit, TypeInv, Built, Unreadable
  <1>4. LogInv(trials)
    BY <1>2 DEF LogInv
  <1>5. RunInv /\ AcceptedFreezeCountsEverything
    BY DEF DevFreezeInit, RunInv, AcceptedFreezeCountsEverything
  <1> QED BY <1>3, <1>4, <1>5 DEF FreezeInv

LEMMA FreezeStep ==
    ASSUME FreezeInv, DevFreezeNext \/ UNCHANGED devFreezeVars
    PROVE  FreezeInv'
  <1>1. TypeInv' /\ LogInv(trials)' /\ RunInv' /\ merit' = merit
    BY QuietSteps, TrialSteps DEF DevFreezeNext
  <1>2. AcceptedFreezeCountsEverything'
    BY <1>1, AcceptedSteps
  <1> QED BY <1>1, <1>2 DEF FreezeInv

\* The inductive invariant: the ledger keeps what is of the build it is pinned
\* to, a run past its verification has that build's two files, and it knows the
\* whole ledger until it closes it.
THEOREM FreezeInvariant == DevFreezeSpec => []FreezeInv
  <1>1. FreezeInv /\ [DevFreezeNext]_devFreezeVars => FreezeInv'
    BY FreezeStep
  <1> QED BY <1>1, FreezeInit, PTL DEF DevFreezeSpec

\* Whatever crashes, other builds and files replaced between two reads do, what
\* write_development returned and run_g0bn_development scored is of one pair of
\* files: every outcome in the ledger is of the build it is pinned to.
THEOREM DevelopmentRunsOne == DevFreezeSpec => []DevelopmentRunsOnePair
  <1>1. FreezeInv => DevelopmentRunsOnePair
    BY DEF FreezeInv, LogInv, DevelopmentRunsOnePair
  <1> QED BY <1>1, FreezeInvariant, PTL

\* For any ladder, any statistics and any attempts off the ladder, a freeze that
\* validate_freeze accepts has an effective N that counts the whole ledger of
\* that moment, and a choice that no candidate eligible under that N beats.
THEOREM AcceptedFreezesCount == DevFreezeSpec => []AcceptedFreezeCountsEverything
  <1>1. FreezeInv => AcceptedFreezeCountsEverything
    BY DEF FreezeInv
  <1> QED BY <1>1, FreezeInvariant, PTL

-----------------------------------------------------------------------------
(* The one-time transaction: the three shapes of a record *)

Judged(f, v) ==
    Advance(NewRecord(f), IF v THEN "validated" ELSE "validation_failed",
            "trade_validation", v)

Scored(f, x) == Advance(Judged(f, TRUE), "scored", "holdout_score", x)

-----------------------------------------------------------------------------
(* The inductive invariant *)

\* A command that has seen a readable record.
Working == {"validating", "checked", "loading", "loaded", "fitting", "recording",
            "consuming", "writing"}
Scoring == Working \ {"validating"}

\* What is on disk: a readable record is a legal one of its own holdout, and
\* one that shows a PASS had one.
FileInv ==
    \A h \in Holdouts : Readable(record[h]) =>
        /\ HoldoutOf[record[h].artifact] = h
        /\ record[h].artifact \in Authorized
        /\ LegalHistory(record[h])
        /\ record[h].state \in {"validated", "scored"} => h \in passed

\* What was reported was reported of the artifact of the record.
ReportInv ==
    \A h \in Holdouts : \A e \in reported[h] :
        Readable(record[h]) /\ e.artifact = record[h].artifact

\* What a command knows, however it overlaps with others.
Knows(p) ==
    /\ pc[p] # "idle" => art[p] \in Freezes
    /\ pc[p] \in {"opening", "creating"} => art[p] \in Authorized
    /\ pc[p] = "creating" => record[H(p)] = Torn
    /\ pc[p] \in Working => Readable(record[H(p)]) /\ record[H(p)].artifact = art[p]
    /\ pc[p] = "validating" => seen[p] = NewRecord(art[p])
    /\ pc[p] \in Scoring => H(p) \in passed /\ outPath[p] \in Outs
    /\ pc[p] = "fitting" /\ verdict[p] => \E x \in Results : seen[p] = Scored(art[p], x)
    /\ pc[p] \in {"recording", "consuming"} => ~ verdict[p] /\ res[p] \in Results
    /\ pc[p] = "consuming" => seen[p] = Judged(art[p], TRUE)

OneCreator ==
    \A p, q \in Procs :
        pc[p] = "creating" /\ pc[q] = "creating" /\ H(p) = H(q) => p = q

CommandInv == OneCreator /\ \A p \in Procs : Knows(p)

\* What it knows when no other command runs: the record is as it was read, and
\* the result it is about to write is the recorded one.
KnowsAlone(p) ==
    /\ pc[p] \in {"validating", "fitting", "consuming"} => seen[p] = record[H(p)]
    /\ pc[p] = "writing" => /\ record[H(p)].state = "scored"
                            /\ res[p] \in {NoResult, Last(record[H(p)].history).outcome}

OneCommand == \A p, q \in Procs : pc[p] # "idle" /\ pc[q] # "idle" => p = q

\* A score in a result file is that of a record that is scored.
ScoresAreRecorded ==
    \A o \in Outs : out[o] \in Results =>
        \E h \in Holdouts : /\ Readable(record[h]) /\ record[h].state = "scored"
                            /\ Last(record[h].history).outcome = out[o]

SerialInv ==
    serialized =>
        OneCommand /\ OutcomesKept /\ ScoresAreRecorded /\ \A p \in Procs : KnowsAlone(p)

ConsumptionInv ==
    TypeOK /\ FileInv /\ ReportInv /\ CommandInv /\ SerialInv /\ SealedUntilPass

-----------------------------------------------------------------------------
(* Records *)

\* What each shape of a record is, field by field.
LEMMA FrozenShape ==
    ASSUME NEW f \in Freezes
    PROVE  /\ NewRecord(f) \in Record
           /\ NewRecord(f).artifact = f /\ NewRecord(f).state = "frozen"
           /\ Len(NewRecord(f).history) = 1
           /\ LegalHistory(NewRecord(f))
  <1>1. [event |-> "opened", outcome |-> NoResult, artifact |-> f] \in Entry
    BY DEF Entry
  <1> QED BY <1>1 DEF NewRecord, Record, States, LegalHistory

LEMMA AdvanceShape ==
    ASSUME NEW r \in Record, NEW s \in States, NEW e, NEW o,
           [event |-> e, outcome |-> o, artifact |-> r.artifact] \in Entry
    PROVE  LET a == Advance(r, s, e, o)
               n == [event |-> e, outcome |-> o, artifact |-> r.artifact]
           IN  /\ a \in Record
               /\ a.artifact = r.artifact /\ a.state = s
               /\ Last(a.history) = n
               /\ ToSet(a.history) = ToSet(r.history) \cup {n}
  <1> DEFINE n == [event |-> e, outcome |-> o, artifact |-> r.artifact]
             a == Advance(r, s, e, o)
  <1>1. /\ r.history \in Seq(Entry) /\ r.artifact \in Freezes
        /\ a = [artifact |-> r.artifact, state |-> s, history |-> Append(r.history, n)]
    <2>1. /\ r.history \in Seq(Entry) /\ r.artifact \in Freezes
          /\ r = [artifact |-> r.artifact, state |-> r.state, history |-> r.history]
      BY DEF Record
    <2>2. a = [r EXCEPT !.state = s, !.history = Append(r.history, n)]
      BY DEF Advance
    <2> QED BY <2>1, <2>2
  <1>2. /\ Append(r.history, n) \in Seq(Entry)
        /\ Len(Append(r.history, n)) = Len(r.history) + 1
        /\ \A k \in 1 .. Len(r.history) : Append(r.history, n)[k] = r.history[k]
        /\ Append(r.history, n)[Len(r.history) + 1] = n
    BY <1>1
  <1>3. ToSet(Append(r.history, n)) = ToSet(r.history) \cup {n}
    BY <1>1, <1>2 DEF ToSet
  <1> QED BY <1>1, <1>2, <1>3 DEF Record, Last

LEMMA JudgedShape ==
    ASSUME NEW f \in Freezes, NEW v \in BOOLEAN
    PROVE  /\ Judged(f, v) \in Record
           /\ Judged(f, v).artifact = f
           /\ Judged(f, v).state = IF v THEN "validated" ELSE "validation_failed"
           /\ LegalHistory(Judged(f, v))
           /\ Last(Judged(f, v).history)
                 = [event |-> "trade_validation", outcome |-> v, artifact |-> f]
           /\ ToSet(Judged(f, v).history)
                 = ToSet(NewRecord(f).history) \cup {Last(Judged(f, v).history)}
  <1> DEFINE r == NewRecord(f)
             s == IF v THEN "validated" ELSE "validation_failed"
  <1>1. /\ [event |-> "trade_validation", outcome |-> v, artifact |-> f] \in Entry
        /\ s \in States
    BY DEF Entry, States
  <1>2. r \in Record /\ r.artifact = f
    BY FrozenShape
  <1>3. Judged(f, v) = Advance(r, s, "trade_validation", v)
    BY DEF Judged
  <1> HIDE DEF r, s
  <1>4. /\ Judged(f, v) \in Record
        /\ Judged(f, v).artifact = f
        /\ Judged(f, v).state = s
        /\ Last(Judged(f, v).history)
              = [event |-> "trade_validation", outcome |-> v, artifact |-> f]
        /\ ToSet(Judged(f, v).history)
              = ToSet(r.history) \cup {Last(Judged(f, v).history)}
    BY <1>1, <1>2, <1>3, AdvanceShape
  <1> QED BY <1>4 DEF LegalHistory, Judged, r, s

LEMMA ScoredShape ==
    ASSUME NEW f \in Freezes, NEW x \in Results
    PROVE  /\ Scored(f, x) \in Record
           /\ Scored(f, x).artifact = f
           /\ Scored(f, x).state = "scored"
           /\ LegalHistory(Scored(f, x))
           /\ Last(Scored(f, x).history)
                 = [event |-> "holdout_score", outcome |-> x, artifact |-> f]
           /\ ToSet(Scored(f, x).history)
                 = ToSet(Judged(f, TRUE).history) \cup {Last(Scored(f, x).history)}
  <1>1. [event |-> "holdout_score", outcome |-> x, artifact |-> f] \in Entry
    BY DEF Entry
  <1>2. Judged(f, TRUE) \in Record /\ Judged(f, TRUE).artifact = f
    BY JudgedShape
  <1>3. "scored" \in States
    BY DEF States
  <1>4. /\ Scored(f, x) \in Record
        /\ Scored(f, x).artifact = f
        /\ Scored(f, x).state = "scored"
        /\ Last(Scored(f, x).history)
              = [event |-> "holdout_score", outcome |-> x, artifact |-> f]
        /\ ToSet(Scored(f, x).history)
              = ToSet(Judged(f, TRUE).history) \cup {Last(Scored(f, x).history)}
    <2> DEFINE r == Judged(f, TRUE)
    <2>1. r \in Record /\ r.artifact = f
      BY <1>2
    <2> HIDE DEF r
    <2>2. /\ Advance(r, "scored", "holdout_score", x) \in Record
          /\ Advance(r, "scored", "holdout_score", x).artifact = f
          /\ Advance(r, "scored", "holdout_score", x).state = "scored"
          /\ Last(Advance(r, "scored", "holdout_score", x).history)
                = [event |-> "holdout_score", outcome |-> x, artifact |-> f]
          /\ ToSet(Advance(r, "scored", "holdout_score", x).history)
                = ToSet(r.history) \cup {[event |-> "holdout_score", outcome |-> x, artifact |-> f]}
      BY <1>1, <1>3, <2>1, AdvanceShape
    <2> QED BY <2>2 DEF Scored, r
  <1> QED BY <1>4 DEF LegalHistory, Scored, Judged

\* The state of a legal record determines its history, up to the score.
LEMMA StateDetermines ==
    ASSUME NEW r \in Record, LegalHistory(r)
    PROVE  /\ r.artifact \in Freezes
           /\ r.state = "frozen" => r = NewRecord(r.artifact)
           /\ r.state = "validated" => r = Judged(r.artifact, TRUE)
           /\ r.state = "scored" => \E x \in Results : r = Scored(r.artifact, x)
  <1>1. r.artifact \in Freezes
    BY DEF Record
  <1>2. CASE r = NewRecord(r.artifact)
    BY <1>1, <1>2, FrozenShape
  <1>3. ASSUME NEW v \in BOOLEAN, r = Judged(r.artifact, v)
        PROVE  /\ r.state = "frozen" => r = NewRecord(r.artifact)
               /\ r.state = "validated" => r = Judged(r.artifact, TRUE)
               /\ r.state = "scored" => \E x \in Results : r = Scored(r.artifact, x)
    BY <1>1, <1>3, JudgedShape
  <1>4. ASSUME NEW x \in Results, r = Scored(r.artifact, x)
        PROVE  /\ r.state = "frozen" => r = NewRecord(r.artifact)
               /\ r.state = "validated" => r = Judged(r.artifact, TRUE)
               /\ r.state = "scored" => \E y \in Results : r = Scored(r.artifact, y)
    BY <1>1, <1>4, ScoredShape
  <1> QED BY <1>1, <1>2, <1>3, <1>4 DEF LegalHistory, Judged, Scored

-----------------------------------------------------------------------------
(* Every action preserves the invariant *)

LEMMA InitInv == Init => ConsumptionInv
  <1> SUFFICES ASSUME Init PROVE ConsumptionInv
    OBVIOUS
  <1>1. TypeOK
    <2>1. 0 \in 0 .. MaxCommands
      BY FreezeAssumption
    <2> QED BY <2>1 DEF Init, TypeOK
  <1>2. FileInv /\ ReportInv /\ SealedUntilPass
    BY DEF Init, FileInv, ReportInv, SealedUntilPass, Readable
  <1>3. CommandInv
    BY DEF Init, CommandInv, OneCreator, Knows, Working, Scoring
  <1>4. SerialInv
    BY NoneAssumption DEF Init, SerialInv, OneCommand, KnowsAlone, ScoresAreRecorded,
                          OutcomesKept
  <1> QED BY <1>1, <1>2, <1>3, <1>4 DEF ConsumptionInv

\* The other commands when one takes a step.
Unmoved(q) ==
    /\ pc'[q] = pc[q] /\ art'[q] = art[q] /\ seen'[q] = seen[q]
    /\ verdict'[q] = verdict[q] /\ res'[q] = res[q] /\ outPath'[q] = outPath[q]

\* A command keeps what it knows while records stay or stay of its artifact.
LEMMA UnmovedKnows ==
    ASSUME ConsumptionInv, NEW q \in Procs, Unmoved(q), passed \subseteq passed',
           pc[q] = "creating" => record'[H(q)] = record[H(q)],
           pc[q] \in Working =>
              \/ record'[H(q)] = record[H(q)]
              \/ Readable(record'[H(q)]) /\ record'[H(q)].artifact = record[H(q)].artifact
    PROVE  Knows(q)'
  <1>1. Knows(q) /\ H(q)' = H(q)
    BY DEF ConsumptionInv, CommandInv, Unmoved, H
  <1> QED BY <1>1 DEF Unmoved, Knows, Working, Scoring

\* No step but a creation makes a creator.
LEMMA CreatorsKept ==
    ASSUME ConsumptionInv,
           \A q \in Procs : pc'[q] = "creating" => pc[q] = "creating" /\ art'[q] = art[q]
    PROVE  OneCreator'
  <1>1. \A q \in Procs : pc'[q] = "creating" => pc[q] = "creating" /\ H(q)' = H(q)
    BY DEF H
  <1>2. OneCreator
    BY DEF ConsumptionInv, CommandInv
  <1> QED BY <1>1, <1>2 DEF OneCreator

\* A step of one command that writes no record: what has to be shown of it.
LEMMA MemoryStep ==
    ASSUME ConsumptionInv, NEW p \in Procs, \A q \in Procs : q # p => Unmoved(q),
           UNCHANGED <<record, passed, reported, serialized>>, read' \subseteq passed,
           TypeOK', Knows(p)', pc'[p] # "creating",
           serialized =>
              /\ \A q \in Procs : q # p => pc[q] = "idle"
              /\ KnowsAlone(p)'
              /\ ScoresAreRecorded'
    PROVE  ConsumptionInv'
  <1>1. FileInv' /\ ReportInv' /\ SealedUntilPass'
    BY DEF ConsumptionInv, FileInv, ReportInv, SealedUntilPass
  <1>2. CommandInv'
    <2>1. \A q \in Procs : Knows(q)'
      BY UnmovedKnows
    <2>2. OneCreator'
      BY CreatorsKept DEF Unmoved
    <2> QED BY <2>1, <2>2 DEF CommandInv
  <1>3. ASSUME serialized PROVE SerialInv'
    <2>1. \A q \in Procs : q # p => pc'[q] = "idle"
      BY <1>3 DEF Unmoved
    <2>2. OneCommand' /\ \A q \in Procs : KnowsAlone(q)'
      BY <1>3, <2>1 DEF OneCommand, KnowsAlone
    <2>3. OutcomesKept'
      BY <1>3 DEF ConsumptionInv, SerialInv, OutcomesKept
    <2> QED BY <1>3, <2>2, <2>3 DEF SerialInv
  <1>4. SerialInv'
    BY <1>3 DEF SerialInv
  <1> QED BY <1>1, <1>2, <1>4 DEF ConsumptionInv

\* Alone in a behaviour that is serialized: a command that runs, or starts.
LEMMA Alone ==
    ASSUME ConsumptionInv, serialized, NEW p \in Procs, pc[p] # "idle"
    PROVE  \A q \in Procs : q # p => pc[q] = "idle"
  BY DEF ConsumptionInv, SerialInv, OneCommand

\* A command that ends, whatever it leaves of its placeholder, takes no more
\* with it than its own memory.
LEMMA ExitInv ==
    ASSUME ConsumptionInv, NEW p \in Procs, pc[p] # "idle", Exit(p),
           UNCHANGED <<record, ghosts>>,
           out' \in [Outs -> Results \cup {"absent", "preflight", "no metrics"}],
           serialized => ScoresAreRecorded'
    PROVE  ConsumptionInv'
  <1>1. TypeOK' /\ pc'[p] = "idle" /\ \A q \in Procs : q # p => Unmoved(q)
    BY DEF ConsumptionInv, TypeOK, Exit, Goto, Unmoved, ghosts
  <1>2. Knows(p)' /\ KnowsAlone(p)'
    BY <1>1 DEF Knows, KnowsAlone, Working, Scoring
  <1>3. read' \subseteq passed
    BY DEF ConsumptionInv, SealedUntilPass, ghosts
  <1> QED BY <1>1, <1>2, <1>3, Alone, MemoryStep DEF ghosts

\* A placeholder comes, goes or becomes a file without metrics.
LEMMA PlaceholderKeepsScores ==
    ASSUME ConsumptionInv, serialized, UNCHANGED record,
           \A o \in Outs : out'[o] \in Results => out'[o] = out[o]
    PROVE  ScoresAreRecorded'
  BY DEF ConsumptionInv, SerialInv, ScoresAreRecorded

LEMMA ScoreFailsInv ==
    ASSUME ConsumptionInv, NEW p \in Procs, pc[p] # "idle", ScoreFails(p)
    PROVE  ConsumptionInv'
  <1>1. /\ out' \in [Outs -> Results \cup {"absent", "preflight", "no metrics"}]
        /\ \A o \in Outs : out'[o] \in Results => out'[o] = out[o]
    BY NoneAssumption DEF ScoreFails, ConsumptionInv, TypeOK
  <1> QED BY <1>1, ExitInv, PlaceholderKeepsScores DEF ScoreFails

LEMMA DieInv ==
    ASSUME ConsumptionInv, NEW p \in Procs, Die(p)
    PROVE  ConsumptionInv'
  <1>1. out' = out /\ out \in [Outs -> Results \cup {"absent", "preflight", "no metrics"}]
    BY DEF Die, ConsumptionInv, TypeOK, fileVars
  <1> QED BY <1>1, ExitInv, PlaceholderKeepsScores DEF Die, fileVars

\* A command starts and knows what its first look at the record told it.
LEMMA StartStep ==
    ASSUME ConsumptionInv, NEW p \in Procs, NEW f \in Freezes, Start(p, f),
           UNCHANGED <<fileVars, res, serialized, read, passed, reported>>,
           NEW l \in {"opening", "validating", "checked"}, Goto(p, l),
           \A q \in Procs : q # p => Unmoved(q),
           seen' \in [Procs -> Record \cup {NoRecord}], verdict' \in [Procs -> BOOLEAN],
           outPath' \in [Procs -> Outs \cup {NoOut}],
           Knows(p)', l = "validating" => seen'[p] = record[HoldoutOf[f]]
    PROVE  ConsumptionInv'
  <1>1. TypeOK' /\ pc'[p] = l /\ art'[p] = f
    <2>1. commands' \in 0 .. MaxCommands
      <3>1. /\ commands \in 0 .. MaxCommands /\ commands < MaxCommands
            /\ commands' = commands + 1
        BY DEF ConsumptionInv, TypeOK, Start
      <3> QED BY <3>1, FreezeAssumption
    <2>2. /\ pc'[p] = l /\ art'[p] = f /\ art' \in [Procs -> Freezes \cup {NoFreeze}]
          /\ pc' \in [Procs -> {"idle", "opening", "creating", "validating", "checked",
                                "loading", "loaded", "fitting", "recording", "consuming",
                                "writing"}]
      BY DEF ConsumptionInv, TypeOK, Start, Goto
    <2> QED BY <2>1, <2>2 DEF ConsumptionInv, TypeOK, fileVars
  <1>2. KnowsAlone(p)'
    BY <1>1 DEF KnowsAlone, H, fileVars
  <1>3. serialized => ScoresAreRecorded'
    BY PlaceholderKeepsScores DEF fileVars
  <1>4. read' \subseteq passed
    BY DEF ConsumptionInv, SealedUntilPass
  <1> QED BY <1>1, <1>2, <1>3, <1>4, MemoryStep DEF Start, fileVars

LEMMA OpenInv ==
    ASSUME ConsumptionInv, NEW p \in Procs, NEW f \in Freezes, HoldoutOpen(p, f)
    PROVE  ConsumptionInv'
  <1>1. /\ \A q \in Procs : q # p => Unmoved(q)
        /\ pc'[p] = "opening" /\ art'[p] = f /\ f \in Authorized
        /\ UNCHANGED <<seen, verdict, outPath>>
    BY DEF ConsumptionInv, TypeOK, HoldoutOpen, Start, Goto, Unmoved, Authorizes
  <1>2. Knows(p)'
    BY <1>1 DEF Knows, Working, Scoring
  <1> QED BY <1>1, <1>2, StartStep DEF ConsumptionInv, TypeOK, HoldoutOpen

LEMMA ValidateInv ==
    ASSUME ConsumptionInv, NEW p \in Procs, NEW f \in Freezes, NEW v \in BOOLEAN,
           HoldoutValidate(p, f, v)
    PROVE  ConsumptionInv'
  <1> DEFINE r == record[HoldoutOf[f]]
  <1>1. /\ \A q \in Procs : q # p => Unmoved(q)
        /\ pc'[p] = "validating" /\ art'[p] = f /\ seen'[p] = r
        /\ seen' = [seen EXCEPT ![p] = r] /\ verdict' = [verdict EXCEPT ![p] = v]
        /\ record' = record
    BY DEF ConsumptionInv, TypeOK, HoldoutValidate, Start, Goto, Unmoved, RecordFor,
           fileVars
  <1>2. HoldoutOf[f] \in Holdouts /\ Readable(r) /\ r.artifact = f /\ r.state = "frozen"
    BY FreezeAssumption DEF HoldoutValidate, Opens, RecordFor
  <1>3. r \in Record /\ LegalHistory(r)
    BY <1>2 DEF ConsumptionInv, TypeOK, FileInv, Readable
  <1>4. r = NewRecord(f)
    BY <1>2, <1>3, StateDetermines
  <1>5. Knows(p)'
    BY <1>1, <1>2, <1>4 DEF Knows, Working, Scoring, H
  <1>6. seen' \in [Procs -> Record \cup {NoRecord}] /\ verdict' \in [Procs -> BOOLEAN]
    BY <1>1, <1>3 DEF ConsumptionInv, TypeOK
  <1> QED BY <1>1, <1>5, <1>6, StartStep DEF ConsumptionInv, TypeOK, HoldoutValidate

LEMMA ScoreInv ==
    ASSUME ConsumptionInv, NEW p \in Procs, NEW f \in Freezes, NEW o \in Outs,
           NEW v \in BOOLEAN, HoldoutScore(p, f, o, v)
    PROVE  ConsumptionInv'
  <1> DEFINE r == record[HoldoutOf[f]]
  <1>1. /\ \A q \in Procs : q # p => Unmoved(q)
        /\ pc'[p] = "checked" /\ art'[p] = f /\ outPath'[p] = o
        /\ verdict' = [verdict EXCEPT ![p] = v] /\ outPath' = [outPath EXCEPT ![p] = o]
        /\ UNCHANGED <<record, seen, passed>>
    BY DEF ConsumptionInv, TypeOK, HoldoutScore, Start, Goto, Unmoved, fileVars
  <1>2. /\ HoldoutOf[f] \in Holdouts /\ Readable(r) /\ r.artifact = f
        /\ r.state \in {"validated", "scored"}
    BY FreezeAssumption DEF HoldoutScore, Opens, RecordFor
  <1>3. HoldoutOf[f] \in passed
    BY <1>2 DEF ConsumptionInv, FileInv
  <1>4. Knows(p)'
    BY <1>1, <1>2, <1>3 DEF Knows, Working, Scoring, H
  <1>5. verdict' \in [Procs -> BOOLEAN] /\ outPath' \in [Procs -> Outs \cup {NoOut}]
    BY <1>1 DEF ConsumptionInv, TypeOK
  <1> QED BY <1>1, <1>4, <1>5, StartStep DEF ConsumptionInv, TypeOK, HoldoutScore

-----------------------------------------------------------------------------
(* Steps inside a command *)

\* A step that moves p to another place of its command and touches its memory.
LEMMA InsideStep ==
    ASSUME ConsumptionInv, NEW p \in Procs, pc[p] # "idle",
           NEW l \in Working, Goto(p, l),
           UNCHANGED <<record, art, verdict, outPath, serialized, commands, passed, reported>>,
           NEW s \in Record \cup {NoRecord}, seen' = [seen EXCEPT ![p] = s],
           NEW x \in Results \cup {NoResult}, res' = [res EXCEPT ![p] = x],
           out' \in [Outs -> Results \cup {"absent", "preflight", "no metrics"}],
           \A o \in Outs : out'[o] \in Results => out'[o] = out[o],
           read' \subseteq passed, read' \subseteq Holdouts,
           Knows(p)', serialized => KnowsAlone(p)'
    PROVE  ConsumptionInv'
  <1>1. TypeOK'
    BY DEF ConsumptionInv, TypeOK, Goto, Working
  <1>2. \A q \in Procs : q # p => Unmoved(q)
    BY DEF ConsumptionInv, TypeOK, Goto, Unmoved
  <1>3. pc'[p] # "creating"
    BY DEF ConsumptionInv, TypeOK, Goto, Working
  <1> QED BY <1>1, <1>2, <1>3, Alone, PlaceholderKeepsScores, MemoryStep

LEMMA PreflightInv ==
    ASSUME ConsumptionInv, NEW p \in Procs, PreflightOut(p)
    PROVE  ConsumptionInv'
  <1>1. CASE out[outPath[p]] = "absent" /\ out' = [out EXCEPT ![outPath[p]] = "preflight"]
             /\ Goto(p, "loading")
             /\ UNCHANGED <<record, art, seen, verdict, res, outPath, ghosts>>
    <2>1. /\ out' \in [Outs -> Results \cup {"absent", "preflight", "no metrics"}]
          /\ \A o \in Outs : out'[o] \in Results => out'[o] = out[o]
      BY <1>1, NoneAssumption DEF ConsumptionInv, TypeOK
    <2>2. /\ pc[p] = "checked" /\ pc'[p] = "loading"
          /\ seen' = [seen EXCEPT ![p] = seen[p]] /\ res' = [res EXCEPT ![p] = res[p]]
      BY <1>1 DEF PreflightOut, ConsumptionInv, TypeOK, Goto
    <2>3. Knows(p)' /\ KnowsAlone(p)'
      BY <1>1, <2>2 DEF ConsumptionInv, CommandInv, Knows, KnowsAlone, Working, Scoring,
                        H, ghosts
    <2> QED BY <1>1, <2>1, <2>2, <2>3, InsideStep
            DEF ConsumptionInv, TypeOK, SealedUntilPass, ghosts, Working
  <1>2. CASE Exit(p) /\ UNCHANGED <<fileVars, ghosts>>
    BY <1>2, ExitInv, PlaceholderKeepsScores
       DEF PreflightOut, ConsumptionInv, TypeOK, fileVars
  <1> QED BY <1>1, <1>2 DEF PreflightOut

LEMMA ReadHoldoutInv ==
    ASSUME ConsumptionInv, NEW p \in Procs, ReadHoldout(p)
    PROVE  ConsumptionInv'
  <1>1. /\ pc[p] = "loading" /\ pc'[p] = "loaded" /\ Goto(p, "loaded")
        /\ seen' = [seen EXCEPT ![p] = seen[p]] /\ res' = [res EXCEPT ![p] = res[p]]
    BY DEF ReadHoldout, ConsumptionInv, TypeOK, Goto
  <1>2. Knows(p)
    BY DEF ConsumptionInv, CommandInv
  <1>3. Knows(p)' /\ KnowsAlone(p)'
    BY <1>1, <1>2 DEF ReadHoldout, Knows, KnowsAlone, Working, Scoring, H, fileVars
  <1>4. read' \subseteq passed /\ passed \subseteq Holdouts
    BY <1>1, <1>2 DEF ReadHoldout, ConsumptionInv, SealedUntilPass, TypeOK, Knows, Scoring,
                      Working
  <1> QED BY <1>1, <1>3, <1>4, InsideStep
          DEF ReadHoldout, ConsumptionInv, TypeOK, fileVars, Working

LEMMA RereadInv ==
    ASSUME ConsumptionInv, NEW p \in Procs, ScoreReread(p)
    PROVE  ConsumptionInv'
  <1> DEFINE r == record[H(p)]
  <1>1. pc[p] = "loaded" /\ Knows(p) /\ art[p] \in Freezes /\ H(p) \in Holdouts
    BY FreezeAssumption DEF ScoreReread, ConsumptionInv, CommandInv, Knows, H
  <1>2. CASE /\ Opens(art[p], IF verdict[p] THEN "scored" ELSE "validated")
             /\ seen' = [seen EXCEPT ![p] = r] /\ Goto(p, "fitting")
             /\ UNCHANGED <<fileVars, art, verdict, res, outPath, ghosts>>
    <2>1. /\ Readable(r) /\ r.artifact = art[p]
          /\ verdict[p] => r.state = "scored"
      BY <1>2 DEF Opens, RecordFor, H
    <2>2. r \in Record /\ LegalHistory(r)
      BY <1>1, <2>1 DEF ConsumptionInv, TypeOK, FileInv, Readable
    <2>3. verdict[p] => \E x \in Results : r = Scored(art[p], x)
      BY <2>1, <2>2, StateDetermines
    <2>4. pc'[p] = "fitting" /\ seen'[p] = r /\ res' = [res EXCEPT ![p] = res[p]]
      BY <1>2 DEF ConsumptionInv, TypeOK, Goto
    <2>5. Knows(p)' /\ KnowsAlone(p)'
      BY <1>1, <1>2, <2>3, <2>4 DEF Knows, KnowsAlone, Working, Scoring, H, fileVars, ghosts
    <2> QED BY <1>1, <1>2, <2>2, <2>4, <2>5, InsideStep
            DEF ConsumptionInv, TypeOK, SealedUntilPass, fileVars, ghosts, Working
  <1>3. CASE ScoreFails(p)
    BY <1>1, <1>3, ScoreFailsInv
  <1> QED BY <1>2, <1>3 DEF ScoreReread

LEMMA ComputedInv ==
    ASSUME ConsumptionInv, NEW p \in Procs, NEW r \in Results, Computed(p, r)
    PROVE  ConsumptionInv'
  <1> DEFINE x == IF verdict[p] /\ Last(seen[p].history).outcome # r THEN NoResult ELSE r
             l == IF verdict[p] THEN "writing" ELSE "recording"
  <1>1. /\ pc[p] = "fitting" /\ Knows(p)
        /\ pc'[p] = l /\ Goto(p, l) /\ l \in Working
        /\ x \in Results \cup {NoResult} /\ res' = [res EXCEPT ![p] = x] /\ res'[p] = x
        /\ UNCHANGED <<fileVars, art, seen, verdict, outPath, ghosts>>
        /\ seen' = [seen EXCEPT ![p] = seen[p]] /\ verdict[p] \in BOOLEAN
    BY DEF Computed, ConsumptionInv, CommandInv, TypeOK, Goto, Working
  <1> HIDE DEF x, l
  <1>2. Knows(p)'
    BY <1>1 DEF Knows, Working, Scoring, H, fileVars, ghosts, x, l
  <1>3. ASSUME serialized PROVE KnowsAlone(p)'
    <2>1. CASE verdict[p]
      <3>1. art[p] \in Freezes /\ \E y \in Results : seen[p] = Scored(art[p], y)
        BY <1>1, <2>1 DEF Knows
      <3>2. seen[p].state = "scored" /\ seen[p] = record[H(p)]
        <4>1. seen[p].state = "scored"
          <5>1. PICK y \in Results : seen[p] = Scored(art[p], y)
            BY <3>1
          <5>2. Scored(art[p], y).state = "scored"
            BY <3>1, ScoredShape
          <5> QED BY <5>1, <5>2
        <4>2. KnowsAlone(p)
          BY <1>3 DEF ConsumptionInv, SerialInv
        <4> QED BY <1>1, <4>1, <4>2 DEF KnowsAlone
      <3>3. x \in {NoResult, Last(seen[p].history).outcome}
        BY <2>1 DEF x
      <3> QED BY <1>1, <2>1, <3>2, <3>3 DEF KnowsAlone, H, fileVars, l
    <2>2. CASE ~ verdict[p]
      BY <1>1, <2>2 DEF KnowsAlone, l
    <2> QED BY <2>1, <2>2
  <1> QED BY <1>1, <1>2, <1>3, InsideStep
          DEF ConsumptionInv, TypeOK, SealedUntilPass, fileVars, ghosts

LEMMA RecordScoreInv ==
    ASSUME ConsumptionInv, NEW p \in Procs, RecordScore(p)
    PROVE  ConsumptionInv'
  <1> DEFINE r == record[H(p)]
  <1>1. pc[p] = "recording" /\ Knows(p) /\ art[p] \in Freezes /\ H(p) \in Holdouts
    BY FreezeAssumption DEF RecordScore, ConsumptionInv, CommandInv, Knows, H
  <1>2. CASE /\ Opens(art[p], "validated")
             /\ seen' = [seen EXCEPT ![p] = r] /\ Goto(p, "consuming")
             /\ UNCHANGED <<fileVars, art, verdict, res, outPath, ghosts>>
    <2>1. Readable(r) /\ r.artifact = art[p] /\ r.state = "validated"
      BY <1>2 DEF Opens, RecordFor, H
    <2>2. r \in Record /\ LegalHistory(r)
      BY <1>1, <2>1 DEF ConsumptionInv, TypeOK, FileInv, Readable
    <2>3. r = Judged(art[p], TRUE)
      BY <2>1, <2>2, StateDetermines
    <2>4. pc'[p] = "consuming" /\ seen'[p] = r /\ res' = [res EXCEPT ![p] = res[p]]
      BY <1>2 DEF ConsumptionInv, TypeOK, Goto
    <2>5. Knows(p)' /\ KnowsAlone(p)'
      BY <1>1, <1>2, <2>3, <2>4 DEF Knows, KnowsAlone, Working, Scoring, H, fileVars, ghosts
    <2> QED BY <1>1, <1>2, <2>2, <2>4, <2>5, InsideStep
            DEF ConsumptionInv, TypeOK, SealedUntilPass, fileVars, ghosts, Working
  <1>3. CASE ScoreFails(p)
    BY <1>1, <1>3, ScoreFailsInv
  <1> QED BY <1>2, <1>3 DEF RecordScore

\* A result file with metrics is only written of a recorded score.
LEMMA WriteResultInv ==
    ASSUME ConsumptionInv, NEW p \in Procs, WriteResult(p)
    PROVE  ConsumptionInv'
  <1> DEFINE o == outPath[p]
             c == IF res[p] = NoResult THEN "no metrics" ELSE res[p]
  <1>1. pc[p] = "writing" /\ Knows(p) /\ out' = [out EXCEPT ![o] = c]
    BY DEF WriteResult, ConsumptionInv, CommandInv
  <1>2. o \in Outs /\ art[p] \in Freezes /\ H(p) \in Holdouts /\ Readable(record[H(p)])
    BY <1>1, FreezeAssumption DEF Knows, Working, Scoring, H
  <1>3. out' \in [Outs -> Results \cup {"absent", "preflight", "no metrics"}]
    BY <1>1 DEF ConsumptionInv, TypeOK
  <1>4. ASSUME serialized PROVE ScoresAreRecorded'
    <2>1. /\ ScoresAreRecorded /\ record[H(p)].state = "scored"
          /\ c \in Results => c = Last(record[H(p)].history).outcome
      BY <1>1, <1>4, NoneAssumption DEF ConsumptionInv, SerialInv, KnowsAlone
    <2>2. out'[o] = c /\ \A q \in Outs : q # o => out'[q] = out[q]
      BY <1>1, <1>2 DEF ConsumptionInv, TypeOK
    <2> QED BY <1>2, <2>1, <2>2 DEF WriteResult, ScoresAreRecorded
  <1> QED BY <1>1, <1>3, <1>4, ExitInv DEF WriteResult

-----------------------------------------------------------------------------
(* Steps that write a record *)

\* What has to be shown of a write: it creates a file that is not there, or
\* fills the one it created, or replaces a readable one of its own artifact.
LEMMA RecordStep ==
    ASSUME ConsumptionInv, NEW p \in Procs, pc[p] # "idle", H(p) \in Holdouts,
           NEW r \in Record \cup {Torn}, record' = [record EXCEPT ![H(p)] = r],
           \A q \in Procs : q # p => Unmoved(q), TypeOK',
           passed \subseteq passed', UNCHANGED <<read, serialized>>,
           r # Torn => /\ r.artifact = art[p] /\ art[p] \in Authorized
                       /\ LegalHistory(r)
                       /\ r.state \in {"validated", "scored"} => H(p) \in passed',
           \/ record[H(p)] = NoRecord
           \/ record[H(p)] = Torn /\ pc[p] = "creating" /\ r # Torn
           \/ Readable(record[H(p)]) /\ record[H(p)].artifact = art[p] /\ r # Torn,
           ReportInv', OneCreator', Knows(p)',
           serialized => KnowsAlone(p)' /\ OutcomesKept' /\ ScoresAreRecorded'
    PROVE  ConsumptionInv'
  <1>1. /\ record'[H(p)] = r
        /\ \A h \in Holdouts : h # H(p) => record'[h] = record[h]
    BY DEF ConsumptionInv, TypeOK
  <1>2. FileInv'
    <2>1. HoldoutOf[art[p]] = H(p)
      BY DEF H
    <2> QED BY <1>1, <2>1 DEF ConsumptionInv, FileInv, Readable
  <1>3. SealedUntilPass'
    BY DEF ConsumptionInv, SealedUntilPass
  <1>4. ASSUME NEW q \in Procs, q # p PROVE Knows(q)'
    <2>1. Knows(q) /\ (pc[q] # "idle" => H(q) \in Holdouts)
      BY FreezeAssumption DEF ConsumptionInv, CommandInv, Knows, H
    <2>2. CASE pc[q] = "idle" \/ H(q) # H(p)
      BY <1>1, <1>4, <2>1, <2>2, UnmovedKnows DEF Working
    <2>3. CASE pc[q] # "idle" /\ H(q) = H(p)
      <3>1. pc[q] # "creating"
        BY <1>4, <2>1, <2>3, RecordAssumption
           DEF ConsumptionInv, CommandInv, OneCreator, Knows, Readable
      <3>2. pc[q] \in Working => /\ Readable(record[H(p)]) /\ r # Torn
                                 /\ record[H(p)].artifact = art[q] /\ art[p] = art[q]
        BY <2>1, <2>3 DEF Knows, Readable
      <3>3. r # Torn => Readable(r)
        BY RecordAssumption DEF Readable
      <3>4. pc[q] \in Working =>
               Readable(record'[H(q)]) /\ record'[H(q)].artifact = record[H(q)].artifact
        BY <1>1, <2>3, <3>2, <3>3
      <3> QED BY <1>4, <3>1, <3>4, UnmovedKnows
    <2> QED BY <2>2, <2>3
  <1>5. ASSUME serialized PROVE SerialInv'
    <2>1. \A q \in Procs : q # p => pc'[q] = "idle"
      BY <1>5, Alone DEF Unmoved
    <2>2. OneCommand' /\ \A q \in Procs : KnowsAlone(q)'
      BY <1>5, <2>1 DEF OneCommand, KnowsAlone
    <2> QED BY <1>5, <2>2 DEF SerialInv
  <1>6. SerialInv'
    BY <1>5 DEF SerialInv
  <1> QED BY <1>2, <1>3, <1>4, <1>6 DEF ConsumptionInv, CommandInv

\* What a record shows is kept by a write over one without a score.
LEMMA WriteKeepsScores ==
    ASSUME ConsumptionInv, serialized, NEW k \in Holdouts, NEW r,
           record' = [record EXCEPT ![k] = r], UNCHANGED out,
           ~ (Readable(record[k]) /\ record[k].state = "scored")
    PROVE  ScoresAreRecorded'
  <1>1. \A h \in Holdouts : h # k => record'[h] = record[h]
    BY DEF ConsumptionInv, TypeOK
  <1>2. ScoresAreRecorded
    BY DEF ConsumptionInv, SerialInv
  <1> QED BY <1>1, <1>2 DEF ScoresAreRecorded

\* A file that holds no record yet had no outcome reported of it.
LEMMA NothingReportedYet ==
    ASSUME ConsumptionInv, NEW k \in Holdouts, ~ Readable(record[k]), NEW r,
           record' = [record EXCEPT ![k] = r], UNCHANGED reported
    PROVE  ReportInv' /\ (serialized => OutcomesKept')
  <1>1. \A h \in Holdouts : h # k => record'[h] = record[h]
    BY DEF ConsumptionInv, TypeOK
  <1>2. reported[k] = {} /\ \A h \in Holdouts : reported'[h] = reported[h]
    BY DEF ConsumptionInv, ReportInv
  <1>3. ReportInv'
    BY <1>1, <1>2 DEF ConsumptionInv, ReportInv
  <1>4. ASSUME serialized PROVE OutcomesKept'
    BY <1>1, <1>2, <1>4 DEF ConsumptionInv, SerialInv, OutcomesKept
  <1> QED BY <1>3, <1>4

LEMMA CreateRecordInv ==
    ASSUME ConsumptionInv, NEW p \in Procs, CreateRecord(p)
    PROVE  ConsumptionInv'
  <1>1. pc[p] = "opening" /\ Knows(p) /\ art[p] \in Freezes /\ H(p) \in Holdouts
    BY FreezeAssumption DEF CreateRecord, ConsumptionInv, CommandInv, Knows, H
  <1>2. CASE /\ record[H(p)] = NoRecord /\ record' = [record EXCEPT ![H(p)] = Torn]
             /\ Goto(p, "creating")
             /\ UNCHANGED <<out, art, seen, verdict, res, outPath, ghosts>>
    <2>1. /\ TypeOK' /\ pc'[p] = "creating" /\ \A q \in Procs : q # p => Unmoved(q)
          /\ record'[H(p)] = Torn
      BY <1>1, <1>2 DEF ConsumptionInv, TypeOK, Goto, Unmoved, ghosts
    <2>2. Knows(p)' /\ KnowsAlone(p)'
      BY <1>1, <1>2, <2>1 DEF Knows, KnowsAlone, Working, Scoring, H
    <2>3. OneCreator'
      <3>1. \A q \in Procs : q # p => pc'[q] = pc[q] /\ H(q)' = H(q)
        BY <2>1 DEF Unmoved, H
      <3>2. \A q \in Procs : q # p /\ pc'[q] = "creating" => H(q)' # H(p)'
        <4>1. \A q \in Procs : pc[q] = "creating" => record[H(q)] = Torn
          BY DEF ConsumptionInv, CommandInv, Knows
        <4>2. \A q \in Procs : pc[q] = "creating" => H(q) # H(p)
          BY <1>2, <4>1, RecordAssumption
        <4>3. H(p)' = H(p)
          BY <1>2 DEF H
        <4> QED BY <3>1, <4>2, <4>3
      <3> QED BY <3>1, <3>2 DEF ConsumptionInv, CommandInv, OneCreator
    <2>4. ~ Readable(record[H(p)])
      BY <1>2 DEF Readable
    <2>5. ReportInv' /\ (serialized => OutcomesKept' /\ ScoresAreRecorded')
      BY <1>1, <1>2, <2>4, NothingReportedYet, WriteKeepsScores DEF ghosts
    <2> QED BY <1>1, <1>2, <2>1, <2>2, <2>3, <2>5, RecordStep DEF ghosts
  <1>3. CASE Exit(p) /\ UNCHANGED <<fileVars, ghosts>>
    BY <1>1, <1>3, ExitInv, PlaceholderKeepsScores
       DEF ConsumptionInv, TypeOK, fileVars
  <1> QED BY <1>2, <1>3 DEF CreateRecord

\* A process that exits leaves the others and knows nothing.
LEMMA ExitForgets ==
    ASSUME ConsumptionInv, NEW p \in Procs, Exit(p)
    PROVE  /\ \A q \in Procs : q # p => Unmoved(q)
           /\ Knows(p)' /\ KnowsAlone(p)' /\ OneCreator'
           /\ pc' \in [Procs -> {"idle", "opening", "creating", "validating", "checked",
                                 "loading", "loaded", "fitting", "recording",
                                 "consuming", "writing"}]
           /\ art' \in [Procs -> Freezes \cup {NoFreeze}]
           /\ seen' \in [Procs -> Record \cup {NoRecord}]
           /\ verdict' \in [Procs -> BOOLEAN]
           /\ res' \in [Procs -> Results \cup {NoResult}]
           /\ outPath' \in [Procs -> Outs \cup {NoOut}]
  <1>1. /\ pc'[p] = "idle" /\ \A q \in Procs : q # p => Unmoved(q)
        /\ pc' \in [Procs -> {"idle", "opening", "creating", "validating", "checked",
                              "loading", "loaded", "fitting", "recording",
                              "consuming", "writing"}]
        /\ art' \in [Procs -> Freezes \cup {NoFreeze}]
        /\ seen' \in [Procs -> Record \cup {NoRecord}]
        /\ verdict' \in [Procs -> BOOLEAN]
        /\ res' \in [Procs -> Results \cup {NoResult}]
        /\ outPath' \in [Procs -> Outs \cup {NoOut}]
    BY DEF ConsumptionInv, TypeOK, Exit, Goto, Unmoved
  <1>2. Knows(p)' /\ KnowsAlone(p)'
    BY <1>1 DEF Knows, KnowsAlone, Working, Scoring
  <1>3. OneCreator'
    BY <1>1, CreatorsKept DEF Unmoved
  <1> QED BY <1>1, <1>2, <1>3

LEMMA FinishCreateInv ==
    ASSUME ConsumptionInv, NEW p \in Procs, FinishCreate(p)
    PROVE  ConsumptionInv'
  <1> DEFINE r == NewRecord(art[p])
  <1>1. /\ pc[p] = "creating" /\ Knows(p) /\ art[p] \in Freezes /\ art[p] \in Authorized
        /\ H(p) \in Holdouts /\ record[H(p)] = Torn
    BY FreezeAssumption DEF FinishCreate, ConsumptionInv, CommandInv, Knows, H
  <1>2. /\ r \in Record /\ r.artifact = art[p] /\ r.state = "frozen" /\ LegalHistory(r)
        /\ record' = [record EXCEPT ![H(p)] = r]
    BY <1>1, FrozenShape DEF FinishCreate
  <1> HIDE DEF r
  <1>3. r # Torn /\ ~ Readable(record[H(p)])
    BY <1>1, <1>2, RecordAssumption DEF Readable
  <1>4. TypeOK'
    <2>1. record' \in [Holdouts -> Record \cup {NoRecord, Torn}]
      BY <1>2 DEF ConsumptionInv, TypeOK
    <2> QED BY <2>1, ExitForgets DEF FinishCreate, ConsumptionInv, TypeOK, ghosts
  <1>5. ReportInv' /\ (serialized => OutcomesKept' /\ ScoresAreRecorded')
    BY <1>1, <1>2, <1>3, NothingReportedYet, WriteKeepsScores DEF FinishCreate, ghosts
  <1> QED BY <1>1, <1>2, <1>3, <1>4, <1>5, ExitForgets, RecordStep DEF FinishCreate, ghosts

\* An outcome is reported of the record that was just written.
LEMMA OutcomeReported ==
    ASSUME ConsumptionInv, NEW k \in Holdouts, NEW r, NEW e,
           Readable(record[k]), Readable(r), r.artifact = record[k].artifact,
           record' = [record EXCEPT ![k] = r],
           reported' = [reported EXCEPT ![k] = @ \cup {e}], e.artifact = r.artifact,
           serialized => ToSet(record[k].history) \cup {e} \subseteq ToSet(r.history)
    PROVE  ReportInv' /\ (serialized => OutcomesKept')
  <1>1. /\ record'[k] = r
        /\ \A h \in Holdouts : h # k => record'[h] = record[h]
    BY DEF ConsumptionInv, TypeOK
  <1>2. /\ reported'[k] = reported[k] \cup {e}
        /\ \A h \in Holdouts : h # k => reported'[h] = reported[h]
    BY DEF ConsumptionInv, TypeOK
  <1>3. ReportInv'
    BY <1>1, <1>2 DEF ConsumptionInv, ReportInv
  <1>4. ASSUME serialized PROVE OutcomesKept'
    <2>1. OutcomesKept
      BY <1>4 DEF ConsumptionInv, SerialInv
    <2>2. reported[k] \subseteq ToSet(record[k].history)
      BY <2>1 DEF OutcomesKept
    <2> QED BY <1>1, <1>2, <1>4, <2>1, <2>2 DEF OutcomesKept
  <1> QED BY <1>3, <1>4

LEMMA WriteValidationInv ==
    ASSUME ConsumptionInv, NEW p \in Procs, WriteValidation(p)
    PROVE  ConsumptionInv'
  <1> DEFINE v == verdict[p]
             s == IF v THEN "validated" ELSE "validation_failed"
             r == Advance(seen[p], s, "trade_validation", v)
             e == Last(r.history)
  <1>1. /\ pc[p] = "validating" /\ Knows(p) /\ art[p] \in Freezes /\ H(p) \in Holdouts
        /\ v \in BOOLEAN
    BY FreezeAssumption DEF WriteValidation, ConsumptionInv, CommandInv, TypeOK, Knows, H
  <1>2. /\ seen[p] = NewRecord(art[p])
        /\ Readable(record[H(p)]) /\ record[H(p)].artifact = art[p]
    BY <1>1 DEF Knows, Working
  <1>3. art[p] \in Authorized
    BY <1>1, <1>2 DEF ConsumptionInv, FileInv
  <1>4. r = Judged(art[p], v)
    BY <1>2 DEF Judged
  <1>5. /\ record' = [record EXCEPT ![H(p)] = r]
        /\ reported' = [reported EXCEPT ![H(p)] = @ \cup {e}]
        /\ passed' = IF v THEN passed \cup {H(p)} ELSE passed
        /\ Exit(p) /\ UNCHANGED <<out, serialized, commands, read>>
    BY DEF WriteValidation, Report
  <1>6. ToSet(r.history) = ToSet(seen[p].history) \cup {e}
    <2>1. r = Judged(art[p], v) /\ seen[p] = NewRecord(art[p])
      BY <1>2, <1>4
    <2> HIDE DEF r, v
    <2> QED BY <1>1, <2>1, JudgedShape
  <1> HIDE DEF r, v
  <1>7. /\ r \in Record /\ r.artifact = art[p] /\ LegalHistory(r)
        /\ r.state = (IF v THEN "validated" ELSE "validation_failed")
        /\ e = [event |-> "trade_validation", outcome |-> v, artifact |-> art[p]]
    BY <1>1, <1>4, JudgedShape
  <1> HIDE DEF e
  <1>8. r # Torn /\ Readable(r) /\ e \in Entry /\ e.artifact = art[p]
    BY <1>1, <1>7, RecordAssumption DEF Readable, Entry
  <1>9. TypeOK'
    <2>1. record' \in [Holdouts -> Record \cup {NoRecord, Torn}]
      BY <1>5, <1>7 DEF ConsumptionInv, TypeOK
    <2>2. reported' \in [Holdouts -> SUBSET Entry] /\ passed' \subseteq Holdouts
      BY <1>1, <1>5, <1>8 DEF ConsumptionInv, TypeOK
    <2> QED BY <1>5, <2>1, <2>2, ExitForgets DEF ConsumptionInv, TypeOK
  <1>10. ASSUME serialized PROVE seen[p] = record[H(p)]
    BY <1>1, <1>10 DEF ConsumptionInv, SerialInv, KnowsAlone
  <1>11. ReportInv' /\ (serialized => OutcomesKept')
    BY <1>1, <1>2, <1>5, <1>6, <1>7, <1>8, <1>10, OutcomeReported
  <1>12. ASSUME serialized PROVE ScoresAreRecorded'
    <2>1. record[H(p)].state = "frozen"
      BY <1>1, <1>2, <1>10, <1>12, FrozenShape
    <2>2. ~ (Readable(record[H(p)]) /\ record[H(p)].state = "scored")
      BY <2>1
    <2> QED BY <1>1, <1>5, <1>12, <2>2, WriteKeepsScores
  <1>13. passed \subseteq passed' /\ (r.state \in {"validated", "scored"} => H(p) \in passed')
    BY <1>1, <1>5, <1>7
  <1> QED BY <1>1, <1>2, <1>3, <1>5, <1>7, <1>8, <1>9, <1>11, <1>12, <1>13, ExitForgets,
             RecordStep

LEMMA WriteScoreInv ==
    ASSUME ConsumptionInv, NEW p \in Procs, WriteScore(p)
    PROVE  ConsumptionInv'
  <1> DEFINE x == res[p]
             r == Advance(seen[p], "scored", "holdout_score", x)
             e == Last(r.history)
  <1>1. /\ pc[p] = "consuming" /\ Knows(p) /\ art[p] \in Freezes /\ H(p) \in Holdouts
    BY FreezeAssumption DEF WriteScore, ConsumptionInv, CommandInv, Knows, H
  <1>2. /\ seen[p] = Judged(art[p], TRUE) /\ x \in Results /\ H(p) \in passed
        /\ Readable(record[H(p)]) /\ record[H(p)].artifact = art[p]
        /\ outPath[p] \in Outs /\ ~ verdict[p]
    BY <1>1 DEF Knows, Working, Scoring
  <1>3. art[p] \in Authorized
    BY <1>1, <1>2 DEF ConsumptionInv, FileInv
  <1>4. r = Scored(art[p], x)
    BY <1>2 DEF Scored
  <1>5. /\ record' = [record EXCEPT ![H(p)] = r]
        /\ reported' = [reported EXCEPT ![H(p)] = @ \cup {e}]
        /\ Goto(p, "writing")
        /\ UNCHANGED <<out, art, seen, verdict, res, outPath, serialized, commands, read,
                       passed>>
    BY DEF WriteScore, Report
  <1>6. ToSet(r.history) = ToSet(seen[p].history) \cup {e}
    <2>1. r = Scored(art[p], x) /\ seen[p] = Judged(art[p], TRUE)
      BY <1>2, <1>4
    <2> HIDE DEF r
    <2> QED BY <1>1, <1>2, <2>1, ScoredShape, ZenonT(30)
  <1> HIDE DEF r
  <1>7. /\ r \in Record /\ r.artifact = art[p] /\ LegalHistory(r) /\ r.state = "scored"
        /\ e = [event |-> "holdout_score", outcome |-> x, artifact |-> art[p]]
    BY <1>1, <1>2, <1>4, ScoredShape
  <1> HIDE DEF e
  <1>8. r # Torn /\ Readable(r) /\ e \in Entry /\ e.artifact = art[p]
    BY <1>1, <1>2, <1>7, RecordAssumption DEF Readable, Entry
  <1>9. TypeOK' /\ pc'[p] = "writing" /\ \A q \in Procs : q # p => Unmoved(q)
    <2>1. record' \in [Holdouts -> Record \cup {NoRecord, Torn}]
      BY <1>5, <1>7 DEF ConsumptionInv, TypeOK
    <2>2. reported' \in [Holdouts -> SUBSET Entry]
      BY <1>1, <1>5, <1>8 DEF ConsumptionInv, TypeOK
    <2>3. pc'[p] = "writing" /\ \A q \in Procs : q # p => Unmoved(q)
      BY <1>5 DEF ConsumptionInv, TypeOK, Goto, Unmoved
    <2>4. pc' \in [Procs -> {"idle", "opening", "creating", "validating", "checked",
                             "loading", "loaded", "fitting", "recording",
                             "consuming", "writing"}]
      BY <1>5 DEF ConsumptionInv, TypeOK, Goto
    <2> QED BY <1>5, <2>1, <2>2, <2>3, <2>4 DEF ConsumptionInv, TypeOK
  <1>10. ASSUME serialized PROVE seen[p] = record[H(p)]
    BY <1>1, <1>10 DEF ConsumptionInv, SerialInv, KnowsAlone
  <1>11. ReportInv' /\ (serialized => OutcomesKept')
    BY <1>1, <1>2, <1>5, <1>6, <1>7, <1>8, <1>10, OutcomeReported
  <1>12. ASSUME serialized PROVE ScoresAreRecorded'
    <2>1. record[H(p)].state = "validated"
      <3>1. Judged(art[p], TRUE).state = "validated"
        BY <1>1, JudgedShape
      <3> QED BY <1>2, <1>10, <1>12, <3>1
    <2>2. ~ (Readable(record[H(p)]) /\ record[H(p)].state = "scored")
      BY <2>1
    <2> QED BY <1>1, <1>5, <1>12, <2>2, WriteKeepsScores
  <1>13. record'[H(p)] = r /\ H(p)' = H(p)
    BY <1>1, <1>5 DEF ConsumptionInv, TypeOK, H
  <1>14. Knows(p)' /\ KnowsAlone(p)'
    <2>1. /\ art'[p] = art[p] /\ seen'[p] = seen[p] /\ verdict'[p] = verdict[p]
          /\ res'[p] = x /\ outPath'[p] = outPath[p] /\ passed' = passed
      BY <1>5
    <2>2. e.outcome = x /\ e = Last(record'[H(p)].history) /\ record'[H(p)].state = "scored"
      BY <1>7, <1>13 DEF e
    <2>3. Knows(p)'
      BY <1>1, <1>2, <1>7, <1>8, <1>9, <1>13, <2>1 DEF Knows, Working, Scoring
    <2>4. KnowsAlone(p)'
      BY <1>9, <1>13, <2>1, <2>2 DEF KnowsAlone
    <2> QED BY <2>3, <2>4
  <1>15. OneCreator'
    BY <1>9, CreatorsKept DEF Unmoved
  <1> QED BY <1>1, <1>2, <1>3, <1>5, <1>7, <1>8, <1>9, <1>11, <1>12, <1>14, <1>15,
             RecordStep

-----------------------------------------------------------------------------
(* The theorems *)

LEMMA NextInv == ConsumptionInv /\ [Next]_vars => ConsumptionInv'
  <1> SUFFICES ASSUME ConsumptionInv, [Next]_vars PROVE ConsumptionInv'
    OBVIOUS
  <1>1. CASE UNCHANGED vars
    <2>1. /\ TypeOK' /\ FileInv' /\ ReportInv' /\ SealedUntilPass'
      BY <1>1 DEF ConsumptionInv, TypeOK, FileInv, ReportInv, SealedUntilPass, vars,
                  fileVars, procVars, ghosts
    <2>2. CommandInv'
      BY <1>1 DEF ConsumptionInv, CommandInv, OneCreator, Knows, H, vars, fileVars,
                  procVars, ghosts
    <2>3. SerialInv'
      BY <1>1 DEF ConsumptionInv, SerialInv, OneCommand, OutcomesKept, ScoresAreRecorded,
                  KnowsAlone, H, vars, fileVars, procVars, ghosts
    <2> QED BY <2>1, <2>2, <2>3 DEF ConsumptionInv
  <1>2. ASSUME NEW p \in Procs, NEW f \in Freezes,
               \/ HoldoutOpen(p, f)
               \/ \E v \in BOOLEAN :
                     \/ HoldoutValidate(p, f, v)
                     \/ \E o \in Outs : HoldoutScore(p, f, o, v)
        PROVE  ConsumptionInv'
    BY <1>2, OpenInv, ValidateInv, ScoreInv
  <1>3. ASSUME NEW p \in Procs, InputsRefused(p) \/ WriteScoreFails(p)
        PROVE  ConsumptionInv'
    BY <1>3, ScoreFailsInv DEF InputsRefused, WriteScoreFails
  <1>4. ASSUME NEW p \in Procs,
               \/ CreateRecord(p) \/ FinishCreate(p) \/ WriteValidation(p)
               \/ PreflightOut(p) \/ ReadHoldout(p) \/ ScoreReread(p)
        PROVE  ConsumptionInv'
    BY <1>4, CreateRecordInv, FinishCreateInv, WriteValidationInv, PreflightInv,
       ReadHoldoutInv, RereadInv
  <1>5. ASSUME NEW p \in Procs,
               \/ \E r \in Results : Computed(p, r)
               \/ RecordScore(p) \/ WriteScore(p) \/ WriteResult(p) \/ Die(p)
        PROVE  ConsumptionInv'
    BY <1>5, ComputedInv, RecordScoreInv, WriteScoreInv, WriteResultInv, DieInv
  <1> QED BY <1>1, <1>2, <1>3, <1>4, <1>5 DEF Next

\* The inductive invariant of the one-time holdout transaction.
THEOREM ConsumptionInvariant == Spec => []ConsumptionInv
  <1> QED BY InitInv, NextInv, PTL DEF Spec

\* Every variable of the transaction keeps its type: what is on disk is no
\* record, a truncated one or a complete one, through every crash.
THEOREM ConsumptionTypeCorrect == Spec => []TypeOK
  <1>1. ConsumptionInv => TypeOK
    BY DEF ConsumptionInv
  <1> QED BY <1>1, ConsumptionInvariant, PTL

\* However the commands of eval/consumption.py and run_g0.py overlap, and
\* wherever they die, a holdout sees one transaction: one authorized artifact,
\* one verdict, a score only after a PASS, and no holdout byte read before it.
THEOREM OneTransaction == Spec => []RecordIsOneTransaction
  <1>1. ConsumptionInv => RecordIsOneTransaction
    BY DEF ConsumptionInv, FileInv, ReportInv, RecordIsOneTransaction, OneArtifact
  <1> QED BY <1>1, ConsumptionInvariant, PTL

\* When the operator runs one command at a time, no crash, retry or verify-only
\* run changes a verdict or a score that was reported, and the metrics in a
\* result file are those of the record.
THEOREM SerialOutcomes == Spec => []SerialOutcomesAreFinal
  <1>1. ConsumptionInv => SerialOutcomesAreFinal
    BY DEF ConsumptionInv, SerialInv, ScoresAreRecorded, SerialOutcomesAreFinal,
           MetricsAreTheScore
  <1> QED BY <1>1, ConsumptionInvariant, PTL
=============================================================================
