--------------------------- MODULE AcquisitionGate ---------------------------
(***************************************************************************)
(* src/ingest/g0bn_acquisition_preflight.py: the plan of the acquisition,  *)
(* the packet of commands a human approves, and the gate chained before    *)
(* every command under one file lock.  A day names a vendor partition; a   *)
(* digest is the content it commits to; a path is its sequence of          *)
(* segments.  The plan command rewrites its files in place and takes no    *)
(* lock; files may be edited by hand while no gated command is running.    *)
(***************************************************************************)
EXTENDS Naturals, Sequences, FiniteSets

CONSTANTS DevDays, HoldoutDays,   \* DEV_DAYS and HOLDOUT_DAYS, in order
          Products,               \* PRODUCTS
          Users,                  \* the OS users there are
          Gated,                  \* shells a packet's command may run in
          GbPerDay, SafeWindowGb, \* the estimate of a day; quota less headroom
          HandWritten,            \* what a hand may put into a days file
          MaxPlans, MaxHandEdits, MaxLaunches    \* bounds

VARIABLES files,     \* the plan, the packet and the two days files
          planner,   \* the plan command, if one is running
          shells,    \* the gated commands
          computeLock,   \* who holds EXPENSIVE_COMPUTE_LOCK
          placed,    \* history: what was written where, by whom, under which gate
          planned, edited, launched

gateVars == <<files, planner, shells, computeLock, placed, planned, edited, launched>>

Partitions == {"development", "holdout"}
Stages == {"download", "recon"}
Truncated == <<>>
NoHolder == "nobody"

Elements(s) == {s[n] : n \in DOMAIN s}

\* No day is both a development and a holdout day.
ASSUME DaysAssumption == Elements(DevDays) \cap Elements(HoldoutDays) = {}

-----------------------------------------------------------------------------
(* Destinations *)

\* _safe_repo_data_root: below one of the git-ignored roots.
Below(root, prefix) == Len(root) > 1 /\ root[1] = prefix

Inside(a, b) == Len(b) <= Len(a) /\ SubSeq(a, 1, Len(b)) = b

\* _require_disjoint: none equals or contains another.
Disjoint(roots) ==
    \A m, n \in DOMAIN roots : m # n => ~ Inside(roots[m], roots[n])

Root(kind, partition) == <<kind, partition>>
DaysFile(partition) == <<"reports", "preflight", partition>>

-----------------------------------------------------------------------------
(* The plan *)

Days(partition) == IF partition = "development" THEN DevDays ELSE HoldoutDays

EstimatedGb(days) == Len(days) * GbPerDay

PartitionBlock(partition) ==
    [partition |-> partition, days |-> Days(partition),
     raw |-> Root("raw", partition), normalized |-> Root("processed", partition),
     report |-> Root("reports", partition),
     daysFile |-> DaysFile(partition), daysDigest |-> Days(partition),
     gb |-> EstimatedGb(Days(partition))]

\* What is transferred: a unit per day and product of each partition.
Units(dev, holdout) ==
    UNION {{[partition |-> b.partition, day |-> d, product |-> p, root |-> b.raw] :
               d \in Elements(b.days), p \in Products} : b \in {dev, holdout}}

HoldoutScope(block) == <<block.raw, block.normalized, block.report>>

Jobs(stage) == IF stage = "download" THEN 4 ELSE 1

\* sealed: the embedded sha256 is that of the content.
Plan(custodian, operator) ==
    LET dev == PartitionBlock("development")
        holdout == PartitionBlock("holdout")
    IN  [development |-> dev, holdout |-> holdout, units |-> Units(dev, holdout),
         gb |-> EstimatedGb(DevDays) + EstimatedGb(HoldoutDays),
         jobs |-> [s \in Stages |-> Jobs(s)],
         custodian |-> custodian, operator |-> operator,
         scope |-> HoldoutScope(holdout), sealed |-> TRUE]

\* Everything derived is recomputed; raw and normalized roots are only checked.
ValidPartition(b, partition) ==
    /\ b.partition = partition
    /\ b.days = Days(partition)
    /\ b.daysDigest = Days(partition)
    /\ b.gb = EstimatedGb(Days(partition))
    /\ Below(b.raw, "raw") /\ Below(b.normalized, "processed")
    /\ b.report = Root("reports", partition) /\ b.daysFile = DaysFile(partition)

\* _strict_jobs and the execution block.
ValidExecution(p) == \A s \in Stages : p.jobs[s] = Jobs(s)

\* The two identities are distinct, and the scope is the holdout's destinations.
ValidCustody(p) ==
    /\ p.custodian # p.operator
    /\ p.scope = HoldoutScope(p.holdout)

ValidPlan(p) ==
    /\ ValidPartition(p.development, "development")
    /\ ValidPartition(p.holdout, "holdout")
    /\ Disjoint(<<p.development.raw, p.development.normalized, p.development.report,
                  p.development.daysFile, p.holdout.raw, p.holdout.normalized,
                  p.holdout.report, p.holdout.daysFile>>)
    /\ p.units = Units(p.development, p.holdout)
    /\ p.gb = EstimatedGb(DevDays) + EstimatedGb(HoldoutDays) /\ p.gb <= SafeWindowGb
    /\ ValidExecution(p) /\ ValidCustody(p)
    /\ p.sealed

-----------------------------------------------------------------------------
(* The packet: every command names its partition's roots and days file. *)

\* The cap of a download: its estimate and a tenth more, rounded up.
CapGb(block) == (block.gb * 11 + 9) \div 10

Command(plan, partition, stage) ==
    LET b == plan[partition]
    IN  [partition |-> partition, stage |-> stage, jobs |-> plan.jobs[stage],
         daysFile |-> partition, from |-> b.raw,
         out |-> IF stage = "download" THEN b.raw ELSE b.normalized,
         report |-> b.report]

Commands(plan) == {Command(plan, p, s) : p \in Partitions, s \in Stages}

Packet(plan) == [commands |-> Commands(plan), scope |-> plan.scope,
                 caps |-> [p \in Partitions |-> CapGb(plan[p])]]

WithinWindow(plan) == CapGb(plan.development) + CapGb(plan.holdout) <= SafeWindowGb

\* validate_approval_packet: a packet is the one its plan builds.
ValidPacket(packet, plan) == ValidPlan(plan) /\ packet = Packet(plan)

-----------------------------------------------------------------------------
(* plan *)

\* The files of a plan command; with another --out-dir only the pinned days
\* files of the packet's commands are refreshed.
WriteOrder(elsewhere) ==
    IF elsewhere THEN <<"development", "holdout">>
    ELSE <<"plan", "packet", "development", "holdout">>

Content(f, plan) ==
    CASE f = "plan" -> plan
      [] f = "packet" -> Packet(plan)
      [] OTHER -> plan[f].days

NoPlanner == [todo |-> <<>>]

\* Bad identities or caps are refused before anything is written.
StartPlan ==
    /\ planner = NoPlanner /\ planned < MaxPlans
    /\ \E c, o \in Users, elsewhere \in BOOLEAN :
          LET plan == Plan(c, o)
          IN  /\ ValidPlan(plan) /\ WithinWindow(plan)
              /\ planner' = [todo |-> WriteOrder(elsewhere), open |-> FALSE, plan |-> plan]
    /\ planned' = planned + 1
    /\ UNCHANGED <<files, shells, computeLock, placed, edited, launched>>

\* open(path, "w") empties the file, and what was written is there at its close.
OpenFile ==
    /\ planner.todo # <<>> /\ ~ planner.open
    /\ files' = [files EXCEPT ![Head(planner.todo)] = Truncated]
    /\ planner' = [planner EXCEPT !.open = TRUE]
    /\ UNCHANGED <<shells, computeLock, placed, planned, edited, launched>>

\* The disk gate comes after the last file: its exit code changes nothing.
CloseFile ==
    /\ planner.todo # <<>> /\ planner.open
    /\ LET f == Head(planner.todo)
           rest == Tail(planner.todo)
       IN  /\ files' = [files EXCEPT ![f] = Content(f, planner.plan)]
           /\ planner' = IF rest = <<>> THEN NoPlanner
                         ELSE [planner EXCEPT !.todo = rest, !.open = FALSE]
    /\ UNCHANGED <<shells, computeLock, placed, planned, edited, launched>>

PlanKilled ==
    /\ planner # NoPlanner
    /\ planner' = NoPlanner
    /\ UNCHANGED <<files, shells, computeLock, placed, planned, edited, launched>>

-----------------------------------------------------------------------------
(* By hand *)

Idle == [pc |-> "idle"]
Running(i) == shells[i].pc \notin {"idle", "waiting"}

\* Some ways to edit a plan and recompute its sha256, and one not to.
EditsOf(plan) ==
    LET swapped == [plan EXCEPT !.custodian = plan.operator, !.operator = plan.custodian]
        alone == [plan EXCEPT !.custodian = plan.operator]
        wider == [plan EXCEPT !.development.days = @ \o HoldoutDays,
                              !.development.daysDigest = @ \o HoldoutDays]
        aliased == [plan EXCEPT !.development.raw = plan.holdout.raw]
        moved == [plan EXCEPT !.holdout.raw = <<"raw", "elsewhere">>,
                              !.scope = <<<<"raw", "elsewhere">>, plan.holdout.normalized,
                                          plan.holdout.report>>]
    IN  {swapped, alone, wider, aliased, moved, [swapped EXCEPT !.sealed = FALSE]}

Edit ==
    /\ edited < MaxHandEdits
    /\ \A i \in Gated : ~ Running(i)
    /\ \/ \E f \in Partitions : \E content \in HandWritten \ {files[f]} :
             files' = [files EXCEPT ![f] = content]
       \/ /\ files.plan # Truncated
          /\ \E p \in EditsOf(files.plan) : files' = [files EXCEPT !.plan = p]
    /\ edited' = edited + 1
    /\ UNCHANGED <<planner, shells, computeLock, placed, planned, launched>>

-----------------------------------------------------------------------------
(* A command of the packet, in the shell of one user: flock, then            *)
(* verify-execution, then the work, which reads the days file by itself.     *)

Launch(i) ==
    /\ shells[i] = Idle /\ launched < MaxLaunches
    /\ files.packet # Truncated
    /\ \E c \in files.packet.commands, u \in Users :
          shells' = [shells EXCEPT ![i] = [pc |-> "waiting", command |-> c, user |-> u,
                                           scope |-> files.packet.scope]]
    /\ launched' = launched + 1
    /\ UNCHANGED <<files, planner, computeLock, placed, planned, edited>>

Acquire(i) ==
    /\ shells[i].pc = "waiting" /\ computeLock = NoHolder
    /\ computeLock' = i
    /\ shells' = [shells EXCEPT ![i].pc = "verify"]
    /\ UNCHANGED <<files, planner, placed, planned, edited, launched>>

\* flock -w gives up.
LockTimesOut(i) ==
    /\ shells[i].pc = "waiting" /\ computeLock # NoHolder
    /\ shells' = [shells EXCEPT ![i] = Idle]
    /\ UNCHANGED <<files, planner, computeLock, placed, planned, edited, launched>>

\* The plan is read and validated, the jobs must be its own.
VerifiesPlan(i) ==
    LET c == shells[i].command
    IN  /\ shells[i].pc = "verify"
        /\ files.plan # Truncated /\ ValidPlan(files.plan)
        /\ c.jobs = files.plan.jobs[c.stage]

PlanVerified(i) ==
    /\ VerifiesPlan(i)
    /\ shells' = [shells EXCEPT ![i] = [pc |-> "days", command |-> @.command, user |-> @.user,
                                        scope |-> @.scope, plan |-> files.plan]]
    /\ UNCHANGED <<files, planner, computeLock, placed, planned, edited, launched>>

\* Mutant of VerifiesDays: the digest is not compared.
VerifiesDaysUnread(i) ==
    /\ shells[i].pc = "days"
    /\ shells[i].command.partition = "holdout" => shells[i].user = shells[i].plan.custodian

\* The days file is what the plan commits to; holdout commands are the custodian's.
VerifiesDays(i) ==
    LET s == shells[i]
    IN  /\ s.pc = "days"
        /\ files[s.command.partition] = s.plan[s.command.partition].daysDigest
        /\ s.command.partition = "holdout" => s.user = s.plan.custodian

DaysVerified(i) ==
    /\ VerifiesDays(i)
    /\ shells' = [shells EXCEPT ![i].pc = "launch"]
    /\ UNCHANGED <<files, planner, computeLock, placed, planned, edited, launched>>

\* The shell ends and its lock is free.
Ends(i) ==
    /\ shells' = [shells EXCEPT ![i] = Idle]
    /\ computeLock' = NoHolder
    /\ UNCHANGED <<files, planner, planned, edited, launched>>

Refused(i) ==
    /\ \/ shells[i].pc = "verify" /\ ~ VerifiesPlan(i)
       \/ shells[i].pc = "days" /\ ~ VerifiesDays(i)
       \/ shells[i].pc = "launch" /\ files[shells[i].command.daysFile] = <<>>
    /\ Ends(i)
    /\ UNCHANGED placed

\* The downloader or the reconstruction reads the days file again.
ReadDaysFile(i) ==
    LET days == files[shells[i].command.daysFile]
    IN  /\ shells[i].pc = "launch" /\ days # <<>>
        /\ shells' = [shells EXCEPT ![i] = [pc |-> "work", command |-> @.command,
                          user |-> @.user, scope |-> @.scope, plan |-> @.plan,
                          todo |-> Elements(days), seen |-> {}]]
        /\ UNCHANGED <<files, planner, computeLock, placed, planned, edited, launched>>

DayEntry(i, day, root) ==
    [day |-> day, root |-> root, user |-> shells[i].user, scope |-> shells[i].scope,
     custodian |-> shells[i].plan.custodian, operator |-> shells[i].plan.operator]

\* A day is transferred, or rebuilt from the raw store if that has it.
PlaceDay(i) ==
    /\ shells[i].pc = "work"
    /\ \E d \in shells[i].todo :
          LET c == shells[i].command
              there == c.stage = "download" \/ \E e \in placed : e.day = d /\ e.root = c.from
          IN  /\ placed' = IF there THEN placed \cup {DayEntry(i, d, c.out)} ELSE placed
              /\ shells' = [shells EXCEPT ![i].todo = @ \ {d}, ![i].seen = @ \cup {d}]
    /\ UNCHANGED <<files, planner, computeLock, planned, edited, launched>>

\* The run reports what it did, at its end or after a hard stop.
WriteReport(i) ==
    /\ shells[i].pc = "work"
    /\ placed' = placed \cup {DayEntry(i, d, shells[i].command.report) : d \in shells[i].seen}
    /\ Ends(i)

Killed(i) ==
    /\ Running(i)
    /\ Ends(i)
    /\ UNCHANGED placed

-----------------------------------------------------------------------------
GateInit ==
    /\ files = [f \in {"plan", "packet"} \cup Partitions |-> Truncated]
    /\ planner = NoPlanner
    /\ shells = [i \in Gated |-> Idle]
    /\ computeLock = NoHolder
    /\ placed = {}
    /\ planned = 0 /\ edited = 0 /\ launched = 0

GateNext ==
    \/ StartPlan \/ OpenFile \/ CloseFile \/ PlanKilled \/ Edit
    \/ \E i \in Gated :
          \/ Launch(i) \/ Acquire(i) \/ LockTimesOut(i)
          \/ PlanVerified(i) \/ DaysVerified(i) \/ Refused(i)
          \/ ReadDaysFile(i) \/ PlaceDay(i) \/ WriteReport(i) \/ Killed(i)

GateSpec == GateInit /\ [][GateNext]_gateVars

-----------------------------------------------------------------------------
(* Properties *)

\* Whatever is edited, replanned, torn or killed, and whoever runs which
\* command: nothing of a holdout day, not even its report, leaves the scope the
\* approved packet puts under custody or is written by anyone but the custodian
\* the gate read, who is not the operator; and the development destinations
\* hold development days only.
JanuaryStaysInCustody ==
    \A e \in placed :
        IF e.day \in Elements(HoldoutDays)
        THEN e.root \in Elements(e.scope) /\ e.user = e.custodian /\ e.user # e.operator
        ELSE e.root \notin Elements(e.scope)
=============================================================================
