----------------------------- MODULE HoldoutBuild -----------------------------
(***************************************************************************)
(* The way of the sealed holdout from the custodian's store to an attested *)
(* matrix: build-inventory, the config that pins its seal, the holdout     *)
(* plan and the freeze, the claim of the one-shot runner, and              *)
(* materialize_holdout of bars/produce.py with write_holdout of            *)
(* eval/writer.py, one action per system call that matters.  Meanwhile a   *)
(* day may be normalised anew, a plan edited, and the process or the       *)
(* machine may stop.  The runner keeps two materializations from           *)
(* overlapping (it is outside this repository).                            *)
(***************************************************************************)
EXTENDS CustodySeal, Sequences

CONSTANTS Evidence,     \* permission evidence that may be captured
          Excludable,   \* sets of days the custodian may exclude
          MaxRewrites, MaxInventories, MaxConfigs, MaxEdits, MaxBuilds   \* bounds

VARIABLES store,    \* the content at a normalized object's path
          docs,     \* the documents as they lie on disk
          mat,      \* the materializer
          built,      \* the matrix, the manifest, the attestation and its .tmp
          rewrites, minted, configs, edits, builds

holdoutVars == <<store, docs, mat, built, rewrites, minted, configs, edits, builds>>
bounds == <<rewrites, minted, configs, edits, builds>>

\* pending: what of a file, its bytes or its directory entry, is not durable yet.
File(state, data, pending) == [state |-> state, data |-> data, pending |-> pending]
Absent == File("absent", <<>>, {})
TornFile == File("torn", <<>>, {})
Durable(data) == File("whole", data, {})
Outputs == {"matrix", "manifest", "tmp", "attestation"}
NoMaterializer == [pc |-> "none"]

\* The object at a path of the store; a raw object is never read.
ObjectsOf(days) ==
    {[day |-> d, layer |-> "normalized", sha |-> store[d]] : d \in days}
        \cup {[day |-> d, layer |-> "raw", sha |-> <<d, "raw">>] : d \in days}

-----------------------------------------------------------------------------
(* Documents *)

\* Stage 2 replaces the file of a day; a descriptor keeps what it had open.
Renormalize ==
    /\ rewrites < MaxRewrites
    /\ \E d \in Window : store' = [store EXCEPT ![d] = <<d, rewrites + 1>>]
    /\ rewrites' = rewrites + 1
    /\ UNCHANGED <<docs, mat, built, minted, configs, edits, builds>>

\* build-inventory without a config: the seal is provisional.
MintInventory ==
    /\ minted < MaxInventories
    /\ \E e \in Evidence, excluded \in Excludable :
          /\ CanInventory(e, excluded, ObjectsOf(Window \ excluded))
          /\ docs' = [docs EXCEPT !.inventory =
                         Inventory(e, excluded, ObjectsOf(Window \ excluded))]
    /\ minted' = minted + 1
    /\ UNCHANGED <<store, mat, built, rewrites, configs, edits, builds>>

\* build-inventory against the config: what does not reproduce the seal is refused.
VerifyInventory ==
    /\ docs.config # None
    /\ \E e \in Evidence, excluded \in Excludable :
          LET inv == Inventory(e, excluded, ObjectsOf(Window \ excluded))
          IN  /\ CanInventory(e, excluded, inv.objects)
              /\ ValidHandoff(inv, e, docs.config)
              /\ docs' = [docs EXCEPT !.inventory = inv]
    /\ UNCHANGED <<store, mat, built, bounds>>

\* The seal of the inventory at hand is pinned into a config.
PinConfig ==
    /\ configs < MaxConfigs /\ docs.inventory # None
    /\ docs' = [docs EXCEPT !.config =
          [cert |-> [seal |-> docs.inventory.seal, policy |-> docs.inventory.policy,
                     custodian |-> docs.inventory.custodian,
                     operator |-> docs.inventory.operator],
           sealed |-> TRUE]]
    /\ configs' = configs + 1
    /\ UNCHANGED <<store, mat, built, rewrites, minted, edits, builds>>

\* build_holdout_plan
BuildPlan ==
    /\ docs.config # None /\ docs.inventory # None
    /\ ValidInventory(docs.inventory, docs.config)
    /\ docs' = [docs EXCEPT !.plan = HoldoutPlan(docs.config, docs.inventory)]
    /\ UNCHANGED <<store, mat, built, bounds>>

\* By hand: the plan's objects become those of the store; its own hash and the
\* freeze's pin of it may be brought up to date with it.
EditPlan ==
    /\ edits < MaxEdits /\ docs.plan # None
    /\ \E rehashed, coordinated \in BOOLEAN :
          LET plan == [docs.plan EXCEPT !.allowlist = ObjectsOf(docs.plan.included),
                                        !.sealed = rehashed]
          IN  docs' = [docs EXCEPT !.plan = plan,
                  !.freeze = IF coordinated /\ @ # None THEN [@ EXCEPT !.plan = Sha(plan)] ELSE @]
    /\ edits' = edits + 1
    /\ UNCHANGED <<store, mat, built, rewrites, minted, configs, builds>>

\* build_freeze, whose development half is DevelopmentFreeze.
BuildFreeze ==
    /\ docs.plan # None /\ docs.config # None
    /\ ValidHoldoutPlan(docs.plan, docs.config, docs.inventory)
    /\ docs' = [docs EXCEPT !.freeze = Freeze(docs.config, docs.plan)]
    /\ UNCHANGED <<store, mat, built, bounds>>

\* The runner's raw-access claim: created once, over the documents of that moment.
Claim ==
    /\ docs.claim = None
    /\ docs.config # None /\ docs.plan # None /\ docs.freeze # None
    /\ docs' = [docs EXCEPT !.claim = [config |-> Sha(docs.config), plan |-> Sha(docs.plan),
                                       freeze |-> Sha(docs.freeze), sealed |-> TRUE]]
    /\ UNCHANGED <<store, mat, built, bounds>>

-----------------------------------------------------------------------------
(* materialize_holdout *)

Proceed(pc) == mat' = [mat EXCEPT !.pc = pc]
Visible(f) == built[f].state # "absent"

\* The documents are parsed once; all metadata is validated before any file of
\* the transaction is touched, the fresh outputs too.
StartBuild ==
    /\ mat = NoMaterializer /\ builds < MaxBuilds
    /\ docs.config # None /\ docs.plan # None /\ docs.freeze # None
    /\ ValidFreeze(docs.freeze, docs.config, docs.plan, docs.inventory)
    /\ \A f \in Outputs : ~ Visible(f)
    /\ mat' = [pc |-> "claim", config |-> docs.config, plan |-> docs.plan,
               freeze |-> docs.freeze, inventory |-> docs.inventory, claim |-> None,
               fds |-> <<>>, rows |-> <<>>]
    /\ builds' = builds + 1
    /\ UNCHANGED <<store, docs, built, rewrites, minted, configs, edits>>

\* The claim is the first file that is read.
ReadClaim ==
    /\ mat.pc = "claim"
    /\ ValidClaim(docs.claim, mat.config, mat.plan, mat.freeze)
    /\ mat' = [mat EXCEPT !.pc = "open", !.claim = docs.claim]
    /\ UNCHANGED <<store, docs, built, bounds>>

\* The caller names a path per object; distinct objects have distinct files.
OpenAll ==
    /\ mat.pc = "open"
    /\ \E path \in [mat.plan.included -> Window] :
          /\ \A d, e \in mat.plan.included : path[d] = path[e] => d = e
          /\ mat' = [mat EXCEPT !.pc = "hash", !.fds =
                        [d \in mat.plan.included |-> [path |-> path[d], held |-> store[path[d]]]]]
    /\ UNCHANGED <<store, docs, built, bounds>>

\* Every descriptor is hashed before any is decoded.
Hash ==
    /\ mat.pc = "hash"
    /\ \A o \in NormalizedObjects(mat.plan) : mat.fds[o.day].held = o.sha
    /\ Proceed("decode")
    /\ UNCHANGED <<store, docs, built, bounds>>

\* Mutant of DecodedFrom: the path is opened again for the decode.
DecodedFromPath(fd) == store[fd.path]

\* The decode streams from the descriptor that was hashed.
DecodedFrom(fd) == fd.held

Decode ==
    /\ mat.pc = "decode"
    /\ mat' = [mat EXCEPT !.pc = "write matrix",
                  !.rows = [d \in mat.plan.included |-> DecodedFrom(mat.fds[d])]]
    /\ UNCHANGED <<store, docs, built, bounds>>

TheManifest == Manifest(mat.config, mat.plan, mat.freeze, mat.rows)

\* What write_holdout returned, with the claim and the documents of the build.
TheAttestation ==
    [config |-> Sha(mat.config), plan |-> Sha(mat.plan), freeze |-> Sha(mat.freeze),
     claim |-> mat.claim, matrix |-> mat.rows, manifest |-> TheManifest]

\* An O_EXCL create and its writes: the bytes and the entry are not yet durable.
Create(f, data, next) ==
    /\ ~ Visible(f)
    /\ built' = [built EXCEPT ![f] = File("whole", data, {"bytes", "entry"})]
    /\ Proceed(next)
    /\ UNCHANGED <<store, docs, bounds>>

\* verify_holdout_manifest_binding, then _publish: the matrix first.
WriteMatrix ==
    /\ mat.pc = "write matrix"
    /\ BindsTo(TheManifest, mat.config, mat.plan, mat.freeze, mat.inventory)
    /\ Create("matrix", mat.rows, "sync matrix")

WriteManifest ==
    /\ mat.pc = "write manifest"
    /\ Create("manifest", TheManifest, "sync manifest")

WriteAttestation ==
    /\ mat.pc = "write attestation"
    /\ Create("tmp", TheAttestation, "sync attestation")

\* Mutant of Synced: the outputs are flushed, not synced.
SyncedNot(f) == built[f]

\* os.fsync of the file, then of its directory.
Synced(f) == [built[f] EXCEPT !.pending = {}]

SyncMatrix ==
    /\ mat.pc = "sync matrix"
    /\ built' = [built EXCEPT !["matrix"] = Synced("matrix")]
    /\ Proceed("write manifest")
    /\ UNCHANGED <<store, docs, bounds>>

SyncManifest ==
    /\ mat.pc = "sync manifest"
    /\ built' = [built EXCEPT !["manifest"] = Synced("manifest")]
    /\ Proceed("write attestation")
    /\ UNCHANGED <<store, docs, bounds>>

\* The attestation's bytes are durable before it has its name.
SyncAttestation ==
    /\ mat.pc = "sync attestation"
    /\ built' = [built EXCEPT !["tmp"].pending = @ \ {"bytes"}]
    /\ Proceed("rename")
    /\ UNCHANGED <<store, docs, bounds>>

PublishAttestation ==
    /\ mat.pc = "rename" /\ ~ Visible("attestation")
    /\ built' = [built EXCEPT !["attestation"] = [built["tmp"] EXCEPT !.pending = @ \cup {"entry"}],
                          !["tmp"] = Absent]
    /\ Proceed("sync directory")
    /\ UNCHANGED <<store, docs, bounds>>

FinishBuild ==
    /\ mat.pc = "sync directory"
    /\ built' = [built EXCEPT !["attestation"].pending = @ \ {"entry"}]
    /\ mat' = NoMaterializer
    /\ UNCHANGED <<store, docs, bounds>>

\* A refusal or a failed call at any step, or the process dies.
BuildStops ==
    /\ mat # NoMaterializer
    /\ mat' = NoMaterializer
    /\ UNCHANGED <<store, docs, built, bounds>>

\* The machine stops: what was not synced may be torn, an entry that was not
\* synced may be gone, which undoes a rename.
Settled(f) == [built[f] EXCEPT !.pending = {}]

MachineStops ==
    /\ \E f \in Outputs : built[f] # Settled(f)
    /\ \E torn \in SUBSET {f \in Outputs : "bytes" \in built[f].pending},
          gone \in SUBSET {f \in Outputs : "entry" \in built[f].pending} :
          built' = [f \in Outputs |->
                    IF f = "tmp" /\ "attestation" \in gone THEN Settled("attestation")
                    ELSE IF f \in gone THEN Absent
                    ELSE IF f \in torn THEN TornFile ELSE Settled(f)]
    /\ mat' = NoMaterializer
    /\ UNCHANGED <<store, docs, bounds>>

-----------------------------------------------------------------------------
HoldoutInit ==
    /\ store = [d \in Window |-> <<d, 0>>]
    /\ docs = [inventory |-> None, config |-> None, plan |-> None, freeze |-> None, claim |-> None]
    /\ mat = NoMaterializer
    /\ built = [f \in Outputs |-> Absent]
    /\ rewrites = 0 /\ minted = 0 /\ configs = 0 /\ edits = 0 /\ builds = 0

HoldoutNext ==
    \/ Renormalize \/ MintInventory \/ VerifyInventory \/ PinConfig
    \/ BuildPlan \/ EditPlan \/ BuildFreeze \/ Claim
    \/ StartBuild \/ ReadClaim \/ OpenAll \/ Hash \/ Decode
    \/ WriteMatrix \/ SyncMatrix \/ WriteManifest \/ SyncManifest
    \/ WriteAttestation \/ SyncAttestation \/ PublishAttestation \/ FinishBuild
    \/ BuildStops \/ MachineStops

HoldoutSpec == HoldoutInit /\ [][HoldoutNext]_holdoutVars

-----------------------------------------------------------------------------
(* Properties *)

Attested == built["attestation"].data

\* What an attestation vouches for is what the custodian sealed: its rows come,
\* day by day, from the objects of the inventory whose seal the config of the
\* claim pins, whatever was normalised anew, edited or swapped meanwhile.
AttestedRowsAreSealed ==
    Visible("attestation") =>
        LET sealed == Attested.config.cert.seal
        IN  /\ Attested.claim.config = Attested.config
            /\ Attested.claim.plan = Attested.plan /\ Attested.claim.freeze = Attested.freeze
            /\ DOMAIN Attested.matrix = sealed.included
            /\ \A d \in sealed.included :
                  [day |-> d, layer |-> "normalized", sha |-> Attested.matrix[d]] \in sealed.objects

\* An attestation anybody can see has its outputs: the matrix and the manifest
\* it hashes are there, whole and durable, through every crash and power loss,
\* and nothing was built over them.
AttestationMatchesOutputs ==
    Visible("attestation") =>
        /\ built["attestation"].state = "whole"
        /\ built["matrix"] = Durable(Attested.matrix)
        /\ built["manifest"] = Durable(Attested.manifest)
=============================================================================
