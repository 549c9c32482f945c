----------------------------- MODULE CustodySeal -----------------------------
(***************************************************************************)
(* The documents the sealed holdout hangs on: the permission evidence and  *)
(* the inventory of the custodian (g0bn_acquisition_preflight.py), the     *)
(* protocol config that pins the seal (g0bn_config.py), the holdout plan,  *)
(* the freeze and the manifest binding (g0bn_freeze.py).  A sha256 is the  *)
(* content it is of; "sealed" says that a document's embedded sha256 is    *)
(* that of its content, which an edit by hand may or may not keep so.      *)
(***************************************************************************)
EXTENDS Naturals, FiniteSets

CONSTANTS Window,      \* HOLDOUT_DAYS
          Layers,      \* OBJECT_LAYERS
          MinDays,     \* sufficiency_thresholds.min_valid_days
          Scope,       \* custody.holdout_custody_scope of the acquisition plan
          Custodian, Operator,    \* the identities of that plan
          None

\* Only normalized objects are decoded.
ASSUME LayersAssumption == "normalized" \in Layers

\* The hash of a document: its content, whatever it says of its own hash.
Sha(doc) == [doc EXCEPT !.sealed = TRUE]

-----------------------------------------------------------------------------
(* Permission evidence *)

Independent == {"aws_s3_bucket_policy", "aws_iam_policy", "distinct_os_user_acl"}

\* denied: the operator may neither read, list nor change the policy.
ValidEvidence(e) ==
    /\ e.mechanism \in Independent
    /\ e.custodian # e.operator
    /\ e.covered # {}
    /\ e.denied

-----------------------------------------------------------------------------
(* Inventory *)

\* custodian_seal_content_sha256
SealContent(inv) ==
    [custodian |-> inv.custodian, operator |-> inv.operator, policy |-> inv.policy,
     included |-> inv.included, excluded |-> inv.excluded, objects |-> inv.objects]

\* What build_custody_inventory refuses before any config is there.
CanInventory(evidence, excluded, objects) ==
    /\ ValidEvidence(evidence)
    /\ evidence.custodian = Custodian /\ evidence.operator = Operator
    /\ excluded \subseteq Window
    /\ objects # {} /\ \A o \in objects : o.layer \in Layers

\* The included days are the window without the exclusions.
Inventory(evidence, excluded, objects) ==
    LET body == [custodian |-> Custodian, operator |-> Operator, policy |-> evidence,
                 included |-> Window \ excluded, excluded |-> excluded, objects |-> objects]
    IN  [custodian |-> Custodian, operator |-> Operator, policy |-> evidence,
         included |-> Window \ excluded, excluded |-> excluded, objects |-> objects,
         seal |-> SealContent(body)]

ValidConfig(config) ==
    /\ config.cert.custodian # config.cert.operator
    /\ config.sealed

\* _validate_day_scope: each day once, and enough of them.
ValidDayScope(included, excluded) ==
    /\ included \cap excluded = {} /\ included \cup excluded = Window
    /\ Cardinality(included) >= MinDays

\* _validate_allowlist: one object per day and layer, no content twice in a layer.
ValidAllowlist(objects, included) ==
    /\ {<<o.day, o.layer>> : o \in objects} = included \X Layers
    /\ \A o, p \in objects :
          o # p => <<o.day, o.layer>> # <<p.day, p.layer>>
                   /\ (o.layer = p.layer => o.sha # p.sha)

\* validate_custody_inventory
ValidInventory(inv, config) ==
    /\ ValidConfig(config)
    /\ inv.custodian # inv.operator
    /\ inv.seal = config.cert.seal /\ inv.policy = config.cert.policy
    /\ inv.custodian = config.cert.custodian /\ inv.operator = config.cert.operator
    /\ ValidDayScope(inv.included, inv.excluded)
    /\ ValidAllowlist(inv.objects, inv.included)
    /\ SealContent(inv) = config.cert.seal

\* validate_custody_handoff, with the acquisition plan.
ValidHandoff(inv, evidence, config) ==
    /\ ValidInventory(inv, config)
    /\ ValidEvidence(evidence) /\ inv.policy = evidence
    /\ evidence.custodian = inv.custodian /\ evidence.operator = inv.operator
    /\ Scope \subseteq evidence.covered

-----------------------------------------------------------------------------
(* Holdout plan *)

HoldoutPlan(config, inv) ==
    [config |-> Sha(config), seal |-> config.cert.seal, policy |-> config.cert.policy,
     custodian |-> config.cert.custodian, operator |-> config.cert.operator,
     included |-> inv.included, excluded |-> inv.excluded, allowlist |-> inv.objects,
     sealed |-> TRUE]

\* The config cannot pin the objects: the plan's are those of the inventory.
AnchoredIn(plan, inv, config) ==
    /\ inv # None /\ ValidInventory(inv, config)
    /\ plan.included = inv.included /\ plan.excluded = inv.excluded
    /\ plan.allowlist = inv.objects

\* validate_holdout_plan with the inventory.
ValidHoldoutPlan(plan, config, inv) ==
    /\ ValidConfig(config)
    /\ plan.config = Sha(config)
    /\ plan.seal = config.cert.seal /\ plan.policy = config.cert.policy
    /\ plan.custodian = config.cert.custodian /\ plan.operator = config.cert.operator
    /\ ValidDayScope(plan.included, plan.excluded)
    /\ ValidAllowlist(plan.allowlist, plan.included)
    /\ AnchoredIn(plan, inv, config)
    /\ plan.sealed

-----------------------------------------------------------------------------
(* Freeze, claim and manifest *)

Freeze(config, plan) ==
    [config |-> Sha(config), plan |-> Sha(plan), seal |-> plan.seal, policy |-> plan.policy,
     sealed |-> TRUE]

\* validate_freeze without the run, at the entry points that need the inventory.
ValidFreeze(freeze, config, plan, inv) ==
    /\ ValidHoldoutPlan(plan, config, inv)
    /\ freeze.config = Sha(config) /\ freeze.plan = Sha(plan)
    /\ freeze.seal = config.cert.seal /\ freeze.policy = config.cert.policy
    /\ freeze.sealed

\* holdout_plan_binding
PlanBinding(plan, freeze) == [plan |-> Sha(plan), freeze |-> Sha(freeze)]

\* _load_raw_access_claim
ValidClaim(claim, config, plan, freeze) ==
    /\ claim # None
    /\ claim.config = Sha(config) /\ claim.plan = Sha(plan) /\ claim.freeze = Sha(freeze)
    /\ claim.sealed

NormalizedObjects(plan) == {o \in plan.allowlist : o.layer = "normalized"}

\* oos_build_params, and the build id it and the rows give.
BuildId(plan, rows) == [rows |-> rows, days |-> plan.included, plan |-> Sha(plan)]

Manifest(config, plan, freeze, rows) ==
    [partition |-> "holdout", protocol |-> Sha(config), seal |-> config.cert.seal,
     binding |-> PlanBinding(plan, freeze),
     sources |-> {o.sha : o \in NormalizedObjects(plan)}, buildId |-> BuildId(plan, rows)]

\* verify_oos_build_binding and verify_holdout_manifest_binding
BindsTo(manifest, config, plan, freeze, inv) ==
    /\ ValidFreeze(freeze, config, plan, inv)
    /\ manifest.partition = "holdout"
    /\ manifest.binding = PlanBinding(plan, freeze)
    /\ manifest.protocol = Sha(config) /\ manifest.seal = plan.seal
    /\ manifest.sources = {o.sha : o \in NormalizedObjects(plan)}
    /\ manifest.buildId.plan = Sha(plan)
=============================================================================
