---------------------------- MODULE MCCustodyChain ----------------------------
(* A behaviour follows one stage of the custody chain: the acquisition gate,  *)
(* the holdout build, a development build and its freeze, or the one-time     *)
(* holdout transaction of MCHoldoutConsumption.                               *)
EXTENDS MCHoldoutConsumption, AcquisitionGate, HoldoutBuild, DevelopmentFreeze

VARIABLE focus

-----------------------------------------------------------------------------
(* Gate: a day of each partition, two plans that may swap the identities, a   *)
(* hand that puts January into a days file, and two gated shells.             *)
MCDevDays == <<"d1">>
MCHoldoutDays == <<"h1">>
MCHandWritten == {MCHoldoutDays}

-----------------------------------------------------------------------------
(* Build: two days, one of which may be excluded, evidence that is enough,    *)
(* too narrow or of no independent mechanism, and two builds.                 *)
MCScope == {"raw", "processed", "reports"}
MCDenied(m, c) == [mechanism |-> m, custodian |-> "custodian", operator |-> "operator",
                   covered |-> c, denied |-> TRUE]
MCEvidence == {MCDenied("aws_iam_policy", MCScope), MCDenied("aws_iam_policy", {"raw"}),
               MCDenied("chmod", MCScope)}
MCExcludable == {{}, {"d2"}}

-----------------------------------------------------------------------------
(* Freeze: two horizons of two rungs; a candidate that wins on net and one    *)
(* that wins on lift and withstands one trial more, or two that tie.          *)
MCHorizons == <<"2s", "60s">>
MCRanked == <<"ridge", "lgbm">>
MCVariants == {<<"2s", "wider">>, <<"30s", "ridge">>}
MCMerit(l, n, w) == [lift |-> l, net |-> n, withstands |-> w]
MCTied == [c \in {"ridge", "lgbm"} |-> MCMerit(1, 1, 4)]
MCSplit == [c \in {"ridge", "lgbm"} |->
              IF c = "ridge" THEN MCMerit(1, 2, 4) ELSE MCMerit(2, 1, 5)]
MCMerits == {MCSplit, MCTied}

-----------------------------------------------------------------------------
\* The other stages do not move; what varies initially is fixed in them.
MCInit ==
    /\ focus \in {"gate", "build", "freeze", "consumption"}
    /\ GateInit /\ HoldoutInit /\ DevFreezeInit /\ Init
    /\ focus # "freeze" => merit = MCTied
    /\ focus # "consumption" => serialized

MCNext ==
    /\ \/ focus = "gate" /\ GateNext /\ UNCHANGED <<holdoutVars, devFreezeVars, vars>>
       \/ focus = "build" /\ HoldoutNext /\ UNCHANGED <<gateVars, devFreezeVars, vars>>
       \/ focus = "freeze" /\ DevFreezeNext /\ UNCHANGED <<gateVars, holdoutVars, vars>>
       \/ focus = "consumption" /\ Next /\ UNCHANGED <<gateVars, holdoutVars, devFreezeVars>>
    /\ UNCHANGED focus

MCSpec == MCInit /\ [][MCNext]_<<focus, gateVars, holdoutVars, devFreezeVars, vars>>
=============================================================================
