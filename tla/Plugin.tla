------------------------------- MODULE Plugin -------------------------------
(***************************************************************************)
(* The parts of the plugin that share no state, side by side.  A behaviour *)
(* is one of the part in focus, while the others stand still: a property   *)
(* of one part holds in every interleaving of the parts exactly when it    *)
(* holds of the part alone, so the run explores the sum of their states    *)
(* and not the product.                                                    *)
(***************************************************************************)
EXTENDS
  Claim, Proposals, Lineage, BlueprintStore, Assets, Verdict, Critic, Hooks, Projection,
  Tasks, Suite

VARIABLE focus  \* the part that moves

Parts ==
  {"claim", "proposals", "lineage", "store", "assets", "verdict", "critic", "hooks",
   "projection", "tasks", "suite"}

\* The parts that stand still start from one of their initial states.
PluginInit ==
  /\ focus \in Parts
  /\ ClaimInit
  /\ ProposalsInit
  /\ LineageInit
  /\ StoreInit
  /\ AssetsInit
  /\ VerdictInit
  /\ CriticInit
  /\ HooksInit
  /\ ProjectionInit
  /\ TasksInit
  /\ SuiteInit
  /\ focus # "assets" => disk = [f \in Files |-> "shipped"] /\ manifest = Files /\ sound
  /\ focus # "store" => blocks = <<>>
  /\ focus # "hooks" => file = "old"
  /\ focus # "suite" => asked = CHOOSE a \in Asks : TRUE

ClaimMoves ==
  /\ focus = "claim"
  /\ ClaimNext
  /\ UNCHANGED <<focus, proposalVars, lineageVars, storeVars, assetVars, verdictVars,
                  criticVars, hookVars, projectionVars, taskVars, suiteVars>>

ProposalsMoves ==
  /\ focus = "proposals"
  /\ ProposalsNext
  /\ UNCHANGED <<focus, claimVars, lineageVars, storeVars, assetVars, verdictVars,
                  criticVars, hookVars, projectionVars, taskVars, suiteVars>>

LineageMoves ==
  /\ focus = "lineage"
  /\ LineageNext
  /\ UNCHANGED <<focus, claimVars, proposalVars, storeVars, assetVars, verdictVars,
                  criticVars, hookVars, projectionVars, taskVars, suiteVars>>

StoreMoves ==
  /\ focus = "store"
  /\ StoreNext
  /\ UNCHANGED <<focus, claimVars, proposalVars, lineageVars, assetVars, verdictVars,
                  criticVars, hookVars, projectionVars, taskVars, suiteVars>>

AssetsMoves ==
  /\ focus = "assets"
  /\ AssetsNext
  /\ UNCHANGED <<focus, claimVars, proposalVars, lineageVars, storeVars, verdictVars,
                  criticVars, hookVars, projectionVars, taskVars, suiteVars>>

VerdictMoves ==
  /\ focus = "verdict"
  /\ VerdictNext
  /\ UNCHANGED <<focus, claimVars, proposalVars, lineageVars, storeVars, assetVars,
                  criticVars, hookVars, projectionVars, taskVars, suiteVars>>

CriticMoves ==
  /\ focus = "critic"
  /\ CriticNext
  /\ UNCHANGED <<focus, claimVars, proposalVars, lineageVars, storeVars, assetVars,
                  verdictVars, hookVars, projectionVars, taskVars, suiteVars>>

HooksMoves ==
  /\ focus = "hooks"
  /\ HooksNext
  /\ UNCHANGED <<focus, claimVars, proposalVars, lineageVars, storeVars, assetVars,
                  verdictVars, criticVars, projectionVars, taskVars, suiteVars>>

ProjectionMoves ==
  /\ focus = "projection"
  /\ ProjectionNext
  /\ UNCHANGED <<focus, claimVars, proposalVars, lineageVars, storeVars, assetVars,
                  verdictVars, criticVars, hookVars, taskVars, suiteVars>>

TasksMoves ==
  /\ focus = "tasks"
  /\ TasksNext
  /\ UNCHANGED <<focus, claimVars, proposalVars, lineageVars, storeVars, assetVars,
                  verdictVars, criticVars, hookVars, projectionVars, suiteVars>>

SuiteMoves ==
  /\ focus = "suite"
  /\ SuiteNext
  /\ UNCHANGED <<focus, claimVars, proposalVars, lineageVars, storeVars, assetVars,
                  verdictVars, criticVars, hookVars, projectionVars, taskVars>>

PluginNext ==
  \/ ClaimMoves \/ ProposalsMoves \/ LineageMoves
  \/ StoreMoves \/ AssetsMoves \/ VerdictMoves
  \/ CriticMoves \/ HooksMoves \/ ProjectionMoves
  \/ TasksMoves \/ SuiteMoves

pluginVars ==
  <<focus, claimVars, proposalVars, lineageVars, storeVars, assetVars, verdictVars, criticVars,
    hookVars, projectionVars, taskVars, suiteVars>>

Spec == PluginInit /\ [][PluginNext]_pluginVars

\* The parts that stand still are as they were at first.
PluginTypeOK ==
  /\ focus \in Parts
  /\ focus = "claim" => ClaimTypeOK
  /\ focus = "proposals" => ProposalsTypeOK
  /\ focus = "lineage" => LineageTypeOK
  /\ focus = "store" => StoreTypeOK
  /\ focus = "assets" => AssetsTypeOK
  /\ focus = "verdict" => VerdictTypeOK
  /\ focus = "critic" => CriticTypeOK
  /\ focus = "hooks" => HooksTypeOK
  /\ focus = "projection" => ProjectionTypeOK
  /\ focus = "tasks" => TasksTypeOK
  /\ focus = "suite" => SuiteTypeOK
=============================================================================
