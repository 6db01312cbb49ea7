---------------------------- MODULE PluginProofs ----------------------------
(***************************************************************************)
(* Proofs about Plugin: what moves at its side is for each part a step of  *)
(* nothing, so every behaviour of the plugin is one of each of its parts,  *)
(* and what was proved of a part alone holds in every behaviour of all.    *)
(***************************************************************************)
EXTENDS Plugin, CompoundProofs, SessionProofs, ProjectionProofs

\* A step is one of the part in focus, and the others stand still.
LEMMA ClaimMovesAlone ==
  ASSUME [PluginNext]_pluginVars PROVE [ClaimNext]_claimVars
<1>1. CASE UNCHANGED pluginVars
  BY <1>1 DEF pluginVars
<1>2. CASE ClaimMoves
  BY <1>2 DEF ClaimMoves
<1>3. CASE \/ ProposalsMoves \/ LineageMoves \/ StoreMoves \/ AssetsMoves \/ VerdictMoves
              \/ CriticMoves \/ HooksMoves \/ ProjectionMoves \/ TasksMoves \/ SuiteMoves
  BY <1>3
     DEF ProposalsMoves, LineageMoves, StoreMoves, AssetsMoves, VerdictMoves,
         CriticMoves, HooksMoves, ProjectionMoves, TasksMoves, SuiteMoves
<1> QED BY <1>1, <1>2, <1>3 DEF PluginNext

LEMMA ProposalsMovesAlone ==
  ASSUME [PluginNext]_pluginVars PROVE [ProposalsNext]_proposalVars
<1>1. CASE UNCHANGED pluginVars
  BY <1>1 DEF pluginVars
<1>2. CASE ProposalsMoves
  BY <1>2 DEF ProposalsMoves
<1>3. CASE \/ ClaimMoves \/ LineageMoves \/ StoreMoves \/ AssetsMoves \/ VerdictMoves
              \/ CriticMoves \/ HooksMoves \/ ProjectionMoves \/ TasksMoves \/ SuiteMoves
  BY <1>3
     DEF ClaimMoves, LineageMoves, StoreMoves, AssetsMoves, VerdictMoves,
         CriticMoves, HooksMoves, ProjectionMoves, TasksMoves, SuiteMoves
<1> QED BY <1>1, <1>2, <1>3 DEF PluginNext

LEMMA LineageMovesAlone ==
  ASSUME [PluginNext]_pluginVars PROVE [LineageNext]_lineageVars
<1>1. CASE UNCHANGED pluginVars
  BY <1>1 DEF pluginVars
<1>2. CASE LineageMoves
  BY <1>2 DEF LineageMoves
<1>3. CASE \/ ClaimMoves \/ ProposalsMoves \/ StoreMoves \/ AssetsMoves \/ VerdictMoves
              \/ CriticMoves \/ HooksMoves \/ ProjectionMoves \/ TasksMoves \/ SuiteMoves
  BY <1>3
     DEF ClaimMoves, ProposalsMoves, StoreMoves, AssetsMoves, VerdictMoves,
         CriticMoves, HooksMoves, ProjectionMoves, TasksMoves, SuiteMoves
<1> QED BY <1>1, <1>2, <1>3 DEF PluginNext

LEMMA StoreMovesAlone ==
  ASSUME [PluginNext]_pluginVars PROVE [StoreNext]_storeVars
<1>1. CASE UNCHANGED pluginVars
  BY <1>1 DEF pluginVars
<1>2. CASE StoreMoves
  BY <1>2 DEF StoreMoves
<1>3. CASE \/ ClaimMoves \/ ProposalsMoves \/ LineageMoves \/ AssetsMoves \/ VerdictMoves
              \/ CriticMoves \/ HooksMoves \/ ProjectionMoves \/ TasksMoves \/ SuiteMoves
  BY <1>3
     DEF ClaimMoves, ProposalsMoves, LineageMoves, AssetsMoves, VerdictMoves,
         CriticMoves, HooksMoves, ProjectionMoves, TasksMoves, SuiteMoves
<1> QED BY <1>1, <1>2, <1>3 DEF PluginNext

LEMMA AssetsMovesAlone ==
  ASSUME [PluginNext]_pluginVars PROVE [AssetsNext]_assetVars
<1>1. CASE UNCHANGED pluginVars
  BY <1>1 DEF pluginVars
<1>2. CASE AssetsMoves
  BY <1>2 DEF AssetsMoves
<1>3. CASE \/ ClaimMoves \/ ProposalsMoves \/ LineageMoves \/ StoreMoves \/ VerdictMoves
              \/ CriticMoves \/ HooksMoves \/ ProjectionMoves \/ TasksMoves \/ SuiteMoves
  BY <1>3
     DEF ClaimMoves, ProposalsMoves, LineageMoves, StoreMoves, VerdictMoves,
         CriticMoves, HooksMoves, ProjectionMoves, TasksMoves, SuiteMoves
<1> QED BY <1>1, <1>2, <1>3 DEF PluginNext

LEMMA VerdictMovesAlone ==
  ASSUME [PluginNext]_pluginVars PROVE [VerdictNext]_verdictVars
<1>1. CASE UNCHANGED pluginVars
  BY <1>1 DEF pluginVars
<1>2. CASE VerdictMoves
  BY <1>2 DEF VerdictMoves
<1>3. CASE \/ ClaimMoves \/ ProposalsMoves \/ LineageMoves \/ StoreMoves \/ AssetsMoves
              \/ CriticMoves \/ HooksMoves \/ ProjectionMoves \/ TasksMoves \/ SuiteMoves
  BY <1>3
     DEF ClaimMoves, ProposalsMoves, LineageMoves, StoreMoves, AssetsMoves,
         CriticMoves, HooksMoves, ProjectionMoves, TasksMoves, SuiteMoves
<1> QED BY <1>1, <1>2, <1>3 DEF PluginNext

LEMMA CriticMovesAlone ==
  ASSUME [PluginNext]_pluginVars PROVE [CriticNext]_criticVars
<1>1. CASE UNCHANGED pluginVars
  BY <1>1 DEF pluginVars
<1>2. CASE CriticMoves
  BY <1>2 DEF CriticMoves
<1>3. CASE \/ ClaimMoves \/ ProposalsMoves \/ LineageMoves \/ StoreMoves \/ AssetsMoves
              \/ VerdictMoves \/ HooksMoves \/ ProjectionMoves \/ TasksMoves \/ SuiteMoves
  BY <1>3
     DEF ClaimMoves, ProposalsMoves, LineageMoves, StoreMoves, AssetsMoves,
         VerdictMoves, HooksMoves, ProjectionMoves, TasksMoves, SuiteMoves
<1> QED BY <1>1, <1>2, <1>3 DEF PluginNext

LEMMA HooksMovesAlone ==
  ASSUME [PluginNext]_pluginVars PROVE [HooksNext]_hookVars
<1>1. CASE UNCHANGED pluginVars
  BY <1>1 DEF pluginVars
<1>2. CASE HooksMoves
  BY <1>2 DEF HooksMoves
<1>3. CASE \/ ClaimMoves \/ ProposalsMoves \/ LineageMoves \/ StoreMoves \/ AssetsMoves
              \/ VerdictMoves \/ CriticMoves \/ ProjectionMoves \/ TasksMoves \/ SuiteMoves
  BY <1>3
     DEF ClaimMoves, ProposalsMoves, LineageMoves, StoreMoves, AssetsMoves,
         VerdictMoves, CriticMoves, ProjectionMoves, TasksMoves, SuiteMoves
<1> QED BY <1>1, <1>2, <1>3 DEF PluginNext

LEMMA ProjectionMovesAlone ==
  ASSUME [PluginNext]_pluginVars PROVE [ProjectionNext]_projectionVars
<1>1. CASE UNCHANGED pluginVars
  BY <1>1 DEF pluginVars
<1>2. CASE ProjectionMoves
  BY <1>2 DEF ProjectionMoves
<1>3. CASE \/ ClaimMoves \/ ProposalsMoves \/ LineageMoves \/ StoreMoves \/ AssetsMoves
              \/ VerdictMoves \/ CriticMoves \/ HooksMoves \/ TasksMoves \/ SuiteMoves
  BY <1>3
     DEF ClaimMoves, ProposalsMoves, LineageMoves, StoreMoves, AssetsMoves,
         VerdictMoves, CriticMoves, HooksMoves, TasksMoves, SuiteMoves
<1> QED BY <1>1, <1>2, <1>3 DEF PluginNext

LEMMA TasksMovesAlone ==
  ASSUME [PluginNext]_pluginVars PROVE [TasksNext]_taskVars
<1>1. CASE UNCHANGED pluginVars
  BY <1>1 DEF pluginVars
<1>2. CASE TasksMoves
  BY <1>2 DEF TasksMoves
<1>3. CASE \/ ClaimMoves \/ ProposalsMoves \/ LineageMoves \/ StoreMoves \/ AssetsMoves
              \/ VerdictMoves \/ CriticMoves \/ HooksMoves \/ ProjectionMoves \/ SuiteMoves
  BY <1>3
     DEF ClaimMoves, ProposalsMoves, LineageMoves, StoreMoves, AssetsMoves,
         VerdictMoves, CriticMoves, HooksMoves, ProjectionMoves, SuiteMoves
<1> QED BY <1>1, <1>2, <1>3 DEF PluginNext

LEMMA SuiteMovesAlone ==
  ASSUME [PluginNext]_pluginVars PROVE [SuiteNext]_suiteVars
<1>1. CASE UNCHANGED pluginVars
  BY <1>1 DEF pluginVars
<1>2. CASE SuiteMoves
  BY <1>2 DEF SuiteMoves
<1>3. CASE \/ ClaimMoves \/ ProposalsMoves \/ LineageMoves \/ StoreMoves \/ AssetsMoves
              \/ VerdictMoves \/ CriticMoves \/ HooksMoves \/ ProjectionMoves \/ TasksMoves
  BY <1>3
     DEF ClaimMoves, ProposalsMoves, LineageMoves, StoreMoves, AssetsMoves,
         VerdictMoves, CriticMoves, HooksMoves, ProjectionMoves, TasksMoves
<1> QED BY <1>1, <1>2, <1>3 DEF PluginNext

(* The parts that share no state implement, side by side, the            *)
(* specification of each: a theorem about a part is one about the plugin  *)
(* (src/index.ts:238-256 builds their states one by one).                 *)
THEOREM PartsAreImplemented ==
  Spec => /\ ClaimSpec /\ ProposalsSpec /\ LineageSpec /\ StoreSpec
          /\ AssetsSpec /\ VerdictSpec /\ CriticSpec /\ HooksSpec
          /\ ProjectionSpec /\ TasksSpec /\ SuiteSpec
<1>1. Spec => ClaimSpec
  <2>1. PluginInit => ClaimInit
    BY DEF PluginInit
  <2> QED BY <2>1, ClaimMovesAlone, PTL DEF Spec, ClaimSpec
<1>2. Spec => ProposalsSpec
  <2>1. PluginInit => ProposalsInit
    BY DEF PluginInit
  <2> QED BY <2>1, ProposalsMovesAlone, PTL DEF Spec, ProposalsSpec
<1>3. Spec => LineageSpec
  <2>1. PluginInit => LineageInit
    BY DEF PluginInit
  <2> QED BY <2>1, LineageMovesAlone, PTL DEF Spec, LineageSpec
<1>4. Spec => StoreSpec
  <2>1. PluginInit => StoreInit
    BY DEF PluginInit
  <2> QED BY <2>1, StoreMovesAlone, PTL DEF Spec, StoreSpec
<1>5. Spec => AssetsSpec
  <2>1. PluginInit => AssetsInit
    BY DEF PluginInit
  <2> QED BY <2>1, AssetsMovesAlone, PTL DEF Spec, AssetsSpec
<1>6. Spec => VerdictSpec
  <2>1. PluginInit => VerdictInit
    BY DEF PluginInit
  <2> QED BY <2>1, VerdictMovesAlone, PTL DEF Spec, VerdictSpec
<1>7. Spec => CriticSpec
  <2>1. PluginInit => CriticInit
    BY DEF PluginInit
  <2> QED BY <2>1, CriticMovesAlone, PTL DEF Spec, CriticSpec
<1>8. Spec => HooksSpec
  <2>1. PluginInit => HooksInit
    BY DEF PluginInit
  <2> QED BY <2>1, HooksMovesAlone, PTL DEF Spec, HooksSpec
<1>9. Spec => ProjectionSpec
  <2>1. PluginInit => ProjectionInit
    BY DEF PluginInit
  <2> QED BY <2>1, ProjectionMovesAlone, PTL DEF Spec, ProjectionSpec
<1>10. Spec => TasksSpec
  <2>1. PluginInit => TasksInit
    BY DEF PluginInit
  <2> QED BY <2>1, TasksMovesAlone, PTL DEF Spec, TasksSpec
<1>11. Spec => SuiteSpec
  <2>1. PluginInit => SuiteInit
    BY DEF PluginInit
  <2> QED BY <2>1, SuiteMovesAlone, PTL DEF Spec, SuiteSpec
<1> QED BY <1>1, <1>2, <1>3, <1>4, <1>5, <1>6, <1>7, <1>8, <1>9, <1>10, <1>11

(* The part in focus never changes.                                        *)
LEMMA FocusStays == Spec => [](focus \in Parts)
<1>1. PluginInit => focus \in Parts
  BY DEF PluginInit
<1>2. focus \in Parts /\ [PluginNext]_pluginVars => (focus \in Parts)'
  BY DEF PluginNext, pluginVars, ClaimMoves, ProposalsMoves, LineageMoves, StoreMoves,
         AssetsMoves, VerdictMoves, CriticMoves, HooksMoves, ProjectionMoves, TasksMoves, SuiteMoves
<1> QED BY <1>1, <1>2, PTL DEF Spec

(* The types of the plugin, for all values of the constants: every part is *)
(* well typed whatever moves, and that is what the part in focus needs.    *)
THEOREM PluginTypeCorrect == Spec => []PluginTypeOK
<1>1. ASSUME focus \in Parts, ClaimTypeOK, ProposalsTypeOK, LineageTypeOK, StoreTypeOK,
             AssetsTypeOK, VerdictTypeOK, CriticTypeOK, HooksTypeOK, ProjectionTypeOK,
             TasksTypeOK, SuiteTypeOK
      PROVE  PluginTypeOK
  BY <1>1 DEF PluginTypeOK
<1> QED BY <1>1, FocusStays, PartsAreImplemented, ClaimTypeCorrect, ProposalsTypeCorrect,
           LineageTypeCorrect, StoreTypeCorrect, AssetsTypeCorrect, VerdictTypeCorrect,
           CriticTypeCorrect, HooksTypeCorrect, ProjectionTypeCorrect, TasksTypeCorrect,
           SuiteTypeCorrect, PTL

(* Everything proved of a part alone is a fact about the whole: leases,    *)
(* decisions, lineages, assets, verdicts, reviews, hooks, offsets, drafts, *)
(* jobs and trials keep their promises whichever part moves, and no step   *)
(* of any of them disturbs the blocks of a blueprint.                      *)
THEOREM PluginKeepsItsPromises ==
  Spec => /\ [](LeaseHolds /\ StatusIsAccountedFor /\ LineageImproves)
          /\ [](LoadedAssetsAreShipped /\ PassedMeansChecked /\ ReviewsAreGenuine)
          /\ [](OffIsSilent /\ SnapshotsAreOwn /\ OffsetsNameTheirText)
          /\ [](UpdatesAreKept /\ JobsRunTheirRevision /\ TrialsKeepApart)
          /\ BlocksAreKept
<1>1. Spec => [](LeaseHolds /\ StatusIsAccountedFor /\ LineageImproves)
  BY PartsAreImplemented, LeasesHold, StatusesAreAccountedFor, LineagesImprove, PTL
<1>2. Spec => [](LoadedAssetsAreShipped /\ PassedMeansChecked /\ ReviewsAreGenuine)
  BY PartsAreImplemented, AssetsAreShipped, PassedReportsAreChecked, GenuineReviews, PTL
<1>3. Spec => [](OffIsSilent /\ SnapshotsAreOwn /\ OffsetsNameTheirText)
  BY PartsAreImplemented, OffStaysSilent, SnapshotsBelongToCalls, OffsetsAreNamed, PTL
<1>4. Spec => [](UpdatesAreKept /\ JobsRunTheirRevision /\ TrialsKeepApart)
  BY PartsAreImplemented, UpdatesStay, JobsKeepTheirRevision, TrialsAreApart, PTL
<1>5. Spec => BlocksAreKept
  BY PartsAreImplemented, BlocksStay, PTL
<1> QED BY <1>1, <1>2, <1>3, <1>4, <1>5
=============================================================================
