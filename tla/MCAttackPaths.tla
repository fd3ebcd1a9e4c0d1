---------------------------- MODULE MCAttackPaths -----------------------------
(* Instances of AttackPaths for TLC. *)
EXTENDS AttackPaths, TLC

\* A medium, a high and a low score.
MCScores == {20, 50, 80}

\* network -> ai-runtimes -> ai-models is the longest chain of categories.
MCCategories == {"network", "ai-runtimes", "ai-models", "ai-prompts"}
MCAssetTypes == {"host", "ai_runtime", "ai_model", "prompt_store"}

Symmetry == Permutations(FindingIds) \cup Permutations(AssetIds)
=============================================================================
