----------------------------- MODULE MCMonsterAI -----------------------------
(***************************************************************************)
(* MonsterAI with one monster (MonsterAI_hang).                            *)
(***************************************************************************)
EXTENDS MonsterAI
=============================================================================
