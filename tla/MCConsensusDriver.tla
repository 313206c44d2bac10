-------------------------- MODULE MCConsensusDriver --------------------------
(* ConsensusDriver with the calls that build a block.                      *)
EXTENDS ConsensusDriver

BlockCalls == {"initialize_block", "finalize_block", "cancel_block"}
=============================================================================
