-------------------------- MODULE MCEvidenceChain -------------------------
(* EvidenceChain for TLC.                                                  *)
EXTENDS EvidenceChainProperties

===========================================================================
