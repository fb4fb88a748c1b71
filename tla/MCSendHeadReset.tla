-------------------------- MODULE MCSendHeadReset --------------------------
(* SendHeadReset for TLC, for every set of tokens the cast may have sent.     *)
EXTENDS SendHeadReset
=============================================================================
