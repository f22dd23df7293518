--------------------------- MODULE MCChecksumFanOut ---------------------------
(***************************************************************************)
(* The TLC runs of ChecksumFanOut: the cfg gives the constants.            *)
(***************************************************************************)
EXTENDS ChecksumFanOut
==============================================================================
