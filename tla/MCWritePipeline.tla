--------------------------- MODULE MCWritePipeline ----------------------------
(***************************************************************************)
(* Instances of WritePipeline for TLC: the bounds and which faults happen  *)
(* are given by the configurations.                                        *)
(***************************************************************************)
EXTENDS WritePipeline

AllStreamFaults ==
    {"connectionLost", "noCredentials", "handshakeRefused", "connectivityChanges"}

=============================================================================
