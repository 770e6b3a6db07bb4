--------------------------- MODULE MCChannelBridge ---------------------------
(* Instances of ChannelBridge for TLC. *)
EXTENDS ChannelBridge
=============================================================================
