------------------------- MODULE MCChannelLifecycle --------------------------
(***************************************************************************)
(* ChannelLifecycle for TLC.  The channels share nothing but the order in  *)
(* which they are stopped, so two show every interaction.                  *)
(***************************************************************************)
EXTENDS ChannelLifecycle
=============================================================================
