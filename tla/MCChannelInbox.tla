--------------------------- MODULE MCChannelInbox ---------------------------
(***************************************************************************)
(* ChannelInbox for TLC.                                                   *)
(***************************************************************************)
EXTENDS ChannelInbox, TLC

=============================================================================
