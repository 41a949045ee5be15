--------------------------- MODULE MCNotifications ---------------------------
(***************************************************************************)
(* Notifications with its two channels, for TLC: only telegram needs a     *)
(* chat_id beside its webhook.                                             *)
(***************************************************************************)
EXTENDS Notifications

CONSTANTS discord, telegram

EveryConfig == {f \in [Channels -> Settings] : f[discord] # "noChat"}
=============================================================================
