-------------------------- MODULE MCNotifications --------------------------
(* Small instances of Notifications.                                       *)
EXTENDS Notifications, TLC

CONSTANTS j1, m1

OneMessage == [j \in Jobs |-> m1]
TwoChannels == <<"email", "telegram">>
=============================================================================
