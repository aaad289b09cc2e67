----------------------- MODULE MCNotificationSending -----------------------
(* Notifications share no state, so one of them shows every behaviour.     *)
EXTENDS NotificationSending

CONSTANT n1
=============================================================================
