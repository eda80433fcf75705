------------------------- MODULE MCNotificationQueue -------------------------
(* The workers of NotificationQueue for TLC.                               *)
EXTENDS NotificationQueue
CONSTANTS daemon, panel
=============================================================================
