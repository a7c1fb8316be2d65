------------------------------- MODULE MCNotif -------------------------------
(* A worker that pushes a few notifications, the listener and the prompt.  *)
EXTENDS Notifications
=============================================================================
