----------------------------- MODULE MCLockOrder -----------------------------
(* The daemon and two application threads, one connection and a listener.   *)
EXTENDS LockOrder

TwoApps == {"app1", "app2"}
OneBlock == {"conn"}
=============================================================================
