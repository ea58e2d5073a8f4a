---------------------------- MODULE MCDashboard ----------------------------
(* DashboardFeed on a small instance; see MCDashboard.cfg.                 *)
EXTENDS DashboardFeed
=============================================================================
