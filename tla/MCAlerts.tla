------------------------------- MODULE MCAlerts -------------------------------
(***************************************************************************)
(* The instance of Alerts for TLC is given by alerts_race.cfg.             *)
(***************************************************************************)
EXTENDS Alerts
=============================================================================
