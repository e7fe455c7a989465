----------------------------- MODULE MCMonitored -----------------------------
(* An instance of the monitored broker for model checking.                 *)
EXTENDS MonitoredBroker
=============================================================================
