----------------------------- MODULE MCScheduler -----------------------------
(* Instance of Scheduler: timeouts below the intervals, as configured.     *)
EXTENDS Scheduler, TLC

CONSTANTS fed, news

MCInterval == fed :> 2 @@ news :> 2
MCTimeout  == fed :> 1 @@ news :> 1
MCOffset   == fed :> 1 @@ news :> 0
===============================================================================
