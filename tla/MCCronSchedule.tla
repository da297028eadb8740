---------------------------- MODULE MCCronSchedule ----------------------------
(***************************************************************************)
(* A reminder and a periodic row for CronSchedule.                         *)
(***************************************************************************)
EXTENDS CronSchedule

CONSTANTS remind, daily
===============================================================================
