---------------------------- MODULE MCEventEnds ----------------------------
(* Two instances of EventJobs in one run.  The constants of the cfg make a
   crowded queue: two keys, one attempt, a tick that takes one row at a time
   and a module that goes away.  Lossy makes a patient one: a single row with
   two attempts, crashes, lost messages and a broker that refuses.          *)
EXTENDS MCEventJobs

VARIABLE focus

endVars == <<vars, focus>>

Lossy == INSTANCE EventJobs WITH
  Keys <- {k1}, MaxAttempts <- 2, HardLimit <- 1, Expires <- 6,
  MaxBacklog <- 2, RowLimit <- 2, InTime <- {"tick", "workers"}, MaxTime <- 7,
  Budget <- Losses

Crowded(A) == focus = "crowded" /\ A /\ UNCHANGED focus
Patient(A) == focus = "patient" /\ A /\ row'[2].status = "none" /\ UNCHANGED focus

EndsInit == focus \in {"crowded", "patient"} /\ Init
EndsNext == Crowded(Next) \/ Patient(Lossy!Next)
(* The fairness of EventJobs, for the crowded queue. *)
EndsSpec ==
  /\ EndsInit /\ [][EndsNext]_endVars
  /\ WF_endVars(Crowded(Elapse))
  /\ WF_endVars(Crowded(TickStep))
  /\ \A w \in Workers : WF_endVars(Crowded(TimeLimit(w)))

(* "loses nothing that was stored": in the patient queue, where minutes are
   long enough for the tick and the workers, a crash or a lost message never
   makes a row expire that no worker ever tried (recover_event_jobs).       *)
PatientIsTried == focus = "patient" => StoredIsTried

(* Every row stored in the crowded queue ends, although publishers, workers
   and the broker may stop: expiry and recovery in the tick see to it.      *)
CrowdedRowsEnd == focus = "crowded" => RowsEnd

=============================================================================
