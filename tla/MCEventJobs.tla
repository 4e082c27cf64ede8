---------------------------- MODULE MCEventJobs ----------------------------
(* Constants for the TLC runs of EventJobs. *)
EXTENDS EventJobs, TLC

CONSTANTS k1, k2, p1, w1, w2

Allow(f) == [k \in Kinds |-> IF k \in DOMAIN f THEN f[k] ELSE 0]
Failures  == Allow([crash |-> 1, dup |-> 1])
Losses    == Allow([crash |-> 1, lost |-> 1, refuse |-> 1, retire |-> 1])
Outages   == Allow([toggle |-> 1])
AnyOnce   == [k \in Kinds |-> 1]

(* Of the behaviours where everything may go wrong once: the ones with a crash
   and a duplicate, for longer with one row, and with one
   worker at a time the ones with a module that goes away, and with a
   lost message or with a broker that refuses.                                *)
OneAtATime == row[2].status = "none" /\ Cardinality({w \in Workers : worker[w] # Idle}) <= 1
Spent(allowed) == \A k \in Kinds : used[k] <= allowed[k]
Troubles ==
  \/ Spent(Failures) /\ now <= 1
  \/ row[2].status = "none" /\ Spent(Failures) /\ now <= 2
  \/ OneAtATime /\ now <= 2 /\ Spent(Allow([toggle |-> 1, retire |-> 1]))
  \/ OneAtATime /\ (Spent(Allow([lost |-> 1])) \/ Spent(Allow([refuse |-> 1])))

Processes == Permutations(Workers) \cup Permutations(Publishers)

============================================================================
