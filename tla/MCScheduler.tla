---------------------------- MODULE MCScheduler ----------------------------
(* Constants for the TLC runs of Scheduler.  Definition d1 is due in every
   odd minute, d2 in minute 2; d3 is a ONCE definition for minute 1, d4 one
   for minute 2.                                                           *)
EXTENDS Scheduler, TLC

CONSTANTS d1, d2, d3, d4, w1, w2, s1, s2

MCDueAt ==
  [d \in Definitions |-> CASE d = d1 -> {1, 3, 5} [] d = d2 -> {2}
                           [] d = d3 -> {1}       [] d = d4 -> {2}]

Allow(f) == [k \in Kinds |-> IF k \in DOMAIN f THEN f[k] ELSE 0]
NoEvents   == Allow([k \in {} |-> 0])
Failures   == Allow([crash |-> 1, lost |-> 1, dup |-> 1])
OneManual  == Allow([manual |-> 1])
OneDup     == Allow([dup |-> 1])

AllEvents  == [k \in Kinds |-> 2]
MostEvents == [k \in Kinds |-> IF k = "edit" THEN 2 ELSE IF k = "lost" THEN 0 ELSE 1]

(* A story: its own budget of events, definitions, target shapes, workers, runs
   and number of minutes.  Everything else is as in the cfg.                   *)
Story(events, defs, shapes, workers, runs, minutes) ==
  [events |-> Allow(events), defs |-> defs, shapes |-> shapes, workers |-> workers,
   runs |-> runs, minutes |-> minutes]

(* Edits and deletes race the tick; a one-off run beside a ONCE schedule,
   Run now, bad targets and clean-up; faults while a run is queued.        *)
Changes ==
  {Story([edit |-> 2], {d1, d2}, {"canonical"}, {w1}, {1}, 3),
   Story([edit |-> 1, delete |-> 1, retire |-> 1], {d2, d3}, {"canonical"}, {w1}, {1, 2}, 3),
   Story([oneoff |-> 1, manual |-> 1], {d3}, {"invalid"}, {w1}, {1, 2}, 2),
   Story([oneoff |-> 1, manual |-> 1], {d2}, {"canonical"}, {w1}, {1, 2}, 1),
   Story([oneoff |-> 1, edit |-> 1, retire |-> 1], {d3}, {"legacy", "canonical"}, {w1}, {1}, 2),
   Story([fault |-> 1, dup |-> 1], {d1}, {"canonical"}, {w1, w2}, {1}, 4),
   Story([fault |-> 1, crash |-> 1, manual |-> 1], {d2}, {"canonical"}, {w1}, {1}, 4),
   Story([toggle |-> 1], {d1}, {"canonical"}, {w1}, {1}, 3)}

(* The states of some story of Changes. *)
InAStory ==
  \E st \in Changes :
    /\ \A k \in Kinds : used[k] <= st.events[k]
    /\ \A s \in Schedules \ OneOffs :
         sched[s] # Absent => sched[s].def \in st.defs /\ sched[s].targets \in st.shapes
    /\ {edit[s].def : s \in Schedules} \subseteq st.defs \cup {NoEdit.def}
    /\ {w \in Workers : worker[w] # Idle} \subseteq st.workers
    /\ {r \in Runs : run[r].status # "none"} \subseteq st.runs
    /\ now <= st.minutes

WorkerSymmetry == Permutations(Workers)

============================================================================
