------------------------ MODULE MCSchedulerStories ------------------------
(* Several instances of Scheduler in one run.  A behaviour follows one story:
   its own budget of events, definitions, target shapes, workers,
   runs and number of minutes.  Everything else is as in the cfg.     *)
EXTENDS MCScheduler

CONSTANT Stories

VARIABLE story

storyVars == <<vars, story>>

(* A run whose worker and message may be lost; a module that goes away and
   comes back, with an edit in between and no run in the way.              *)
Waits ==
  {Story([crash |-> 1, lost |-> 1], {d3}, {"canonical"}, {w1}, {1}, 10),
   Story([toggle |-> 2, edit |-> 1], {d1}, {"canonical"}, {w1}, {}, 4)}

Told ==
  /\ \A k \in Kinds : used'[k] <= story.events[k]
  /\ {edit'[s].def : s \in Schedules} \subseteq story.defs \cup {NoEdit.def}
  /\ {w \in Workers : worker'[w] # Idle} \subseteq story.workers
  /\ {r \in Runs : run'[r].status # "none"} \subseteq story.runs
  /\ now' <= story.minutes
  /\ UNCHANGED story

StoryInit ==
  /\ Init
  /\ story \in Stories
  /\ \A s \in Schedules \ OneOffs : sched[s].def \in story.defs
                                   /\ sched[s].targets \in story.shapes

StoryNext == Next /\ Told
StorySpec == StoryInit /\ [][StoryNext]_storyVars

(* Fairness of Scheduler, within the story. *)
StoryFairness ==
  /\ WF_storyVars(Elapse /\ Told)
  /\ WF_storyVars(TickStep /\ Told)
  /\ WF_storyVars((\E r \in Runs : QueueStep(r)) /\ Told)
  /\ \A w \in Workers : WF_storyVars(TimeLimit(w) /\ Told)

StoryFairSpec == StorySpec /\ StoryFairness

============================================================================
