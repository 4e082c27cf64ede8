-------------------------- MODULE EventJobContract --------------------------
(***************************************************************************)
(* What event jobs promise to the module that publishes them, without      *)
(* messages, workers, ticks or clocks: a stored event is tried one attempt *)
(* at a time and at most MaxAttempts times, ends once, and is the only     *)
(* event of its key until then.                                            *)
(***************************************************************************)
EXTENDS Integers

CONSTANTS Rows, Keys, MaxAttempts

VARIABLES
  stage,     \* "none", "waiting", "trying", "over" or "forgotten"
  key,       \* the key of each event
  tries      \* how often its handler was started

vars == <<stage, key, tries>>

Open(r) == stage[r] \in {"waiting", "trying"}

Init ==
  /\ stage = [r \in Rows |-> "none"]
  /\ key \in [Rows -> Keys]
  /\ tries = [r \in Rows |-> 0]

Accept(r, k) ==
  /\ stage[r] = "none"
  /\ \A q \in Rows : Open(q) => key[q] # k
  /\ stage' = [stage EXCEPT ![r] = "waiting"]
  /\ key' = [key EXCEPT ![r] = k]
  /\ UNCHANGED tries

Try(r) ==
  /\ stage[r] = "waiting" /\ tries[r] < MaxAttempts
  /\ stage' = [stage EXCEPT ![r] = "trying"]
  /\ tries' = [tries EXCEPT ![r] = @ + 1]
  /\ UNCHANGED key

Wait(r) ==
  /\ stage[r] = "trying" /\ tries[r] < MaxAttempts
  /\ stage' = [stage EXCEPT ![r] = "waiting"]
  /\ UNCHANGED <<key, tries>>

End(r) ==
  /\ Open(r)
  /\ stage' = [stage EXCEPT ![r] = "over"]
  /\ UNCHANGED <<key, tries>>

Forget(r) ==
  /\ stage[r] = "over"
  /\ stage' = [stage EXCEPT ![r] = "forgotten"]
  /\ key' \in [Rows -> Keys] /\ \A q \in Rows \ {r} : key'[q] = key[q]
  /\ tries' = [tries EXCEPT ![r] = 0]

Next ==
  \E r \in Rows :
    \/ \E k \in Keys : Accept(r, k)
    \/ Try(r)
    \/ Wait(r)
    \/ End(r)
    \/ Forget(r)

Spec == Init /\ [][Next]_vars

============================================================================
