------------------------------- MODULE MCCore -------------------------------
(* One run over the services inside Core's own processes.  They share no state
   (the terminals use the sign-ins): as in MCServer a behaviour follows one of
   them, its focus.                                                          *)
EXTENDS MCEventJobs, TerminalSockets, EndpointTransport

VARIABLE focus

coreVars == <<focus, vars, sessionVars, termVars, wireVars>>

MCUserOf == [c \in KnoxTokens \cup ApiKeys |-> "u"]
Strict == [idle |-> 1, life |-> 2, ip |-> "reauthenticate"]
Loose == [idle |-> 2, life |-> 3, ip |-> "audit"]
MCSessionPolicies == {Strict, Loose}
MCSessionBudgets == {[admin |-> 1, policy |-> 0, fault |-> 0, sweep |-> 0, clean |-> 1],
                     [admin |-> 0, policy |-> 1, fault |-> 1, sweep |-> 1, clean |-> 0]}

MCTermBudgets == {[fault |-> 1, standing |-> 0], [fault |-> 0, standing |-> 1]}
MCKindOf == [s1 |-> "agent", s2 |-> "server"]

MCPresents == [a |-> "good", b |-> "good", w |-> "wrong", m |-> "plain"]
MCFrom == [a |-> "i", b |-> "j", w |-> "j", m |-> "j"]
Calm == [fault |-> 0, evict |-> 0, drop |-> 0, revoke |-> 0, call |-> 0, event |-> 0, who |-> {"a", "b"}, until |-> 0]
MCWireBudgets == {[Calm EXCEPT !.fault = 3, !.revoke = 1, !.who = {"a"}, !.until = 5],
                  [Calm EXCEPT !.evict = 1, !.until = 1], [Calm EXCEPT !.drop = 1, !.until = 2],
                  [Calm EXCEPT !.fault = 1, !.until = 1, !.revoke = 1, !.who = {"b", "w", "m"}],
                  [Calm EXCEPT !.call = 2], [Calm EXCEPT !.event = 2, !.fault = 1]}

CoreInit ==
  /\ focus \in {"events", "sessions", "terminals", "transport"}
  /\ Init
  /\ InitSessions /\ (focus # "sessions" => sesLeft.admin = 1)
                  /\ (sesLeft.admin = 1 => policy = IF focus = "terminals" THEN Loose ELSE Strict)
  /\ InitTerminals /\ (focus # "terminals" => termLeft.fault = 1)
  /\ InitTransport /\ (focus # "transport" => wireLeft.call = 2)

Events == focus = "events" /\ Next /\ UNCHANGED <<focus, sessionVars, termVars, wireVars>>
Sessions == focus = "sessions" /\ NextSessions /\ UNCHANGED <<focus, vars, termVars, wireVars>>
TerminalUse == focus = "terminals" /\ NextTerminals /\ UNCHANGED <<focus, vars, wireVars>>
Transport == focus = "transport" /\ NextTransport /\ UNCHANGED <<focus, vars, sessionVars, termVars>>

\* What is looked at of each: of the sign-ins, the story with a sweep and
\* changing addresses is short and the one with the clean-up of history keeps
\* to one address; a second endpoint connection comes after the first, except
\* where two of them race for the presence key.
OneAddress == \A c \in Credentials : trust[c].ip \in {"unknown", "i"}
InOrder == \/ At("b", "none") \/ sock["a"].at \in {"open", "closing", "clear", "delete", "gone"}
           \/ calls # [r \in Calls |-> "none"] \/ wireLeft.call > 0 \/ (wireLeft.until = 1 /\ "m" \in wireLeft.who)
Bounded ==
  /\ focus = "events" => Troubles
  /\ focus = "sessions" => clock <= 2 \/ OneAddress
  /\ focus = "terminals" => clock <= 2 /\ OneAddress /\ cleanup.at = "idle" /\ \A c \in ApiKeys : credential[c] = "new"
  /\ focus = "transport" => InOrder

CoreNext == Events \/ Sessions \/ TerminalUse \/ Transport
CoreSpec == CoreInit /\ [][CoreNext]_coreVars
=============================================================================
