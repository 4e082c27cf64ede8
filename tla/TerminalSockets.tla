--------------------------- MODULE TerminalSockets ---------------------------
(***************************************************************************)
(* The ticketed terminal sockets (tactical_websocket.py and its two         *)
(* consumers) on top of the sign-ins of TrustedSessions: an admitted        *)
(* request is given a ticket, a socket uses it up, and a watcher asks every *)
(* 30 seconds whether the sign-in behind the socket still holds, after it   *)
(* has told the session when the person last typed.  An agent terminal      *)
(* starts its shell on a frame, a server terminal when it is accepted.      *)
(***************************************************************************)
EXTENDS TrustedSessions

CONSTANTS Terminals,
          KindOf,         \* terminal -> "agent" or "server"
          TicketTicks,    \* TICKET_TTL_SECONDS
          TermBudgets     \* [fault, standing]

ASSUME TerminalConstants == TicketTicks \in Nat

VARIABLES ticket,     \* the one ticket of this story in the cache
          term, standing, termLeft

termVars == <<ticket, term, standing, termLeft>>

NoTicket == [st |-> "none", cred |-> "none", expires |-> 0]
Unnoted == -1
NoTerminal == [at |-> "none", code |-> 0, noted |-> Unnoted, started |-> FALSE, rows |-> 0, checkedAt |-> 0]

InitTerminals ==
  /\ ticket = NoTicket /\ standing = TRUE
  /\ term = [s \in Terminals |-> NoTerminal]
  /\ termLeft \in TermBudgets

TermAt(s, at) == term[s].at = at
SessionsStay == UNCHANGED sessionVars
TermSpend(what) == termLeft[what] > 0 /\ termLeft' = [termLeft EXCEPT ![what] = @ - 1]
Shuts(s, code) == [term EXCEPT ![s].at = "gone", ![s].code = code]

----------------------------------------------------------------------------
\* issue_ticket, in an admitted request of a Knox sign-in that has the Tactical
\* flag (or is a superuser, with the server terminal on).  A cache that does not
\* hold what was stored refuses.
issue_ticket(r) ==
  /\ request[r].at = "in" /\ request[r].cred \in KnoxTokens /\ standing
  /\ ticket.st = "none"
  /\ ticket' = [st |-> "stored", cred |-> request[r].cred, expires |-> clock + TicketTicks]
  /\ UNCHANGED <<term, standing, termLeft>> /\ SessionsStay

\* consume_ticket: a read, then a delete that succeeds for one caller only.
ConsumeReads(s) ==
  /\ TermAt(s, "none") /\ ticket.st # "none"
  /\ term' = IF ticket.st = "stored" THEN [term EXCEPT ![s].at = "read"] ELSE Shuts(s, 4401)
  /\ UNCHANGED <<ticket, standing, termLeft>> /\ SessionsStay

ConsumeIf(s, deleted) ==
  /\ TermAt(s, "read")
  /\ \/ /\ term' = IF deleted /\ clock < ticket.expires THEN [term EXCEPT ![s].at = "recheck"] ELSE Shuts(s, 4401)
        /\ ticket' = [ticket EXCEPT !.st = "gone"] /\ UNCHANGED termLeft
     \/ TermSpend("fault") /\ term' = Shuts(s, 4401) /\ UNCHANGED ticket
  /\ UNCHANGED standing /\ SessionsStay
ConsumeUndeleted(s) == ConsumeIf(s, TRUE)   \* Mutant: what delete answers is not looked at.
consume_ticket(s) == ConsumeIf(s, ticket.st = "stored")

\* recheck at connect and in the watcher: the token, then record_terminal_activity
\* with the time of the last input, then the flag and scope (superuser and switch).
\* An error that a fresh connection does not cure refuses as well.
Recheck(s, next) ==
  LET c == ticket.cred IN
  \/ /\ TermSpend("fault") /\ term' = Shuts(s, 4401) /\ SessionsStay
  \/ /\ UNCHANGED termLeft
     /\ \/ /\ ~Live(c) \/ ~Open(c) \/ ~trust[c].bound
           /\ term' = Shuts(s, 4401) /\ SessionsStay
        \/ /\ Live(c)
           /\ record_terminal_activity(c, IF term[s].noted = Unnoted THEN trust[c].active ELSE term[s].noted)
           /\ term' = IF trust'[c].st # "open" THEN Shuts(s, 4401) ELSE IF standing THEN next ELSE Shuts(s, 4003)

TerminalConnects(s) ==
  /\ TermAt(s, "recheck")
  /\ Recheck(s, [term EXCEPT ![s].at = IF KindOf[s] = "server" THEN "row" ELSE "open", ![s].checkedAt = clock])
  /\ UNCHANGED <<ticket, standing>>

\* write_start_row, once for each start: without the row nothing starts.
StartRow(s) ==
  /\ TermAt(s, "row") \/ (TermAt(s, "open") /\ KindOf[s] = "agent" /\ ~term[s].started)
  /\ \/ /\ term' = [term EXCEPT ![s].at = "start", ![s].rows = @ + 1] /\ UNCHANGED termLeft
     \/ /\ TermSpend("fault")
        /\ term' = IF KindOf[s] = "server" THEN Shuts(s, 4502) ELSE term
  /\ UNCHANGED <<ticket, standing>> /\ SessionsStay

StartTerminal(s) ==
  /\ TermAt(s, "start") /\ term' = [term EXCEPT ![s].at = "open", ![s].started = TRUE]
  /\ UNCHANGED <<ticket, standing, termLeft>> /\ SessionsStay

\* Input and resize are noted in memory; output and the other frames are not.
TerminalActivity(s) ==
  /\ TermAt(s, "open") /\ term[s].noted < clock /\ term' = [term EXCEPT ![s].noted = clock]
  /\ UNCHANGED <<ticket, standing, termLeft>> /\ SessionsStay

_watch_tick(s) ==
  /\ term[s].at \in {"open", "start"} /\ term[s].checkedAt < clock
  /\ Recheck(s, [term EXCEPT ![s].checkedAt = clock, ![s].noted = Unnoted])
  /\ UNCHANGED <<ticket, standing>>

TerminalLeaves(s) ==
  /\ TermAt(s, "open") /\ term' = Shuts(s, 1000)
  /\ UNCHANGED <<ticket, standing, termLeft>> /\ SessionsStay

\* The role loses the flag or the agent, or the server terminal is switched off.
StandingEnds ==
  /\ standing /\ TermSpend("standing") /\ standing' = FALSE
  /\ UNCHANGED <<ticket, term>> /\ SessionsStay

\* A tick is longer than the watcher's 30 seconds and than a connect.
TerminalTick ==
  /\ \A s \in Terminals : term[s].at \notin {"none", "gone"} => TermAt(s, "open") /\ term[s].checkedAt = clock
  /\ SessionTick
  /\ ticket' = IF ticket.st = "stored" /\ clock + 1 >= ticket.expires THEN [ticket EXCEPT !.st = "gone"] ELSE ticket
  /\ UNCHANGED <<term, standing, termLeft>>

\* What else happens to the sign-ins meanwhile.
SignInStep ==
  /\ \/ \E c \in Credentials : CredentialChanges(c) \/ revoke_session(c)
     \/ \E c \in KnoxTokens, r \in Clients, i \in Addresses : ensure_request_session(r, c, i)
     \/ \E r \in Clients : record_activity(r) \/ RequestEnds(r)
     \/ SessionSweep
  /\ UNCHANGED termVars

NextTerminals ==
  \/ TerminalTick \/ SignInStep \/ StandingEnds
  \/ \E r \in Clients : issue_ticket(r)
  \/ \E s \in Terminals :
       \/ ConsumeReads(s) \/ consume_ticket(s) \/ TerminalConnects(s) \/ StartRow(s) \/ StartTerminal(s)
       \/ TerminalActivity(s) \/ _watch_tick(s) \/ TerminalLeaves(s)

SpecTerminals == InitSessions /\ InitTerminals /\ [][NextTerminals]_<<sessionVars, termVars>>

----------------------------------------------------------------------------
Relayed(s) == term[s].at \in {"row", "start", "open"}

\* A ticket opens at most one socket.  No shell runs without its audit row, and
\* there is one row for it.  A socket never outlives its sign-in by a check of
\* the watcher: if the session was revoked, that was after the last check, and
\* what the last check saw was inside the idle and the absolute limit, although
\* only input, never output, counts as activity.
TerminalsAreBacked ==
  /\ Cardinality({s \in Terminals : Relayed(s) \/ term[s].code \in {1000, 4003, 4502}}) <= 1
  /\ \A s \in Terminals :
       /\ term[s].started => term[s].rows = 1
       /\ Relayed(s) =>
            /\ trust[ticket.cred].st # "none"
            /\ trust[ticket.cred].st = "revoked" => trust[ticket.cred].at >= term[s].checkedAt
            /\ Open(ticket.cred) => trust[ticket.cred].idleEnd > term[s].checkedAt
                                    /\ trust[ticket.cred].lifeEnd > term[s].checkedAt
=============================================================================
