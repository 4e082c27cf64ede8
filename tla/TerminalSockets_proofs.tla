------------------------ MODULE TerminalSockets_proofs ------------------------
(* The ticketed terminals on top of the proofs about sign-ins.  A step of a  *)
(* terminal is a step of the sign-ins, or leaves them alone; the policy      *)
(* stays as it is in this story.                                             *)
EXTENDS TerminalSockets, TrustedSessions_proofs, FiniteSetTheorems

TermRows ==
  [at : {"none", "read", "recheck", "row", "start", "open", "gone"}, code : Nat, noted : Int,
   started : BOOLEAN, rows : Nat, checkedAt : Nat]

TermTypes ==
  /\ ticket \in [st : {"none", "stored", "gone"}, cred : Credentials \cup {"none"}, expires : Int]
  /\ ticket.st # "none" => ticket.cred \in KnoxTokens
  /\ term \in [Terminals -> TermRows]
  /\ \A s \in Terminals : term[s].noted = Unnoted \/ term[s].noted \in Nat

(* The socket that used the ticket up: beyond the delete, or closed after. *)
UsedRow(x) == x.at \in {"recheck", "row", "start", "open"} \/ x.code \in {1000, 4003, 4502}
Used(s) == UsedRow(term[s])

TicketOnce ==
  /\ \A s \in Terminals : term[s].at # "none" => ticket.st # "none"
  /\ \A s \in Terminals : Used(s) => ticket.st = "gone"
  /\ \A s, t \in Terminals : Used(s) /\ Used(t) => s = t

(* The audit row is written between the check and the start. *)
ShellRow(x) ==
  /\ x.at \in {"none", "read", "recheck", "row"} => x.rows = 0 /\ ~x.started
  /\ x.at = "start" => x.rows = 1
  /\ x.at = "open" /\ ~x.started => x.rows = 0
  /\ x.started => x.rows = 1
RowThenShell == \A s \in Terminals : ShellRow(term[s])

(* The limits kept in a bound row are those of the policy. *)
LimitsAreKept ==
  \A c \in Credentials :
    /\ trust[c].active <= clock
    /\ trust[c].bound => /\ trust[c].idleEnd = trust[c].active + policy.idle
                         /\ trust[c].lifeEnd = trust[c].created + policy.life

(* A sign-in that a check at t found good. *)
Backs(x, p, t) ==
  /\ x.bound /\ x.st # "none"
  /\ x.st = "revoked" => x.at >= t
  /\ x.st = "open" => x.active + p.idle > t /\ x.created + p.life > t

RelayRow(x) == x.at \in {"row", "start", "open"}
RelayedIsBacked ==
  \A s \in Terminals :
    RelayRow(term[s]) => /\ term[s].checkedAt <= clock
                         /\ Backs(trust[ticket.cred], policy, term[s].checkedAt)

TermInv ==
  /\ SessionInv /\ TermTypes /\ TicketOnce /\ RowThenShell /\ LimitsAreKept /\ RelayedIsBacked

(* What the terminals need of a step of the sign-ins. *)
BacksStay ==
  /\ SessionInv' /\ LimitsAreKept' /\ clock <= clock' /\ policy' = policy
  /\ \A c \in Credentials, t \in Nat :
       t <= clock /\ Backs(trust[c], policy, t) => Backs(trust'[c], policy, t)

(* How the row of a sign-in may change meanwhile. *)
RowMoves(c) ==
  \/ trust'[c] = trust[c]
  \/ /\ trust[c].st = "open" /\ trust'[c].st = "revoked" /\ trust'[c].at = clock
     /\ trust'[c].bound = trust[c].bound
     /\ trust'[c].created = trust[c].created /\ trust'[c].active = trust[c].active
     /\ trust'[c].lifeEnd = trust[c].lifeEnd /\ trust'[c].idleEnd = trust[c].idleEnd
  \/ /\ trust'[c].st = "open" /\ trust[c].st # "revoked"
     /\ trust[c].bound => trust'[c].bound
     /\ trust[c].st = "open" => trust'[c].created = trust[c].created /\ trust'[c].active >= trust[c].active
     /\ trust'[c].active <= clock
     /\ trust'[c].lifeEnd = trust'[c].created + policy.life /\ trust'[c].idleEnd = trust'[c].active + policy.idle

LEMMA MovesBack ==
  ASSUME TermInv, SessionInv', UNCHANGED policy, clock <= clock', \A c \in Credentials : RowMoves(c)
  PROVE  BacksStay
<1>0. SessionTypes /\ SessionTypes'
  BY DEF TermInv, SessionInv
<1>1. clock \in Nat /\ clock' \in Nat /\ policy.idle \in Nat /\ policy.life \in Nat
  BY <1>0, PolicyLimits DEF SessionTypes
<1>2. ASSUME NEW c \in Credentials
      PROVE  /\ trust[c].st \in {"none", "open", "revoked"}
             /\ trust[c].created \in Nat /\ trust[c].active \in Nat /\ trust[c].at \in Nat
             /\ trust'[c].st \in {"none", "open", "revoked"}
             /\ trust'[c].created \in Nat /\ trust'[c].active \in Nat /\ trust'[c].at \in Nat
  <2>1. trust[c] \in TrustRows /\ trust'[c] \in TrustRows
    BY <1>0 DEF SessionTypes
  <2> QED
    BY <2>1 DEF TrustRows
<1>3. LimitsAreKept'
  <2> SUFFICES ASSUME NEW c \in Credentials
               PROVE  /\ trust'[c].active <= clock'
                      /\ trust'[c].bound => /\ trust'[c].idleEnd = trust'[c].active + policy.idle
                                            /\ trust'[c].lifeEnd = trust'[c].created + policy.life
    BY DEF LimitsAreKept
  <2>1. /\ trust[c].active <= clock
        /\ trust[c].bound => /\ trust[c].idleEnd = trust[c].active + policy.idle
                             /\ trust[c].lifeEnd = trust[c].created + policy.life
    BY DEF TermInv, LimitsAreKept
  <2>2. RowMoves(c)
    OBVIOUS
  <2> QED
    BY <1>1, <1>2, <2>1, <2>2 DEF RowMoves
<1>4. ASSUME NEW c \in Credentials, NEW t \in Nat, t <= clock, Backs(trust[c], policy, t)
      PROVE  Backs(trust'[c], policy, t)
  <2>1. RowMoves(c)
    OBVIOUS
  <2> QED
    BY <1>1, <1>2, <1>4, <2>1 DEF RowMoves, Backs
<1> QED
  BY <1>3, <1>4 DEF BacksStay

LEMMA RevokeRowMoves ==
  ASSUME TermInv, NEW c \in Credentials, Open(c), RevokeRow(c)
  PROVE  \A d \in Credentials : RowMoves(d)
<1>1. SessionTypes /\ {c} \subseteq Credentials /\ Revoke({c}, TokensBehind(c))
  BY DEF TermInv, SessionInv, RevokeRow
<1>2. /\ trust'[c].st = "revoked" /\ trust'[c].at = clock
      /\ trust'[c].bound = trust[c].bound
      /\ trust'[c].created = trust[c].created /\ trust'[c].active = trust[c].active
      /\ trust'[c].lifeEnd = trust[c].lifeEnd /\ trust'[c].idleEnd = trust[c].idleEnd
      /\ \A d \in Credentials \ {c} : trust'[d] = trust[d]
  BY <1>1, RevokeFields
<1> QED
  BY <1>2 DEF RowMoves, Open

OpenMove(c, new) ==
  /\ new.st = "open" /\ trust[c].st # "revoked"
  /\ trust[c].bound => new.bound
  /\ trust[c].st = "open" => new.created = trust[c].created /\ new.active >= trust[c].active
  /\ new.active <= clock
  /\ new.lifeEnd = new.created + policy.life /\ new.idleEnd = new.active + policy.idle

LEMMA OneRowMoves ==
  ASSUME TermInv, NEW c \in Credentials, NEW new, trust' = [trust EXCEPT ![c] = new], OpenMove(c, new)
  PROVE  \A d \in Credentials : RowMoves(d)
<1>1. trust'[c] = new /\ \A d \in Credentials \ {c} : trust'[d] = trust[d]
  BY DEF TermInv, SessionInv, SessionTypes
<1> QED
  BY <1>1 DEF RowMoves, OpenMove

(* The steps of the sign-ins that terminals live with. *)
LEMMA SignInBacks ==
  ASSUME TermInv,
         \/ SessionTick
         \/ \E c \in Credentials : CredentialChanges(c) \/ revoke_session(c)
         \/ \E c \in KnoxTokens, r \in Clients, i \in Addresses : ensure_request_session(r, c, i)
         \/ \E r \in Clients : record_activity(r) \/ RequestEnds(r)
         \/ SessionSweep
         \/ \E c \in Credentials, typed \in Nat : record_terminal_activity(c, typed)
         \/ UNCHANGED sessionVars
  PROVE  BacksStay
<1>0. /\ SessionInv /\ SessionTypes /\ LimitsAreKept /\ clock \in Nat
      /\ KnoxTokens \subseteq Credentials
  BY DEF TermInv, SessionInv, SessionTypes, Credentials
<1>1. CASE SessionTick
  <2>1. clock' = clock + 1 /\ UNCHANGED <<policy, trust>> /\ SessionInv'
    BY <1>0, <1>1, QuietSteps DEF SessionTick
  <2> QED
    BY <1>0, <2>1, MovesBack DEF RowMoves
<1>2. CASE \/ \E c \in Credentials : CredentialChanges(c)
           \/ \E r \in Clients : RequestEnds(r)
           \/ SweepLists \/ SweepOrphans
           \/ UNCHANGED sessionVars
  <2>1. UNCHANGED <<clock, policy, trust>>
    BY <1>2 DEF CredentialChanges, RequestEnds, SweepLists, SweepOrphans, sessionVars
  <2>2. SessionInv'
    BY <1>0, <1>2, QuietSteps, RequestSteps, SweepSteps DEF SessionSweep
  <2> QED
    BY <1>0, <2>1, <2>2, MovesBack DEF RowMoves
<1>3. ASSUME NEW c \in Credentials, revoke_session(c) PROVE BacksStay
  <2> DEFINE rows == {d \in {c} : Open(d)}
  <2>1. Open(c) /\ Administers({c}, TokensBehind(c))
    BY <1>3 DEF revoke_session
  <2>2. rows = {c}
    BY <2>1
  <2>3. Revoke(rows, TokensBehind(c)) /\ UNCHANGED <<clock, policy>>
    BY <2>1 DEF Administers
  <2> HIDE DEF rows
  <2>4. RevokeRow(c)
    BY <2>2, <2>3 DEF RevokeRow
  <2>5. SessionInv'
    BY <1>0, <1>3, PeopleRevoke
  <2> QED
    BY <1>0, <2>1, <2>3, <2>4, <2>5, RevokeRowMoves, MovesBack
<1>4. ASSUME NEW c \in Credentials, SweepRow(c) PROVE BacksStay
  <2>1. /\ UNCHANGED <<clock, policy>>
        /\ (Open(c) /\ RevokeRow(c)) \/ trust' = trust
    BY <1>4 DEF SweepRow, SweepRowIf
  <2>2. \A d \in Credentials : RowMoves(d)
    BY <2>1, RevokeRowMoves DEF RowMoves
  <2>3. SessionInv'
    BY <1>0, <1>4, SweepSteps DEF SessionSweep
  <2> QED
    BY <1>0, <2>1, <2>2, <2>3, MovesBack
<1>5. ASSUME NEW c \in KnoxTokens, NEW r \in Clients, NEW i \in Addresses, ensure_request_session(r, c, i)
      PROVE  BacksStay
  <2>0. c \in Credentials
    BY <1>0
  <2>1. PICK new \in TrustRows :
           /\ trust' = [trust EXCEPT ![c] = new]
           /\ new.st = "open" /\ new.bound
           /\ trust[c].st # "revoked"
           /\ trust[c].st # "none" => new.created = trust[c].created /\ new.active = trust[c].active
           /\ trust[c].st = "none" => new.created = clock /\ new.active = clock
           /\ new.lifeEnd = new.created + policy.life /\ new.idleEnd = new.active + policy.idle
    BY <1>0, <1>5, <2>0, AdmittedRow
  <2>2. UNCHANGED <<clock, policy>>
    BY <1>5 DEF ensure_request_session
  <2>3. trust[c].active \in Nat /\ trust[c].active <= clock
    BY <1>0, <2>0, RowFields DEF LimitsAreKept
  <2>4. OpenMove(c, new)
    <3>1. trust[c].st \in {"none", "open", "revoked"}
      BY <1>0, <2>0, RowFields
    <3> QED
      BY <1>0, <2>1, <2>3, <3>1 DEF OpenMove
  <2>6. \A d \in Credentials : RowMoves(d)
    BY <2>0, <2>1, <2>4, OneRowMoves
  <2>5. SessionInv'
    BY <1>0, <1>5, <2>0, RequestSteps
  <2> QED
    BY <1>0, <2>2, <2>5, <2>6, MovesBack
<1>6. ASSUME NEW r \in Clients, record_activity(r) PROVE BacksStay
  <2> DEFINE c == request[r].cred
             new == Refreshed([trust[c] EXCEPT !.active = clock, !.st = "open"], policy)
  <2>1. /\ c \in Credentials /\ trust[c] \in TrustRows /\ policy \in SessionPolicies
        /\ \/ trust' = trust
           \/ trust[c].st = "open" /\ trust' = [trust EXCEPT ![c] = new]
        /\ UNCHANGED <<clock, policy>>
    BY <1>0, <1>6 DEF record_activity, ActivityOn, Open, SessionTypes
  <2>2. trust[c].st = "open" =>
          /\ new.st = "open" /\ new.bound = trust[c].bound
          /\ new.created = trust[c].created /\ new.active = clock
          /\ new.lifeEnd = trust[c].created + policy.life /\ new.idleEnd = clock + policy.idle
    <3>1. trust[c] \in TrustRows /\ clock \in Nat /\ policy \in SessionPolicies
      BY <1>0, <2>1
    <3> HIDE DEF c
    <3> QED
      BY <3>1, ActiveRow
  <2> HIDE DEF new, c
  <2>3. trust[c].active \in Nat /\ trust[c].active <= clock
    BY <1>0, <2>1, RowFields DEF LimitsAreKept
  <2>4. \A d \in Credentials : RowMoves(d)
    <3>1. CASE trust' = trust
      BY <3>1 DEF RowMoves
    <3>2. CASE trust[c].st = "open" /\ trust' = [trust EXCEPT ![c] = new]
      <4>1. OpenMove(c, new)
        BY <1>0, <2>2, <2>3, <3>2 DEF OpenMove
      <4> QED
        BY <2>1, <3>2, <4>1, OneRowMoves
    <3> QED
      BY <2>1, <3>1, <3>2
  <2>5. SessionInv'
    BY <1>0, <1>6, RequestSteps
  <2> QED
    BY <1>0, <2>1, <2>4, <2>5, MovesBack
<1>7. ASSUME NEW c \in Credentials, NEW typed \in Nat, record_terminal_activity(c, typed) PROVE BacksStay
  <2>1. /\ Open(c) /\ typed <= clock /\ UNCHANGED <<clock, policy>>
        /\ \/ RevokeRow(c)
           \/ trust' = trust
           \/ \E new \in TrustRows :
                /\ trust' = [trust EXCEPT ![c] = new]
                /\ new.st = "open" /\ new.bound = trust[c].bound
                /\ new.created = trust[c].created /\ new.active = typed /\ typed > trust[c].active
                /\ new.lifeEnd = new.created + policy.life /\ new.idleEnd = new.active + policy.idle
    BY <1>0, <1>7, TerminalActivityRow
  <2>2. trust[c].active \in Nat
    BY <1>0, RowFields
  <2>3. \A d \in Credentials : RowMoves(d)
    <3>1. CASE RevokeRow(c)
      BY <2>1, <3>1, RevokeRowMoves
    <3>2. CASE trust' = trust
      BY <3>2 DEF RowMoves
    <3>3. ASSUME NEW new \in TrustRows,
                 trust' = [trust EXCEPT ![c] = new],
                 new.st = "open" /\ new.bound = trust[c].bound,
                 new.created = trust[c].created /\ new.active = typed /\ typed > trust[c].active,
                 new.lifeEnd = new.created + policy.life /\ new.idleEnd = new.active + policy.idle
          PROVE  \A d \in Credentials : RowMoves(d)
      <4>1. OpenMove(c, new)
        BY <1>0, <2>1, <2>2, <3>3 DEF OpenMove, Open
      <4> QED
        BY <3>3, <4>1, OneRowMoves
    <3> QED
      BY <2>1, <3>1, <3>2, <3>3
  <2>4. SessionInv'
    BY <1>0, <1>7, TerminalActivitySafe
  <2> QED
    BY <1>0, <2>1, <2>3, <2>4, MovesBack
<1> QED
  BY <1>1, <1>2, <1>3, <1>4, <1>5, <1>6, <1>7 DEF SessionSweep

----------------------------------------------------------------------------
(* Moves of one terminal.                                                   *)

NotedOK(x) == x.noted = Unnoted \/ x.noted \in Nat

Moves(s, new) ==
  /\ new \in TermRows /\ NotedOK(new) /\ ShellRow(new)
  /\ term' = [term EXCEPT ![s] = new]
  /\ ticket.st # "none"
  /\ ticket' = ticket \/ ticket' = [ticket EXCEPT !.st = "gone"]
  /\ \/ ~UsedRow(new)
     \/ UsedRow(term[s]) /\ ticket' = ticket
     \/ ticket.st = "stored" /\ ticket' = [ticket EXCEPT !.st = "gone"]
  /\ RelayRow(new) => /\ new.checkedAt <= clock
                      /\ Backs(trust'[ticket.cred], policy, new.checkedAt)

LEMMA TermMove ==
  ASSUME TermInv, BacksStay, NEW s \in Terminals, NEW new, Moves(s, new)
  PROVE  TermInv'
<1> USE DEF Moves
<1>0. /\ term'[s] = new /\ \A t \in Terminals \ {s} : term'[t] = term[t]
      /\ term' \in [Terminals -> TermRows]
  BY DEF TermInv, TermTypes
<1>1. /\ ticket' \in [st : {"none", "stored", "gone"}, cred : Credentials \cup {"none"}, expires : Int]
      /\ ticket'.cred = ticket.cred /\ ticket'.st \in {ticket.st, "gone"}
      /\ ticket'.st # "none"
      /\ (ticket' # ticket => ticket'.st = "gone")
      /\ (ticket.st = "gone" => ticket'.st = "gone")
  BY DEF TermInv, TermTypes
<1>2. TermTypes'
  BY <1>0, <1>1 DEF TermInv, TermTypes, NotedOK
<1>3. TicketOnce'
  BY <1>0, <1>1 DEF TermInv, TicketOnce, Used
<1>4. RowThenShell'
  BY <1>0 DEF TermInv, RowThenShell
<1>5. RelayedIsBacked'
  <2> SUFFICES ASSUME NEW t \in Terminals, RelayRow(term'[t])
               PROVE  term'[t].checkedAt <= clock' /\ Backs(trust'[ticket.cred], policy, term'[t].checkedAt)
    BY <1>1 DEF RelayedIsBacked, BacksStay
  <2>1. clock \in Nat /\ clock' \in Nat /\ clock <= clock'
    BY DEF TermInv, BacksStay, SessionInv, SessionTypes
  <2>2. term'[t].checkedAt \in Nat
    BY <1>0 DEF TermRows
  <2>3. term'[t].checkedAt <= clock /\ Backs(trust'[ticket.cred], policy, term'[t].checkedAt)
    <3>1. CASE t = s
      BY <1>0, <3>1
    <3>2. CASE t # s
      <4>1. RelayRow(term[t]) /\ Used(t) /\ term'[t] = term[t]
        BY <1>0, <3>2 DEF RelayRow, Used, UsedRow
      <4>2. ticket.st = "gone" /\ ticket.cred \in Credentials
        BY <4>1 DEF TermInv, TermTypes, TicketOnce, Credentials
      <4>3. term[t].checkedAt <= clock /\ Backs(trust[ticket.cred], policy, term[t].checkedAt)
        BY <4>1 DEF TermInv, RelayedIsBacked
      <4> QED
        BY <2>2, <4>1, <4>2, <4>3 DEF BacksStay
    <3> QED
      BY <3>1, <3>2
  <2> QED
    BY <2>1, <2>2, <2>3
<1> QED
  BY <1>2, <1>3, <1>4, <1>5 DEF TermInv, BacksStay

LEMMA TermStay ==
  ASSUME TermInv, BacksStay, term' = term,
         ticket' \in [st : {"none", "stored", "gone"}, cred : Credentials \cup {"none"}, expires : Int],
         ticket'.st # "none" => ticket'.cred \in KnoxTokens,
         ticket.st # "none" => ticket'.st # "none",
         ticket.st = "gone" => ticket'.st = "gone" /\ ticket'.cred = ticket.cred
  PROVE  TermInv'
<1>1. TermTypes' /\ TicketOnce' /\ RowThenShell'
  BY DEF TermInv, TermTypes, TicketOnce, RowThenShell, Used
<1>2. RelayedIsBacked'
  <2> SUFFICES ASSUME NEW t \in Terminals, RelayRow(term[t])
               PROVE  term[t].checkedAt <= clock' /\ Backs(trust'[ticket'.cred], policy, term[t].checkedAt)
    BY DEF RelayedIsBacked, BacksStay
  <2>1. clock \in Nat /\ clock' \in Nat /\ clock <= clock'
    BY DEF TermInv, BacksStay, SessionInv, SessionTypes
  <2>2. term[t].checkedAt \in Nat
    BY DEF TermInv, TermTypes, TermRows
  <2>3. Used(t)
    BY DEF RelayRow, Used, UsedRow
  <2>4. ticket.st = "gone" /\ ticket.cred \in Credentials /\ ticket'.cred = ticket.cred
    BY <2>3 DEF TermInv, TermTypes, TicketOnce, Credentials
  <2>5. term[t].checkedAt <= clock /\ Backs(trust[ticket.cred], policy, term[t].checkedAt)
    BY DEF TermInv, RelayedIsBacked
  <2> QED
    BY <2>1, <2>2, <2>4, <2>5 DEF BacksStay
<1> QED
  BY <1>1, <1>2 DEF TermInv, BacksStay

(* A socket that is shut. *)
LEMMA ShutMove ==
  ASSUME TermInv, BacksStay, NEW s \in Terminals, NEW code \in Nat, term' = Shuts(s, code),
         ticket.st # "none", ticket' = ticket \/ ticket' = [ticket EXCEPT !.st = "gone"],
         code \notin {1000, 4003, 4502} \/ (UsedRow(term[s]) /\ ticket' = ticket)
  PROVE  TermInv'
<1> DEFINE new == [term[s] EXCEPT !.at = "gone", !.code = code]
<1>1. term[s] \in TermRows /\ ShellRow(term[s]) /\ NotedOK(term[s])
  BY DEF TermInv, TermTypes, RowThenShell, NotedOK
<1>2. /\ new \in TermRows /\ new.at = "gone" /\ new.code = code
      /\ new.started = term[s].started /\ new.rows = term[s].rows /\ new.noted = term[s].noted
  BY <1>1 DEF TermRows
<1>3. term' = [term EXCEPT ![s] = new]
  BY DEF Shuts, TermInv, TermTypes
<1> HIDE DEF new
<1>4. NotedOK(new) /\ ShellRow(new) /\ ~RelayRow(new)
  BY <1>1, <1>2 DEF NotedOK, ShellRow, RelayRow
<1>5. ~UsedRow(new) \/ (UsedRow(term[s]) /\ ticket' = ticket)
  BY <1>2 DEF UsedRow
<1>6. Moves(s, new)
  BY <1>2, <1>3, <1>4, <1>5 DEF Moves
<1> QED
  BY <1>6, TermMove

(* A check that a sign-in passes backs the socket until the next one. *)
LEMMA RecheckBacks ==
  ASSUME TermInv, NEW c \in Credentials, NEW typed \in Nat, record_terminal_activity(c, typed), trust'[c].st = "open"
  PROVE  Backs(trust'[c], policy, clock)
<1>1. SessionTypes /\ trust \in [Credentials -> TrustRows] /\ clock \in Nat
  BY DEF TermInv, SessionInv, SessionTypes
<1>2. /\ Open(c) /\ trust[c].bound
      /\ \/ RevokeRow(c)
         \/ trust' = trust /\ ~Expired(trust[c], policy, clock)
         \/ \E new \in TrustRows :
              /\ trust' = [trust EXCEPT ![c] = new] /\ new.st = "open" /\ new.bound = trust[c].bound
              /\ ~Expired(new, policy, clock)
  BY <1>1, TerminalActivityRow
<1>3. CASE RevokeRow(c)
  <2>1. {c} \subseteq Credentials /\ Revoke({c}, TokensBehind(c))
    BY <1>3 DEF RevokeRow
  <2>2. trust'[c].st = "revoked"
    BY <1>1, <2>1, RevokeFields
  <2> QED
    BY <2>2
<1>4. ASSUME NEW x \in TrustRows, x.st = "open", x.bound, ~Expired(x, policy, clock)
      PROVE  Backs(x, policy, clock)
  <2>1. x.created \in Nat /\ x.active \in Nat /\ policy.idle \in Nat /\ policy.life \in Nat
    BY <1>1, PolicyLimits DEF TrustRows, SessionTypes
  <2> QED
    BY <1>1, <1>4, <2>1 DEF Backs, Expired
<1>5. CASE trust' = trust /\ ~Expired(trust[c], policy, clock)
  BY <1>1, <1>2, <1>4, <1>5
<1>6. ASSUME NEW new \in TrustRows, trust' = [trust EXCEPT ![c] = new], new.st = "open",
             new.bound = trust[c].bound, ~Expired(new, policy, clock)
      PROVE  Backs(trust'[c], policy, clock)
  <2>1. trust'[c] = new /\ new.bound
    BY <1>1, <1>2, <1>6
  <2> QED
    BY <1>4, <1>6, <2>1
<1> QED
  BY <1>2, <1>3, <1>5, <1>6

LEMMA RecheckMove ==
  ASSUME TermInv, NEW s \in Terminals, NEW new,
         term[s].at \in {"recheck", "open", "start"}, ticket' = ticket,
         Recheck(s, [term EXCEPT ![s] = new]),
         new \in TermRows, NotedOK(new), ShellRow(new), RelayRow(new), new.checkedAt = clock
  PROVE  TermInv'
<1>1. UsedRow(term[s]) /\ ticket.st = "gone" /\ ticket.cred \in Credentials /\ NotedOK(term[s])
  BY DEF TermInv, TermTypes, TicketOnce, UsedRow, Used, Credentials, NotedOK
<1>2. UNCHANGED sessionVars => BacksStay
  BY SignInBacks
<1>3. CASE SessionsStay /\ term' = Shuts(s, 4401)
  BY <1>1, <1>2, <1>3, ShutMove DEF SessionsStay
<1> DEFINE c == ticket.cred
           typed == IF term[s].noted = Unnoted THEN trust[c].active ELSE term[s].noted
<1>4. CASE /\ record_terminal_activity(c, typed)
           /\ term' = IF trust'[c].st # "open" THEN Shuts(s, 4401)
                      ELSE IF standing THEN [term EXCEPT ![s] = new] ELSE Shuts(s, 4003)
  <2>0. SessionTypes /\ clock \in Nat
    BY DEF TermInv, SessionInv, SessionTypes
  <2>1. typed \in Nat
    BY <1>1, <2>0, RowFields DEF NotedOK
  <2> HIDE DEF typed
  <2>2. BacksStay
    BY <1>1, <1>4, <2>1, SignInBacks
  <2>3. CASE term' = Shuts(s, 4401)
    BY <1>1, <2>2, <2>3, ShutMove
  <2>4. CASE term' = Shuts(s, 4003)
    BY <1>1, <2>2, <2>4, ShutMove
  <2>5. CASE term' = [term EXCEPT ![s] = new] /\ trust'[c].st = "open"
    <3>1. Backs(trust'[c], policy, clock)
      BY <1>1, <1>4, <2>1, <2>5, RecheckBacks
    <3>2. Moves(s, new)
      BY <1>1, <2>0, <2>5, <3>1 DEF Moves
    <3> QED
      BY <2>2, <3>2, TermMove
  <2> QED
    BY <1>4, <2>3, <2>4, <2>5
<1> QED
  BY <1>3, <1>4 DEF Recheck

LEMMA SocketSteps ==
  ASSUME TermInv, NEW s \in Terminals,
         \/ ConsumeReads(s) \/ consume_ticket(s) \/ StartRow(s) \/ StartTerminal(s)
         \/ TerminalActivity(s) \/ TerminalLeaves(s)
  PROVE  TermInv'
<1>0. /\ term[s] \in TermRows /\ ShellRow(term[s]) /\ NotedOK(term[s]) /\ clock \in Nat
      /\ term \in [Terminals -> TermRows]
  BY DEF TermInv, TermTypes, RowThenShell, NotedOK, SessionInv, SessionTypes
<1>1. UNCHANGED sessionVars
  BY DEF ConsumeReads, consume_ticket, ConsumeIf, StartRow, StartTerminal, TerminalActivity, TerminalLeaves, SessionsStay
<1>2. BacksStay /\ UNCHANGED <<clock, trust, policy>>
  BY <1>1, SignInBacks DEF sessionVars
<1>3. ticket.st # "none"
  BY DEF ConsumeReads, consume_ticket, ConsumeIf, StartRow, StartTerminal, TerminalActivity, TerminalLeaves,
         TermAt, TermInv, TicketOnce
<1>4. RelayRow(term[s]) => /\ term[s].checkedAt <= clock /\ UsedRow(term[s])
                           /\ Backs(trust'[ticket.cred], policy, term[s].checkedAt)
  BY <1>2 DEF TermInv, RelayedIsBacked, RelayRow, UsedRow
<1>5. CASE ConsumeReads(s)
  <2> DEFINE new == [term[s] EXCEPT !.at = "read"]
  <2>1. ticket' = ticket /\ term[s].at = "none"
    BY <1>5 DEF ConsumeReads, TermAt
  <2>2. CASE term' = Shuts(s, 4401)
    BY <1>2, <1>3, <2>1, <2>2, ShutMove
  <2>3. CASE term' = [term EXCEPT ![s] = new]
    <3>1. /\ new \in TermRows /\ new.at = "read" /\ new.code = term[s].code /\ new.noted = term[s].noted
          /\ new.started = term[s].started /\ new.rows = term[s].rows
      BY <1>0 DEF TermRows
    <3> HIDE DEF new
    <3>2. NotedOK(new) /\ ShellRow(new) /\ ~RelayRow(new) /\ (UsedRow(new) => UsedRow(term[s]))
      BY <1>0, <2>1, <3>1 DEF NotedOK, ShellRow, RelayRow, UsedRow
    <3>3. Moves(s, new)
      BY <1>3, <2>1, <2>3, <3>1, <3>2 DEF Moves
    <3> QED
      BY <1>2, <3>3, TermMove
  <2> QED
    BY <1>5, <2>2, <2>3 DEF ConsumeReads
<1>6. CASE consume_ticket(s)
  <2> DEFINE new == [term[s] EXCEPT !.at = "recheck"]
  <2>1. term[s].at = "read" /\ (ticket' = ticket \/ ticket' = [ticket EXCEPT !.st = "gone"])
    BY <1>6 DEF consume_ticket, ConsumeIf, TermAt
  <2>2. CASE term' = Shuts(s, 4401)
    BY <1>2, <1>3, <2>1, <2>2, ShutMove
  <2>3. CASE /\ term' = [term EXCEPT ![s] = new] /\ ticket.st = "stored"
             /\ ticket' = [ticket EXCEPT !.st = "gone"]
    <3>1. /\ new \in TermRows /\ new.at = "recheck" /\ new.noted = term[s].noted
          /\ new.started = term[s].started /\ new.rows = term[s].rows
      BY <1>0 DEF TermRows
    <3> HIDE DEF new
    <3>2. NotedOK(new) /\ ShellRow(new) /\ ~RelayRow(new)
      BY <1>0, <2>1, <3>1 DEF NotedOK, ShellRow, RelayRow
    <3>3. Moves(s, new)
      BY <1>3, <2>3, <3>1, <3>2 DEF Moves
    <3> QED
      BY <1>2, <3>3, TermMove
  <2> QED
    BY <1>6, <2>2, <2>3 DEF consume_ticket, ConsumeIf
<1>7. CASE StartRow(s)
  <2> DEFINE new == [term[s] EXCEPT !.at = "start", !.rows = 1]
  <2>1. /\ ticket' = ticket
        /\ term[s].at = "row" \/ (term[s].at = "open" /\ ~term[s].started)
    BY <1>7 DEF StartRow, TermAt
  <2>2. RelayRow(term[s]) /\ UsedRow(term[s]) /\ term[s].rows = 0 /\ ~term[s].started
    BY <1>0, <2>1 DEF RelayRow, UsedRow, ShellRow
  <2>3. CASE term' = Shuts(s, 4502)
    BY <1>2, <1>3, <2>1, <2>2, <2>3, ShutMove
  <2>4. CASE term' = term
    BY <1>2, <2>1, <2>4, TermStay DEF TermInv, TermTypes
  <2>5. CASE term' = [term EXCEPT ![s].at = "start", ![s].rows = @ + 1]
    <3>1. term[s].rows + 1 = 1
      BY <2>2
    <3>2. term' = [term EXCEPT ![s] = new]
      BY <1>0, <2>5, <3>1
    <3>3. /\ new \in TermRows /\ new.at = "start" /\ new.noted = term[s].noted /\ new.checkedAt = term[s].checkedAt
          /\ new.started = term[s].started /\ new.rows = 1
      BY <1>0, <2>2 DEF TermRows
    <3> HIDE DEF new
    <3>4. NotedOK(new) /\ ShellRow(new)
      BY <1>0, <2>2, <3>3 DEF NotedOK, ShellRow
    <3>5. Moves(s, new)
      BY <1>3, <1>4, <2>1, <2>2, <3>2, <3>3, <3>4 DEF Moves
    <3> QED
      BY <1>2, <3>5, TermMove
  <2> QED
    BY <1>7, <2>3, <2>4, <2>5 DEF StartRow
<1>8. CASE StartTerminal(s)
  <2> DEFINE new == [term[s] EXCEPT !.at = "open", !.started = TRUE]
  <2>1. /\ ticket' = ticket /\ term[s].at = "start" /\ term' = [term EXCEPT ![s].at = "open", ![s].started = TRUE]
    BY <1>8 DEF StartTerminal, TermAt
  <2>2. RelayRow(term[s]) /\ UsedRow(term[s]) /\ term[s].rows = 1
    BY <1>0, <2>1 DEF RelayRow, UsedRow, ShellRow
  <2>3. term' = [term EXCEPT ![s] = new]
    BY <1>0, <2>1
  <2>4. /\ new \in TermRows /\ new.at = "open" /\ new.noted = term[s].noted /\ new.checkedAt = term[s].checkedAt
        /\ new.started = TRUE /\ new.rows = term[s].rows
    BY <1>0 DEF TermRows
  <2> HIDE DEF new
  <2>5. NotedOK(new) /\ ShellRow(new)
    BY <1>0, <2>2, <2>4 DEF NotedOK, ShellRow
  <2>6. Moves(s, new)
    BY <1>3, <1>4, <2>1, <2>2, <2>3, <2>4, <2>5 DEF Moves
  <2> QED
    BY <1>2, <2>6, TermMove
<1>9. CASE TerminalActivity(s)
  <2> DEFINE new == [term[s] EXCEPT !.noted = clock]
  <2>1. /\ ticket' = ticket /\ term[s].at = "open" /\ term' = [term EXCEPT ![s].noted = clock]
    BY <1>9 DEF TerminalActivity, TermAt
  <2>2. RelayRow(term[s]) /\ UsedRow(term[s])
    BY <2>1 DEF RelayRow, UsedRow
  <2>3. term' = [term EXCEPT ![s] = new]
    BY <1>0, <2>1
  <2>4. /\ new \in TermRows /\ new.at = term[s].at /\ new.noted = clock /\ new.checkedAt = term[s].checkedAt
        /\ new.started = term[s].started /\ new.rows = term[s].rows
    BY <1>0 DEF TermRows
  <2> HIDE DEF new
  <2>5. NotedOK(new) /\ ShellRow(new)
    BY <1>0, <2>4 DEF NotedOK, ShellRow
  <2>6. Moves(s, new)
    BY <1>3, <1>4, <2>1, <2>2, <2>3, <2>4, <2>5 DEF Moves
  <2> QED
    BY <1>2, <2>6, TermMove
<1>10. CASE TerminalLeaves(s)
  <2>1. ticket' = ticket /\ term[s].at = "open" /\ term' = Shuts(s, 1000)
    BY <1>10 DEF TerminalLeaves, TermAt
  <2>2. UsedRow(term[s])
    BY <2>1 DEF UsedRow
  <2> QED
    BY <1>2, <1>3, <2>1, <2>2, ShutMove
<1> QED
  BY <1>5, <1>6, <1>7, <1>8, <1>9, <1>10

LEMMA TermStep == ASSUME TermInv, [NextTerminals]_<<sessionVars, termVars>> PROVE TermInv'
<1>0. /\ term \in [Terminals -> TermRows] /\ SessionTypes /\ clock \in Nat
      /\ ticket \in [st : {"none", "stored", "gone"}, cred : Credentials \cup {"none"}, expires : Int]
      /\ (ticket.st # "none" => ticket.cred \in KnoxTokens)
  BY DEF TermInv, TermTypes, SessionInv, SessionTypes
<1>1. CASE TerminalTick
  <2>1. BacksStay
    BY <1>1, SignInBacks DEF TerminalTick
  <2>2. term' = term /\ (ticket' = ticket \/ (ticket.st = "stored" /\ ticket' = [ticket EXCEPT !.st = "gone"]))
    BY <1>1 DEF TerminalTick
  <2> QED
    BY <1>0, <2>1, <2>2, TermStay
<1>2. CASE SignInStep
  <2>1. BacksStay
    BY <1>2, SignInBacks DEF SignInStep
  <2>2. UNCHANGED <<term, ticket>>
    BY <1>2 DEF SignInStep, termVars
  <2> QED
    BY <1>0, <2>1, <2>2, TermStay
<1>3. CASE StandingEnds \/ UNCHANGED <<sessionVars, termVars>>
  <2>1. BacksStay
    BY <1>3, SignInBacks DEF StandingEnds, SessionsStay
  <2>2. UNCHANGED <<term, ticket>>
    BY <1>3 DEF StandingEnds, termVars
  <2> QED
    BY <1>0, <2>1, <2>2, TermStay
<1>4. ASSUME NEW r \in Clients, issue_ticket(r) PROVE TermInv'
  <2>1. BacksStay
    BY <1>4, SignInBacks DEF issue_ticket, SessionsStay
  <2>2. /\ term' = term /\ ticket.st = "none" /\ request[r].cred \in KnoxTokens
        /\ ticket' = [st |-> "stored", cred |-> request[r].cred, expires |-> clock + TicketTicks]
    BY <1>4 DEF issue_ticket
  <2>3. /\ ticket' \in [st : {"none", "stored", "gone"}, cred : Credentials \cup {"none"}, expires : Int]
        /\ ticket'.st = "stored" /\ ticket'.cred \in KnoxTokens
    BY <1>0, <2>2, TerminalConstants DEF Credentials
  <2> QED
    BY <2>1, <2>2, <2>3, TermStay
<1>5. ASSUME NEW s \in Terminals, TerminalConnects(s) PROVE TermInv'
  <2> DEFINE next == IF KindOf[s] = "server" THEN "row" ELSE "open"
             new == [term[s] EXCEPT !.at = next, !.checkedAt = clock]
  <2>1. term[s].at = "recheck" /\ ticket' = ticket
    BY <1>5 DEF TerminalConnects, TermAt
  <2>2. next \in {"row", "open"}
    OBVIOUS
  <2>3. [term EXCEPT ![s].at = next, ![s].checkedAt = clock] = [term EXCEPT ![s] = new]
    BY <1>0
  <2>4. Recheck(s, [term EXCEPT ![s] = new])
    BY <1>5, <2>3 DEF TerminalConnects
  <2>5. term[s] \in TermRows /\ ShellRow(term[s]) /\ NotedOK(term[s])
    BY DEF TermInv, TermTypes, RowThenShell, NotedOK
  <2> HIDE DEF next
  <2>6. /\ new \in TermRows /\ new.at = next /\ new.checkedAt = clock /\ new.noted = term[s].noted
        /\ new.started = term[s].started /\ new.rows = term[s].rows
    BY <1>0, <2>2, <2>5 DEF TermRows
  <2> HIDE DEF new
  <2>7. NotedOK(new) /\ ShellRow(new) /\ RelayRow(new)
    BY <2>1, <2>2, <2>5, <2>6 DEF NotedOK, ShellRow, RelayRow
  <2> QED
    BY <2>1, <2>4, <2>6, <2>7, RecheckMove
<1>6. ASSUME NEW s \in Terminals, _watch_tick(s) PROVE TermInv'
  <2> DEFINE new == [term[s] EXCEPT !.checkedAt = clock, !.noted = Unnoted]
  <2>1. term[s].at \in {"open", "start"} /\ ticket' = ticket
    BY <1>6 DEF _watch_tick
  <2>2. [term EXCEPT ![s].checkedAt = clock, ![s].noted = Unnoted] = [term EXCEPT ![s] = new]
    BY <1>0
  <2>3. Recheck(s, [term EXCEPT ![s] = new])
    BY <1>6, <2>2 DEF _watch_tick
  <2>4. term[s] \in TermRows /\ ShellRow(term[s])
    BY DEF TermInv, TermTypes, RowThenShell
  <2>5. Unnoted \in Int
    BY DEF Unnoted
  <2>6. /\ new \in TermRows /\ new.at = term[s].at /\ new.checkedAt = clock /\ new.noted = Unnoted
        /\ new.started = term[s].started /\ new.rows = term[s].rows
    BY <1>0, <2>4, <2>5 DEF TermRows
  <2> HIDE DEF new
  <2>7. NotedOK(new) /\ ShellRow(new) /\ RelayRow(new)
    BY <2>1, <2>4, <2>6 DEF NotedOK, ShellRow, RelayRow
  <2> QED
    BY <2>1, <2>3, <2>6, <2>7, RecheckMove
<1>7. ASSUME NEW s \in Terminals,
             \/ ConsumeReads(s) \/ consume_ticket(s) \/ StartRow(s) \/ StartTerminal(s)
             \/ TerminalActivity(s) \/ TerminalLeaves(s)
      PROVE  TermInv'
  BY <1>7, SocketSteps
<1> QED
  BY <1>1, <1>2, <1>3, <1>4, <1>5, <1>6, <1>7 DEF NextTerminals

LEMMA InitTermSafe == InitSessions /\ InitTerminals => TermInv
<1> SUFFICES ASSUME InitSessions, InitTerminals PROVE TermInv
  OBVIOUS
<1>1. SessionInv
  BY InitSafe
<1>2. Unnoted \in Int
  BY DEF Unnoted
<1>3. NoTerminal \in TermRows /\ ~UsedRow(NoTerminal) /\ ShellRow(NoTerminal) /\ ~RelayRow(NoTerminal) /\ NotedOK(NoTerminal)
  BY <1>2 DEF NoTerminal, TermRows, UsedRow, ShellRow, RelayRow, NotedOK
<1>4. NoTerminal.at = "none"
  BY DEF NoTerminal
<1>5. /\ \A s \in Terminals : term[s] = NoTerminal
      /\ term \in [Terminals -> TermRows]
      /\ ticket \in [st : {"none", "stored", "gone"}, cred : Credentials \cup {"none"}, expires : Int]
      /\ ticket.st = "none"
  BY <1>3 DEF InitTerminals, NoTicket
<1>6. TermTypes /\ TicketOnce /\ RowThenShell /\ RelayedIsBacked
  BY <1>3, <1>4, <1>5 DEF TermTypes, TicketOnce, Used, RowThenShell, RelayedIsBacked, NotedOK
<1>7. LimitsAreKept
  <2>1. \A c \in Credentials : trust[c].active = 0 /\ trust[c].bound = FALSE
    BY DEF InitSessions, LegacyRow, NoTrust
  <2> QED
    BY <2>1 DEF LimitsAreKept, InitSessions
<1> QED
  BY <1>1, <1>6, <1>7 DEF TermInv

(* The ticketed terminals (tactical_websocket.py): whatever signs in and out,
   is revoked, swept or checked meanwhile, one socket at most uses the ticket
   up, no shell runs without exactly one audit row, and an open socket never
   outlives its sign-in by more than the time since the watcher last asked.  *)
THEOREM TerminalsRestOnSignIns == SpecTerminals => []TerminalsAreBacked
<1>1. InitSessions /\ InitTerminals => TermInv
  BY InitTermSafe
<1>2. TermInv /\ [NextTerminals]_<<sessionVars, termVars>> => TermInv'
  BY TermStep
<1>3. TermInv => TerminalsAreBacked
  <2> SUFFICES ASSUME TermInv PROVE TerminalsAreBacked
    OBVIOUS
  <2> DEFINE users == {s \in Terminals : Relayed(s) \/ term[s].code \in {1000, 4003, 4502}}
  <2>1. \A s, t \in users : s = t
    BY DEF TermInv, TicketOnce, Used, UsedRow, Relayed
  <2>2. Cardinality(users) <= 1
    <3>1. CASE users = {}
      BY <3>1, FS_EmptySet
    <3>2. ASSUME NEW s \in users PROVE Cardinality(users) = 1
      <4>1. users = {s}
        BY <2>1, <3>2
      <4> HIDE DEF users
      <4> QED
        BY <4>1, FS_Singleton
    <3> HIDE DEF users
    <3> QED
      BY <3>1, <3>2, FS_EmptySet
  <2>3. ASSUME NEW s \in Terminals, Relayed(s)
        PROVE  /\ trust[ticket.cred].st # "none"
               /\ trust[ticket.cred].st = "revoked" => trust[ticket.cred].at >= term[s].checkedAt
               /\ Open(ticket.cred) => trust[ticket.cred].idleEnd > term[s].checkedAt
                                       /\ trust[ticket.cred].lifeEnd > term[s].checkedAt
    <3>1. Used(s) /\ RelayRow(term[s])
      BY <2>3 DEF Used, UsedRow, RelayRow, Relayed
    <3>2. ticket.cred \in Credentials
      BY <3>1 DEF TermInv, TicketOnce, TermTypes, Credentials
    <3>3. Backs(trust[ticket.cred], policy, term[s].checkedAt)
      BY <3>1 DEF TermInv, RelayedIsBacked
    <3>4. trust[ticket.cred].bound => /\ trust[ticket.cred].idleEnd = trust[ticket.cred].active + policy.idle
                                      /\ trust[ticket.cred].lifeEnd = trust[ticket.cred].created + policy.life
      BY <3>2 DEF TermInv, LimitsAreKept
    <3> QED
      BY <3>3, <3>4 DEF Backs, Open
  <2>4. \A s \in Terminals : term[s].started => term[s].rows = 1
    BY DEF TermInv, RowThenShell, ShellRow
  <2> QED
    BY <2>2, <2>3, <2>4 DEF TerminalsAreBacked
<1> QED
  BY <1>1, <1>2, <1>3, PTL DEF SpecTerminals
===============================================================================
