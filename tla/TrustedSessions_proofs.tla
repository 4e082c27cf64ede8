------------------------ MODULE TrustedSessions_proofs ------------------------
(* Revocation and expiry of sign-ins, for every number of users, credentials *)
(* and requests and every policy.                                            *)
EXTENDS TrustedSessions, TLAPS

TrustRows ==
  [st : {"none", "open", "revoked"}, created : Nat, active : Nat,
   ip : Addresses \cup {"unknown"}, bound : BOOLEAN, lifeEnd : Nat, idleEnd : Nat, at : Nat]

SessionTypes ==
  /\ clock \in Nat
  /\ policy \in SessionPolicies
  /\ credential \in [Credentials -> {"new", "live", "gone"}]
  /\ trust \in [Credentials -> TrustRows]
  /\ request \in [Clients -> [at : {"idle", "in"}, cred : Credentials \cup {"none"}]]
  /\ \A r \in Clients : request[r].at = "in" => request[r].cred \in Credentials
  /\ ended \subseteq Credentials

(* A row is written for a credential Tactical has accepted, so a row that is
   or was there never belongs to one that is still to be issued.           *)
RowsAreIssued ==
  \A c \in Credentials : trust[c].st # "none" \/ c \in ended => credential[c] # "new"

(* The clean-up works with a cutoff of its start. *)
CutoffIsPast == cleanup.at # "idle" => cleanup.cutoff \in Int /\ cleanup.cutoff <= clock - Retention

SessionInv == SessionTypes /\ RowsAreIssued /\ CutoffIsPast /\ RevokedIsOut

----------------------------------------------------------------------------
(* Rows as the code builds them.                                            *)

LEMMA PolicyLimits == ASSUME NEW p \in SessionPolicies PROVE p.idle \in Nat /\ p.life \in Nat
BY SessionConstants

LEMMA RefreshedRow ==
  ASSUME NEW x \in TrustRows, NEW p \in SessionPolicies
  PROVE  /\ Refreshed(x, p) \in TrustRows
         /\ Refreshed(x, p).st = x.st /\ Refreshed(x, p).bound = x.bound
         /\ Refreshed(x, p).created = x.created /\ Refreshed(x, p).active = x.active
         /\ Refreshed(x, p).lifeEnd = x.created + p.life
         /\ Refreshed(x, p).idleEnd = x.active + p.idle
<1>1. x.created + p.life \in Nat /\ x.active + p.idle \in Nat
  BY PolicyLimits DEF TrustRows
<1> QED
  BY <1>1 DEF Refreshed, TrustRows

LEMMA NoTrustRow == NoTrust \in TrustRows /\ NoTrust.st = "none" /\ NoTrust.bound = FALSE
BY DEF NoTrust, TrustRows

LEMMA LegacyRowFields ==
  LegacyRow \in TrustRows /\ LegacyRow.st = "open" /\ LegacyRow.bound = FALSE
<1>1. (CHOOSE i \in Addresses : TRUE) \in Addresses
  BY SessionConstants
<1> QED
  BY <1>1 DEF LegacyRow, NoTrust, TrustRows

LEMMA DeadRow ==
  ASSUME NEW x \in TrustRows, NEW t \in Nat
  PROVE  LET d == [x EXCEPT !.st = "revoked", !.at = t]
         IN  /\ d \in TrustRows /\ d.st = "revoked" /\ d.at = t /\ d.bound = x.bound
             /\ d.created = x.created /\ d.active = x.active /\ d.lifeEnd = x.lifeEnd /\ d.idleEnd = x.idleEnd
BY DEF TrustRows

(* What a revocation leaves. *)
LEMMA RevokeFields ==
  ASSUME SessionTypes, NEW rows, NEW tokens, rows \subseteq Credentials,
         Revoke(rows, tokens)
  PROVE  /\ trust' \in [Credentials -> TrustRows]
         /\ credential' \in [Credentials -> {"new", "live", "gone"}]
         /\ \A c \in rows : /\ trust'[c].st = "revoked" /\ trust'[c].at = clock
                            /\ trust'[c].bound = trust[c].bound
                            /\ trust'[c].created = trust[c].created /\ trust'[c].active = trust[c].active
                            /\ trust'[c].lifeEnd = trust[c].lifeEnd /\ trust'[c].idleEnd = trust[c].idleEnd
         /\ \A c \in Credentials \ rows : trust'[c] = trust[c]
         /\ \A c \in Credentials : credential'[c] = IF c \in tokens THEN "gone" ELSE credential[c]
         /\ ended' = ended \cup rows
<1> DEFINE Dead(c) == [trust[c] EXCEPT !.st = "revoked", !.at = clock]
<1>1. \A c \in Credentials : /\ Dead(c) \in TrustRows /\ Dead(c).st = "revoked"
                             /\ Dead(c).at = clock /\ Dead(c).bound = trust[c].bound
                             /\ Dead(c).created = trust[c].created /\ Dead(c).active = trust[c].active
                             /\ Dead(c).lifeEnd = trust[c].lifeEnd /\ Dead(c).idleEnd = trust[c].idleEnd
  <2> TAKE c \in Credentials
  <2>1. trust[c] \in TrustRows /\ clock \in Nat
    BY DEF SessionTypes
  <2> QED
    BY <2>1, DeadRow
<1>2. trust' = [c \in Credentials |-> IF c \in rows THEN Dead(c) ELSE trust[c]]
  BY DEF Revoke, Revoked
<1> HIDE DEF Dead
<1>3. \A c \in Credentials : trust[c] \in TrustRows
  BY DEF SessionTypes
<1>4. /\ trust' \in [Credentials -> TrustRows]
      /\ \A c \in rows : trust'[c] = Dead(c)
      /\ \A c \in Credentials \ rows : trust'[c] = trust[c]
  BY <1>1, <1>2, <1>3
<1>5. /\ credential' \in [Credentials -> {"new", "live", "gone"}]
      /\ \A c \in Credentials : credential'[c] = IF c \in tokens THEN "gone" ELSE credential[c]
      /\ ended' = ended \cup rows
  BY DEF SessionTypes, Revoke, Without
<1> QED
  BY <1>1, <1>4, <1>5

(* A revocation that ends the Knox tokens among its rows leaves no way in. *)
LEMMA RevokeIsOut ==
  ASSUME SessionInv, NEW rows, NEW tokens, rows \subseteq {c \in Credentials : Open(c)},
         rows \cap KnoxTokens \subseteq tokens, Revoke(rows, tokens),
         UNCHANGED <<clock, policy>>,
         UNCHANGED request, cleanup'.at # "idle" => cleanup' = cleanup
  PROVE  SessionInv'
<1> USE DEF SessionInv
<1>1. rows \subseteq Credentials
  OBVIOUS
<1>2. /\ trust' \in [Credentials -> TrustRows]
      /\ credential' \in [Credentials -> {"new", "live", "gone"}]
      /\ \A c \in rows : trust'[c].st = "revoked"
      /\ \A c \in Credentials \ rows : trust'[c] = trust[c]
      /\ \A c \in Credentials : credential'[c] = IF c \in tokens THEN "gone" ELSE credential[c]
      /\ ended' = ended \cup rows
  BY <1>1, RevokeFields
<1>3. SessionTypes'
  BY <1>1, <1>2 DEF SessionTypes
<1>4. RowsAreIssued'
  BY <1>2 DEF RowsAreIssued, Open
<1>5. RevokedIsOut'
  BY <1>2 DEF RevokedIsOut, Live, Credentials, SessionTypes
<1>6. CutoffIsPast'
  BY DEF CutoffIsPast
<1> QED
  BY <1>3, <1>4, <1>5, <1>6

----------------------------------------------------------------------------
(* Steps that keep every revoked row: a row that is there stays or, when it
   is not the tombstone of a credential that lives, goes.                   *)
RowsKept ==
  /\ ended' = ended
  /\ \A c \in Credentials : credential[c] # "new" => credential'[c] \in {credential[c], "gone"}
  /\ \A c \in Credentials :
       \/ trust'[c].st = trust[c].st
       \/ trust'[c].st = "open" /\ trust[c].st = "none" /\ credential[c] = "live"
       \/ trust'[c].st = "none" /\ trust[c].st = "open"
       \/ trust'[c].st = "none" /\ credential[c] # "live"

LEMMA RowsKeptIsOut ==
  ASSUME SessionInv, SessionTypes', CutoffIsPast', RowsKept
  PROVE  SessionInv'
<1> USE DEF SessionInv, RowsKept
<1>1. RowsAreIssued'
  <2> SUFFICES ASSUME NEW c \in Credentials, trust'[c].st # "none" \/ c \in ended
               PROVE  credential'[c] # "new"
    BY DEF RowsAreIssued
  <2> QED
    BY DEF RowsAreIssued, Live
<1>2. RevokedIsOut'
  <2> SUFFICES ASSUME NEW c \in ended, credential'[c] = "live"
               PROVE  c \in ApiKeys /\ trust'[c].st = "revoked"
    BY DEF RevokedIsOut, Live
  <2>1. c \in Credentials
    BY DEF SessionTypes
  <2>2. Live(c)
    BY <2>1 DEF RowsAreIssued, Live
  <2>3. c \in ApiKeys /\ trust[c].st = "revoked"
    BY <2>2 DEF RevokedIsOut
  <2> QED
    BY <2>1, <2>2, <2>3 DEF Live
<1> QED
  BY <1>1, <1>2

LEMMA InitSafe == InitSessions => SessionInv
<1> SUFFICES ASSUME InitSessions PROVE SessionInv
  OBVIOUS
<1> USE DEF InitSessions
<1>1. SessionTypes
  BY NoTrustRow, LegacyRowFields DEF SessionTypes, NoRequest
<1>2. RowsAreIssued
  BY NoTrustRow, LegacyRowFields DEF RowsAreIssued
<1> QED
  BY <1>1, <1>2 DEF SessionInv, CutoffIsPast, NoCleanup, RevokedIsOut

LEMMA WithoutType ==
  ASSUME SessionTypes, NEW tokens, credential' = Without(tokens)
  PROVE  /\ credential' \in [Credentials -> {"new", "live", "gone"}]
         /\ \A c \in Credentials : credential'[c] = IF c \in tokens THEN "gone" ELSE credential[c]
BY DEF SessionTypes, Without

(* The row a request is admitted with. *)
LEMMA AdmittedRow ==
  ASSUME SessionTypes, NEW r \in Clients, NEW c \in Credentials, NEW i \in Addresses,
         ensure_request_session(r, c, i)
  PROVE  \E new \in TrustRows :
           /\ trust' = [trust EXCEPT ![c] = new]
           /\ new.st = "open" /\ (c \in KnoxTokens => new.bound)
           /\ trust[c].st # "revoked" /\ Live(c)
           /\ trust[c].st # "none" => new.created = trust[c].created /\ new.active = trust[c].active
           /\ trust[c].st = "none" => new.created = clock /\ new.active = clock
           /\ new.lifeEnd = new.created + policy.life /\ new.idleEnd = new.active + policy.idle
<1> DEFINE fresh == [NoTrust EXCEPT !.st = "open", !.created = clock, !.active = clock, !.ip = i]
           row == IF trust[c].st = "none" THEN fresh ELSE trust[c]
           held == [row EXCEPT !.ip = i, !.bound = c \in KnoxTokens]
           new == Refreshed(held, policy)
<1>1. trust[c] \in TrustRows /\ clock \in Nat /\ policy \in SessionPolicies
  BY DEF SessionTypes
<1>2. fresh \in TrustRows /\ fresh.st = "open" /\ fresh.created = clock /\ fresh.active = clock
  BY <1>1 DEF NoTrust, TrustRows
<1>3. trust' = [trust EXCEPT ![c] = new] /\ row.st # "revoked" /\ Live(c)
  BY DEF ensure_request_session
<1> HIDE DEF fresh
<1>4. /\ row \in TrustRows /\ row.st = "open" /\ trust[c].st # "revoked"
      /\ trust[c].st # "none" => row = trust[c]
      /\ trust[c].st = "none" => row.created = clock /\ row.active = clock
  BY <1>1, <1>2, <1>3 DEF TrustRows
<1> HIDE DEF row
<1>5. /\ held \in TrustRows /\ held.st = row.st /\ held.created = row.created /\ held.active = row.active
      /\ c \in KnoxTokens => held.bound
  <2>1. CASE c \in KnoxTokens
    <3>1. (c \in KnoxTokens) = TRUE
      BY <2>1
    <3>2. held = [row EXCEPT !.ip = i, !.bound = TRUE]
      BY <3>1, Zenon
    <3> HIDE DEF held
    <3> QED
      BY <1>4, <3>2 DEF TrustRows
  <2>2. CASE c \notin KnoxTokens
    <3>1. (c \in KnoxTokens) = FALSE
      BY <2>2
    <3>2. held = [row EXCEPT !.ip = i, !.bound = FALSE]
      BY <3>1, Zenon
    <3> HIDE DEF held
    <3> QED
      BY <1>4, <2>2, <3>2 DEF TrustRows
  <2> QED
    BY <2>1, <2>2
<1> HIDE DEF held
<1>6. /\ new \in TrustRows /\ new.st = held.st /\ new.bound = held.bound
      /\ new.created = held.created /\ new.active = held.active
      /\ new.lifeEnd = held.created + policy.life /\ new.idleEnd = held.active + policy.idle
  BY <1>1, <1>5, RefreshedRow
<1> HIDE DEF new
<1> QED
  BY <1>3, <1>4, <1>5, <1>6

LEMMA ActiveRow ==
  ASSUME NEW x \in TrustRows, NEW t \in Nat, NEW p \in SessionPolicies, x.st = "open"
  PROVE  LET n == Refreshed([x EXCEPT !.active = t, !.st = "open"], p)
         IN  /\ n \in TrustRows /\ n.st = "open" /\ n.bound = x.bound
             /\ n.created = x.created /\ n.active = t
             /\ n.lifeEnd = x.created + p.life /\ n.idleEnd = t + p.idle
<1> DEFINE y == [x EXCEPT !.active = t, !.st = "open"]
<1>1. y \in TrustRows /\ y.st = "open" /\ y.bound = x.bound /\ y.created = x.created /\ y.active = t
  BY DEF TrustRows
<1> HIDE DEF y
<1>2. LET n == Refreshed(y, p)
      IN  /\ n \in TrustRows /\ n.st = "open" /\ n.bound = x.bound
          /\ n.created = x.created /\ n.active = t
          /\ n.lifeEnd = x.created + p.life /\ n.idleEnd = t + p.idle
  BY <1>1, RefreshedRow
<1> QED
  BY <1>2 DEF y

LEMMA TypedRow ==
  ASSUME NEW x \in TrustRows, NEW t \in Nat, NEW p \in SessionPolicies
  PROVE  LET n == Refreshed([x EXCEPT !.active = t], p)
         IN  /\ n \in TrustRows /\ n.st = x.st /\ n.bound = x.bound
             /\ n.created = x.created /\ n.active = t
             /\ n.lifeEnd = x.created + p.life /\ n.idleEnd = t + p.idle
<1> DEFINE y == [x EXCEPT !.active = t]
<1>1. y \in TrustRows /\ y.st = x.st /\ y.bound = x.bound /\ y.created = x.created /\ y.active = t
  BY DEF TrustRows
<1> HIDE DEF y
<1>2. LET n == Refreshed(y, p)
      IN  /\ n \in TrustRows /\ n.st = x.st /\ n.bound = x.bound
          /\ n.created = x.created /\ n.active = t
          /\ n.lifeEnd = x.created + p.life /\ n.idleEnd = t + p.idle
  BY <1>1, RefreshedRow
<1> QED
  BY <1>2 DEF y

----------------------------------------------------------------------------
(* The revocations: each is a Revoke of open rows with their tokens.        *)

LEMMA RevokeRowIsOut ==
  ASSUME SessionInv, NEW c \in Credentials, Open(c), RevokeRow(c), UNCHANGED <<clock, policy, request>>,
         cleanup'.at # "idle" => cleanup' = cleanup
  PROVE  SessionInv'
<1>1. {c} \subseteq {d \in Credentials : Open(d)}
  OBVIOUS
<1>2. {c} \cap KnoxTokens \subseteq TokensBehind(c)
  BY DEF TokensBehind, TokensOf
<1>3. Revoke({c}, TokensBehind(c))
  BY DEF RevokeRow
<1> QED
  BY <1>1, <1>2, <1>3, RevokeIsOut

LEMMA AdministersIsOut ==
  ASSUME SessionInv, NEW rows, NEW tokens, rows \subseteq Credentials,
         {c \in rows : Open(c)} \cap KnoxTokens \subseteq tokens, Administers(rows, tokens)
  PROVE  SessionInv'
<1> DEFINE open == {c \in rows : Open(c)}
<1>1. Revoke(open, tokens) /\ UNCHANGED <<clock, policy, request>> /\ UNCHANGED cleanup
  BY DEF Administers, JobsStay
<1>2. open \subseteq {c \in Credentials : Open(c)} /\ open \cap KnoxTokens \subseteq tokens
  OBVIOUS
<1> HIDE DEF open
<1> QED
  BY <1>1, <1>2, RevokeIsOut

LEMMA PeopleRevoke ==
  ASSUME SessionInv,
         \/ \E c \in Credentials : revoke_session(c) \/ revoke_active_login_session(c)
         \/ \E u \in Users : \/ revoke_user_login_sessions(u)
                             \/ \E kept \in {{}} \cup {{c} : c \in Credentials} : revoke_user_sessions(u, kept)
         \/ \E kept \in {{}} \cup {{c} : c \in KnoxTokens} : revoke_all_login_sessions(kept)
  PROVE  SessionInv'
<1>0. KnoxTokens \subseteq Credentials
  BY DEF Credentials
<1>1. ASSUME NEW c \in Credentials, revoke_session(c) PROVE SessionInv'
  <2>1. Administers({c}, TokensBehind(c)) /\ {d \in {c} : Open(d)} \cap KnoxTokens \subseteq TokensBehind(c)
    BY <1>1 DEF revoke_session, TokensBehind, TokensOf
  <2> QED
    BY <2>1, AdministersIsOut
<1>2. ASSUME NEW c \in Credentials, revoke_active_login_session(c) PROVE SessionInv'
  <2> DEFINE rows == {c} \cap {d \in KnoxTokens : trust[d].bound}
  <2>1. /\ Administers(rows, {c}) /\ rows \subseteq Credentials
        /\ {d \in rows : Open(d)} \cap KnoxTokens \subseteq {c}
    BY <1>2 DEF revoke_active_login_session
  <2> HIDE DEF rows
  <2> QED
    BY <2>1, AdministersIsOut
<1>3. ASSUME NEW u \in Users, revoke_user_login_sessions(u) PROVE SessionInv'
  <2> DEFINE tokens == {c \in TokensOf(u) : Live(c)}
             rows == {c \in tokens : trust[c].bound}
  <2>1. /\ Administers(rows, tokens) /\ rows \subseteq Credentials
        /\ {d \in rows : Open(d)} \cap KnoxTokens \subseteq tokens
    BY <1>0, <1>3 DEF revoke_user_login_sessions, TokensOf
  <2> HIDE DEF rows, tokens
  <2> QED
    BY <2>1, AdministersIsOut
<1>4. ASSUME NEW u \in Users, NEW kept, revoke_user_sessions(u, kept) PROVE SessionInv'
  <2> DEFINE rows == {c \in Credentials : UserOf[c] = u} \ kept
             tokens == TokensOf(u) \ {c \in kept : trust[c].bound}
  <2>1. /\ Administers(rows, tokens) /\ rows \subseteq Credentials
        /\ {d \in rows : Open(d)} \cap KnoxTokens \subseteq tokens
    BY <1>4 DEF revoke_user_sessions, TokensOf
  <2> HIDE DEF rows, tokens
  <2> QED
    BY <2>1, AdministersIsOut
<1>5. ASSUME NEW kept, revoke_all_login_sessions(kept) PROVE SessionInv'
  <2> DEFINE rows == Credentials \ kept
             tokens == KnoxTokens \ kept
  <2>1. /\ Administers(rows, tokens) /\ rows \subseteq Credentials
        /\ {d \in rows : Open(d)} \cap KnoxTokens \subseteq tokens
    BY <1>5 DEF revoke_all_login_sessions
  <2> HIDE DEF rows, tokens
  <2> QED
    BY <2>1, AdministersIsOut
<1> QED
  BY <1>1, <1>2, <1>3, <1>4, <1>5

----------------------------------------------------------------------------
(* Requests, terminals and the clock.                                       *)

LEMMA RowFields ==
  ASSUME SessionTypes, NEW c \in Credentials
  PROVE  /\ trust[c] \in TrustRows /\ trust[c].st \in {"none", "open", "revoked"}
         /\ trust[c].created \in Nat /\ trust[c].active \in Nat /\ trust[c].at \in Nat
         /\ trust[c].lifeEnd \in Nat /\ trust[c].idleEnd \in Nat
         /\ clock \in Nat /\ policy \in SessionPolicies
<1>1. trust[c] \in TrustRows /\ clock \in Nat /\ policy \in SessionPolicies
  BY DEF SessionTypes
<1> QED
  BY <1>1 DEF TrustRows

LEMMA RequestSteps ==
  ASSUME SessionInv,
         \/ \E r \in Clients, c \in Credentials, i \in Addresses : ensure_request_session(r, c, i)
         \/ \E r \in Clients : record_activity(r) \/ RequestEnds(r)
  PROVE  SessionInv'
<1>0. SessionTypes /\ CutoffIsPast
  BY DEF SessionInv
<1>1. ASSUME NEW r \in Clients, NEW c \in Credentials, NEW i \in Addresses, ensure_request_session(r, c, i)
      PROVE  SessionInv'
  <2>1. PICK new \in TrustRows : /\ trust' = [trust EXCEPT ![c] = new] /\ new.st = "open"
                                 /\ trust[c].st # "revoked" /\ Live(c)
    BY <1>0, <1>1, AdmittedRow
  <2>2. /\ request' = [request EXCEPT ![r] = [at |-> "in", cred |-> c]]
        /\ UNCHANGED <<clock, policy, credential, ended, cleanup>>
    BY <1>1 DEF ensure_request_session, JobsStay
  <2>3. SessionTypes' /\ CutoffIsPast'
    BY <1>0, <2>1, <2>2 DEF SessionTypes, CutoffIsPast
  <2>4. \A d \in Credentials :
          \/ trust'[d].st = trust[d].st
          \/ trust'[d].st = "open" /\ trust[d].st = "none" /\ credential[d] = "live"
    <3>1. trust[c].st \in {"none", "open", "revoked"}
      BY <1>0, RowFields
    <3>2. trust'[c] = new /\ \A d \in Credentials \ {c} : trust'[d] = trust[d]
      BY <1>0, <2>1 DEF SessionTypes
    <3> QED
      BY <2>1, <3>1, <3>2 DEF Live
  <2>5. RowsKept
    BY <2>2, <2>4 DEF RowsKept
  <2> QED
    BY <2>3, <2>5, RowsKeptIsOut
<1>2. ASSUME NEW r \in Clients, record_activity(r) PROVE SessionInv'
  <2> DEFINE c == request[r].cred
             new == Refreshed([trust[c] EXCEPT !.active = clock, !.st = "open"], policy)
  <2>1. /\ c \in Credentials /\ trust[c] \in TrustRows
        /\ \/ trust' = trust
           \/ trust[c].st = "open" /\ trust' = [trust EXCEPT ![c] = new]
        /\ request' = [request EXCEPT ![r] = NoRequest]
        /\ UNCHANGED <<clock, policy, credential, ended, cleanup>>
    BY <1>0, <1>2 DEF record_activity, ActivityOn, JobsStay, Open, SessionTypes
  <2>2. trust[c].st = "open" => new \in TrustRows /\ new.st = "open"
    <3>1. trust[c] \in TrustRows /\ clock \in Nat /\ policy \in SessionPolicies
      BY <1>0, <2>1 DEF SessionTypes
    <3> HIDE DEF c
    <3> QED
      BY <3>1, ActiveRow
  <2> HIDE DEF new, c
  <2>3. SessionTypes' /\ CutoffIsPast'
    BY <1>0, <2>1, <2>2 DEF SessionTypes, CutoffIsPast, NoRequest
  <2>4. \A d \in Credentials : trust'[d].st = trust[d].st
    BY <1>0, <2>1, <2>2 DEF SessionTypes
  <2>5. RowsKept
    BY <2>1, <2>4 DEF RowsKept
  <2> QED
    BY <2>3, <2>5, RowsKeptIsOut
<1>3. ASSUME NEW r \in Clients, RequestEnds(r) PROVE SessionInv'
  <2>1. /\ request' = [request EXCEPT ![r] = NoRequest]
        /\ UNCHANGED <<clock, policy, credential, trust, ended, cleanup>>
    BY <1>3 DEF RequestEnds, JobsStay
  <2>2. SessionTypes' /\ CutoffIsPast'
    BY <1>0, <2>1 DEF SessionTypes, CutoffIsPast, NoRequest
  <2>3. RowsKept
    BY <2>1 DEF RowsKept
  <2> QED
    BY <2>2, <2>3, RowsKeptIsOut
<1> QED
  BY <1>1, <1>2, <1>3

(* What a recheck of a terminal does to the row of its sign-in. *)
LEMMA TerminalActivityRow ==
  ASSUME SessionTypes, NEW c \in Credentials, NEW typed \in Nat, record_terminal_activity(c, typed)
  PROVE  /\ Open(c) /\ trust[c].bound /\ typed <= clock
         /\ UNCHANGED <<clock, policy, request, sweep, cleanup>>
         /\ \/ RevokeRow(c)
            \/ /\ UNCHANGED <<credential, ended>>
               /\ \/ trust' = trust /\ ~Expired(trust[c], policy, clock)
                  \/ \E new \in TrustRows :
                       /\ trust' = [trust EXCEPT ![c] = new]
                       /\ new.st = "open" /\ new.bound = trust[c].bound
                       /\ new.created = trust[c].created /\ new.active = typed /\ typed > trust[c].active
                       /\ new.lifeEnd = new.created + policy.life /\ new.idleEnd = new.active + policy.idle
                       /\ ~Expired(new, policy, clock)
<1> DEFINE row == trust[c]
           moved == IF typed > row.active THEN [row EXCEPT !.active = typed] ELSE row
           new == Refreshed([row EXCEPT !.active = typed], policy)
<1>1. row \in TrustRows /\ clock \in Nat /\ policy \in SessionPolicies
  BY DEF SessionTypes
<1>2. /\ Open(c) /\ row.bound /\ typed <= clock
      /\ UNCHANGED <<clock, policy, request, sweep, cleanup>>
      /\ \/ RevokeRow(c)
         \/ /\ UNCHANGED <<credential, ended>> /\ ~Expired(moved, policy, clock)
            /\ trust' = [trust EXCEPT ![c] = IF typed > row.active THEN Refreshed(moved, policy) ELSE row]
  <2>1. typed \in row.created..clock /\ row.created \in Nat /\ clock \in Nat
    BY <1>1, RowFields DEF record_terminal_activity
  <2>2. typed <= clock
    BY <2>1
  <2> QED
    BY <2>2 DEF record_terminal_activity, JobsStay
<1>3. /\ new \in TrustRows /\ new.st = row.st /\ new.bound = row.bound
      /\ new.created = row.created /\ new.active = typed
      /\ new.lifeEnd = row.created + policy.life /\ new.idleEnd = typed + policy.idle
  BY <1>1, TypedRow
<1>4. CASE typed > row.active /\ ~RevokeRow(c)
  <2>1. /\ trust' = [trust EXCEPT ![c] = new] /\ UNCHANGED <<credential, ended>>
        /\ ~Expired([row EXCEPT !.active = typed], policy, clock)
    BY <1>2, <1>4
  <2>2. [row EXCEPT !.active = typed].created = row.created /\ [row EXCEPT !.active = typed].active = typed
    BY <1>1 DEF TrustRows
  <2> HIDE DEF new
  <2>3. ~Expired(new, policy, clock)
    BY <1>3, <2>1, <2>2 DEF Expired
  <2> QED
    BY <1>2, <1>3, <1>4, <2>1, <2>3 DEF Open
<1>5. CASE ~(typed > row.active) /\ ~RevokeRow(c)
  <2>1. trust' = [trust EXCEPT ![c] = trust[c]] /\ UNCHANGED <<credential, ended>> /\ ~Expired(row, policy, clock)
    BY <1>2, <1>5
  <2>2. trust' = trust
    BY <2>1 DEF SessionTypes
  <2> QED
    BY <1>2, <2>1, <2>2
<1>6. CASE RevokeRow(c)
  BY <1>2, <1>6
<1> QED
  BY <1>4, <1>5, <1>6

LEMMA TerminalActivitySafe ==
  ASSUME SessionInv, NEW c \in Credentials, NEW typed \in Nat, record_terminal_activity(c, typed)
  PROVE  SessionInv'
<1>0. SessionTypes /\ CutoffIsPast
  BY DEF SessionInv
<1>1. /\ Open(c) /\ UNCHANGED <<clock, policy, request, sweep, cleanup>>
      /\ \/ RevokeRow(c)
         \/ /\ UNCHANGED <<credential, ended>>
            /\ \/ trust' = trust
               \/ \E new \in TrustRows : trust' = [trust EXCEPT ![c] = new] /\ new.st = "open"
  BY <1>0, TerminalActivityRow
<1>2. CASE RevokeRow(c)
  BY <1>1, <1>2, RevokeRowIsOut
<1>3. CASE trust' = trust /\ UNCHANGED <<credential, ended>>
  BY <1>0, <1>1, <1>3, RowsKeptIsOut DEF RowsKept, SessionTypes, CutoffIsPast
<1>4. ASSUME NEW new \in TrustRows, trust' = [trust EXCEPT ![c] = new], new.st = "open",
             UNCHANGED <<credential, ended>>
      PROVE  SessionInv'
  <2>1. SessionTypes' /\ CutoffIsPast'
    BY <1>0, <1>1, <1>4 DEF SessionTypes, CutoffIsPast
  <2>2. RowsKept
    BY <1>0, <1>1, <1>4 DEF RowsKept, SessionTypes, Open
  <2> QED
    BY <2>1, <2>2, RowsKeptIsOut
<1> QED
  BY <1>1, <1>2, <1>3, <1>4

LEMMA QuietSteps ==
  ASSUME SessionInv,
         \/ SessionTick
         \/ \E p \in SessionPolicies : _update_global_policy(p)
         \/ \E c \in Credentials : CredentialChanges(c)
         \/ UNCHANGED sessionVars
  PROVE  SessionInv'
<1>0. SessionTypes /\ CutoffIsPast
  BY DEF SessionInv
<1>1. CASE SessionTick
  <2>1. clock' = clock + 1 /\ UNCHANGED <<policy, credential, trust, request, cleanup, ended>>
    BY <1>1 DEF SessionTick
  <2>2. SessionTypes' /\ CutoffIsPast'
    BY <1>0, <2>1, SessionConstants DEF SessionTypes, CutoffIsPast
  <2> QED
    BY <2>1, <2>2, RowsKeptIsOut DEF RowsKept
<1>2. ASSUME NEW p \in SessionPolicies, _update_global_policy(p) PROVE SessionInv'
  <2>1. policy' = p /\ UNCHANGED <<clock, credential, trust, request, cleanup, ended>>
    BY <1>2 DEF _update_global_policy
  <2>2. SessionTypes' /\ CutoffIsPast'
    BY <1>0, <2>1 DEF SessionTypes, CutoffIsPast
  <2> QED
    BY <2>1, <2>2, RowsKeptIsOut DEF RowsKept
<1>3. ASSUME NEW c \in Credentials, CredentialChanges(c) PROVE SessionInv'
  <2>1. /\ UNCHANGED <<clock, policy, trust, request, cleanup, ended>>
        /\ \/ credential[c] = "new" /\ credential' = [credential EXCEPT ![c] = "live"]
           \/ credential' = Without({c})
    BY <1>3 DEF CredentialChanges
  <2>2. /\ credential' \in [Credentials -> {"new", "live", "gone"}]
        /\ \A d \in Credentials : credential[d] # "new" => credential'[d] \in {credential[d], "gone"}
    BY <1>0, <2>1, WithoutType DEF SessionTypes
  <2>3. SessionTypes' /\ CutoffIsPast'
    BY <1>0, <2>1, <2>2 DEF SessionTypes, CutoffIsPast
  <2> QED
    BY <2>1, <2>2, <2>3, RowsKeptIsOut DEF RowsKept
<1>4. CASE UNCHANGED sessionVars
  <2>1. UNCHANGED <<clock, policy, credential, trust, request, cleanup, ended>>
    BY <1>4 DEF sessionVars
  <2>2. SessionTypes' /\ CutoffIsPast'
    BY <1>0, <2>1 DEF SessionTypes, CutoffIsPast
  <2> QED
    BY <2>1, <2>2, RowsKeptIsOut DEF RowsKept
<1> QED
  BY <1>1, <1>2, <1>3, <1>4

----------------------------------------------------------------------------
(* The two jobs of the scheduler tick.                                      *)

LEMMA SweepSteps == ASSUME SessionInv, SessionSweep PROVE SessionInv'
<1>0. SessionTypes /\ CutoffIsPast
  BY DEF SessionInv
<1>1. CASE SweepLists
  BY <1>0, <1>1, RowsKeptIsOut DEF SweepLists, RowsKept, SessionTypes, CutoffIsPast
<1>2. ASSUME NEW c \in Credentials, SweepRow(c) PROVE SessionInv'
  <2>1. /\ UNCHANGED <<clock, policy, request, cleanup>>
        /\ \/ Open(c) /\ RevokeRow(c)
           \/ UNCHANGED <<trust, credential, ended>>
    BY <1>2 DEF SweepRow, SweepRowIf
  <2>2. CASE Open(c) /\ RevokeRow(c)
    BY <2>1, <2>2, RevokeRowIsOut
  <2>3. CASE UNCHANGED <<trust, credential, ended>>
    BY <1>0, <2>1, <2>3, RowsKeptIsOut DEF RowsKept, SessionTypes, CutoffIsPast
  <2> QED
    BY <2>1, <2>2, <2>3
<1>3. CASE SweepOrphans
  <2>1. /\ UNCHANGED <<clock, policy, trust, request, cleanup, ended>>
        /\ \E tokens : credential' = Without(tokens)
    BY <1>3 DEF SweepOrphans
  <2>2. /\ credential' \in [Credentials -> {"new", "live", "gone"}]
        /\ \A d \in Credentials : credential'[d] \in {credential[d], "gone"}
    BY <1>0, <2>1, WithoutType
  <2>3. SessionTypes' /\ CutoffIsPast'
    BY <1>0, <2>1, <2>2 DEF SessionTypes, CutoffIsPast
  <2> QED
    BY <2>1, <2>2, <2>3, RowsKeptIsOut DEF RowsKept
<1> QED
  BY <1>1, <1>2, <1>3 DEF SessionSweep

LEMMA CleanupSteps ==
  ASSUME SessionInv, CleanupReads \/ CleanupTokens \/ CleanupRows \/ CleanupTombstones
  PROVE  SessionInv'
<1>0. SessionTypes /\ CutoffIsPast
  BY DEF SessionInv
<1>1. CASE CleanupReads
  <2>1. /\ UNCHANGED <<clock, policy, credential, trust, request, ended>>
        /\ cleanup'.cutoff = clock - Retention
    BY <1>1 DEF CleanupReads
  <2>2. SessionTypes' /\ CutoffIsPast'
    BY <1>0, <2>1, SessionConstants DEF SessionTypes, CutoffIsPast
  <2> QED
    BY <2>1, <2>2, RowsKeptIsOut DEF RowsKept
<1>2. CASE CleanupTokens
  <2>1. /\ UNCHANGED <<clock, policy, trust, request, ended>>
        /\ cleanup.at # "idle" /\ cleanup' = [cleanup EXCEPT !.at = "rows"]
        /\ \E tokens : credential' = Without(tokens)
    BY <1>2 DEF CleanupTokens
  <2>2. /\ credential' \in [Credentials -> {"new", "live", "gone"}]
        /\ \A d \in Credentials : credential'[d] \in {credential[d], "gone"}
    BY <1>0, <2>1, WithoutType
  <2>3. SessionTypes' /\ CutoffIsPast'
    BY <1>0, <2>1, <2>2 DEF SessionTypes, CutoffIsPast
  <2> QED
    BY <2>1, <2>2, <2>3, RowsKeptIsOut DEF RowsKept
<1>3. CASE CleanupRows
  <2>1. /\ UNCHANGED <<clock, policy, credential, request, ended>>
        /\ cleanup.at # "idle" /\ cleanup' = [cleanup EXCEPT !.at = "tombstones"]
        /\ trust' = [c \in Credentials |-> IF Stale(c, cleanup.cutoff) THEN NoTrust ELSE trust[c]]
    BY <1>3 DEF CleanupRows
  <2>2. SessionTypes' /\ CutoffIsPast'
    BY <1>0, <2>1, NoTrustRow DEF SessionTypes, CutoffIsPast
  <2>3. \A c \in Credentials : trust'[c] = trust[c] \/ (trust'[c].st = "none" /\ trust[c].st = "open")
    BY <2>1, NoTrustRow DEF Stale, Open
  <2> QED
    BY <2>1, <2>2, <2>3, RowsKeptIsOut DEF RowsKept
<1>4. CASE CleanupTombstones
  <2> DEFINE kept == {c \in Credentials : _revoked_tombstone_is_live(c)}
  <2>1. PICK gone : /\ trust' = [c \in Credentials |-> IF c \in gone THEN NoTrust ELSE trust[c]]
                    /\ gone \cap kept = {}
    BY <1>4 DEF CleanupTombstones, CleanupTombstonesIf
  <2>2. UNCHANGED <<clock, policy, credential, request, ended>> /\ cleanup' = NoCleanup
    BY <1>4 DEF CleanupTombstones, CleanupTombstonesIf
  <2>3. SessionTypes' /\ CutoffIsPast'
    BY <1>0, <2>1, <2>2, NoTrustRow DEF SessionTypes, CutoffIsPast, NoCleanup
  <2>4. \A c \in Credentials : trust'[c] = trust[c] \/ (trust'[c].st = "none" /\ credential[c] # "live")
    BY <2>1, NoTrustRow DEF _revoked_tombstone_is_live, Live
  <2> QED
    BY <2>2, <2>3, <2>4, RowsKeptIsOut DEF RowsKept
<1> QED
  BY <1>1, <1>2, <1>3, <1>4

LEMMA SessionStep == ASSUME SessionInv, [NextSessions]_sessionVars PROVE SessionInv'
<1>1. CASE \/ SessionTick
           \/ \E p \in SessionPolicies : _update_global_policy(p)
           \/ \E c \in Credentials : CredentialChanges(c)
           \/ UNCHANGED sessionVars
  BY <1>1, QuietSteps
<1>2. CASE SessionSweep
  BY <1>2, SweepSteps
<1>3. CASE CleanupReads \/ CleanupTokens \/ CleanupRows \/ CleanupTombstones
  BY <1>3, CleanupSteps
<1>4. CASE \/ \E c \in Credentials : revoke_session(c) \/ revoke_active_login_session(c)
           \/ \E u \in Users : \/ revoke_user_login_sessions(u)
                               \/ \E kept \in {{}} \cup {{c} : c \in Credentials} : revoke_user_sessions(u, kept)
           \/ \E kept \in {{}} \cup {{c} : c \in KnoxTokens} : revoke_all_login_sessions(kept)
  BY <1>4, PeopleRevoke
<1>5. CASE \/ \E r \in Clients, c \in Credentials, i \in Addresses : ensure_request_session(r, c, i)
           \/ \E r \in Clients : record_activity(r) \/ RequestEnds(r)
  BY <1>5, RequestSteps
<1>6. ASSUME NEW c \in Credentials, NEW typed \in 0..clock, record_terminal_activity(c, typed)
      PROVE  SessionInv'
  <2>1. typed \in Nat
    BY DEF SessionInv, SessionTypes
  <2> QED
    BY <1>6, <2>1, TerminalActivitySafe
<1> QED
  BY <1>1, <1>2, <1>3, <1>4, <1>5, <1>6 DEF NextSessions

(* Revoked trust is never admitted again (session_security.py): for
   every mix of requests, heartbeats, terminals, revocations, policy changes,
   sweeps and clean-ups, a credential whose row was once revoked no longer
   signs in, or is an API key whose tombstone is still there to refuse it.  *)
THEOREM RevocationIsFinal == SpecSessions => []RevokedIsOut
<1>1. InitSessions => SessionInv
  BY InitSafe
<1>2. SessionInv /\ [NextSessions]_sessionVars => SessionInv'
  BY SessionStep
<1>3. SessionInv => RevokedIsOut
  BY DEF SessionInv
<1> QED
  BY <1>1, <1>2, <1>3, PTL DEF SpecSessions

----------------------------------------------------------------------------
(* What may end a session.                                                  *)

Spares ==
  \A c \in Credentials :
    /\ Open(c) /\ trust'[c].st = "revoked" /\ sweep' # sweep
         => trust[c].active + sweep.policy.idle <= sweep.now \/ trust[c].created + sweep.policy.life <= sweep.now
    /\ Open(c) /\ trust'[c].st = "none"
         => trust[c].lifeEnd < clock - Retention \/ trust[c].idleEnd < clock - Retention

(* A step that leaves the sweep alone and takes no open row away. *)
SparesAll == sweep' = sweep /\ \A c \in Credentials : Open(c) => trust'[c].st # "none"

LEMMA RevokeSpares ==
  ASSUME SessionTypes, NEW rows, NEW tokens, rows \subseteq Credentials, Revoke(rows, tokens), sweep' = sweep
  PROVE  SparesAll
<1>1. /\ \A c \in rows : trust'[c].st = "revoked"
      /\ \A c \in Credentials \ rows : trust'[c] = trust[c]
  BY RevokeFields
<1> QED
  BY <1>1 DEF SparesAll, Open

LEMMA PeopleSpare ==
  ASSUME SessionTypes, NEW rows, NEW tokens, rows \subseteq Credentials, Administers(rows, tokens)
  PROVE  SparesAll
<1> DEFINE open == {c \in rows : Open(c)}
<1>1. open \subseteq Credentials /\ Revoke(open, tokens) /\ sweep' = sweep
  BY DEF Administers, JobsStay
<1> HIDE DEF open
<1> QED
  BY <1>1, RevokeSpares

LEMMA OthersSpare ==
  ASSUME SessionTypes,
         \/ SessionTick \/ CleanupReads \/ CleanupTokens \/ CleanupTombstones
         \/ \E p \in SessionPolicies : _update_global_policy(p)
         \/ \E c \in Credentials : CredentialChanges(c) \/ revoke_session(c) \/ revoke_active_login_session(c)
         \/ \E c \in Credentials, r \in Clients, i \in Addresses : ensure_request_session(r, c, i)
         \/ \E c \in Credentials, typed \in 0..clock : record_terminal_activity(c, typed)
         \/ \E r \in Clients : record_activity(r) \/ RequestEnds(r)
         \/ \E u \in Users : revoke_user_login_sessions(u) \/ \E kept : revoke_user_sessions(u, kept)
         \/ \E kept : revoke_all_login_sessions(kept)
  PROVE  SparesAll
<1>0. KnoxTokens \subseteq Credentials
  BY DEF Credentials
<1>1. CASE \/ SessionTick \/ CleanupReads \/ CleanupTokens
           \/ \E p \in SessionPolicies : _update_global_policy(p)
           \/ \E c \in Credentials : CredentialChanges(c)
           \/ \E r \in Clients : RequestEnds(r)
  <2>1. UNCHANGED <<trust, sweep>>
    BY <1>1 DEF SessionTick, CleanupReads, CleanupTokens, _update_global_policy, CredentialChanges, RequestEnds, JobsStay
  <2> QED
    BY <2>1 DEF SparesAll, Open
<1>2. CASE CleanupTombstones
  <2>1. sweep' = sweep /\ \A c \in Credentials : trust'[c] = trust[c] \/ trust[c].st = "revoked"
    BY <1>2 DEF CleanupTombstones, CleanupTombstonesIf
  <2> QED
    BY <2>1 DEF SparesAll, Open
<1>3. ASSUME NEW r \in Clients, NEW c \in Credentials, NEW i \in Addresses, ensure_request_session(r, c, i)
      PROVE  SparesAll
  <2>1. PICK new : trust' = [trust EXCEPT ![c] = new] /\ new.st = "open"
    BY <1>3, AdmittedRow
  <2>2. sweep' = sweep
    BY <1>3 DEF ensure_request_session, JobsStay
  <2> QED
    BY <2>1, <2>2 DEF SparesAll, Open, SessionTypes
<1>4. ASSUME NEW r \in Clients, record_activity(r) PROVE SparesAll
  <2> DEFINE c == request[r].cred
             new == Refreshed([trust[c] EXCEPT !.active = clock, !.st = "open"], policy)
  <2>1. /\ c \in Credentials /\ trust[c] \in TrustRows /\ clock \in Nat /\ policy \in SessionPolicies
        /\ \/ trust' = trust
           \/ trust[c].st = "open" /\ trust' = [trust EXCEPT ![c] = new]
        /\ sweep' = sweep
    BY <1>4 DEF record_activity, ActivityOn, JobsStay, Open, SessionTypes
  <2>2. trust[c].st = "open" => new.st = "open"
    <3> HIDE DEF c
    <3> QED
      BY <2>1, ActiveRow
  <2> HIDE DEF new, c
  <2> QED
    BY <2>1, <2>2 DEF SparesAll, Open, SessionTypes
<1>5. ASSUME NEW c \in Credentials, NEW typed \in 0..clock, record_terminal_activity(c, typed) PROVE SparesAll
  <2>1. typed \in Nat
    BY DEF SessionTypes
  <2>2. /\ sweep' = sweep
        /\ \/ RevokeRow(c)
           \/ trust' = trust
           \/ \E new : trust' = [trust EXCEPT ![c] = new] /\ new.st = "open"
    BY <1>5, <2>1, TerminalActivityRow
  <2>3. CASE RevokeRow(c)
    BY <2>2, <2>3, RevokeSpares DEF RevokeRow
  <2>4. CASE trust' = trust \/ \E new : trust' = [trust EXCEPT ![c] = new] /\ new.st = "open"
    BY <2>2, <2>4 DEF SparesAll, Open, SessionTypes
  <2> QED
    BY <2>2, <2>3, <2>4
<1>6. CASE \/ \E c \in Credentials : revoke_session(c) \/ revoke_active_login_session(c)
           \/ \E u \in Users : revoke_user_login_sessions(u) \/ \E kept : revoke_user_sessions(u, kept)
           \/ \E kept : revoke_all_login_sessions(kept)
  <2>1. \E rows, tokens : rows \subseteq Credentials /\ Administers(rows, tokens)
    <3>1. ASSUME NEW c \in Credentials, revoke_session(c)
          PROVE  \E rows, tokens : rows \subseteq Credentials /\ Administers(rows, tokens)
      <4>1. {c} \subseteq Credentials /\ Administers({c}, TokensBehind(c))
        BY <3>1 DEF revoke_session
      <4> QED
        BY <4>1
    <3>2. ASSUME NEW c \in Credentials, revoke_active_login_session(c)
          PROVE  \E rows, tokens : rows \subseteq Credentials /\ Administers(rows, tokens)
      <4> DEFINE rows == {c} \cap {d \in KnoxTokens : trust[d].bound}
      <4>1. rows \subseteq Credentials /\ Administers(rows, {c})
        BY <3>2 DEF revoke_active_login_session
      <4> QED
        BY <4>1
    <3>3. ASSUME NEW u \in Users, revoke_user_login_sessions(u)
          PROVE  \E rows, tokens : rows \subseteq Credentials /\ Administers(rows, tokens)
      <4> DEFINE tokens == {c \in TokensOf(u) : Live(c)}
                 rows == {c \in tokens : trust[c].bound}
      <4>1. rows \subseteq Credentials /\ Administers(rows, tokens)
        BY <1>0, <3>3 DEF revoke_user_login_sessions, TokensOf
      <4> HIDE DEF rows, tokens
      <4> QED
        BY <4>1
    <3>4. ASSUME NEW u \in Users, NEW kept, revoke_user_sessions(u, kept)
          PROVE  \E rows, tokens : rows \subseteq Credentials /\ Administers(rows, tokens)
      <4> DEFINE rows == {c \in Credentials : UserOf[c] = u} \ kept
                 tokens == TokensOf(u) \ {c \in kept : trust[c].bound}
      <4>1. rows \subseteq Credentials /\ Administers(rows, tokens)
        BY <3>4 DEF revoke_user_sessions
      <4> HIDE DEF rows, tokens
      <4> QED
        BY <4>1
    <3>5. ASSUME NEW kept, revoke_all_login_sessions(kept)
          PROVE  \E rows, tokens : rows \subseteq Credentials /\ Administers(rows, tokens)
      <4>1. Credentials \ kept \subseteq Credentials /\ Administers(Credentials \ kept, KnoxTokens \ kept)
        BY <3>5 DEF revoke_all_login_sessions
      <4> QED
        BY <4>1
    <3> QED
      BY <1>6, <3>1, <3>2, <3>3, <3>4, <3>5
  <2> QED
    BY <2>1, PeopleSpare
<1> QED
  BY <1>1, <1>2, <1>3, <1>4, <1>5, <1>6

LEMMA SparesStep == ASSUME SessionInv, NextSessions PROVE Spares
<1>0. SessionTypes /\ CutoffIsPast
  BY DEF SessionInv
<1>1. CASE SweepLists \/ SweepOrphans
  <2>1. trust' = trust
    BY <1>1 DEF SweepLists, SweepOrphans
  <2> QED
    BY <2>1 DEF Spares, Open
<1>2. ASSUME NEW c \in Credentials, SweepRow(c) PROVE Spares
  <2>1. CASE trust' = trust
    BY <2>1 DEF Spares, Open
  <2>2. CASE RevokeRow(c) /\ Expired(trust[c], sweep.policy, sweep.now)
    <3>1. Revoke({c}, TokensBehind(c)) /\ {c} \subseteq Credentials
      BY <2>2 DEF RevokeRow
    <3>2. trust'[c].st = "revoked" /\ \A d \in Credentials \ {c} : trust'[d] = trust[d]
      BY <1>0, <3>1, RevokeFields
    <3>3. \/ sweep.now >= trust[c].created + sweep.policy.life
          \/ sweep.now >= trust[c].active + sweep.policy.idle
      BY <2>2 DEF Expired
    <3> QED
      BY <3>2, <3>3 DEF Spares, Open
  <2> QED
    BY <1>2, <2>1, <2>2 DEF SweepRow, SweepRowIf
<1>3. CASE CleanupRows
  <2>1. sweep' = sweep /\ cleanup.cutoff \in Int /\ cleanup.cutoff <= clock - Retention
    BY <1>0, <1>3 DEF CleanupRows, CutoffIsPast
  <2>2. \A c \in Credentials : trust'[c] = trust[c] \/ Stale(c, cleanup.cutoff)
    BY <1>3 DEF CleanupRows
  <2>3. clock \in Nat /\ Retention \in Nat
    BY <1>0, SessionConstants DEF SessionTypes
  <2>4. ASSUME NEW c \in Credentials, Stale(c, cleanup.cutoff)
        PROVE  trust[c].lifeEnd < clock - Retention \/ trust[c].idleEnd < clock - Retention
    <3>1. trust[c].lifeEnd \in Nat /\ trust[c].idleEnd \in Nat
      BY <1>0, RowFields
    <3> QED
      BY <2>1, <2>3, <2>4, <3>1 DEF Stale
  <2> QED
    BY <2>1, <2>2, <2>4 DEF Spares, Open
<1>4. CASE SparesAll
  BY <1>4 DEF SparesAll, Spares
<1> QED
  BY <1>0, <1>1, <1>2, <1>3, <1>4, OthersSpare DEF NextSessions, SessionSweep

(* The sweep judges a row again when it has locked it: no step of it revokes
   a session that is not over by the policy and the clock the sweep began
   with, and no step at all removes an open row that is not older than the
   retention of history (sweep_expired_sessions, cleanup_session_history).  *)
THEOREM SweepIsJust == SpecSessions => SweepSparesActive
<1>1. InitSessions => SessionInv
  BY InitSafe
<1>2. SessionInv /\ [NextSessions]_sessionVars => SessionInv'
  BY SessionStep
<1>3. SessionInv /\ [NextSessions]_sessionVars => [Spares]_sessionVars
  BY SparesStep
<1> QED
  BY <1>1, <1>2, <1>3, PTL DEF SpecSessions, SweepSparesActive, Spares
===============================================================================
