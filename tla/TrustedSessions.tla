--------------------------- MODULE TrustedSessions ---------------------------
(***************************************************************************)
(* Core's own view of a sign-in (session_security.py): one trust row for   *)
(* each credential Tactical accepts, with idle and absolute expiry, the    *)
(* policy on address changes, revocation, the sweep of the scheduler tick  *)
(* and the clean-up of history.  A credential is a Knox token or an API    *)
(* key; Tactical issues and authenticates them.                            *)
(***************************************************************************)
EXTENDS Integers, FiniteSets

CONSTANTS KnoxTokens, ApiKeys,
          UserOf,          \* credential -> its user
          LegacyTokens,    \* tokens whose row predates the digest, or that have none yet
          Clients, Addresses,
          SessionPolicies,        \* [idle, life, ip]
          Retention,       \* history_retention_days, in ticks
          LastSessionTick,
          SessionBudgets   \* [admin, policy, fault, sweep, clean]

ASSUME SessionConstants ==
  /\ SessionPolicies # {} /\ Addresses # {} /\ Retention \in Nat
  /\ \A p \in SessionPolicies : p.idle \in Nat /\ p.life \in Nat

Credentials == KnoxTokens \cup ApiKeys
Users == {UserOf[c] : c \in Credentials}

VARIABLES clock, policy,
          credential,   \* "new", "live" or "gone": what Tactical authenticates
          trust,        \* the rows of TecTacSessionTrust
          request,      \* an admitted request, between its two transactions
          sweep, cleanup,   \* the steps of the two, run by the scheduler tick
          ended,        \* history: credentials with a row that was revoked
          sesLeft

sessionVars == <<clock, policy, credential, trust, request, sweep, cleanup, ended, sesLeft>>

NoTrust == [st |-> "none", created |-> 0, active |-> 0, ip |-> "unknown", bound |-> FALSE,
            lifeEnd |-> 0, idleEnd |-> 0, at |-> 0]
NoRequest == [at |-> "idle", cred |-> "none"]
NoSweep == [at |-> "idle", now |-> 0, policy |-> CHOOSE p \in SessionPolicies : TRUE, todo |-> {}]
NoCleanup == [at |-> "idle", cutoff |-> 0, stale |-> {}]

\* A row written before the digest was kept: its owner signed in at tick 0.
LegacyRow == [NoTrust EXCEPT !.st = "open", !.ip = CHOOSE i \in Addresses : TRUE,
                             !.lifeEnd = 1, !.idleEnd = 1]

InitSessions ==
  /\ clock = 0 /\ policy \in SessionPolicies
  /\ credential = [c \in Credentials |-> IF c \in LegacyTokens THEN "live" ELSE "new"]
  /\ trust = [c \in Credentials |-> IF c \in LegacyTokens THEN LegacyRow ELSE NoTrust]
  /\ request = [r \in Clients |-> NoRequest]
  /\ sweep = NoSweep /\ cleanup = NoCleanup /\ ended = {}
  /\ sesLeft \in SessionBudgets

SessionSpend(what) == sesLeft[what] > 0 /\ sesLeft' = [sesLeft EXCEPT ![what] = @ - 1]
JobsStay == UNCHANGED <<sweep, cleanup>>
Open(c) == trust[c].st = "open"
Live(c) == credential[c] = "live"
TokensOf(u) == {c \in KnoxTokens : UserOf[c] = u}

\* _refresh_expiry and _expiry_verdict, for a policy and a time.
Refreshed(row, p) == [row EXCEPT !.lifeEnd = row.created + p.life, !.idleEnd = row.active + p.idle]
Expired(row, p, t) == t >= row.created + p.life \/ t >= row.active + p.idle

\* _revoke_locked with _invalidate_knox_for_session: a row without a digest
\* ends every token of its user.
Revoked(rows) == [c \in Credentials |-> IF c \in rows THEN [trust[c] EXCEPT !.st = "revoked", !.at = clock]
                                        ELSE trust[c]]
Without(tokens) == [c \in Credentials |-> IF c \in tokens THEN "gone" ELSE credential[c]]
TokensBehind(c) == IF trust[c].bound THEN {c} ELSE TokensOf(UserOf[c])
Revoke(rows, tokens) ==
  /\ trust' = Revoked(rows) /\ ended' = ended \cup rows
  /\ credential' = Without(tokens)
RevokeRow(c) == Revoke({c}, TokensBehind(c))

----------------------------------------------------------------------------
SessionTick ==
  /\ clock < LastSessionTick /\ clock' = clock + 1
  /\ UNCHANGED <<policy, credential, trust, request, sweep, cleanup, ended, sesLeft>>

\* Tactical: a sign-in or a new key; the end of a token or key.
CredentialChanges(c) ==
  /\ \/ credential[c] = "new" /\ credential' = [credential EXCEPT ![c] = "live"]
     \/ Live(c) /\ credential' = Without({c})
  /\ UNCHANGED <<clock, policy, trust, request, sweep, cleanup, ended, sesLeft>>

_update_global_policy(p) ==
  /\ p # policy /\ SessionSpend("policy") /\ policy' = p
  /\ UNCHANGED <<clock, credential, trust, request, sweep, cleanup, ended>>

\* ensure_request_session, for a request that is admitted.  A refused request
\* changes nothing: the revocation it makes for an expired session or a changed
\* address is rolled back with its transaction by the exception that refuses it.
ensure_request_session(r, c, i) ==
  LET row == IF trust[c].st = "none"
             THEN [NoTrust EXCEPT !.st = "open", !.created = clock, !.active = clock, !.ip = i]
             ELSE trust[c]
  IN /\ request[r].at = "idle" /\ Live(c)
     /\ row.st # "revoked"
     /\ ~Expired(row, policy, clock)
     /\ i # row.ip => policy.ip \in {"off", "audit"}
     /\ trust' = [trust EXCEPT ![c] = Refreshed([row EXCEPT !.ip = i, !.bound = c \in KnoxTokens], policy)]
     /\ request' = [request EXCEPT ![r] = [at |-> "in", cred |-> c]]
     /\ UNCHANGED <<clock, policy, credential, ended, sesLeft>> /\ JobsStay

\* record_activity: the row is read again in a second transaction.
ActivityOn(r, held) ==
  LET c == request[r].cred IN
  /\ request[r].at = "in"
  /\ request' = [request EXCEPT ![r] = NoRequest]
  /\ trust' = IF held
              THEN [trust EXCEPT ![c] = Refreshed([@ EXCEPT !.active = clock, !.st = "open"], policy)] ELSE trust
  /\ UNCHANGED <<clock, policy, credential, ended, sesLeft>> /\ JobsStay
ActivityUnread(r) == ActivityOn(r, TRUE)   \* Mutant: the row ensure_request_session returned is saved.
record_activity(r) == ActivityOn(r, Open(request[r].cred) /\ ~Expired(trust[request[r].cred], policy, clock))

\* The view ends without a heartbeat.
RequestEnds(r) ==
  /\ request[r].at = "in" /\ request' = [request EXCEPT ![r] = NoRequest]
  /\ UNCHANGED <<clock, policy, credential, trust, ended, sesLeft>> /\ JobsStay

\* record_terminal_activity, with the time of the last input.  It returns its
\* refusal, so its revocation is kept.
record_terminal_activity(c, typed) ==
  LET row == trust[c]
      moved == IF typed > row.active THEN [row EXCEPT !.active = typed] ELSE row
  IN /\ Open(c) /\ row.bound /\ typed \in row.created..clock
     /\ IF Expired(moved, policy, clock) \/ typed >= row.active + policy.idle
        THEN RevokeRow(c)
        ELSE /\ trust' = [trust EXCEPT ![c] = IF typed > row.active THEN Refreshed(moved, policy) ELSE row]
             /\ UNCHANGED <<credential, ended>>
     /\ UNCHANGED <<clock, policy, request, sesLeft>> /\ JobsStay

----------------------------------------------------------------------------
\* Revocation by a person, each in one transaction.
Administers(rows, tokens) ==
  /\ SessionSpend("admin") /\ Revoke({c \in rows : Open(c)}, tokens)
  /\ UNCHANGED <<clock, policy, request>> /\ JobsStay

revoke_session(c) == Open(c) /\ Administers({c}, TokensBehind(c))

\* Every other session of a user: `kept' is the caller's row, or nothing.
revoke_user_sessions(u, kept) ==
  /\ kept \subseteq {c \in Credentials : Open(c) /\ UserOf[c] = u}
  /\ Administers({c \in Credentials : UserOf[c] = u} \ kept,
                 TokensOf(u) \ {c \in kept : trust[c].bound})

\* The rows of a login session are found by its digest.
revoke_active_login_session(c) ==
  /\ c \in KnoxTokens /\ Live(c)
  /\ Administers({c} \cap {d \in KnoxTokens : trust[d].bound}, {c})

revoke_user_login_sessions(u) ==
  LET tokens == {c \in TokensOf(u) : Live(c)} IN
  /\ tokens # {}
  /\ Administers({c \in tokens : trust[c].bound}, tokens)

\* The caller's token and row may be kept; a failed audit write undoes it all.
revoke_all_login_sessions(kept) ==
  /\ kept \subseteq KnoxTokens /\ Cardinality(kept) <= 1
  /\ Administers(Credentials \ kept, KnoxTokens \ kept)

----------------------------------------------------------------------------
\* sweep_expired_sessions: the candidates are listed for the clock and the
\* policy of its start, then each row is locked and judged in a transaction of
\* its own; a locked row or an error is left for the next tick.
SweepLists ==
  /\ sweep.at = "idle" /\ SessionSpend("sweep")
  /\ sweep' = [at |-> "rows", now |-> clock, policy |-> policy,
               todo |-> {c \in Credentials : Open(c) /\ trust[c].bound /\ Expired(trust[c], policy, clock)}]
  /\ UNCHANGED <<clock, policy, credential, trust, request, cleanup, ended>>

SweepRowIf(c, still) ==
  /\ sweep.at = "rows" /\ c \in sweep.todo
  /\ sweep' = [sweep EXCEPT !.todo = @ \ {c}]
  /\ \/ still /\ RevokeRow(c) /\ UNCHANGED sesLeft
     \/ ~still /\ UNCHANGED <<trust, credential, ended, sesLeft>>
     \/ SessionSpend("fault") /\ UNCHANGED <<trust, credential, ended>>
  /\ UNCHANGED <<clock, policy, request, cleanup>>
SweepRowListed(c) == SweepRowIf(c, Open(c))   \* Mutant: a row is revoked as it was listed.
SweepRow(c) == SweepRowIf(c, Open(c) /\ trust[c].bound /\ Expired(trust[c], sweep.policy, sweep.now))

\* Live tokens of revoked rows, by digest.
SweepOrphans ==
  /\ sweep.at = "rows" /\ sweep.todo = {} /\ sweep' = NoSweep
  /\ credential' = Without({c \in KnoxTokens : trust[c].st = "revoked" /\ trust[c].bound})
  /\ UNCHANGED <<clock, policy, trust, request, cleanup, ended, sesLeft>>

\* cleanup_session_history runs outside a transaction: the digests of the stale
\* rows are read, their tokens deleted, then the rows that are stale by then.
Stale(c, cutoff) == Open(c) /\ (trust[c].lifeEnd < cutoff \/ trust[c].idleEnd < cutoff)

CleanupReads ==
  /\ cleanup.at = "idle" /\ SessionSpend("clean")
  /\ cleanup' = [at |-> "tokens", cutoff |-> clock - Retention,
                 stale |-> {c \in Credentials : Stale(c, clock - Retention) /\ trust[c].bound}]
  /\ UNCHANGED <<clock, policy, credential, trust, request, sweep, ended>>

CleanupTokens ==
  /\ cleanup.at = "tokens" /\ credential' = Without(cleanup.stale)
  /\ cleanup' = [cleanup EXCEPT !.at = "rows"]
  /\ UNCHANGED <<clock, policy, trust, request, sweep, ended, sesLeft>>

CleanupRows ==
  /\ cleanup.at = "rows"
  /\ trust' = [c \in Credentials |-> IF Stale(c, cleanup.cutoff) THEN NoTrust ELSE trust[c]]
  /\ cleanup' = [cleanup EXCEPT !.at = "tombstones"]
  /\ UNCHANGED <<clock, policy, credential, request, sweep, ended, sesLeft>>

\* A revoked row is kept while its credential could still sign in.  When the keys
\* and Django sessions cannot be read, every row without a digest is kept.
_revoked_tombstone_is_live(c) ==
  IF trust[c].bound THEN Live(c) ELSE (\E t \in TokensOf(UserOf[c]) : Live(t)) \/ Live(c)
TombstoneOfKnox(c) == \E t \in TokensBehind(c) : Live(t)   \* Mutant: the keys are not looked at.

CleanupTombstonesIf(kept) ==
  LET old == {c \in Credentials : trust[c].st = "revoked" /\ trust[c].at < cleanup.cutoff}
      unread == {c \in old : ~trust[c].bound}
  IN /\ cleanup.at = "tombstones" /\ cleanup' = NoCleanup
     /\ \/ trust' = [c \in Credentials |-> IF c \in old \ kept THEN NoTrust ELSE trust[c]] /\ UNCHANGED sesLeft
        \/ /\ SessionSpend("fault")
           /\ trust' = [c \in Credentials |-> IF c \in old \ (kept \cup unread) THEN NoTrust ELSE trust[c]]
     /\ UNCHANGED <<clock, policy, credential, request, sweep, ended>>
CleanupForgetsKeys == CleanupTombstonesIf({c \in Credentials : TombstoneOfKnox(c)})
CleanupTombstones == CleanupTombstonesIf({c \in Credentials : _revoked_tombstone_is_live(c)})

SessionSweep == SweepLists \/ (\E c \in Credentials : SweepRow(c)) \/ SweepOrphans

NextSessions ==
  \/ SessionTick
  \/ SessionSweep
  \/ CleanupReads \/ CleanupTokens \/ CleanupRows \/ CleanupTombstones
  \/ \E p \in SessionPolicies : _update_global_policy(p)
  \/ \E c \in Credentials :
       \/ CredentialChanges(c) \/ revoke_session(c) \/ revoke_active_login_session(c)
       \/ \E r \in Clients, i \in Addresses : ensure_request_session(r, c, i)
       \/ \E typed \in 0..clock : record_terminal_activity(c, typed)
  \/ \E r \in Clients : record_activity(r) \/ RequestEnds(r)
  \/ \E u \in Users : \/ revoke_user_login_sessions(u)
                      \/ \E kept \in {{}} \cup {{c} : c \in Credentials} : revoke_user_sessions(u, kept)
  \/ \E kept \in {{}} \cup {{c} : c \in KnoxTokens} : revoke_all_login_sessions(kept)

SpecSessions == InitSessions /\ [][NextSessions]_sessionVars

----------------------------------------------------------------------------
\* "Revoked trust rows are security tombstones": a credential whose row was
\* revoked is never admitted again, whatever the sweep, the clean-up of history,
\* a late heartbeat or a change of policy do; and its Knox token is gone.
RevokedIsOut == \A c \in ended : Live(c) => c \in ApiKeys /\ trust[c].st = "revoked"

\* "Activity arrived after the list was read": a session the sweep ends was idle
\* or over by the policy and the clock the sweep began with, at the moment its
\* row was locked; and nothing but a revocation or a clean-up takes a row away.
SweepSparesActive ==
  [][\A c \in Credentials :
       /\ Open(c) /\ trust'[c].st = "revoked" /\ sweep' # sweep
            => trust[c].active + sweep.policy.idle <= sweep.now \/ trust[c].created + sweep.policy.life <= sweep.now
       /\ Open(c) /\ trust'[c].st = "none"
            => trust[c].lifeEnd < clock - Retention \/ trust[c].idleEnd < clock - Retention]_sessionVars
=============================================================================
