-------------------------- MODULE EndpointTransport --------------------------
(***************************************************************************)
(* The endpoint agent socket (endpoint_transport.py and its consumer), for  *)
(* one agent: connect behind the failure limits and the identity check,     *)
(* takeover between connections of several processes, presence in the       *)
(* cache, the watcher, requests with their replies, and events handed to    *)
(* the owning module.  A consumer handles its messages one at a time; the   *)
(* watcher, the cache calls and the hand-over run beside it.                *)
(***************************************************************************)
EXTENDS Integers, Sequences, FiniteSets

CONSTANTS Sockets,        \* connections, in any process
          Presents,       \* socket -> "good", "wrong", "malformed" or "plain": what the client shows
          From,           \* socket -> its address
          Calls,          \* requests of the owning module, each with an id of its own
          MaxFailures,    \* FAILURES_PER_ADDRESS_PER_MINUTE, FAILURES_PER_AGENT_PER_MINUTE
          MaxPending,     \* MAX_PENDING_REQUESTS
          MaxUnanswered,  \* MAX_UNANSWERED_PINGS
          PresenceTicks, RecheckTicks, GraceTicks,
          WireBudgets     \* [fault, evict, drop, revoke, call, event, and who connects until when]

VARIABLES wireNow,
          agentToken,   \* whether Tactical accepts the good token
          failures,     \* failed attempts this minute: by address, and naming the agent
          sock, group, box,
          presence,     \* the cached key: its owner and when it expires
          calls,        \* the waiting calls of request()
          owner,        \* register_owner in this process: who is it, is in the middle, is enabled, ever was
          event,        \* the agent's event: kept or acknowledged, and how often it was queued
          wireLeft

wireVars == <<wireNow, agentToken, failures, sock, group, box, presence, calls, owner, event, wireLeft>>

NoPresence == [by |-> "nobody", until |-> 0]
NoSocket == [at |-> "none", code |-> 0, superseded |-> FALSE, okAt |-> 0, recheckAt |-> 0,
             pingAt |-> 0, unanswered |-> 0, cache |-> {}, pending |-> {}, asked |-> {},
             hand |-> "none", leftAt |-> 0]

InitTransport ==
  /\ wireNow = 0 /\ agentToken = "valid"
  /\ failures = [by |-> [i \in {From[c] : c \in Sockets} |-> 0], agent |-> 0]
  /\ sock = [c \in Sockets |-> NoSocket] /\ group = {} /\ box = [c \in Sockets |-> <<>>]
  /\ presence = NoPresence /\ calls = [r \in Calls |-> "none"]
  /\ owner = [is |-> "none", checked |-> {}, enabled |-> {"nats-comms"}, seen |-> {}]
  /\ event = [acked |-> FALSE, queued |-> 0]
  /\ wireLeft \in WireBudgets

WireSpend(what) == wireLeft[what] > 0 /\ wireLeft' = [wireLeft EXCEPT ![what] = @ - 1]
Put(c, at) == sock' = [sock EXCEPT ![c].at = at]
At(c, at) == sock[c].at = at
Connected(c) == At(c, "open")
CloseWith(c, code) == sock' = [sock EXCEPT ![c].at = "closing", ![c].code = code]
Refuse(c, code) == sock' = [sock EXCEPT ![c].at = "gone", ![c].code = code, ![c].leftAt = wireNow]
OnlySocket == UNCHANGED <<wireNow, agentToken, failures, group, box, presence, calls, owner, event>>
OnlyPresence == UNCHANGED <<wireNow, agentToken, failures, group, box, calls, owner, event>>

----------------------------------------------------------------------------
\* connect().  The limit of the address is read first; a full cache pool is an
\* answer of its own, a cache fault reads as not limited.
rate_limited(c) ==
  /\ At(c, "none") /\ c \in wireLeft.who
  /\ \/ /\ IF failures.by[From[c]] >= MaxFailures
           THEN Refuse(c, 4429) /\ UNCHANGED failures
           ELSE IF Presents[c] = "plain"
           THEN Refuse(c, 4403) /\ failures' = [failures EXCEPT !.by[From[c]] = @ + 1]
           ELSE Put(c, "auth") /\ UNCHANGED failures
        /\ UNCHANGED wireLeft
     \/ WireSpend("fault") /\ Refuse(c, 1013) /\ UNCHANGED failures
  /\ UNCHANGED <<wireNow, agentToken, group, box, presence, calls, owner, event>>

\* authenticate_async, then note_failed_check: the limit of the agent id is read
\* before this failure is counted, and only after a failed check.
authenticate_async(c) ==
  LET ok == Presents[c] = "good" /\ agentToken = "valid" IN
  /\ At(c, "auth")
  /\ \/ ok /\ Put(c, "join") /\ UNCHANGED <<failures, wireLeft>>
     \/ /\ ~ok
        /\ Refuse(c, IF failures.agent >= MaxFailures THEN 4429 ELSE 4401)
        /\ failures' = [failures EXCEPT !.by[From[c]] = @ + 1,
                                        !.agent = IF Presents[c] = "malformed" THEN @ ELSE @ + 1]
        /\ UNCHANGED wireLeft
     \/ WireSpend("fault") /\ Refuse(c, 1013) /\ UNCHANGED failures     \* database, pool full or timeout
  /\ UNCHANGED <<wireNow, agentToken, group, box, presence, calls, owner, event>>

JoinGroup(c) ==
  /\ At(c, "join") /\ Put(c, "present") /\ group' = group \cup {c}
  /\ UNCHANGED <<wireNow, agentToken, failures, box, presence, calls, owner, event, wireLeft>>

set_presence(c) ==
  /\ At(c, "present") /\ Put(c, "announce")
  /\ \/ presence' = [by |-> c, until |-> wireNow + PresenceTicks] /\ UNCHANGED wireLeft
     \/ WireSpend("fault") /\ UNCHANGED presence
  /\ OnlyPresence

\* The takeover goes to every member of the group, this one included.
ToGroup(message) == box' = [d \in Sockets |-> IF d \in group THEN Append(box[d], message) ELSE box[d]]
Announce(c) ==
  /\ At(c, "announce") /\ ToGroup([kind |-> "takeover", from |-> c])
  /\ sock' = [sock EXCEPT ![c].at = "open", ![c].okAt = wireNow, ![c].recheckAt = wireNow + RecheckTicks,
                          ![c].pingAt = wireNow + 1]
  /\ UNCHANGED <<wireNow, agentToken, failures, group, presence, calls, owner, event, wireLeft>>

----------------------------------------------------------------------------
\* Messages of the group, handled in order, still so after close().
TakeoverNoted(c, m) ==                \* Mutant: the older connection is not closed.
  sock' = IF m.from = c THEN sock ELSE [sock EXCEPT ![c].superseded = TRUE]
endpoint_takeover(c, m) ==
  sock' = IF m.from = c THEN sock
          ELSE [sock EXCEPT ![c].superseded = TRUE, ![c].at = "closing",
                            ![c].code = IF At(c, "closing") THEN @ ELSE 4409]

\* _expire_pending: an entry outlives the wait of its caller, which began earlier.
Expiring(c) == {p \in SUBSET sock[c].pending : \A r \in sock[c].pending \ p : calls[r] # "waiting"}

endpoint_request(c, m) ==
  \E kept \in Expiring(c) :
    LET fits == Cardinality(kept) < MaxPending
    IN sock' = [sock EXCEPT ![c].pending = IF fits THEN kept \cup {m.call} ELSE kept,
                            ![c].asked = IF fits /\ Connected(c) THEN @ \cup {m.call} ELSE @]

GroupMessage(c) ==
  /\ sock[c].at \in {"open", "closing"} /\ box[c] # <<>>
  /\ LET m == Head(box[c])
     IN IF m.kind = "takeover" THEN endpoint_takeover(c, m) ELSE endpoint_request(c, m)
  /\ box' = [box EXCEPT ![c] = Tail(@)]
  /\ UNCHANGED <<wireNow, agentToken, failures, group, presence, calls, owner, event, wireLeft>>

----------------------------------------------------------------------------
\* The watcher's pass when something is due: the re-check, then the ping with
\* its _rejoin_group and _refresh_presence.
StaleAfter == RecheckTicks + GraceTicks
WireDue(c) == Connected(c) /\ (wireNow >= sock[c].recheckAt \/ wireNow >= sock[c].pingAt)

\* The ping half of a pass, for a socket as the re-check left it.
Pings(c, s) ==
  IF wireNow < s.pingAt THEN s
  ELSE IF s.unanswered >= MaxUnanswered THEN [s EXCEPT !.at = "closing", !.code = 4408]
  ELSE [s EXCEPT !.unanswered = @ + 1, !.pingAt = wireNow + 1,
                 !.cache = IF s.superseded THEN @ ELSE @ \cup {"get"}]

_tick(c) ==
  LET s == sock[c]
      stale == wireNow - s.okAt > StaleAfter
      checked == [s EXCEPT !.okAt = wireNow, !.recheckAt = wireNow + RecheckTicks]
      closed(code) == [s EXCEPT !.at = "closing", !.code = code]
      recheck == wireNow >= s.recheckAt
  IN /\ WireDue(c)
     /\ \/ /\ recheck => agentToken = "valid"
           /\ sock' = [sock EXCEPT ![c] = Pings(c, IF recheck THEN checked ELSE s)]
           /\ UNCHANGED wireLeft
        \/ /\ recheck /\ agentToken # "valid"
           /\ sock' = [sock EXCEPT ![c] = closed(4401)] /\ UNCHANGED wireLeft
        \/ /\ recheck /\ WireSpend("fault")          \* a transient answer
           /\ sock' = [sock EXCEPT ![c] = IF stale THEN closed(1013)
                                          ELSE Pings(c, [s EXCEPT !.recheckAt = wireNow + 1])]
     /\ group' = IF sock'[c].at = "open" /\ sock'[c].pingAt # s.pingAt THEN group \cup {c} ELSE group
     /\ UNCHANGED <<wireNow, agentToken, failures, box, presence, calls, owner, event>>

Pong(c) ==
  /\ Connected(c) /\ sock[c].unanswered > 0
  /\ sock' = [sock EXCEPT ![c].unanswered = 0, ![c].cache = IF sock[c].superseded THEN @ ELSE @ \cup {"get"}]
  /\ OnlySocket /\ UNCHANGED wireLeft

\* refresh_presence on the cache pool: a read, then a touch or an add.  The call
\* goes on when the connection ends.
RefreshReads(c) ==
  /\ "get" \in sock[c].cache
  /\ sock' = [sock EXCEPT ![c].cache = (@ \ {"get"}) \cup
       IF presence.by = c THEN {"touch"} ELSE IF presence = NoPresence THEN {"add"} ELSE {}]
  /\ OnlySocket /\ UNCHANGED wireLeft

RefreshWrites(c) ==
  \E what \in sock[c].cache \cap {"touch", "add"} :
    /\ sock' = [sock EXCEPT ![c].cache = @ \ {what}]
    /\ presence' = IF what = "touch" /\ presence # NoPresence
                   THEN [presence EXCEPT !.until = wireNow + PresenceTicks]
                   ELSE IF what = "add" /\ presence = NoPresence
                   THEN [by |-> c, until |-> wireNow + PresenceTicks] ELSE presence
    /\ OnlyPresence /\ UNCHANGED wireLeft

----------------------------------------------------------------------------
\* The client or the network ends the connection.
Drops(c) ==
  /\ Connected(c) /\ WireSpend("drop") /\ CloseWith(c, 1006) /\ OnlySocket

\* disconnect(): waiting work is dropped, the group is left, and the presence is
\* cleared by a read and a delete unless a newer connection took over.
disconnect(c) ==
  /\ At(c, "closing")
  /\ sock' = [sock EXCEPT ![c].at = IF sock[c].superseded THEN "gone" ELSE "clear", ![c].leftAt = wireNow,
                          ![c].pending = {}, ![c].hand = CASE @ = "none" -> @ [] @ = "running" -> "over" [] OTHER -> "done"]
  /\ group' = group \ {c} /\ box' = [box EXCEPT ![c] = <<>>]
  /\ UNCHANGED <<wireNow, agentToken, failures, presence, calls, owner, event, wireLeft>>

clear_presence(c) ==
  /\ At(c, "clear")
  /\ \/ Put(c, IF presence.by = c THEN "delete" ELSE "gone") /\ UNCHANGED wireLeft
     \/ WireSpend("fault") /\ Put(c, "gone")
  /\ OnlySocket

ClearDeletes(c) ==
  /\ At(c, "delete") /\ Put(c, "gone") /\ presence' = NoPresence /\ OnlyPresence /\ UNCHANGED wireLeft

----------------------------------------------------------------------------
\* request(): decided from presence, sent to the group, then a wait.
request_call(r) ==
  /\ calls[r] = "none" /\ WireSpend("call")
  /\ IF presence = NoPresence THEN calls' = [calls EXCEPT ![r] = "offline"] /\ UNCHANGED box
     ELSE calls' = [calls EXCEPT ![r] = "waiting"] /\ ToGroup([kind |-> "request", call |-> r])
  /\ UNCHANGED <<wireNow, agentToken, failures, sock, group, presence, owner, event>>

CallTimesOut(r) ==
  /\ calls[r] = "waiting" /\ calls' = [calls EXCEPT ![r] = "timeout"]
  /\ UNCHANGED <<wireNow, agentToken, failures, sock, group, box, presence, owner, event, wireLeft>>

\* _route_reply: the agent answers, once or again, what it was asked here.  A reply
\* for a call that gave up goes to a channel nobody reads.
_route_reply(c, r) ==
  /\ Connected(c) /\ r \in sock[c].asked
  /\ \E kept \in Expiring(c) :
       /\ sock' = [sock EXCEPT ![c].pending = kept \ {r}]
       /\ calls' = IF r \in kept /\ calls[r] = "waiting" THEN [calls EXCEPT ![r] = "ok"] ELSE calls
  /\ UNCHANGED <<wireNow, agentToken, failures, group, box, presence, owner, event, wireLeft>>

----------------------------------------------------------------------------
\* register_owner, called in every process: checked, then checked again under
\* the lock.  endpoint-comms is preferred when it is enabled.
OwnerEnabled ==
  /\ "endpoint-comms" \notin owner.enabled /\ wireLeft.event > 0
  /\ owner' = [owner EXCEPT !.enabled = @ \cup {"endpoint-comms"}]
  /\ UNCHANGED <<wireNow, agentToken, failures, sock, group, box, presence, calls, event, wireLeft>>
OwnerChecks(m) ==
  /\ owner.is = "none" /\ m \notin owner.checked /\ wireLeft.event > 0
  /\ m \in owner.enabled /\ (m = "nats-comms" => "endpoint-comms" \notin owner.enabled)
  /\ owner' = [owner EXCEPT !.checked = @ \cup {m}]
  /\ UNCHANGED <<wireNow, agentToken, failures, sock, group, box, presence, calls, event, wireLeft>>
_register_owner(m) ==
  /\ m \in owner.checked
  /\ LET is == IF owner.is = "none" THEN m ELSE owner.is
     IN owner' = [owner EXCEPT !.is = is, !.checked = @ \ {m}, !.seen = @ \cup {is}]
  /\ UNCHANGED <<wireNow, agentToken, failures, sock, group, box, presence, calls, event, wireLeft>>

\* An event of the agent, sent again while it is not acknowledged.
_start_event(c) ==
  /\ Connected(c) /\ sock[c].hand = "none" /\ ~event.acked /\ WireSpend("event")
  /\ sock' = [sock EXCEPT ![c].hand = "running"] /\ OnlySocket

\* enqueue_event in its thread, which a timeout or the end of the connection leaves running.
enqueue_event(c) ==
  /\ sock[c].hand \in {"running", "over"}
  /\ \/ /\ owner.is # "none" /\ event' = [event EXCEPT !.queued = @ + 1]
        /\ sock' = [sock EXCEPT ![c].hand = IF @ = "running" THEN "ok" ELSE "done"] /\ UNCHANGED wireLeft
     \/ /\ owner.is = "none" /\ UNCHANGED <<event, wireLeft>>
        /\ sock' = [sock EXCEPT ![c].hand = IF @ = "running" THEN "failed" ELSE "done"]
     \/ /\ WireSpend("fault") /\ UNCHANGED event
        /\ sock' = [sock EXCEPT ![c].hand = IF @ = "running" THEN "failed" ELSE "done"]
  /\ UNCHANGED <<wireNow, agentToken, failures, group, box, presence, calls, owner>>

\* The acknowledgement follows a hand-over that succeeded in time.
_handle_event(c) ==
  /\ sock[c].hand \in {"running", "ok", "failed"}
  /\ event' = [event EXCEPT !.acked = @ \/ (sock[c].hand = "ok" /\ Connected(c))]
  /\ IF sock[c].hand = "running" THEN WireSpend("fault") ELSE UNCHANGED wireLeft
  /\ sock' = [sock EXCEPT ![c].hand = IF @ = "running" THEN "over" ELSE "none"]
  /\ UNCHANGED <<wireNow, agentToken, failures, group, box, presence, calls, owner>>

----------------------------------------------------------------------------
\* Tactical deletes the agent or gives it a new token; the cache loses its keys.
TokenRevoked ==
  /\ agentToken = "valid" /\ WireSpend("revoke") /\ agentToken' = "revoked"
  /\ UNCHANGED <<wireNow, failures, sock, group, box, presence, calls, owner, event>>
CacheLoses ==
  /\ presence # NoPresence /\ WireSpend("evict") /\ presence' = NoPresence
  /\ UNCHANGED <<wireNow, agentToken, failures, sock, group, box, calls, owner, event>>

\* A minute: pings and re-checks that are due come first, and no cache call,
\* connect or disconnect takes that long.
MinutePasses ==
  /\ wireNow < wireLeft.until
  /\ \A c \in Sockets : ~WireDue(c) /\ sock[c].cache = {} /\ sock[c].at \in {"none", "open", "gone"}
  /\ wireNow' = wireNow + 1
  /\ failures' = [by |-> [i \in DOMAIN failures.by |-> 0], agent |-> 0]
  /\ presence' = IF presence # NoPresence /\ presence.until <= wireNow + 1 THEN NoPresence ELSE presence
  /\ UNCHANGED <<agentToken, sock, group, box, calls, owner, event, wireLeft>>

NextTransport ==
  \/ \E c \in Sockets :
       \/ rate_limited(c) \/ authenticate_async(c) \/ JoinGroup(c) \/ set_presence(c) \/ Announce(c)
       \/ GroupMessage(c) \/ _tick(c) \/ Pong(c) \/ RefreshReads(c) \/ RefreshWrites(c)
       \/ Drops(c) \/ disconnect(c) \/ clear_presence(c) \/ ClearDeletes(c)
       \/ _start_event(c) \/ enqueue_event(c) \/ _handle_event(c)
       \/ \E r \in Calls : _route_reply(c, r)
  \/ \E r \in Calls : request_call(r) \/ CallTimesOut(r)
  \/ \E m \in {"endpoint-comms", "nats-comms"} : OwnerChecks(m) \/ _register_owner(m)
  \/ OwnerEnabled \/ TokenRevoked \/ CacheLoses \/ MinutePasses

----------------------------------------------------------------------------
Settled == \A c \in Sockets : sock[c].at \in {"none", "open", "gone"} /\ box[c] = <<>>

\* "One live connection per agent, across processes": once connects and takeovers
\* have been handled, at most one connection is open.  Presence never names a
\* connection that ended longer ago than the key lives, whatever refreshes and
\* clears of other connections did meanwhile.  "A long fault never keeps a socket
\* open for good": the token of an open connection passed a check no longer ago
\* than the re-check interval and its grace.  A good token is refused for
\* failures only when its own address had them, and 4401 means it is revoked.  An
\* acknowledged event was queued for its owner, and one module owns them.
TransportIsSound ==
  /\ Settled => Cardinality({c \in Sockets : Connected(c)}) <= 1
  /\ presence # NoPresence /\ At(presence.by, "gone") => wireNow - sock[presence.by].leftAt < PresenceTicks
  /\ \A c \in Sockets : Connected(c) /\ ~WireDue(c) => wireNow - sock[c].okAt <= StaleAfter
  /\ \A c \in Sockets : Presents[c] = "good" /\ agentToken = "valid" =>
       /\ sock[c].code # 4401
       /\ sock[c].code = 4429 => \E d \in Sockets : From[d] = From[c] /\ Presents[d] # "good"
  /\ event.acked => event.queued > 0
  /\ Cardinality(owner.seen) <= 1
=============================================================================
