------------------------------- MODULE McpAuth -------------------------------
(***************************************************************************)
(* How the MCP server decides whether a bearer token is good:              *)
(* introspect_token (src/mcp-server/auth.py) with its cache in memory,     *)
(* over the backend's introspection endpoint (src/backend/apps/accounts/   *)
(* introspect.py).                                                         *)
(*                                                                         *)
(* The server is one asyncio process: calls interleave where one awaits    *)
(* the endpoint, and two may ask for the same token at once.  Tokens are   *)
(* deleted, agents deactivated and activated again while a call waits.     *)
(* One clock serves both processes; it ticks at any time.                  *)
(***************************************************************************)
EXTENDS Naturals, FiniteSets

CONSTANTS
    Tokens,    \* access tokens and agent tokens
    Agents,    \* the agent tokens
    Expiry,    \* when each of the others expires
    Calls,     \* calls at a time
    None,      \* no entry, no token
    TTL,       \* _CACHE_TTL
    Capacity,  \* the 1000 entries above which the cache is swept
    MaxTime    \* bound on the clock

VARIABLES
    clock,
    valid,    \* backend: the tokens that are not revoked
    revoked,  \* history: when a token was revoked last
    cached,   \* _TOKEN_CACHE: data["active"], and the time of the call that asked
    call      \* the calls: where each is, its token and its now

vars == <<clock, valid, revoked, cached, call>>

Times == 0 .. MaxTime
Outlived(t, time) == t \notin Agents /\ time >= Expiry[t]
Entry == [active : BOOLEAN, ts : Times]
Call == [pc : {"idle", "posting", "active", "inactive", "accepted", "refused"},
         token : Tokens \cup {None}, now : Times]
NoCall == [pc |-> "idle", token |-> None, now |-> 0]

TypeOK ==
    /\ clock \in Times
    /\ valid \subseteq Tokens
    /\ revoked \in [Tokens -> Times]
    /\ cached \in [Tokens -> Entry \cup {None}]
    /\ call \in [Calls -> Call]

Init ==
    /\ clock = 0
    /\ valid = Tokens
    /\ revoked = [t \in Tokens |-> 0]
    /\ cached = [t \in Tokens |-> None]
    /\ call = [c \in Calls |-> NoCall]

----------------------------------------------------------------------------
(* The backend *)

Tick ==
    /\ clock < MaxTime
    /\ clock' = clock + 1
    /\ UNCHANGED <<valid, revoked, cached, call>>

Revoke(t) ==
    /\ t \in valid
    /\ valid' = valid \ {t}
    /\ revoked' = [revoked EXCEPT ![t] = clock]
    /\ UNCHANGED <<clock, cached, call>>

\* An agent is activated again, and its token with it.
Reactivate(t) ==
    /\ t \in Agents \ valid
    /\ valid' = valid \cup {t}
    /\ UNCHANGED <<clock, revoked, cached, call>>

\* The endpoint looks the token up and checks its expiry.
Introspect(c) ==
    /\ call[c].pc = "posting"
    /\ LET t == call[c].token
           active == t \in valid /\ ~Outlived(t, clock)
       IN  call' = [call EXCEPT ![c].pc = IF active THEN "active" ELSE "inactive"]
    /\ UNCHANGED <<clock, valid, revoked, cached>>

----------------------------------------------------------------------------
(* introspect_token *)

\* The data of an inactive token has no exp.
Fresh(t) ==
    /\ cached[t] # None
    /\ clock < cached[t].ts + TTL
    /\ ~(cached[t].active /\ Outlived(t, clock))

\* A call may be the next one of a client whose last was answered.
Calling(c, t, pc) ==
    /\ call[c].pc \in {"idle", "accepted", "refused"}
    /\ call' = [call EXCEPT ![c] = [pc |-> pc, token |-> t, now |-> clock]]
    /\ UNCHANGED <<clock, valid, revoked, cached>>

AnswerFromCache(c, t) ==
    Fresh(t) /\ Calling(c, t, IF cached[t].active THEN "accepted" ELSE "refused")

AskBackend(c, t) == ~Fresh(t) /\ Calling(c, t, "posting")

\* What is left of the cache when it is swept: without its stale entries, or without
\* the oldest quarter when none is stale.
Entries(cache) == {t \in Tokens : cache[t] # None}
Stale(cache, now) ==
    {t \in Entries(cache) : \/ now > cache[t].ts + TTL
                            \/ cache[t].active /\ Outlived(t, now)}
Quarter(n) == IF n < 8 THEN 1 ELSE n \div 4
Oldest(cache) ==
    {old \in SUBSET Entries(cache) :
        /\ Cardinality(old) = Quarter(Cardinality(Entries(cache)))
        /\ \A t \in old, u \in Entries(cache) \ old : cache[t].ts <= cache[u].ts}

\* Variant: only stale entries leave.
SweptOfStale(cache, now) ==
    IF Cardinality(Entries(cache)) <= Capacity THEN {cache}
    ELSE {[t \in Tokens |-> IF t \in Stale(cache, now) THEN None ELSE cache[t]]}

Swept(cache, now) ==
    LET stale == Stale(cache, now)
        victims == IF stale # {} THEN {stale} ELSE Oldest(cache)
    IN  IF Cardinality(Entries(cache)) <= Capacity THEN {cache}
        ELSE {[t \in Tokens |-> IF t \in out THEN None ELSE cache[t]] : out \in victims}

\* Variant: the entry is as old as its answer.
StoreAtAnswer(c) ==
    /\ call[c].pc \in {"active", "inactive"}
    /\ LET entry == [active |-> call[c].pc = "active", ts |-> clock]
       IN  cached' \in Swept([cached EXCEPT ![call[c].token] = entry], call[c].now)
    /\ call' = [call EXCEPT ![c].pc = IF @ = "active" THEN "accepted" ELSE "refused"]
    /\ UNCHANGED <<clock, valid, revoked>>

\* The entry is as old as the call, however late its answer arrives, and replaces one
\* of a call that was made since.
Store(c) ==
    /\ call[c].pc \in {"active", "inactive"}
    /\ LET entry == [active |-> call[c].pc = "active", ts |-> call[c].now]
       IN  cached' \in Swept([cached EXCEPT ![call[c].token] = entry], call[c].now)
    /\ call' = [call EXCEPT ![c].pc = IF @ = "active" THEN "accepted" ELSE "refused"]
    /\ UNCHANGED <<clock, valid, revoked>>

\* No answer, or not a 200: the call is refused and nothing is cached.
PostFails(c) ==
    /\ call[c].pc \in {"posting", "active", "inactive"}
    /\ call' = [call EXCEPT ![c].pc = "refused"]
    /\ UNCHANGED <<clock, valid, revoked, cached>>

\* The cache and the calls are in memory.
Restart ==
    /\ cached' = [t \in Tokens |-> None]
    /\ call' = [c \in Calls |-> NoCall]
    /\ UNCHANGED <<clock, valid, revoked>>

----------------------------------------------------------------------------

Next ==
    \/ Tick \/ Restart
    \/ \E t \in Tokens : Revoke(t) \/ Reactivate(t)
    \/ \E c \in Calls : \/ Introspect(c) \/ Store(c) \/ PostFails(c)
                        \/ \E t \in Tokens : AnswerFromCache(c, t) \/ AskBackend(c, t)

Spec == Init /\ [][Next]_vars

----------------------------------------------------------------------------
(* Properties *)

\* "Revocations propagate from Django to MCP within _CACHE_TTL seconds" (auth.py:25): a
\* call that is accepted was made less than TTL after its token was revoked, if it
\* was, and before it expired, whatever answers were late or overtaken.
RevokedIsRefused ==
    \A c \in Calls : call[c].pc = "accepted" =>
        LET t == call[c].token
        IN  /\ t \in valid \/ call[c].now < revoked[t] + TTL
            /\ ~Outlived(t, call[c].now)

\* The cache never outgrows its bound, even if every entry is fresh.
CacheBounded == Cardinality(Entries(cached)) <= Capacity

=============================================================================
