---------------------------- MODULE TokenVerifier ----------------------------
(***************************************************************************)
(* The verification of bearer tokens (internal/authn) by one process of    *)
(* the system, while the identity provider rotates its signing keys.       *)
(*                                                                         *)
(* All requests share a cache of the provider's key set, under a           *)
(* readers-writer lock.  A reader's critical section is one step, which    *)
(* needs that nobody writes; a writer keeps the lock while it fetches the  *)
(* key set, which may take long, and the set it gets is the one of some    *)
(* moment in between.  A request whose key is not in the cache forces a    *)
(* fetch, unless somebody fetched while it waited for the lock.            *)
(*                                                                         *)
(* A key id stands for one key.                                            *)
(***************************************************************************)
EXTENDS TokenClaims, FiniteSets

CONSTANTS
    Requests,  \* goroutines that serve requests
    Kids,      \* key ids
    Usable,    \* those of well-formed RSA keys
    FirstKeys, \* the key set the provider publishes first
    KeysAfter, \* of each key set, the sets the provider may publish next (a bound)
    TokensOf,  \* of each request, the tokens it may carry (a bound)
    NoHeader,  \* no Authorization header
    TTL,       \* how long a fetched key set is used
    MaxTime    \* the last time (a bound)

\* The authentication context made of a validated payload.
ContextOf(payload) == [claims |-> ValidatedClaims(PayloadMap(payload), Typed(payload))]

\* How the verification of a request ends.
Outcomes == {"anonymous", "malformed", "unusable", "unknown", "unavailable", "invalid", "accepted"}

ASSUME TokenVerifierAssumption ==
    /\ Usable \subseteq Kids
    /\ FirstKeys \in DOMAIN KeysAfter
    /\ KeysAfter \in [DOMAIN KeysAfter -> SUBSET DOMAIN KeysAfter]
    /\ DOMAIN KeysAfter \subseteq SUBSET Kids
    /\ TTL \in Nat \ {0} /\ MaxTime \in Nat /\ Leeway \in Nat
    /\ Absent \notin Kids \cup Requests \cup Nat \cup Outcomes
    /\ \A r \in Requests : \A token \in TokensOf[r] :
          \/ token = NoHeader
          \/ /\ token.payload \in Payloads
             /\ Absent # ContextOf(token.payload)

VARIABLES
    now,        \* the time
    published,  \* the key ids the provider publishes
    retired,    \* when each key id was last published, or Absent
    cache,      \* the cached key set, or Absent
    fetchedAt,  \* lastJWKSFetch; 0 before the first
    holder,     \* the request that holds the write lock, or Absent
    task        \* of each request, how far it is

vars     == <<now, published, retired, cache, fetchedAt, holder, task>>
provider == <<published, retired>>
keyCache == <<cache, fetchedAt>>

\* Of a request: where it is, what it carries, whether it forces a fetch, the
\* time it last read, the snapshot of lastJWKSFetch, the key set it works
\* with, and its outcome; for the properties, the time it came in and the key
\* ids that have been published ever since.
Idle == [at |-> "idle", token |-> NoHeader, force |-> FALSE, time |-> 0, snapshot |-> 0,
         keys |-> {}, outcome |-> Absent, ctx |-> Absent, arrived |-> 0, steady |-> {}]

\* A request that has nothing of its look-up left but the key it names; one
\* that is served, or refused.
Carrying(t)      == [Idle EXCEPT !.token = t.token, !.arrived = t.arrived, !.steady = t.steady]
Done(t, outcome) == [Carrying(t) EXCEPT !.at = "done", !.outcome = outcome]

Init ==
    /\ now = 1
    /\ published = FirstKeys
    /\ retired = [k \in Kids |-> Absent]
    /\ cache = Absent /\ fetchedAt = 0
    /\ holder = Absent
    /\ task = [r \in Requests |-> Idle]

----------------------------------------------------------------------------
(* Time and the identity provider.                                         *)

Tick ==
    /\ now < MaxTime
    /\ now' = now + 1
    /\ UNCHANGED <<provider, keyCache, holder, task>>

Rotate(K) ==
    /\ published' = K
    /\ retired' = [k \in Kids |-> IF k \in published \ K THEN now ELSE retired[k]]
    /\ task' = [r \in Requests |-> [task[r] EXCEPT !.steady = @ \cap K]]
    /\ UNCHANGED <<now, keyCache, holder>>

----------------------------------------------------------------------------
(* A request.                                                              *)

HasKid(token)    == token.kid # Absent
ParsesAsRSA(kid) == kid \in Usable

\* The claims are decoded before the key is looked for; a token without a key
\* id is refused then.  The first read of the clock.
Arrive(r, token) ==
    /\ task[r].at = "idle"
    /\ task' = [task EXCEPT ![r] =
          LET t == [Idle EXCEPT !.token = token, !.time = now, !.arrived = now,
                                !.steady = published]
          IN  IF token = NoHeader THEN Done(t, "anonymous")
              ELSE IF ~Decodes(token.payload) \/ ~HasKid(token) THEN Done(t, "malformed")
              ELSE [t EXCEPT !.at = "read"]]
    /\ UNCHANGED <<now, provider, keyCache, holder>>

\* The cache is trusted for ever.
TrustedForEver(time) == cache # Absent

CacheValid(time) == cache # Absent /\ TTL > 0 /\ time < fetchedAt + TTL

\* What a request does with the key set it has got: it goes on with the key it
\* names, or forces a fetch, once.
LookUp(t, keys) ==
    IF t.token.kid \in keys
    THEN IF ParsesAsRSA(t.token.kid) THEN [Carrying(t) EXCEPT !.at = "verify"]
         ELSE Done(t, "unusable")
    ELSE IF t.force THEN Done(t, "unknown")
    ELSE [Carrying(t) EXCEPT !.at = "read", !.force = TRUE, !.time = now]

\* Under the read lock, with the time read before it.
ReadCache(r) ==
    /\ task[r].at = "read"
    /\ holder = Absent
    /\ task' = [task EXCEPT ![r] =
          IF ~@.force /\ CacheValid(@.time) THEN LookUp(@, cache)
          ELSE [@ EXCEPT !.at = "wait", !.time = 0, !.snapshot = fetchedAt]]
    /\ UNCHANGED <<now, provider, keyCache, holder>>

\* A forced fetch is left out whenever the cache is valid.
CoalescesValid(t) == t.force /\ CacheValid(now)

Coalesces(t) == t.force /\ cache # Absent /\ t.snapshot < fetchedAt

\* Under the write lock, with the time read again: somebody else may have
\* fetched meanwhile.
Acquire(r) ==
    /\ task[r].at = "wait"
    /\ holder = Absent
    /\ IF (~task[r].force /\ CacheValid(now)) \/ Coalesces(task[r])
       THEN task' = [task EXCEPT ![r] = LookUp(@, cache)] /\ UNCHANGED holder
       ELSE /\ task' = [task EXCEPT ![r] =
                          [@ EXCEPT !.at = "fetch", !.time = now, !.snapshot = 0]]
            /\ holder' = r
    /\ UNCHANGED <<now, provider, keyCache>>

\* The provider answers the fetch of the lock's holder; the answer travels.
AnswerFetch(r) ==
    /\ task[r].at = "fetch"
    /\ task' = [task EXCEPT ![r] = [@ EXCEPT !.at = "store", !.keys = published]]
    /\ UNCHANGED <<now, provider, keyCache, holder>>

\* It arrives; the cache is dated with the time before the fetch.  An empty
\* key set is an error.
StoreKeys(r) ==
    /\ task[r].at = "store"
    /\ holder' = Absent
    /\ IF task[r].keys = {}
       THEN task' = [task EXCEPT ![r] = Done(@, "unavailable")] /\ UNCHANGED keyCache
       ELSE /\ cache' = task[r].keys /\ fetchedAt' = task[r].time
            /\ task' = [task EXCEPT ![r] = LookUp(@, @.keys)]
    /\ UNCHANGED <<now, provider>>

\* The provider cannot be reached, refuses, or takes too long.
FailFetch(r) ==
    /\ task[r].at \in {"fetch", "store"}
    /\ holder' = Absent
    /\ task' = [task EXCEPT ![r] = Done(@, "unavailable")]
    /\ UNCHANGED <<now, provider, keyCache>>

\* The signature is verified with the key, then the claims; RequireAuth and the
\* handlers read the claims from the context.
Verify(r) ==
    /\ task[r].at = "verify"
    /\ task' = [task EXCEPT ![r] =
          LET payload == @.token.payload
          IN  IF @.token.genuine /\ Validated(Typed(payload), now)
              THEN [Done(@, "accepted") EXCEPT !.ctx = ContextOf(payload)]
              ELSE Done(@, "invalid")]
    /\ UNCHANGED <<now, provider, keyCache, holder>>

\* The goroutine serves the next request.
Leave(r) ==
    /\ task[r].at = "done"
    /\ task' = [task EXCEPT ![r] = Idle]
    /\ UNCHANGED <<now, provider, keyCache, holder>>

Next ==
    \/ Tick
    \/ \E K \in KeysAfter[published] : Rotate(K)
    \/ \E r \in Requests :
          \/ \E token \in TokensOf[r] : Arrive(r, token)
          \/ ReadCache(r) \/ Acquire(r)
          \/ AnswerFetch(r) \/ StoreKeys(r) \/ FailFetch(r)
          \/ Verify(r) \/ Leave(r)

Spec == Init /\ [][Next]_vars

----------------------------------------------------------------------------
(* Properties.                                                             *)

\* RequireAuth lets the request through.
Accepted(r) == task[r].outcome = "accepted"

\* A token is accepted only with a key that the provider published, at the
\* latest, a TTL before the request came in, however long fetches take and
\* whoever made them (the cache is dated before its fetch, token_parser.go:277
\* and 295).
FreshKey ==
    \A r \in Requests : Accepted(r) =>
        LET k == task[r].token.kid
        IN  k \in published \/ (retired[k] # Absent /\ task[r].arrived < retired[k] + TTL)

\* "A token that names a key ID not in the cache forces one re-fetch, so
\* rotated keys are picked up immediately" (cmd/ce/CONSENT_LIFECYCLE.md:74):
\* no token is refused for an unknown key that was published ever since the
\* request came in, although forced fetches are shared (token_parser.go:285).
KnownKeyAccepted ==
    \A r \in Requests : task[r].outcome = "unknown" => task[r].token.kid \notin task[r].steady

\* What the accessors of an accepted token say is what was validated, although
\* the accessors read the payload's map and the validation the typed fields,
\* which encoding/json binds regardless of capitals (claim_decode.go:45-52):
\* the same consumer for the orchestration engine, the same owner for the
\* consent engine, the same roles and scopes for the portal backend.
PrincipalIsValidated ==
    \A r \in Requests : Accepted(r) =>
        LET t   == Typed(task[r].token.payload)
            ctx == task[r].ctx
        IN  /\ AuthContext(ctx) =
                  [sub |-> t.sub, clientID |-> t.clientID, email |-> TrimSpace(t.email),
                   ouID |-> TrimSpace(t.ouID), ouHandle |-> TrimSpace(t.ouHandle),
                   roles |-> ParseRolesClaim(t.roles), scopes |-> t.scopes]
            /\ ConsumerFromContext(ctx) = [applicationID |-> t.clientID, subscriber |-> t.sub]
            /\ OwnerSubject(ctx, "sub") = t.sub
            /\ OwnerSubject(ctx, "email") = TrimSpace(t.email)
            /\ t.scopes # Absent => \A i \in DOMAIN t.scopes : HasScope(ctx, t.scopes[i])
=============================================================================
