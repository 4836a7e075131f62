------------------------- MODULE TokenVerifierProofs -------------------------
(***************************************************************************)
(* The three promises of TokenVerifier for all requests, tokens, claims,   *)
(* key sets and rotations, however long fetches take.                      *)
(***************************************************************************)
EXTENDS TokenVerifier, SequenceTheorems, TLAPS

(***************************************************************************)
(* The inductive invariant.  Each part speaks of a request's record, so    *)
(* that a step can be proved right by what it puts in the record's place.  *)
(***************************************************************************)

\* The provider still published the key at a time, or later.
PublishedSince(k, time) ==
    k \in Kids /\ (k \in published \/ (retired[k] # Absent /\ time <= retired[k]))

\* FreshKey, of one request.
Fresh(t) ==
    LET k == t.token.kid
    IN  k \in Kids /\ (k \in published \/ (retired[k] # Absent /\ t.arrived < retired[k] + TTL))

Fetching(t) == t.at \in {"fetch", "store"}

\* What a request's record says of itself.  An answer that travels was
\* published at the time noted before its fetch, or later.
Formed(t) ==
    /\ t.arrived <= now
    /\ t.steady \subseteq published
    /\ t.at \in {"read", "wait", "fetch", "store", "verify"} =>
         t.token # NoHeader /\ Decodes(t.token.payload)
    /\ t.at \in {"read", "fetch", "store"} =>
         t.arrived <= t.time /\ t.time <= now
    /\ t.at = "read" /\ ~t.force => t.time = t.arrived
    /\ t.at = "wait" => t.snapshot <= fetchedAt
    /\ Fetching(t) => fetchedAt <= t.time
    /\ t.at = "store" => \A k \in t.keys : PublishedSince(k, t.time)
    /\ t.at \in {"idle", "read", "wait", "fetch", "store", "verify"} => t.outcome = Absent

\* What it may conclude.
Concluded(t) ==
    /\ t.at = "verify" \/ t.outcome = "accepted" => Fresh(t)
    /\ t.outcome = "unknown" => t.token.kid \notin t.steady
    /\ t.outcome = "accepted" =>
         /\ t.token # NoHeader /\ Decodes(t.token.payload)
         /\ \E time \in 0..now : Validated(Typed(t.token.payload), time)
         /\ t.ctx = ContextOf(t.token.payload)

\* A request that waits for the lock can use what was fetched meanwhile: the
\* fetch began after the request came in, so it brought every key published
\* ever since.
Served(t) ==
    t.at = "wait" /\ t.snapshot < fetchedAt => t.arrived <= fetchedAt /\ t.steady \subseteq cache

\* What t will be served by the fetch u makes.
ServedBy(t, u) ==
    /\ Fetching(u) => t.arrived <= u.time
    /\ u.at = "store" => t.steady \subseteq u.keys

ProviderOK ==
    /\ now \in Nat
    /\ published \in DOMAIN KeysAfter
    /\ retired \in [Kids -> Nat \cup {Absent}]

CacheOK ==
    /\ fetchedAt \in Nat /\ fetchedAt <= now
    /\ cache # Absent => \A k \in cache : PublishedSince(k, fetchedAt)

Tokens   == (UNION {TokensOf[r] : r \in Requests}) \cup {NoHeader}
Contexts == {ContextOf(token.payload) : token \in Tokens \ {NoHeader}} \cup {Absent}

Task ==
    [at : {"idle", "read", "wait", "fetch", "store", "verify", "done"},
     token : Tokens, force : BOOLEAN, time : Nat, snapshot : Nat,
     keys : SUBSET Kids, outcome : Outcomes \cup {Absent}, ctx : Contexts,
     arrived : Nat, steady : SUBSET Kids]

RequestsOK ==
    /\ task \in [Requests -> Task]
    /\ \A r \in Requests :
          /\ Formed(task[r]) /\ Concluded(task[r]) /\ Served(task[r])
          /\ Fetching(task[r]) => holder = r
    /\ \A r, q \in Requests :
          r = q \/ task[r].at = "wait" => ServedBy(task[r], task[q])

IInv == ProviderOK /\ CacheOK /\ RequestsOK

(***************************************************************************)
(* What every step needs.                                                  *)
(***************************************************************************)

\* The values of the constants that the proofs rest on.
LEMMA Constants ==
  /\ Absent \notin Kids /\ Absent \notin Requests /\ Absent \notin Nat /\ Absent \notin Outcomes
  /\ TTL \in Nat /\ TTL > 0
  /\ \A K \in DOMAIN KeysAfter : K \subseteq Kids
  /\ \A K \in DOMAIN KeysAfter : KeysAfter[K] \subseteq DOMAIN KeysAfter
BY TokenVerifierAssumption DEF TokenVerifierAssumption

\* A record of a request that has nothing of its look-up left is one, and has
\* kept its token, its time and its keys.
LEMMA CarryingType ==
  ASSUME NEW t \in Task
  PROVE  /\ Idle \in Task
         /\ Carrying(t) \in Task
         /\ Carrying(t).token = t.token /\ Carrying(t).arrived = t.arrived
         /\ Carrying(t).steady = t.steady
         /\ Carrying(t).at = "idle" /\ Carrying(t).outcome = Absent
<1>0. NoHeader \in Tokens /\ Absent \in Contexts
  BY DEF Tokens, Contexts
<1>1. Idle \in Task
  BY <1>0 DEF Idle, Task
<1>2. t.token \in Tokens /\ t.arrived \in Nat /\ t.steady \in SUBSET Kids
  BY DEF Task
<1>3. Carrying(t) = [Idle EXCEPT !.token = t.token, !.arrived = t.arrived, !.steady = t.steady]
  BY DEF Carrying
<1>4. Carrying(t) \in Task
  BY <1>1, <1>2, <1>3 DEF Task
<1>5. /\ Carrying(t).token = t.token /\ Carrying(t).arrived = t.arrived
      /\ Carrying(t).steady = t.steady
      /\ Carrying(t).at = Idle.at /\ Carrying(t).outcome = Idle.outcome
  BY <1>1, <1>3 DEF Task
<1> QED
  BY <1>1, <1>4, <1>5 DEF Idle

\* A request that ends, has no more to be proved of it than what it concludes.
LEMMA DoneType ==
  ASSUME NEW t \in Task, NEW outcome \in Outcomes
  PROVE  /\ Done(t, outcome) \in Task
         /\ Done(t, outcome).token = t.token /\ Done(t, outcome).arrived = t.arrived
         /\ Done(t, outcome).steady = t.steady
         /\ Done(t, outcome).at = "done" /\ Done(t, outcome).outcome = outcome
<1> DEFINE c == Carrying(t)
<1>1. /\ c \in Task
      /\ c.token = t.token /\ c.arrived = t.arrived /\ c.steady = t.steady
  BY CarryingType
<1>2. Done(t, outcome) = [c EXCEPT !.at = "done", !.outcome = outcome]
  BY DEF Done
<1> HIDE DEF c
<1> QED
  BY <1>1, <1>2 DEF Task

\* A key that was published a TTL before a request came in, or later, is fresh.
LEMMA FreshEnough ==
  ASSUME ProviderOK, NEW t \in Task, NEW time \in Nat, PublishedSince(t.token.kid, time),
         t.arrived < time + TTL
  PROVE  Fresh(t)
<1> DEFINE k == t.token.kid
<1>1. k \in Kids /\ (retired[k] # Absent => retired[k] \in Nat)
  BY DEF PublishedSince, ProviderOK
<1>2. t.arrived \in Nat /\ TTL \in Nat
  BY Constants DEF Task
<1> QED
  BY <1>1, <1>2 DEF PublishedSince, Fresh

(***************************************************************************)
(* A turn of one request that leaves the provider and the cache alone, as  *)
(* far as the other requests are concerned.                                *)
(***************************************************************************)

\* What r puts in its record's place may have to serve those who wait, and be
\* served by who fetches.
LEMMA Turn ==
  ASSUME IInv, NEW r \in Requests, NEW u \in Task,
         task' = [task EXCEPT ![r] = u], UNCHANGED <<now, provider, keyCache>>,
         Formed(u), Concluded(u), Served(u), ServedBy(u, u),
         Fetching(u) => holder' = r,
         \A q \in Requests \ {r} : Fetching(task[q]) => holder' = q,
         \A q \in Requests \ {r} : u.at = "wait" => ServedBy(u, task[q]),
         \A q \in Requests \ {r} : task[q].at = "wait" => ServedBy(task[q], u)
  PROVE  IInv'
<1>1. ProviderOK'
  BY DEF IInv, ProviderOK, provider
<1>2. CacheOK'
  BY DEF IInv, CacheOK, PublishedSince, provider, keyCache
<1>3. task' \in [Requests -> Task]
  BY DEF IInv, RequestsOK
<1>4. \A q \in Requests : task'[q] = IF q = r THEN u ELSE task[q]
  BY DEF IInv, RequestsOK
<1>5. ASSUME NEW q \in Requests
      PROVE  (Formed(task[q]) /\ Concluded(task[q]) /\ Served(task[q])
              /\ (Fetching(task[q]) => holder = q))'
  <2>1. Formed(task'[q]) /\ Concluded(task'[q]) /\ Served(task'[q])
    BY <1>4 DEF IInv, RequestsOK
  <2>2. (Formed(task[q]))'
    BY <2>1 DEF Formed, Fetching, PublishedSince, provider, keyCache
  <2>3. (Concluded(task[q]))'
    BY <2>1 DEF Concluded, Fresh, provider
  <2>4. (Served(task[q]))'
    BY <2>1 DEF Served, keyCache
  <2>5. (Fetching(task[q]) => holder = q)'
    BY <1>4 DEF Fetching
  <2> QED
    BY <2>2, <2>3, <2>4, <2>5
<1>6. ASSUME NEW p \in Requests, NEW q \in Requests, p = q \/ task'[p].at = "wait"
      PROVE  (ServedBy(task[p], task[q]))'
  <2>1. ServedBy(task'[p], task'[q])
    BY <1>4, <1>6 DEF IInv, RequestsOK
  <2> QED
    BY <2>1 DEF ServedBy, Fetching
<1>7. RequestsOK'
  BY <1>3, <1>5, <1>6 DEF RequestsOK
<1> QED
  BY <1>1, <1>2, <1>7 DEF IInv

\* The same of a request that neither waits nor fetches afterwards.
LEMMA QuietTurn ==
  ASSUME IInv, NEW r \in Requests, NEW u \in Task,
         task' = [task EXCEPT ![r] = u], UNCHANGED <<now, provider, keyCache>>,
         Formed(u), Concluded(u), u.at # "wait", ~Fetching(u),
         holder' = holder \/ Fetching(task[r])
  PROVE  IInv'
<1>1. Served(u) /\ ServedBy(u, u)
  BY DEF Served, ServedBy, Fetching
<1>2. \A q \in Requests \ {r} : Fetching(task[q]) => holder' = q
  BY DEF IInv, RequestsOK
<1>3. \A q \in Requests \ {r} : ServedBy(task[q], u)
  BY DEF ServedBy, Fetching
<1> QED
  BY <1>1, <1>2, <1>3, Turn

\* A request that ends with nothing to conclude about its key.
LEMMA Ends ==
  ASSUME NEW t \in Task, Formed(t), NEW outcome \in Outcomes,
         outcome # "accepted", outcome = "unknown" => t.token.kid \notin t.steady
  PROVE  /\ Done(t, outcome) \in Task
         /\ Formed(Done(t, outcome)) /\ Concluded(Done(t, outcome))
         /\ Done(t, outcome).at # "wait" /\ ~Fetching(Done(t, outcome))
<1> DEFINE u == Done(t, outcome)
<1>1. /\ u \in Task
      /\ u.token = t.token /\ u.arrived = t.arrived /\ u.steady = t.steady
      /\ u.at = "done" /\ u.outcome = outcome
  BY DoneType
<1> HIDE DEF u
<1>2. ~Fetching(u) /\ u.at # "wait"
  BY <1>1 DEF Fetching
<1>3. Formed(u)
  BY <1>1, <1>2 DEF Formed
<1>4. Concluded(u)
  BY <1>1 DEF Concluded
<1> QED
  BY <1>1, <1>2, <1>3, <1>4 DEF u

\* A request that looks for its key in a key set goes on with a key that is
\* fresh, or comes back to force a fetch, or ends.
LEMMA LooksUp ==
  ASSUME ProviderOK, NEW t \in Task, Formed(t), NEW keys,
         t.at \in {"read", "wait", "store"},
         t.token.kid \in keys => Fresh(t),
         t.force /\ t.token.kid \notin keys => t.token.kid \notin t.steady
  PROVE  /\ LookUp(t, keys) \in Task
         /\ Formed(LookUp(t, keys)) /\ Concluded(LookUp(t, keys))
         /\ LookUp(t, keys).at # "wait" /\ ~Fetching(LookUp(t, keys))
<1>0. /\ "unusable" \in Outcomes /\ "unknown" \in Outcomes
      /\ "accepted" # Absent /\ "unknown" # Absent
  BY Constants DEF Outcomes
<1> DEFINE c == Carrying(t)
<1>1. /\ c \in Task
      /\ c.token = t.token /\ c.arrived = t.arrived /\ c.steady = t.steady
      /\ c.outcome = Absent
  BY CarryingType
<1>2. /\ t.token # NoHeader /\ Decodes(t.token.payload)
      /\ t.arrived <= now /\ t.steady \subseteq published
  BY DEF Formed
<1>3. t.arrived \in Nat /\ now \in Nat
  BY DEF Task, ProviderOK
<1>4. CASE t.token.kid \in keys /\ ParsesAsRSA(t.token.kid)
  <2> DEFINE u == [c EXCEPT !.at = "verify"]
  <2>1. LookUp(t, keys) = u
    BY <1>4 DEF LookUp
  <2>2. /\ u \in Task /\ u.at = "verify" /\ u.outcome = Absent
        /\ u.token = t.token /\ u.arrived = t.arrived /\ u.steady = t.steady
    BY <1>1 DEF Task
  <2> HIDE DEF u, c
  <2>3. ~Fetching(u)
    BY <2>2 DEF Fetching
  <2>4. Formed(u)
    BY <1>2, <2>2, <2>3 DEF Formed
  <2>5. Fresh(u)
    BY <1>4, <2>2 DEF Fresh
  <2>6. Concluded(u)
    BY <1>0, <2>2, <2>5 DEF Concluded
  <2> QED
    BY <2>1, <2>2, <2>3, <2>4, <2>6
<1>5. CASE t.token.kid \in keys /\ ~ParsesAsRSA(t.token.kid)
  <2>1. LookUp(t, keys) = Done(t, "unusable")
    BY <1>5 DEF LookUp
  <2> QED
    BY <1>0, <2>1, Ends
<1>6. CASE t.token.kid \notin keys /\ t.force
  <2>1. LookUp(t, keys) = Done(t, "unknown")
    BY <1>6 DEF LookUp
  <2> QED
    BY <1>0, <1>6, <2>1, Ends
<1>7. CASE t.token.kid \notin keys /\ ~t.force
  <2> DEFINE u == [c EXCEPT !.at = "read", !.force = TRUE, !.time = now]
  <2>1. LookUp(t, keys) = u
    BY <1>7 DEF LookUp
  <2>2. /\ u \in Task /\ u.at = "read" /\ u.outcome = Absent /\ u.force /\ u.time = now
        /\ u.token = t.token /\ u.arrived = t.arrived /\ u.steady = t.steady
    BY <1>1, <1>3 DEF Task
  <2> HIDE DEF u, c
  <2>3. ~Fetching(u)
    BY <2>2 DEF Fetching
  <2>4. Formed(u)
    BY <1>2, <1>3, <2>2, <2>3 DEF Formed
  <2>5. Concluded(u)
    BY <1>0, <2>2 DEF Concluded
  <2> QED
    BY <2>1, <2>2, <2>3, <2>4, <2>5
<1> QED
  BY <1>4, <1>5, <1>6, <1>7

\* While nobody holds the lock, nobody fetches; while somebody fetches, nobody
\* else does.
LEMMA OneFetches ==
  ASSUME IInv, NEW r \in Requests
  PROVE  /\ holder = Absent => ~Fetching(task[r])
         /\ Fetching(task[r]) => \A q \in Requests \ {r} : ~Fetching(task[q])
BY Constants DEF IInv, RequestsOK

\* A key of a cache that is valid at some time since a request came in, is
\* fresh for it.
LEMMA CachedIsFresh ==
  ASSUME ProviderOK, CacheOK, NEW t \in Task, cache # Absent, t.token.kid \in cache,
         t.arrived < fetchedAt + TTL
  PROVE  Fresh(t)
<1>1. PublishedSince(t.token.kid, fetchedAt) /\ fetchedAt \in Nat
  BY DEF CacheOK
<1> QED
  BY <1>1, FreshEnough
(***************************************************************************)
(* Every action keeps the invariant.                                       *)
(***************************************************************************)

\* The type and the invariant of one request.
LEMMA OfRequest ==
  ASSUME IInv, NEW r \in Requests
  PROVE  /\ ProviderOK /\ CacheOK
         /\ task[r] \in Task
         /\ Formed(task[r]) /\ Concluded(task[r]) /\ Served(task[r])
         /\ Fetching(task[r]) => holder = r
         /\ ServedBy(task[r], task[r])
BY DEF IInv, RequestsOK

LEMMA ArriveOK ==
  ASSUME IInv, NEW r \in Requests, NEW token \in TokensOf[r], Arrive(r, token)
  PROVE  IInv'
<1> DEFINE t == [Idle EXCEPT !.token = token, !.time = now, !.arrived = now,
                             !.steady = published]
           v == [t EXCEPT !.at = "read"]
<1>0. /\ now \in Nat /\ published \in SUBSET Kids
      /\ token \in Tokens /\ Idle \in Task
      /\ Absent \notin Outcomes
      /\ {"anonymous", "malformed", "accepted", "unknown"} \subseteq Outcomes
  BY Constants, OfRequest, CarryingType DEF ProviderOK, Tokens, Outcomes
<1>1. /\ t \in Task /\ t.token = token /\ t.time = now /\ t.arrived = now
      /\ t.steady = published /\ t.at = "idle" /\ t.outcome = Absent /\ ~t.force
  BY <1>0 DEF Task, Idle
<1>2. /\ UNCHANGED <<now, provider, keyCache, holder>>
      /\ task' = [task EXCEPT ![r] =
            IF token = NoHeader THEN Done(t, "anonymous")
            ELSE IF ~Decodes(token.payload) \/ ~HasKid(token) THEN Done(t, "malformed")
            ELSE v]
  BY DEF Arrive
<1>3. /\ v \in Task /\ v.token = token /\ v.time = now /\ v.arrived = now
      /\ v.steady = published /\ v.at = "read" /\ v.outcome = Absent /\ ~v.force
  BY <1>1 DEF Task
<1> HIDE DEF t, v
<1>4. Formed(t)
  BY <1>0, <1>1 DEF Formed, Fetching
<1>5. CASE token = NoHeader
  <2>1. task' = [task EXCEPT ![r] = Done(t, "anonymous")]
    BY <1>2, <1>5
  <2> QED
    BY <1>0, <1>1, <1>2, <1>4, <2>1, Ends, QuietTurn
<1>6. CASE token # NoHeader /\ (~Decodes(token.payload) \/ ~HasKid(token))
  <2>1. task' = [task EXCEPT ![r] = Done(t, "malformed")]
    BY <1>2, <1>6
  <2> QED
    BY <1>0, <1>1, <1>2, <1>4, <2>1, Ends, QuietTurn
<1>7. CASE token # NoHeader /\ Decodes(token.payload) /\ HasKid(token)
  <2>1. task' = [task EXCEPT ![r] = v]
    BY <1>2, <1>7
  <2>2. ~Fetching(v) /\ v.at # "wait"
    BY <1>3 DEF Fetching
  <2>3. Formed(v)
    BY <1>0, <1>3, <1>7, <2>2 DEF Formed
  <2>4. Concluded(v)
    BY <1>0, <1>3 DEF Concluded
  <2> QED
    BY <1>2, <1>3, <2>1, <2>2, <2>3, <2>4, QuietTurn
<1> QED
  BY <1>5, <1>6, <1>7

LEMMA ReadCacheOK ==
  ASSUME IInv, NEW r \in Requests, ReadCache(r)
  PROVE  IInv'
<1> DEFINE t == task[r]
           v == [t EXCEPT !.at = "wait", !.time = 0, !.snapshot = fetchedAt]
<1>1. /\ t.at = "read" /\ holder = Absent
      /\ UNCHANGED <<now, provider, keyCache, holder>>
      /\ task' = [task EXCEPT ![r] =
            IF ~t.force /\ CacheValid(t.time) THEN LookUp(t, cache) ELSE v]
  BY DEF ReadCache, IInv, RequestsOK
<1>2. /\ ProviderOK /\ CacheOK /\ t \in Task /\ Formed(t) /\ Concluded(t)
  BY OfRequest
<1>3. fetchedAt \in Nat
  BY <1>2 DEF CacheOK
<1>4. /\ v \in Task /\ v.at = "wait" /\ v.snapshot = fetchedAt
      /\ v.token = t.token /\ v.arrived = t.arrived /\ v.steady = t.steady
      /\ v.outcome = t.outcome
  BY <1>2, <1>3 DEF Task
<1> HIDE DEF t, v
<1>5. CASE ~t.force /\ CacheValid(t.time)
  <2>1. task' = [task EXCEPT ![r] = LookUp(t, cache)]
    BY <1>1, <1>5
  <2>2. cache # Absent /\ t.arrived < fetchedAt + TTL
    BY <1>1, <1>2, <1>5 DEF CacheValid, Formed
  <2>3. t.token.kid \in cache => Fresh(t)
    BY <1>2, <2>2, CachedIsFresh
  <2>4. /\ LookUp(t, cache) \in Task
        /\ Formed(LookUp(t, cache)) /\ Concluded(LookUp(t, cache))
        /\ LookUp(t, cache).at # "wait" /\ ~Fetching(LookUp(t, cache))
    BY <1>1, <1>2, <1>5, <2>3, LooksUp
  <2> QED
    BY <1>1, <2>1, <2>4, QuietTurn
<1>6. CASE t.force \/ ~CacheValid(t.time)
  <2>1. task' = [task EXCEPT ![r] = v]
    BY <1>1, <1>6
  <2>2. \A q \in Requests : ~Fetching(task[q])
    BY <1>1, OneFetches
  <2>3. ~Fetching(v)
    BY <1>4 DEF Fetching
  <2>4. Formed(v)
    BY <1>1, <1>2, <1>3, <1>4, <2>3 DEF Formed
  <2>5. Concluded(v)
    <3>1. v.outcome = Absent /\ "accepted" # Absent /\ "unknown" # Absent
      BY <1>1, <1>2, <1>4, Constants DEF Formed, Outcomes
    <3> QED
      BY <1>4, <3>1 DEF Concluded
  <2>6. Served(v)
    BY <1>3, <1>4 DEF Served
  <2>7. /\ ServedBy(v, v)
        /\ \A q \in Requests : ServedBy(v, task[q]) /\ ServedBy(task[q], v)
    BY <2>2, <2>3 DEF ServedBy, Fetching
  <2> QED
    BY <1>1, <1>4, <2>1, <2>2, <2>3, <2>4, <2>5, <2>6, <2>7, Turn
<1> QED
  BY <1>5, <1>6

LEMMA AcquireOK ==
  ASSUME IInv, NEW r \in Requests, Acquire(r)
  PROVE  IInv'
<1> DEFINE t == task[r]
           v == [t EXCEPT !.at = "fetch", !.time = now, !.snapshot = 0]
           shares == (~t.force /\ CacheValid(now)) \/ Coalesces(t)
<1>1. /\ t.at = "wait" /\ holder = Absent
      /\ UNCHANGED <<now, provider, keyCache>>
      /\ shares => task' = [task EXCEPT ![r] = LookUp(t, cache)] /\ UNCHANGED holder
      /\ ~shares => task' = [task EXCEPT ![r] = v] /\ holder' = r
  BY DEF Acquire, IInv, RequestsOK
<1>2. /\ ProviderOK /\ CacheOK /\ t \in Task /\ Formed(t) /\ Concluded(t) /\ Served(t)
  BY OfRequest
<1>3. now \in Nat /\ fetchedAt \in Nat /\ t.arrived \in Nat /\ t.arrived <= now /\ fetchedAt <= now
  BY <1>2 DEF CacheOK, ProviderOK, Task, Formed
<1>4. /\ v \in Task /\ v.at = "fetch" /\ v.time = now
      /\ v.token = t.token /\ v.arrived = t.arrived /\ v.steady = t.steady
      /\ v.outcome = t.outcome
  BY <1>2, <1>3 DEF Task
<1> HIDE DEF t, v
<1>5. CASE shares
  <2>1. cache # Absent /\ t.arrived < fetchedAt + TTL
    BY <1>1, <1>2, <1>3, <1>5, Constants DEF CacheValid, Coalesces, Served
  <2>2. t.token.kid \in cache => Fresh(t)
    BY <1>2, <2>1, CachedIsFresh
  <2>3. t.force => t.steady \subseteq cache
    BY <1>1, <1>2, <1>5 DEF Coalesces, Served
  <2>4. /\ LookUp(t, cache) \in Task
        /\ Formed(LookUp(t, cache)) /\ Concluded(LookUp(t, cache))
        /\ LookUp(t, cache).at # "wait" /\ ~Fetching(LookUp(t, cache))
    BY <1>1, <1>2, <2>2, <2>3, LooksUp
  <2> QED
    BY <1>1, <1>5, <2>4, QuietTurn
<1>6. CASE ~shares
  <2>1. \A q \in Requests : ~Fetching(task[q])
    BY <1>1, OneFetches
  <2>2. Formed(v)
    BY <1>1, <1>2, <1>3, <1>4 DEF Formed, Fetching
  <2>3. Concluded(v)
    <3>1. v.outcome = Absent /\ "accepted" # Absent /\ "unknown" # Absent
      BY <1>1, <1>2, <1>4, Constants DEF Formed, Outcomes
    <3> QED
      BY <1>4, <3>1 DEF Concluded
  <2>4. Served(v)
    BY <1>4 DEF Served
  <2>5. ServedBy(v, v)
    BY <1>3, <1>4 DEF ServedBy
  <2>6. ASSUME NEW q \in Requests PROVE ServedBy(task[q], v)
    <3>1. task[q].arrived <= now
      BY OfRequest DEF Formed
    <3> QED
      BY <3>1, <1>4 DEF ServedBy
  <2> QED
    BY <1>1, <1>4, <1>6, <2>1, <2>2, <2>3, <2>4, <2>5, <2>6, Turn
<1> QED
  BY <1>5, <1>6
LEMMA AnswerFetchOK ==
  ASSUME IInv, NEW r \in Requests, AnswerFetch(r)
  PROVE  IInv'
<1> DEFINE t == task[r]
           v == [t EXCEPT !.at = "store", !.keys = published]
<1>1. /\ t.at = "fetch"
      /\ UNCHANGED <<now, provider, keyCache, holder>>
      /\ task' = [task EXCEPT ![r] = v]
  BY DEF AnswerFetch, IInv, RequestsOK
<1>2. /\ ProviderOK /\ CacheOK /\ t \in Task /\ Formed(t) /\ Concluded(t)
      /\ Fetching(t) /\ holder = r /\ ServedBy(t, t)
  BY <1>1, OfRequest DEF Fetching
<1>3. published \in SUBSET Kids
  BY <1>2, Constants DEF ProviderOK
<1>4. /\ v \in Task /\ v.at = "store" /\ v.time = t.time /\ v.keys = published
      /\ v.token = t.token /\ v.arrived = t.arrived /\ v.steady = t.steady
      /\ v.outcome = t.outcome
  BY <1>2, <1>3 DEF Task
<1>5. \A q \in Requests \ {r} :
         /\ ~Fetching(task[q])
         /\ task[q].steady \subseteq published
         /\ task[q].at = "wait" => ServedBy(task[q], t)
  BY <1>2, OneFetches, OfRequest DEF IInv, RequestsOK, Formed
<1> HIDE DEF t, v
<1>6. Formed(v)
  BY <1>1, <1>2, <1>3, <1>4 DEF Formed, Fetching, PublishedSince
<1>7. Concluded(v)
  <2>1. v.outcome = Absent /\ "accepted" # Absent /\ "unknown" # Absent
    BY <1>1, <1>2, <1>4, Constants DEF Formed, Outcomes
  <2> QED
    BY <1>4, <2>1 DEF Concluded
<1>8. Served(v)
  BY <1>4 DEF Served
<1>9. ServedBy(v, v)
  BY <1>2, <1>4 DEF ServedBy, Fetching, Formed
<1>10. \A q \in Requests \ {r} : task[q].at = "wait" => ServedBy(task[q], v)
  BY <1>2, <1>4, <1>5 DEF ServedBy, Fetching
<1> QED
  BY <1>1, <1>2, <1>4, <1>5, <1>6, <1>7, <1>8, <1>9, <1>10, Turn

\* A request that ends without an answer gives the lock back.
LEMMA UnavailableOK ==
  ASSUME IInv, NEW r \in Requests, Fetching(task[r]), holder' = Absent,
         task' = [task EXCEPT ![r] = Done(@, "unavailable")],
         UNCHANGED <<now, provider, keyCache>>
  PROVE  IInv'
<1> DEFINE u == Done(task[r], "unavailable")
<1>1. task' = [task EXCEPT ![r] = u]
  BY DEF IInv, RequestsOK
<1>2. "unavailable" \in Outcomes
  BY DEF Outcomes
<1>3. u \in Task /\ Formed(u) /\ Concluded(u) /\ u.at # "wait" /\ ~Fetching(u)
  BY <1>2, OfRequest, Ends
<1> HIDE DEF u
<1> QED
  BY <1>1, <1>3, QuietTurn

LEMMA StoreKeysOK ==
  ASSUME IInv, NEW r \in Requests, StoreKeys(r)
  PROVE  IInv'
<1> DEFINE t == task[r]
           u == LookUp(t, t.keys)
<1>1. /\ t.at = "store" /\ Fetching(t) /\ holder' = Absent
      /\ UNCHANGED <<now, provider>>
  BY DEF StoreKeys, Fetching
<1>2. /\ ProviderOK /\ CacheOK /\ t \in Task /\ Formed(t) /\ Concluded(t)
      /\ holder = r /\ ServedBy(t, t)
  BY <1>1, OfRequest
<1>3. CASE t.keys = {}
  BY <1>1, <1>3, UnavailableOK DEF StoreKeys
<1>4. CASE t.keys # {}
  <2>1. /\ cache' = t.keys /\ fetchedAt' = t.time
        /\ task' = [task EXCEPT ![r] = u]
    BY <1>4 DEF StoreKeys, IInv, RequestsOK
  <2>2. /\ t.time \in Nat /\ t.arrived \in Nat /\ t.arrived <= t.time /\ t.time <= now
        /\ fetchedAt \in Nat /\ fetchedAt <= t.time /\ TTL \in Nat /\ TTL > 0 /\ now \in Nat
        /\ \A k \in t.keys : PublishedSince(k, t.time)
        /\ t.steady \subseteq t.keys
    BY <1>1, <1>2, Constants DEF Task, Formed, CacheOK, ServedBy, ProviderOK
  <2>3. t.token.kid \in t.keys => Fresh(t)
    <3>1. t.arrived < t.time + TTL
      BY <2>2
    <3> QED
      BY <1>2, <2>2, <3>1, FreshEnough
  <2>4. u \in Task /\ Formed(u) /\ Concluded(u) /\ u.at # "wait" /\ ~Fetching(u)
    BY <1>1, <1>2, <2>2, <2>3, LooksUp
  <2>5. \A q \in Requests \ {r} :
           /\ task[q] \in Task /\ Formed(task[q]) /\ Concluded(task[q])
           /\ ~Fetching(task[q])
           /\ task[q].at = "wait" => task[q].arrived <= t.time /\ task[q].steady \subseteq t.keys
    BY <1>1, <1>2, OneFetches, OfRequest DEF IInv, RequestsOK, ServedBy
  <2>6. \A q \in Requests : task'[q] = IF q = r THEN u ELSE task[q]
    BY <2>1 DEF IInv, RequestsOK
  <2>7. task' \in [Requests -> Task]
    BY <2>1, <2>4 DEF IInv, RequestsOK
  <2> HIDE DEF t, u
  <2>8. ProviderOK'
    BY <1>1, <1>2 DEF ProviderOK, provider
  <2>9. CacheOK'
    BY <1>1, <2>1, <2>2 DEF CacheOK, PublishedSince, provider
  <2>10. ASSUME NEW q \in Requests
         PROVE  /\ ~Fetching(task'[q])
                /\ (Formed(task[q]) /\ Concluded(task[q]) /\ Served(task[q]))'
    <3>1. /\ task'[q] \in Task /\ Formed(task'[q]) /\ Concluded(task'[q]) /\ ~Fetching(task'[q])
          /\ task'[q].at = "wait" =>
               task'[q].arrived <= t.time /\ task'[q].steady \subseteq t.keys
      BY <2>4, <2>5, <2>6
    <3>2. (Formed(task[q]))'
      <4>1. task'[q].at = "wait" => task'[q].snapshot <= fetchedAt'
        BY <2>1, <2>2, <3>1 DEF Formed, Task
      <4> QED
        BY <1>1, <3>1, <4>1 DEF Formed, Fetching, PublishedSince, provider
    <3>3. (Concluded(task[q]))'
      BY <1>1, <3>1 DEF Concluded, Fresh, provider
    <3>4. (Served(task[q]))'
      BY <2>1, <3>1 DEF Served
    <3> QED
      BY <3>1, <3>2, <3>3, <3>4
  <2>11. \A p, q \in Requests : (ServedBy(task[p], task[q]))'
    BY <2>10 DEF ServedBy, Fetching
  <2>12. RequestsOK'
    BY <2>7, <2>10, <2>11 DEF RequestsOK, Fetching
  <2> QED
    BY <2>8, <2>9, <2>12 DEF IInv
<1> QED
  BY <1>3, <1>4

LEMMA FailFetchOK ==
  ASSUME IInv, NEW r \in Requests, FailFetch(r)
  PROVE  IInv'
BY UnavailableOK DEF FailFetch, Fetching

LEMMA VerifyOK ==
  ASSUME IInv, NEW r \in Requests, Verify(r)
  PROVE  IInv'
<1> DEFINE t == task[r]
           p == t.token.payload
           d == Done(t, "accepted")
           v == [d EXCEPT !.ctx = ContextOf(p)]
<1>1. /\ t.at = "verify"
      /\ UNCHANGED <<now, provider, keyCache, holder>>
      /\ task' = [task EXCEPT ![r] = IF t.token.genuine /\ Validated(Typed(p), now)
                                     THEN v ELSE Done(t, "invalid")]
  BY DEF Verify, IInv, RequestsOK
<1>2. /\ ProviderOK /\ t \in Task /\ Formed(t) /\ Fresh(t)
      /\ t.token # NoHeader /\ Decodes(p) /\ now \in Nat
      /\ "invalid" \in Outcomes /\ "accepted" \in Outcomes
  BY <1>1, OfRequest DEF Formed, Concluded, ProviderOK, Outcomes
<1>3. CASE t.token.genuine /\ Validated(Typed(p), now)
  <2>1. task' = [task EXCEPT ![r] = v]
    BY <1>1, <1>3
  <2>2. ContextOf(p) \in Contexts
    BY <1>2 DEF Contexts, Task
  <2>3. /\ d \in Task /\ d.token = t.token /\ d.arrived = t.arrived /\ d.steady = t.steady
        /\ d.at = "done" /\ d.outcome = "accepted"
    BY <1>2, DoneType
  <2> HIDE DEF d, t
  <2>4. /\ v \in Task /\ v.token = t.token /\ v.arrived = t.arrived /\ v.steady = t.steady
        /\ v.at = "done" /\ v.outcome = "accepted" /\ v.ctx = ContextOf(p)
    BY <2>2, <2>3 DEF Task
  <2>5. v.token.payload = p
    BY <2>4
  <2> HIDE DEF v, p
  <2>6. ~Fetching(v) /\ v.at # "wait"
    BY <2>4 DEF Fetching
  <2>7. Formed(v)
    BY <1>2, <2>4, <2>6 DEF Formed
  <2>8. Fresh(v)
    BY <1>2, <2>4 DEF Fresh
  <2>9. now \in 0..now
    BY <1>2
  <2>10. Concluded(v)
    BY <1>2, <1>3, <2>4, <2>5, <2>8, <2>9 DEF Concluded
  <2> QED
    BY <1>1, <2>1, <2>4, <2>6, <2>7, <2>10, QuietTurn
<1>4. CASE ~(t.token.genuine /\ Validated(Typed(p), now))
  <2>1. task' = [task EXCEPT ![r] = Done(t, "invalid")]
    BY <1>1, <1>4
  <2> HIDE DEF t
  <2> QED
    BY <1>1, <1>2, <2>1, Ends, QuietTurn
<1> QED
  BY <1>3, <1>4

LEMMA LeaveOK ==
  ASSUME IInv, NEW r \in Requests, Leave(r)
  PROVE  IInv'
<1>1. Idle \in Task
  BY OfRequest, CarryingType
<1>2. now \in Nat
  BY OfRequest DEF ProviderOK
<1>3. Formed(Idle) /\ Concluded(Idle) /\ Idle.at # "wait" /\ ~Fetching(Idle)
  BY <1>2, Constants DEF Idle, Formed, Concluded, Fetching, Outcomes
<1> HIDE DEF Idle
<1> QED
  BY <1>1, <1>3, QuietTurn DEF Leave
LEMMA TickOK ==
  ASSUME IInv, Tick
  PROVE  IInv'
<1>1. /\ now \in Nat /\ now' = now + 1 /\ fetchedAt \in Nat
      /\ UNCHANGED <<published, retired, cache, fetchedAt, holder, task>>
  BY DEF Tick, IInv, ProviderOK, CacheOK, provider, keyCache
<1>2. ProviderOK'
  BY <1>1 DEF IInv, ProviderOK
<1>3. CacheOK'
  BY <1>1 DEF IInv, CacheOK, PublishedSince
<1>4. ASSUME NEW r \in Requests
      PROVE  (Formed(task[r]) /\ Concluded(task[r]) /\ Served(task[r]))'
  <2>1. task[r] \in Task /\ Formed(task[r]) /\ Concluded(task[r]) /\ Served(task[r])
    BY OfRequest
  <2>2. (Formed(task[r]))'
    BY <1>1, <2>1 DEF Formed, Fetching, PublishedSince, Task
  <2>3. \A n \in 0..now : n \in 0..now'
    BY <1>1
  <2>4. (Concluded(task[r]))'
    BY <1>1, <2>1, <2>3 DEF Concluded, Fresh
  <2>5. (Served(task[r]))'
    BY <1>1, <2>1 DEF Served
  <2> QED
    BY <2>2, <2>4, <2>5
<1>5. RequestsOK'
  BY <1>1, <1>4 DEF IInv, RequestsOK, ServedBy, Fetching
<1> QED
  BY <1>2, <1>3, <1>5 DEF IInv

LEMMA RotateOK ==
  ASSUME IInv, NEW K \in KeysAfter[published], Rotate(K)
  PROVE  IInv'
<1>1. /\ published' = K
      /\ retired' = [k \in Kids |-> IF k \in published \ K THEN now ELSE retired[k]]
      /\ task' = [r \in Requests |-> [task[r] EXCEPT !.steady = @ \cap K]]
      /\ UNCHANGED <<now, cache, fetchedAt, holder>>
  BY DEF Rotate, keyCache
<1>2. now \in Nat /\ Absent \notin Nat /\ TTL \in Nat /\ TTL > 0
  BY Constants DEF IInv, ProviderOK
<1>3. ProviderOK'
  BY <1>1, <1>2, Constants DEF IInv, ProviderOK
<1>4. ASSUME NEW k, NEW time \in Nat, time <= now, PublishedSince(k, time)
      PROVE  k \in Kids /\ (k \in published' \/ (retired'[k] # Absent /\ time <= retired'[k]))
  <2>1. k \in Kids /\ retired'[k] = IF k \in published \ K THEN now ELSE retired[k]
    BY <1>1, <1>4 DEF PublishedSince
  <2> QED
    BY <1>1, <1>2, <1>4, <2>1 DEF PublishedSince
<1>5. CacheOK'
  <2>1. fetchedAt \in Nat /\ fetchedAt <= now
    BY DEF IInv, CacheOK
  <2>2. ASSUME cache # Absent, NEW k \in cache
        PROVE  k \in Kids
               /\ (k \in published' \/ (retired'[k] # Absent /\ fetchedAt <= retired'[k]))
    BY <1>4, <2>1, <2>2 DEF IInv, CacheOK
  <2>3. ASSUME cache' # Absent, NEW k \in cache' PROVE (PublishedSince(k, fetchedAt))'
    BY <1>1, <2>2, <2>3 DEF PublishedSince
  <2> QED
    BY <1>1, <2>1, <2>3 DEF CacheOK
<1>6. ASSUME NEW r \in Requests
      PROVE  /\ task'[r] \in Task
             /\ task'[r].at = task[r].at /\ task'[r].token = task[r].token
             /\ task'[r].force = task[r].force /\ task'[r].time = task[r].time
             /\ task'[r].snapshot = task[r].snapshot /\ task'[r].keys = task[r].keys
             /\ task'[r].outcome = task[r].outcome /\ task'[r].ctx = task[r].ctx
             /\ task'[r].arrived = task[r].arrived
             /\ task'[r].steady = task[r].steady \cap K
  <2> DEFINE t == task[r]
  <2>1. t \in Task /\ t.steady \cap K \in SUBSET Kids
    BY OfRequest DEF Task
  <2>2. task'[r] = [t EXCEPT !.steady = t.steady \cap K]
    BY <1>1
  <2> HIDE DEF t
  <2>3. /\ task'[r] \in Task
        /\ task'[r].at = t.at /\ task'[r].token = t.token
        /\ task'[r].force = t.force /\ task'[r].time = t.time
        /\ task'[r].snapshot = t.snapshot /\ task'[r].keys = t.keys
        /\ task'[r].outcome = t.outcome /\ task'[r].ctx = t.ctx
        /\ task'[r].arrived = t.arrived
        /\ task'[r].steady = t.steady \cap K
    BY <2>1, <2>2 DEF Task
  <2> QED
    BY <2>3 DEF t
<1>7. ASSUME NEW r \in Requests
      PROVE  (Formed(task[r]) /\ Concluded(task[r]) /\ Served(task[r])
              /\ (Fetching(task[r]) => holder = r))'
  <2>1. /\ task[r] \in Task /\ Formed(task[r]) /\ Concluded(task[r]) /\ Served(task[r])
        /\ Fetching(task[r]) => holder = r
    BY OfRequest
  <2>2. /\ task[r].arrived \in Nat /\ task[r].arrived <= now /\ task[r].time \in Nat
        /\ task[r].at = "store" =>
             task[r].time <= now /\ \A k \in task[r].keys : PublishedSince(k, task[r].time)
    BY <2>1 DEF Formed, Task
  <2>3. (Formed(task[r]))'
    <3>1. ASSUME task[r].at = "store", NEW k \in task[r].keys
          PROVE  /\ k \in Kids
                 /\ k \in published' \/ (retired'[k] # Absent /\ task[r].time <= retired'[k])
      BY <1>4, <2>2, <3>1 DEF PublishedSince
    <3>2. (task[r].at = "store" => \A k \in task[r].keys : PublishedSince(k, task[r].time))'
      BY <1>6, <3>1 DEF PublishedSince
    <3>3. (task[r].steady \subseteq published)'
      BY <1>1, <1>6
    <3> QED
      BY <1>1, <1>6, <2>1, <3>2, <3>3 DEF Formed, Fetching
  <2>4. Fresh(task[r]) => Fresh(task[r])'
    <3> DEFINE k == task[r].token.kid
    <3>1. SUFFICES ASSUME Fresh(task[r]) PROVE Fresh(task[r])'
      OBVIOUS
    <3>2. /\ k \in Kids
          /\ retired'[k] = IF k \in published \ K THEN now ELSE retired[k]
          /\ k \in published \/ (retired[k] # Absent /\ task[r].arrived < retired[k] + TTL)
      BY <1>1, <3>1 DEF Fresh
    <3> HIDE DEF k
    <3>3. k \in published' \/ (retired'[k] # Absent /\ task[r].arrived < retired'[k] + TTL)
      BY <1>1, <1>2, <2>2, <3>2
    <3> QED
      BY <1>6, <3>2, <3>3 DEF Fresh, k
  <2>5. (Concluded(task[r]))'
    BY <1>1, <1>6, <2>1, <2>4 DEF Concluded
  <2>6. (Served(task[r]))'
    BY <1>1, <1>6, <2>1 DEF Served
  <2>7. (Fetching(task[r]) => holder = r)'
    BY <1>1, <1>6, <2>1 DEF Fetching
  <2> QED
    BY <2>3, <2>5, <2>6, <2>7
<1>8. ASSUME NEW p \in Requests, NEW q \in Requests, p = q \/ task'[p].at = "wait"
      PROVE  (ServedBy(task[p], task[q]))'
  <2>1. ServedBy(task[p], task[q])
    BY <1>6, <1>8 DEF IInv, RequestsOK
  <2> QED
    BY <1>6, <2>1 DEF ServedBy, Fetching
<1>9. RequestsOK'
  <2>1. task' \in [Requests -> Task]
    BY <1>1, <1>6
  <2> QED
    BY <2>1, <1>7, <1>8 DEF RequestsOK
<1> QED
  BY <1>3, <1>5, <1>9 DEF IInv

LEMMA InitOK == Init => IInv
<1> SUFFICES ASSUME Init PROVE IInv
  OBVIOUS
<1>1. Idle \in Task
  BY DEF Idle, Task, Tokens, Contexts
<1>2. ProviderOK /\ CacheOK
  BY Constants, TokenVerifierAssumption
     DEF Init, ProviderOK, CacheOK, TokenVerifierAssumption
<1>3. /\ task \in [Requests -> Task]
      /\ \A r \in Requests : task[r] = Idle
  BY <1>1 DEF Init
<1>4. /\ Formed(Idle) /\ Concluded(Idle) /\ Served(Idle) /\ ~Fetching(Idle)
      /\ ServedBy(Idle, Idle)
  BY <1>2, Constants
     DEF ProviderOK, Idle, Formed, Concluded, Served, ServedBy, Fetching, Outcomes
<1>5. RequestsOK
  BY <1>3, <1>4 DEF RequestsOK
<1> QED
  BY <1>2, <1>5 DEF IInv

LEMMA NextOK == IInv /\ [Next]_vars => IInv'
<1> SUFFICES ASSUME IInv, [Next]_vars PROVE IInv'
  OBVIOUS
<1>1. CASE UNCHANGED vars
  BY <1>1 DEF vars, IInv, ProviderOK, CacheOK, RequestsOK, Formed, Concluded, Served,
              ServedBy, Fetching, Fresh, PublishedSince
<1>2. CASE Tick
  BY <1>2, TickOK
<1>3. CASE \E K \in KeysAfter[published] : Rotate(K)
  BY <1>3, RotateOK
<1>4. ASSUME NEW r \in Requests,
             \/ \E token \in TokensOf[r] : Arrive(r, token)
             \/ ReadCache(r) \/ Acquire(r)
             \/ AnswerFetch(r) \/ StoreKeys(r) \/ FailFetch(r)
             \/ Verify(r) \/ Leave(r)
      PROVE  IInv'
  BY <1>4, ArriveOK, ReadCacheOK, AcquireOK, AnswerFetchOK, StoreKeysOK, FailFetchOK,
     VerifyOK, LeaveOK
<1> QED
  BY <1>1, <1>2, <1>3, <1>4 DEF Next

\* The inductive invariant holds of every state of the verifier.
THEOREM Invariance == Spec => []IInv
BY InitOK, NextOK, PTL DEF Spec

(***************************************************************************)
(* What follows from it.                                                   *)
(***************************************************************************)

\* No token is accepted with a key that the provider had withdrawn a TTL or
\* more before the request came in: a cached set is dated with the time before
\* its fetch, and a request that uses somebody else's fetch came in before it.
THEOREM KeysAreFresh == Spec => []FreshKey
<1>1. IInv => FreshKey
  BY DEF IInv, RequestsOK, Concluded, Fresh, FreshKey, Accepted
<1> QED
  BY <1>1, Invariance, PTL

\* A shared forced fetch never costs a request a key that was there all along.
THEOREM KnownKeysAccepted == Spec => []KnownKeyAccepted
<1>1. IInv => KnownKeyAccepted
  BY DEF IInv, RequestsOK, Concluded, KnownKeyAccepted
<1> QED
  BY <1>1, Invariance, PTL
----------------------------------------------------------------------------
(***************************************************************************)
(* The two readings of a payload.  The typed fields bind a claim           *)
(* regardless of capitals, to the last member that fits; the map names     *)
(* claims by their standard names.                                         *)
(***************************************************************************)

\* A name is a spelling of one standard claim, the one it stands for.
LEMMA OneStandardName ==
  ASSUME NEW name, NEW c \in StandardClaimNames
  PROVE  EqualFold(name, c) <=> CanonicalClaimName(name) = c
<1>1. ASSUME NEW d \in StandardClaimNames, EqualFold(name, c), EqualFold(name, d)
      PROVE  c = d
  <2>1. \A e \in StandardClaimNames : <<name, e>> \in Spellings => name \notin StandardClaimNames
    BY TokenClaimsAssumption DEF TokenClaimsAssumption
  <2>2. <<name, c>> \in Spellings /\ <<name, d>> \in Spellings => c = d
    <3>1. <<name, c>>[1] = name /\ <<name, d>>[1] = name /\ <<name, c>>[2] = c /\ <<name, d>>[2] = d
      OBVIOUS
    <3> QED
      BY <3>1, TokenClaimsAssumption DEF TokenClaimsAssumption
  <2> QED
    BY <1>1, <2>1, <2>2 DEF EqualFold
<1>2. ASSUME EqualFold(name, c) PROVE CanonicalClaimName(name) = c
  <2> DEFINE d == CHOOSE d \in StandardClaimNames : EqualFold(name, d)
  <2>1. d \in StandardClaimNames /\ EqualFold(name, d)
    BY <1>2
  <2>2. CanonicalClaimName(name) = d
    BY <1>2 DEF CanonicalClaimName
  <2> HIDE DEF d
  <2> QED
    BY <1>1, <1>2, <2>1, <2>2
<1>3. ASSUME CanonicalClaimName(name) = c PROVE EqualFold(name, c)
  <2>1. CASE \E d \in StandardClaimNames : EqualFold(name, d)
    <3>1. PICK d \in StandardClaimNames : EqualFold(name, d)
      BY <2>1
    <3> DEFINE e == CHOOSE e \in StandardClaimNames : EqualFold(name, e)
    <3>2. e \in StandardClaimNames /\ EqualFold(name, e)
      BY <3>1
    <3>3. e = c
      BY <1>3, <2>1 DEF CanonicalClaimName
    <3> QED
      BY <3>2, <3>3
  <2>2. CASE ~\E d \in StandardClaimNames : EqualFold(name, d)
    <3>1. name = c
      BY <1>3, <2>2 DEF CanonicalClaimName
    <3> QED
      BY <3>1 DEF EqualFold
  <2> QED
    BY <2>1, <2>2
<1> QED
  BY <1>2, <1>3

\* Where no claim is named twice, both readings find the same value.
LEMMA SameReading ==
  ASSUME NEW p \in Payloads, ~Duplicated(p), NEW c \in StandardClaimNames
  PROVE  /\ Bound(p, c) = Lookup(PayloadMap(p), c)
         /\ Bound(p, c) \in JSONValues \cup {Absent}
         /\ c \in DOMAIN PayloadMap(p) <=> Bound(p, c) # Absent
<1> DEFINE fits  == {i \in DOMAIN p : EqualFold(p[i].name, c)}
           named == {CanonicalClaimName(p[i].name) : i \in DOMAIN p}
<1>1. fits = {i \in DOMAIN p : CanonicalClaimName(p[i].name) = c}
  BY OneStandardName
<1>2. \A i \in DOMAIN p : i \in Nat /\ p[i].value \in JSONValues
  <2> DEFINE Members == [name : STRING, value : JSONValues]
  <2>1. \A m \in Members : m.value \in JSONValues
    OBVIOUS
  <2>2. p \in Seq(Members)
    BY DEF Payloads
  <2> HIDE DEF Members
  <2>3. DOMAIN p = 1..Len(p) /\ Len(p) \in Nat
    BY <2>2
  <2>4. \A i \in 1..Len(p) : p[i] \in Members
    BY <2>2, ElementOfSeq
  <2> QED
    BY <2>1, <2>3, <2>4
<1>3. \A i, j \in fits : i = j
  BY <1>1 DEF Duplicated
<1>4. DOMAIN PayloadMap(p) = named
  BY DEF PayloadMap
<1>5. c \in named <=> fits # {}
  BY <1>1
<1>6. Bound(p, c) = IF fits = {} THEN Absent
                    ELSE p[CHOOSE i \in fits : \A j \in fits : j <= i].value
  BY DEF Bound
<1>7. c \in named =>
        PayloadMap(p)[c] = p[CHOOSE i \in DOMAIN p : CanonicalClaimName(p[i].name) = c].value
  BY DEF PayloadMap
<1>8. CASE fits = {}
  <2> HIDE DEF fits, named
  <2>1. Bound(p, c) = Absent /\ c \notin DOMAIN PayloadMap(p)
    BY <1>4, <1>5, <1>6, <1>8
  <2> QED
    BY <2>1 DEF Lookup
<1>9. CASE fits # {}
  <2>1. PICK i \in fits : TRUE
    BY <1>9
  <2>2. i \in DOMAIN p /\ i \in Nat /\ CanonicalClaimName(p[i].name) = c
    BY <1>1, <1>2
  <2> DEFINE last == CHOOSE k \in fits : \A j \in fits : j <= k
             one  == CHOOSE k \in DOMAIN p : CanonicalClaimName(p[k].name) = c
  <2>3. last = i
    <3>1. i \in fits /\ \A j \in fits : j <= i
      BY <1>3, <2>2
    <3>2. last \in fits
      BY <3>1
    <3> QED
      BY <1>3, <3>2
  <2>4. one = i
    <3>1. one \in DOMAIN p /\ CanonicalClaimName(p[one].name) = c
      BY <2>2
    <3>2. one \in fits
      BY <1>1, <3>1
    <3> QED
      BY <1>3, <3>2
  <2>5. Bound(p, c) = p[i].value
    BY <1>6, <1>9, <2>3
  <2>6. PayloadMap(p)[c] = p[i].value
    BY <1>5, <1>7, <1>9, <2>4
  <2>7. p[i].value \in JSONValues
    BY <1>2, <2>2
  <2>8. Absent \notin JSONValues
    BY TokenClaimsAssumption DEF TokenClaimsAssumption
  <2> HIDE DEF fits, named
  <2> QED
    BY <1>4, <1>5, <1>9, <2>5, <2>6, <2>7, <2>8 DEF Lookup
<1> QED
  BY <1>8, <1>9
(***************************************************************************)
(* The claims that are kept, against the typed fields that were validated. *)
(***************************************************************************)

\* What the kinds of JSON values are made of, and that none of them is absent.
LEMMA Kinds ==
  /\ \A x \in Texts : Str(x) \in Scalars /\ Str(x) # Absent /\ IsString(Str(x)) /\ Str(x).text = x
  /\ \A v \in JSONValues : v # Absent
  /\ \A v \in JSONValues \cup {Absent} : IsString(v) => v.text \in Texts
  /\ \A v \in JSONValues \cup {Absent} : IsArray(v) => v.items \in Seq(Scalars)
  /\ \A v \in JSONValues \cup {Absent} : v # Absent /\ v.kind = "null" => v = Null
  /\ Scalars \subseteq JSONValues
  /\ Null \in JSONValues /\ ~IsString(Null) /\ ~IsArray(Null)
<1>1. Absent \notin JSONValues
  BY TokenClaimsAssumption DEF TokenClaimsAssumption
<1>2. Scalars \subseteq JSONValues
  BY DEF JSONValues
<1>3. \A x \in Texts : Str(x) \in Scalars /\ Str(x).kind = "string" /\ Str(x).text = x
  BY DEF Str, Scalars
<1>4. \A v \in JSONValues :
         /\ v.kind = "string" => v.text \in Texts
         /\ v.kind = "array" => v.items \in Seq(Scalars)
         /\ v.kind = "null" => v = Null
  <2> DEFINE Strings == [kind : {"string"}, text : Texts]
             Numbers == [kind : {"number"}, number : Nat]
             Arrays  == [kind : {"array"}, items : Seq(Scalars)]
  <2>1. \A v \in Strings : v.kind = "string" /\ v.text \in Texts
    OBVIOUS
  <2>2. \A v \in Numbers : v.kind = "number"
    OBVIOUS
  <2>3. \A v \in Arrays : v.kind = "array" /\ v.items \in Seq(Scalars)
    OBVIOUS
  <2>4. Object.kind = "object" /\ Null.kind = "null"
    BY DEF Object, Null
  <2>5. JSONValues = Strings \cup Numbers \cup {Object, Null} \cup Arrays
    BY DEF JSONValues, Scalars
  <2> HIDE DEF Strings, Numbers, Arrays
  <2> QED
    BY <2>1, <2>2, <2>3, <2>4, <2>5
<1>5. Null \in Scalars /\ Null.kind = "null"
  BY DEF Null, Scalars
<1> QED
  BY <1>1, <1>2, <1>3, <1>4, <1>5 DEF IsString, IsArray

\* An array of strings made of texts reads back as those texts.
LEMMA ArrayOf ==
  ASSUME NEW n \in Nat, NEW f \in [1..n -> Texts]
  PROVE  /\ Arr([i \in 1..n |-> Str(f[i])]) \in JSONValues
         /\ IsStrings(Arr([i \in 1..n |-> Str(f[i])]))
         /\ ~IsString(Arr([i \in 1..n |-> Str(f[i])]))
         /\ Arr([i \in 1..n |-> Str(f[i])]) # Null
         /\ TextsOf(Arr([i \in 1..n |-> Str(f[i])])) = f
<1> DEFINE items == [i \in 1..n |-> Str(f[i])]
           a     == Arr(items)
<1>1. /\ DOMAIN items = 1..n
      /\ \A i \in 1..n : items[i] = Str(f[i]) /\ f[i] \in Texts
  OBVIOUS
<1>2. \A i \in 1..n : items[i] \in Scalars /\ IsString(items[i]) /\ items[i].text = f[i]
  BY <1>1, Kinds
<1>3. items \in Seq(Scalars)
  <2>1. items \in [1..n -> Scalars]
    BY <1>2
  <2> HIDE DEF items
  <2> QED
    BY <2>1
<1> HIDE DEF items
<1>4. a.kind = "array" /\ a.items = items /\ a \in [kind : {"array"}, items : Seq(Scalars)]
  BY <1>3 DEF Arr
<1>5. a \in JSONValues
  BY <1>4 DEF JSONValues
<1> HIDE DEF a
<1>6. a # Absent /\ IsStrings(a) /\ ~IsString(a) /\ a # Null
  BY <1>1, <1>2, <1>4, <1>5, Kinds DEF IsStrings, IsArray, IsString, Null
<1>7. TextsOf(a) = [i \in 1..n |-> f[i]]
  BY <1>1, <1>2, <1>4 DEF TextsOf, TextOf
<1>8. TextsOf(a) = f
  BY <1>7
<1> QED
  BY <1>5, <1>6, <1>8 DEF a, items
\* Trimming leaves a text, and the empty one as it is.
LEMMA Trimming ==
  /\ Empty \in Texts /\ TrimSpace(Empty) = Empty
  /\ \A x \in Texts : TrimSpace(x) \in Texts
<1>1. Empty = [words |-> <<>>, padded |-> FALSE] /\ <<>> \in Seq(STRING)
  BY DEF Empty, Text
<1>2. Empty \in Texts /\ Empty.words = <<>>
  BY <1>1 DEF Texts
<1>3. TrimSpace(Empty) = Empty
  <2>1. FALSE \in BOOLEAN
    OBVIOUS
  <2>2. [Empty EXCEPT !.padded = FALSE] = [words |-> Empty.words, padded |-> FALSE]
    <3> DEFINE Words == Seq(STRING)
               Flags == BOOLEAN
    <3>1. Empty \in [words : Words, padded : Flags]
      BY <1>2 DEF Texts
    <3> HIDE DEF Words, Flags
    <3>2. \A flag \in Flags :
             [Empty EXCEPT !.padded = flag] = [words |-> Empty.words, padded |-> flag]
      BY <3>1
    <3> QED
      BY <2>1, <3>2, Zenon DEF Flags
  <2>3. [words |-> Empty.words, padded |-> FALSE] = Empty
    BY <1>1, <1>2, Zenon
  <2> QED
    BY <2>2, <2>3, Zenon DEF TrimSpace
<1>4. \A x \in Texts : TrimSpace(x) \in Texts
  BY DEF Texts, TrimSpace
<1> QED
  BY <1>2, <1>3, <1>4

\* A decoded string claim, looked up among the claims that are kept, is the
\* typed field, trimmed unless the claim is kept as it is.
LEMMA StringClaim ==
  ASSUME NEW p \in Payloads, Decodes(p), NEW c \in StringFields, NEW t
  PROVE  LET claims == ValidatedClaims(PayloadMap(p), t)
             x      == TextOf(Bound(p, c))
         IN  ClaimString(claims, c) = IF c \in ExactClaims THEN x ELSE TrimSpace(x)
<1> DEFINE m      == PayloadMap(p)
           claims == ValidatedClaims(m, t)
           v      == Bound(p, c)
<1>1. /\ c \in StandardClaimNames /\ c # "scope" /\ ~Duplicated(p)
      /\ NoValue(v) \/ IsString(v)
  BY DEF Decodes, StringFields, StandardClaimNames
<1>2. v = Lookup(m, c) /\ v \in JSONValues \cup {Absent} /\ (c \in DOMAIN m <=> v # Absent)
  BY <1>1, SameReading
<1>3. /\ DOMAIN claims = DOMAIN m
      /\ c \in DOMAIN m =>
           claims[c] = IF c \in ExactClaims THEN m[c] ELSE NormalizeClaimValue(m[c])
  BY <1>1 DEF ValidatedClaims
<1>4. Lookup(claims, c) =
        IF v = Absent THEN Absent
        ELSE IF c \in ExactClaims THEN v ELSE NormalizeClaimValue(v)
  <2> HIDE DEF m, claims, v
  <2> QED
    BY <1>2, <1>3 DEF Lookup
<1>5. ClaimString(claims, c) = TextOf(Lookup(claims, c))
  BY DEF ClaimString
<1> HIDE DEF m, claims, v
<1>6. CASE IsString(v)
  <2>1. v.text \in Texts /\ v # Absent /\ TextOf(v) = v.text
    BY <1>2, <1>6, Kinds DEF IsString, TextOf
  <2>2. /\ NormalizeClaimValue(v) = Str(TrimSpace(v.text))
        /\ TextOf(Str(TrimSpace(v.text))) = TrimSpace(v.text)
    BY <1>6, <2>1, Kinds, Trimming DEF NormalizeClaimValue, TextOf
  <2>3. ClaimString(claims, c) = IF c \in ExactClaims THEN TextOf(v) ELSE TrimSpace(TextOf(v))
    BY <1>4, <1>5, <2>1, <2>2
  <2> QED
    BY <2>3 DEF claims, m, v
<1>7. CASE NoValue(v)
  <2>1. v = Absent \/ v = Null
    BY <1>2, <1>7, Kinds DEF NoValue
  <2>2. TextOf(v) = Empty /\ ~IsString(Absent)
    BY <2>1, Kinds DEF TextOf, IsString
  <2>3. v = Null => NormalizeClaimValue(v) = v
    BY Kinds DEF NormalizeClaimValue, IsStrings
  <2>4. ClaimString(claims, c) = Empty
    BY <1>4, <1>5, <2>1, <2>2, <2>3 DEF TextOf
  <2>5. ClaimString(claims, c) = IF c \in ExactClaims THEN TextOf(v) ELSE TrimSpace(TextOf(v))
    BY <2>2, <2>4, Trimming
  <2> QED
    BY <2>5 DEF claims, m, v
<1> QED
  BY <1>1, <1>6, <1>7

\* The scopes of the claims that are kept are the typed ones.
LEMMA ScopeClaim ==
  ASSUME NEW p \in Payloads, Decodes(p), NEW t, t.scopes = DecodedScopes(Bound(p, "scope"))
  PROVE  ClaimStrings(ValidatedClaims(PayloadMap(p), t), "scope") = t.scopes
<1> DEFINE m      == PayloadMap(p)
           claims == ValidatedClaims(m, t)
           v      == Bound(p, "scope")
           a      == Arr([i \in DOMAIN t.scopes |-> Str(t.scopes[i])])
<1>1. "scope" \in StandardClaimNames /\ "scope" \notin ExactClaims /\ ~Duplicated(p) /\ ScopeDecodes(v)
  BY DEF Decodes, StandardClaimNames, ExactClaims
<1>2. /\ v = Lookup(m, "scope") /\ v \in JSONValues \cup {Absent}
      /\ "scope" \in DOMAIN m <=> v # Absent
  BY <1>1, SameReading
<1>3. /\ DOMAIN claims = DOMAIN m
      /\ "scope" \in DOMAIN m =>
           claims["scope"] = IF IsArray(m["scope"]) THEN a ELSE m["scope"]
  BY <1>1 DEF ValidatedClaims
<1>4. t.scopes = DecodedScopes(v)
  OBVIOUS
<1> HIDE DEF m, claims, v
<1>5. Lookup(claims, "scope") = IF v = Absent THEN Absent ELSE IF IsArray(v) THEN a ELSE v
  <2> HIDE DEF a
  <2> QED
    BY <1>2, <1>3 DEF Lookup
<1>6. CASE v = Absent
  <2>1. t.scopes = Absent /\ Absent # Null /\ ~IsString(Absent) /\ ~IsStrings(Absent)
    BY <1>4, <1>6, Kinds DEF DecodedScopes, IsString, IsStrings, IsArray
  <2> QED
    BY <1>5, <1>6, <2>1 DEF ClaimStrings, claims, m
<1>7. CASE IsArray(v)
  <2>1. v.items \in Seq(Scalars) /\ v # Absent /\ ~NoValue(v) /\ ~IsString(v)
    BY <1>2, <1>7, Kinds DEF IsArray, NoValue, IsString
  <2> DEFINE n == Len(v.items)
  <2>2. n \in Nat /\ DOMAIN v.items = 1..n
    BY <2>1
  <2>3. \A i \in 1..n : v.items[i] \in Scalars
    BY <2>1, ElementOfSeq
  <2>4. \A i \in 1..n : TextOf(v.items[i]) \in Texts
    BY <2>3, Kinds, Trimming DEF TextOf
  <2>5. t.scopes = [i \in 1..n |-> TextOf(v.items[i])]
    BY <1>4, <1>7, <2>1, <2>2 DEF DecodedScopes, TextsOf
  <2>6. t.scopes \in [1..n -> Texts] /\ DOMAIN t.scopes = 1..n
    BY <2>4, <2>5
  <2> HIDE DEF n
  <2>7. IsStrings(a) /\ ~IsString(a) /\ a # Null /\ TextsOf(a) = t.scopes
    BY <2>2, <2>6, ArrayOf
  <2> HIDE DEF a
  <2>8. Lookup(claims, "scope") = a
    BY <1>5, <1>7, <2>1
  <2> QED
    BY <2>7, <2>8 DEF ClaimStrings, claims, m
<1>8. CASE v # Absent /\ ~IsArray(v)
  <2>1. Lookup(claims, "scope") = v /\ t.scopes = Fields(TextOf(v))
    BY <1>4, <1>5, <1>8 DEF DecodedScopes
  <2>2. CASE IsString(v)
    BY <2>1, <2>2 DEF ClaimStrings, TextOf, claims, m
  <2>3. CASE ~IsString(v)
    <3>1. v = Null
      BY <1>1, <1>2, <1>8, <2>3, Kinds DEF ScopeDecodes, NoValue
    <3>2. TextOf(v) = Empty /\ Fields(Empty) = <<>>
      BY <2>3 DEF TextOf, Fields, Empty, Text
    <3> QED
      BY <2>1, <2>3, <3>1, <3>2 DEF ClaimStrings, claims, m
  <2> QED
    BY <2>2, <2>3
<1> QED
  BY <1>6, <1>7, <1>8

\* The roles of the claims that are kept are the typed ones, trimmed.
LEMMA RolesClaim ==
  ASSUME NEW p \in Payloads, Decodes(p), NEW t, RolesParse(Bound(p, "roles"))
  PROVE  ClaimStrings(ValidatedClaims(PayloadMap(p), t), "roles")
           = ParseRolesClaim(Bound(p, "roles"))
<1> DEFINE m      == PayloadMap(p)
           claims == ValidatedClaims(m, t)
           v      == Bound(p, "roles")
           a      == Arr([i \in DOMAIN v.items |-> Str(TrimSpace(v.items[i].text))])
<1>1. "roles" \in StandardClaimNames /\ "roles" \notin ExactClaims /\ ~Duplicated(p)
  BY DEF Decodes, StandardClaimNames, ExactClaims
<1>2. /\ v = Lookup(m, "roles") /\ v \in JSONValues \cup {Absent}
      /\ "roles" \in DOMAIN m <=> v # Absent
  BY <1>1, SameReading
<1>3. /\ DOMAIN claims = DOMAIN m
      /\ "roles" \in DOMAIN m => claims["roles"] = NormalizeClaimValue(m["roles"])
  BY <1>1 DEF ValidatedClaims
<1> HIDE DEF m, claims, v
<1>4. Lookup(claims, "roles") = IF v = Absent THEN Absent ELSE NormalizeClaimValue(v)
  BY <1>2, <1>3 DEF Lookup
<1>5. CASE NoValue(v)
  <2>1. v = Absent \/ v = Null
    BY <1>2, <1>5, Kinds DEF NoValue
  <2>2. v = Null => NormalizeClaimValue(v) = v
    BY Kinds DEF NormalizeClaimValue, IsStrings
  <2>3. Lookup(claims, "roles") = v /\ ~IsStrings(v)
    BY <1>4, <2>1, <2>2, Kinds DEF IsStrings, IsArray
  <2> QED
    BY <1>5, <2>3 DEF ClaimStrings, ParseRolesClaim, claims, m, v
<1>6. CASE ~NoValue(v)
  <2>1. IsStrings(v) /\ v # Absent
    BY <1>6 DEF RolesParse, NoValue, v
  <2>2. v.items \in Seq(Scalars) /\ ~IsString(v)
    BY <1>2, <2>1, Kinds DEF IsStrings, IsArray, IsString
  <2> DEFINE n == Len(v.items)
             f == [i \in 1..n |-> TrimSpace(v.items[i].text)]
  <2>3. n \in Nat /\ DOMAIN v.items = 1..n
    BY <2>2
  <2>4. \A i \in 1..n : TrimSpace(v.items[i].text) \in Texts
    <3>1. \A i \in 1..n : v.items[i] \in JSONValues
      BY <2>2, ElementOfSeq, Kinds
    <3>2. \A i \in 1..n : v.items[i].text \in Texts
      BY <2>1, <2>3, <3>1, Kinds DEF IsStrings
    <3> QED
      BY <3>2, Trimming
  <2>5. f \in [1..n -> Texts] /\ \A i \in 1..n : f[i] = TrimSpace(v.items[i].text)
    BY <2>4
  <2>6. a = Arr([i \in 1..n |-> Str(f[i])])
    BY <2>3, <2>5
  <2>7. ParseRolesClaim(v) = f
    BY <1>6, <2>3 DEF ParseRolesClaim
  <2>8. NormalizeClaimValue(v) = a
    BY <2>1, <2>2 DEF NormalizeClaimValue
  <2> HIDE DEF n, f, a
  <2>9. IsStrings(a) /\ TextsOf(a) = f
    BY <2>3, <2>5, <2>6, ArrayOf
  <2>10. ClaimStrings(claims, "roles") = f
    BY <1>4, <2>1, <2>8, <2>9 DEF ClaimStrings
  <2> QED
    BY <2>7, <2>10 DEF claims, m, v
<1> QED
  BY <1>5, <1>6
\* The principal of a payload that was decoded and validated at some time.
LEMMA PrincipalOf ==
  ASSUME NEW p \in Payloads, Decodes(p), NEW time, Validated(Typed(p), time),
         Absent # ContextOf(p)
  PROVE  LET t   == Typed(p)
             ctx == ContextOf(p)
         IN  /\ AuthContext(ctx) =
                   [sub |-> t.sub, clientID |-> t.clientID, email |-> TrimSpace(t.email),
                    ouID |-> TrimSpace(t.ouID), ouHandle |-> TrimSpace(t.ouHandle),
                    roles |-> ParseRolesClaim(t.roles), scopes |-> t.scopes]
             /\ ConsumerFromContext(ctx) = [applicationID |-> t.clientID, subscriber |-> t.sub]
             /\ OwnerSubject(ctx, "sub") = t.sub
             /\ OwnerSubject(ctx, "email") = TrimSpace(t.email)
             /\ t.scopes # Absent => \A i \in DOMAIN t.scopes : HasScope(ctx, t.scopes[i])
<1> DEFINE t      == Typed(p)
           ctx    == ContextOf(p)
           claims == ValidatedClaims(PayloadMap(p), t)
<1>1. ContextClaims(ctx) = claims
  BY DEF ContextClaims, ContextOf
<1>2. /\ t.sub = TextOf(Bound(p, "sub")) /\ t.clientID = TextOf(Bound(p, "client_id"))
      /\ t.email = TextOf(Bound(p, "email")) /\ t.ouID = TextOf(Bound(p, "ouId"))
      /\ t.ouHandle = TextOf(Bound(p, "ouHandle"))
      /\ t.roles = Bound(p, "roles") /\ t.scopes = DecodedScopes(Bound(p, "scope"))
      /\ RolesParse(t.roles)
  BY DEF Typed, Validated
<1> HIDE DEF t
<1>3. /\ {"sub", "client_id", "email", "ouId", "ouHandle"} \subseteq StringFields
      /\ {"sub", "client_id"} \subseteq ExactClaims
      /\ {"email", "ouId", "ouHandle"} \cap ExactClaims = {}
  BY DEF StringFields, ExactClaims
<1>4. /\ ClaimString(claims, "sub") = t.sub
      /\ ClaimString(claims, "client_id") = t.clientID
      /\ ClaimString(claims, "email") = TrimSpace(t.email)
      /\ ClaimString(claims, "ouId") = TrimSpace(t.ouID)
      /\ ClaimString(claims, "ouHandle") = TrimSpace(t.ouHandle)
  BY <1>2, <1>3, StringClaim
<1>5. ClaimStrings(claims, "scope") = t.scopes
  BY <1>2, ScopeClaim
<1>6. ClaimStrings(claims, "roles") = ParseRolesClaim(t.roles)
  BY <1>2, RolesClaim
<1> HIDE DEF claims, ctx
<1>7. AuthContext(ctx) =
        [sub |-> t.sub, clientID |-> t.clientID, email |-> TrimSpace(t.email),
         ouID |-> TrimSpace(t.ouID), ouHandle |-> TrimSpace(t.ouHandle),
         roles |-> ParseRolesClaim(t.roles), scopes |-> t.scopes]
  BY <1>1, <1>4, <1>5, <1>6 DEF AuthContext, Principal
<1>8. ConsumerFromContext(ctx) = [applicationID |-> t.clientID, subscriber |-> t.sub]
  BY <1>7 DEF ConsumerFromContext, ctx
<1>9. OwnerSubject(ctx, "sub") = t.sub /\ OwnerSubject(ctx, "email") = TrimSpace(t.email)
  BY <1>1, <1>4 DEF OwnerSubject
<1>10. t.scopes # Absent => \A i \in DOMAIN t.scopes : HasScope(ctx, t.scopes[i])
  BY <1>7 DEF HasScope
<1> QED
  BY <1>7, <1>8, <1>9, <1>10 DEF t, ctx

\* What every accessor of an accepted token says is what was validated,
\* although it reads the payload's map and the validation the typed fields.
THEOREM PrincipalsAreValidated == Spec => []PrincipalIsValidated
<1>1. ASSUME IInv PROVE PrincipalIsValidated
  <2> SUFFICES ASSUME NEW r \in Requests, Accepted(r)
               PROVE  LET t   == Typed(task[r].token.payload)
                          ctx == task[r].ctx
                      IN  /\ AuthContext(ctx) =
                                [sub |-> t.sub, clientID |-> t.clientID,
                                 email |-> TrimSpace(t.email),
                                 ouID |-> TrimSpace(t.ouID),
                                 ouHandle |-> TrimSpace(t.ouHandle),
                                 roles |-> ParseRolesClaim(t.roles), scopes |-> t.scopes]
                          /\ ConsumerFromContext(ctx)
                               = [applicationID |-> t.clientID, subscriber |-> t.sub]
                          /\ OwnerSubject(ctx, "sub") = t.sub
                          /\ OwnerSubject(ctx, "email") = TrimSpace(t.email)
                          /\ t.scopes # Absent =>
                               \A i \in DOMAIN t.scopes : HasScope(ctx, t.scopes[i])
    BY DEF PrincipalIsValidated
  <2> DEFINE p == task[r].token.payload
  <2>1. /\ task[r] \in Task /\ task[r].token # NoHeader /\ Decodes(p)
        /\ \E time \in 0..now : Validated(Typed(p), time)
        /\ task[r].ctx = ContextOf(p)
    BY <1>1, OfRequest DEF Concluded, Accepted
  <2>2. p \in Payloads /\ Absent # ContextOf(p)
    <3>1. \E q \in Requests : task[r].token \in TokensOf[q]
      BY <2>1 DEF Task, Tokens
    <3> QED
      BY <2>1, <3>1, TokenVerifierAssumption DEF TokenVerifierAssumption
  <2> QED
    BY <2>1, <2>2, PrincipalOf
<1> QED
  BY <1>1, Invariance, PTL
=============================================================================
