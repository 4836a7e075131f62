-------------------------- MODULE FederatedRequest --------------------------
(***************************************************************************)
(* The control of the orchestration engine: what becomes of a consumer's   *)
(* request from its arrival to its answer (internal/oe/federator), while   *)
(* grants and consents change and other requests are served.               *)
(*                                                                         *)
(* A request is refused or planned at once; the plan is pure and a         *)
(* constant here, which QueryPlan computes.  Then the policy decision      *)
(* point is asked, the consent engine when it says so, and each provider,  *)
(* concurrently; what the answer is, FederatedResponse says.  The two      *)
(* services are what they promise: AllowLists and ConsentLifecycle, which  *)
(* PolicyDecisionPoint and ConsentEngine implement.  Any call may fail,    *)
(* and the effect of a failed call may remain.                             *)
(*                                                                         *)
(* The results of a request's fetches are kept in a map that the           *)
(* providers' goroutines write under a lock, and the launching loop writes *)
(* without it, for a schema that has no provider.  When the two overlap    *)
(* the runtime may end the process, and with it every request.             *)
(***************************************************************************)
EXTENDS Naturals, Sequences, FiniteSets

CONSTANTS
    Requests,     \* requests the engine may receive
    Apps,         \* applications
    Queries,      \* what a request may ask
    QueriesOf,    \* of each request, the queries it may carry (a bound)
    Plan,         \* of each query, its data owner and its fetches, or Refused
    Refused,      \* the query is invalid, names no owner or cannot be planned
    Configured,   \* the schemas that have a provider
    Owners,       \* data owners
    Keys,         \* provider fields
    ConsentKeys,  \* those the owner's consent is required for
    ConsentIDs,   \* consents (a bound)
    GrantSets,    \* the sets of fields that are granted together (a bound)
    Revocable,    \* the fields that are revoked singly (a bound)
    Expiries,     \* times at which grants may expire
    MaxTime,      \* the last time (a bound)
    Nil           \* nothing

Fetches(q) == Plan[q].fetches
Reads(q)   == UNION {Fetches(q)[i].keys : i \in DOMAIN Fetches(q)}

ConstantsAssumption ==
    /\ \A r \in Requests : QueriesOf[r] \subseteq Queries
    /\ \A q \in Queries : Plan[q] # Refused =>
          /\ Plan[q].owner \in Owners
          /\ Fetches(q) \in Seq([schema : STRING, keys : SUBSET Keys])
    /\ ConsentKeys \subseteq Keys
    /\ GrantSets \subseteq SUBSET Keys /\ Revocable \subseteq Keys
    /\ MaxTime \in Nat /\ Expiries \subseteq Nat
    /\ Nil \notin Nat

ASSUME FederatedRequestAssumption == ConstantsAssumption

VARIABLES
    now,     \* the time
    lists,   \* the allow-list of each field
    status,  \* of each consent
    party,   \* whose consent it is, for which application
    covers,  \* the fields it covers
    task     \* of each request, how far it is

vars     == <<now, lists, status, party, covers, task>>
services == <<now, lists, status, party, covers>>
consents == <<status, party, covers>>

NoParty == <<>>

Ledger == INSTANCE ConsentLifecycle WITH Parties <- Owners \X Apps
Grants == INSTANCE AllowLists

Outcomes == {"answered", "failed"}

\* A request: where it is, who asks what, the fields the PDP has found granted
\* so far, the next fetch of the launching loop, what became of each fetch;
\* and, for the properties, the fields that were granted to the application
\* and that its consents covered at some moment since the request came in.
Task ==
    [at      : {"idle", "policy", "consent", "launch", "write", "done", "lost"},
     app     : Apps \cup {Nil},
     query   : Queries \cup {Nil},
     passed  : SUBSET Keys,
     next    : Nat,
     outcome : Seq(Outcomes \cup {"none", "flying"}),
     granted : SUBSET Keys,
     agreed  : SUBSET Keys]

Blank(at) == [at |-> at, app |-> Nil, query |-> Nil, passed |-> {}, next |-> 1,
              outcome |-> <<>>, granted |-> {}, agreed |-> {}]

TypeOK ==
    /\ now \in Nat
    /\ lists \in [Keys -> Grants!AllowList \cup {Nil}]
    /\ Ledger!TypeOK
    /\ covers \in [ConsentIDs -> SUBSET Keys]
    /\ task \in [Requests -> Task]
    /\ \A r \in Requests : task[r].at \in {"policy", "consent", "launch", "write"} =>
          /\ task[r].app \in Apps
          /\ task[r].query \in Queries /\ Plan[task[r].query] # Refused
          /\ Len(task[r].outcome) = Len(Fetches(task[r].query))
          /\ task[r].next \in 1..(Len(task[r].outcome) + 1)
          /\ task[r].at = "write" => task[r].next \in DOMAIN task[r].outcome

Active(r)  == task[r].at \in {"policy", "consent", "launch", "write"}
PartyOf(r) == <<Plan[task[r].query].owner, task[r].app>>
Needs(r)   == Reads(task[r].query)

\* The fields whose allow-lists let the application in.
Granted(app) == {k \in Keys : lists[k] # Nil /\ lists[k][app] # Nil /\ now <= lists[k][app]}

\* The fields an approved consent of the party covers.
Agreed(p) == UNION {covers[i] : i \in {j \in ConsentIDs : status[j] = "approved" /\ party[j] = p}}

Init ==
    /\ now = 0
    /\ lists = [k \in Keys |-> Grants!Empty]
    /\ Ledger!Init
    /\ covers = [i \in ConsentIDs |-> {}]
    /\ task = [r \in Requests |-> Blank("idle")]

----------------------------------------------------------------------------
(* Administrators, owners and time.                                        *)

\* Fields are granted; requests under way may have been decided before.
Grant(app, S, t) ==
    /\ now <= t
    /\ Grants!Grant(app, S, t)
    /\ task' = [r \in Requests |->
                  IF Active(r) /\ task[r].app = app
                  THEN [task[r] EXCEPT !.granted = @ \cup S] ELSE task[r]]
    /\ UNCHANGED <<now, consents>>

Revoke(app, k) == Grants!Revoke(app, k) /\ UNCHANGED <<now, consents, task>>

Approve(i) ==
    /\ Ledger!Approve(i)
    /\ task' = [r \in Requests |->
                  IF Active(r) /\ PartyOf(r) = party[i]
                  THEN [task[r] EXCEPT !.agreed = @ \cup covers[i]] ELSE task[r]]
    /\ UNCHANGED <<now, lists, covers>>

\* The owner rejects or withdraws, or a deadline of the consent passes.
Withhold(i) ==
    /\ Ledger!Reject(i) \/ Ledger!Withdraw(i) \/ Ledger!Lapse({i})
    /\ UNCHANGED <<now, lists, covers, task>>

Tick == now < MaxTime /\ now' = now + 1 /\ UNCHANGED <<lists, consents, task>>

Environment ==
    \/ \E app \in Apps, S \in GrantSets, t \in Expiries : Grant(app, S, t)
    \/ \E app \in Apps, k \in Revocable : Revoke(app, k)
    \/ \E i \in ConsentIDs : Approve(i) \/ Withhold(i)
    \/ Tick

----------------------------------------------------------------------------
(* A request.                                                              *)

Put(r, t)    == task' = [task EXCEPT ![r] = t]
Move(r, at)  == Put(r, [task[r] EXCEPT !.at = at])

\* The answer goes out and nothing of the request remains.
Finish(r) == Put(r, Blank("done")) /\ UNCHANGED services

\* The query is refused, or planned: nothing has been asked of anyone yet.
Receive(r, app, q) ==
    /\ task[r].at = "idle"
    /\ IF Plan[q] = Refused THEN Put(r, Blank("done"))
       ELSE Put(r, [Blank("policy") EXCEPT
                      !.app = app, !.query = q,
                      !.outcome = [i \in DOMAIN Fetches(q) |-> "none"],
                      !.granted = Granted(app),
                      !.agreed = Agreed(<<Plan[q].owner, app>>)])
    /\ UNCHANGED services

\* checkPolicy: the call fails, or the answer is not a permission.  A decision
\* over no fields is refused by the PDP.
Deny(r) == task[r].at = "policy" /\ Finish(r)

\* The PDP reads the allow-lists one after the other.  When the last lets the
\* application in it permits, and says whether the owner has to agree.
Permit(r, k) ==
    LET passed == task[r].passed \cup {k} IN
    /\ task[r].at = "policy"
    /\ k \in Needs(r) \ task[r].passed /\ k \in Granted(task[r].app)
    /\ IF passed # Needs(r) THEN Put(r, [task[r] EXCEPT !.passed = passed])
       ELSE Put(r, [task[r] EXCEPT !.passed = {},
                      !.at = IF Needs(r) \cap ConsentKeys = {} THEN "launch" ELSE "consent"])
    /\ UNCHANGED services

\* The consent engine's answer to checkConsent, or none: only an approved
\* consent lets the query pass.
Consented(r, answer) ==
    \/ answer = "approved" /\ Move(r, "launch")
    \/ Put(r, Blank("done"))  \* also when the answer is lost

\* The fields the consent is asked for.
Asked(r) == Needs(r) \cap ConsentKeys

Current(r) == {i \in ConsentIDs : status[i] \in Ledger!Active /\ party[i] = PartyOf(r)}

\* A plausible bug: the fields of the consent are not compared.
ReuseAny(r, i) ==
    /\ task[r].at = "consent"
    /\ i \in Current(r)
    /\ Consented(r, status[i])
    /\ UNCHANGED services

\* The party has a consent for these fields.
Reuse(r, i) ==
    /\ task[r].at = "consent"
    /\ i \in Current(r) /\ covers[i] = Asked(r)
    /\ Consented(r, status[i])
    /\ UNCHANGED services

\* The consent is for other fields, or for these in another order.
Differs(r, j) == ~(covers[j] = Asked(r) /\ Cardinality(Asked(r)) = 1)

\* It has none, or one that differs, which a new one replaces.
Request(r, i) ==
    /\ task[r].at = "consent"
    /\ \/ Current(r) = {} /\ Ledger!Open(i, PartyOf(r))
       \/ \E j \in Current(r) : Differs(r, j) /\ Ledger!Replace(j, i)
    /\ covers' = [covers EXCEPT ![i] = Asked(r)]
    /\ Consented(r, "pending")
    /\ UNCHANGED <<now, lists>>

\* The call fails before it has an effect.
Unasked(r) == task[r].at = "consent" /\ Finish(r)

----------------------------------------------------------------------------
(* execute: the loop launches a goroutine for each fetch.                  *)

SchemaOf(r, i)  == Fetches(task[r].query)[i].schema
FetchCount(r)   == Len(Fetches(task[r].query))

Launch(r) ==
    /\ task[r].at = "launch" /\ task[r].next <= FetchCount(r)
    /\ SchemaOf(r, task[r].next) \in Configured
    /\ Put(r, [task[r] EXCEPT !.outcome[task[r].next] = "flying", !.next = @ + 1])
    /\ UNCHANGED services

\* No provider is configured: the loop itself begins to write the map ...
StartWrite(r) ==
    /\ task[r].at = "launch" /\ task[r].next <= FetchCount(r)
    /\ SchemaOf(r, task[r].next) \notin Configured
    /\ Move(r, "write")
    /\ UNCHANGED services

\* ... and ends.
EndWrite(r) ==
    /\ task[r].at = "write"
    /\ Put(r, [task[r] EXCEPT !.at = "launch", !.outcome[task[r].next] = "failed", !.next = @ + 1])
    /\ UNCHANGED services

\* A provider answers, or its call fails, and the goroutine writes the map.
Store(r, i, o) ==
    /\ task[r].at \in {"launch", "write"}
    /\ task[r].outcome[i] = "flying"
    /\ Put(r, [task[r] EXCEPT !.outcome[i] = o])
    /\ UNCHANGED services

\* The runtime finds two writers at the map and ends the process.
Crash(r, i) ==
    /\ task[r].at = "write"
    /\ task[r].outcome[i] = "flying"
    /\ task' = [s \in Requests |-> IF Active(s) THEN Blank("lost") ELSE task[s]]
    /\ UNCHANGED services

\* A plausible bug: fetches without a goroutine are waited for as well.
CollectedAll(r) ==
    /\ task[r].at = "launch"
    /\ FetchCount(r) < task[r].next
    /\ \A i \in DOMAIN task[r].outcome :
          task[r].outcome[i] # "flying" /\ SchemaOf(r, i) \in Configured

\* All goroutines have finished and the loop too.
Collected(r) ==
    /\ task[r].at = "launch"
    /\ FetchCount(r) < task[r].next
    /\ \A i \in DOMAIN task[r].outcome : task[r].outcome[i] # "flying"

\* The results are merged and the response is sent.
Respond(r) == Collected(r) /\ Finish(r)

Fetching(r) ==
    \/ Launch(r) \/ StartWrite(r) \/ EndWrite(r)
    \/ \E i \in DOMAIN task[r].outcome :
          \/ \E o \in Outcomes : Store(r, i, o)
          \/ Crash(r, i)

Serve(r) ==
    \/ Deny(r)
    \/ \E k \in Keys : Permit(r, k)
    \/ \E i \in ConsentIDs : Reuse(r, i) \/ Request(r, i)
    \/ Unasked(r)
    \/ Fetching(r)
    \/ Respond(r)

Next ==
    \/ Environment
    \/ \E r \in Requests :
          \/ \E app \in Apps : \E q \in QueriesOf[r] : Receive(r, app, q)
          \/ Serve(r)

\* The clients of the PDP and of the consent engine time out after 10 s, those
\* of the providers after their configured timeout: every call returns.
Fairness == \A r \in Requests : WF_vars(Serve(r))

Spec == Init /\ [][Next]_vars /\ Fairness

----------------------------------------------------------------------------
(* Properties.                                                             *)

\* access.go decides before execute.go fetches, and a grant may be revoked, a
\* consent withdrawn or replaced in between.  Still, whatever a provider is
\* asked for was granted to the application at some moment since its request
\* came in, and the owner's approved consent covered what requires it.
ReleasedWithinRequest ==
    \A r \in Requests :
        LET fetched == UNION {Fetches(task[r].query)[i].keys :
                                 i \in {j \in DOMAIN task[r].outcome : task[r].outcome[j] # "none"}}
        IN  /\ fetched \subseteq task[r].granted
            /\ fetched \cap ConsentKeys \subseteq task[r].agreed

\* A request that was received is answered, whatever calls fail, unless the
\* process ends under it: no goroutine is waited for in vain.
EveryRequestAnswered ==
    \A r \in Requests : Active(r) ~> task[r].at \in {"done", "lost"}

=============================================================================
