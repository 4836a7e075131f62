------------------------ MODULE PolicyDecisionPoint ------------------------
(***************************************************************************)
(* The Policy Decision Point: the policy_metadata table, the requests that *)
(* change it (internal/pdp/services/policy_metadata_service.go) and the    *)
(* decision taken from it (internal/pdp/engine).                           *)
(*                                                                         *)
(* Requests run concurrently and only PostgreSQL orders them.  What a      *)
(* transaction writes is private to it until it commits, so a transaction  *)
(* is modelled by its reads, by the row locks it takes one after the       *)
(* other, and by its commit, which makes all its writes visible at once.   *)
(*                                                                         *)
(* A row is known by its field (the unique index on schema_id, field_name) *)
(* and by its id, which changes when a field is deleted and defined again. *)
(***************************************************************************)
EXTENDS Naturals, FiniteSets

CONSTANTS
    Fields,     \* bound: fields are numbered by (schema_id, field_name)
    Schemas,    \* the schemas
    SchemaOf,   \* the schema of each field
    Apps,       \* applications
    GrantTimes, \* the values AddDate may give to each grant duration
    Requests,   \* slots for HTTP requests in flight
    Calls,      \* the requests that clients send
    MaxRows,    \* bound: how often a field is defined
    MaxTime,    \* bound: the clock
    Nil         \* SQL NULL, a key absent from a map

VARIABLES
    now,        \* the clock
    rows,       \* the table: the row of each field, or Nil
    defined,    \* how many rows each field has had; the id of the latest
    call,       \* what each request was asked to do; Nil when it is idle
    copy,       \* the rows it has read
    plan,       \* what its transaction has still to touch
    aim,        \* what it touches next
    locks,      \* the rows it has locked
    inserted,   \* the fields it has inserted and not committed
    stamp,      \* the time it took from the clock: a grant's expiry, a decision's read
    verdicts,   \* the outcomes of the fields it has evaluated
    reply       \* what it was answered in the last step

vars == <<now, rows, defined, call, copy, plan, aim, locks, inserted, stamp,
          verdicts, reply>>

memory == <<call, copy, plan, aim, locks, inserted, stamp, verdicts>>

Keys == 1..Fields
Ids  == 1..MaxRows

\* The classes the engine has loaded.
Classes   == {"allowlist", "allowlist_consent"}
Durations == {"30d", "365d"}
Outcomes  == {"allow", "deny", "expired", "consent_required"}

AllowList == [Apps -> Nat \cup {Nil}]
NoEntries == [a \in Apps |-> Nil]

\* A row of policy_metadata.
Row == [id: Ids, class: Classes, allow: AllowList]

\* Requests.  classes gives the records of a sync, Nil for the fields it omits.
SyncCall   == [op: {"sync"}, schema: Schemas, classes: [Keys -> Classes \cup {"unknown", Nil}]]
GrantCall  == [op: {"grant"}, app: Apps, keys: SUBSET Keys, duration: Durations \cup {"other"}]
RevokeCall == [op: {"revoke"}, key: Keys, id: Ids, app: Apps]
PatchCall  == [op: {"patch"}, key: Keys, id: Ids, class: Classes \cup {"unknown"}]
DeleteCall == [op: {"delete"}, key: Keys, id: Ids]
DecideCall == [op: {"decide"}, app: Apps, keys: (SUBSET Keys) \ {{}}]

Call == UNION {SyncCall, GrantCall, RevokeCall, PatchCall, DeleteCall, DecideCall}

Acts == {"delete", "insert", "update", "lock", "decide"}
Item == [act: Acts, on: Keys]

Flags   == {"authorized", "expired", "consent"}
Answers == {"ok", "decided", "not_found", "unknown_class", "error"}
Reply   == [answer: Answers \cup {Nil}, flags: SUBSET Flags]

ASSUME ConstantsAssumption ==
    /\ Fields \in Nat
    /\ SchemaOf \in [Keys -> Schemas]
    /\ GrantTimes \in [Durations -> SUBSET Nat]
    /\ Calls \subseteq Call
    /\ MaxRows \in Nat
    /\ MaxTime \in Nat
    /\ Nil \notin Nat
    /\ Nil \notin Row
    /\ Nil \notin AllowList
    /\ Nil \notin Call
    /\ Nil \notin Item
    /\ Nil \notin Answers
    /\ Nil \notin Classes \cup {"unknown"}

\* Every row has a class the engine has loaded: Row says so.
TypeOK ==
    /\ now \in Nat
    /\ rows \in [Keys -> Row \cup {Nil}]
    /\ defined \in [Keys -> 0..MaxRows]
    /\ call \in [Requests -> Call \cup {Nil}]
    /\ copy \in [Requests -> [Keys -> Row \cup {Nil}]]
    /\ plan \in [Requests -> SUBSET Item]
    /\ aim \in [Requests -> Item \cup {Nil}]
    /\ locks \in [Requests -> SUBSET Keys]
    /\ inserted \in [Requests -> SUBSET Keys]
    /\ stamp \in [Requests -> Nat]
    /\ verdicts \in [Requests -> SUBSET Outcomes]
    /\ reply \in [Requests -> Reply]

-----------------------------------------------------------------------------
(* The decision for one field: the Rego packages under engine/policies.    *)

\* Mutant of Decide: an entry is as good as a grant.
DecideUndated(row, app, t) ==
    CASE row.allow[app] = Nil -> "deny"
      [] row.allow[app] # Nil /\ row.class = "allowlist" -> "allow"
      [] OTHER -> "consent_required"

\* The router and the two classes; an entry is good until its expiry.
Decide(row, app, t) ==
    CASE row.allow[app] = Nil -> "deny"
      [] row.allow[app] # Nil /\ t > row.allow[app] -> "expired"
      [] row.allow[app] # Nil /\ t <= row.allow[app] /\ row.class = "allowlist" -> "allow"
      [] OTHER -> "consent_required"

\* The flags of the response.
DecisionFlags(seen) ==
    {f \in Flags : \/ f = "authorized" /\ "deny" \notin seen
                   \/ f = "expired"    /\ "expired" \in seen
                   \/ f = "consent"    /\ "consent_required" \in seen}

-----------------------------------------------------------------------------
(* Transactions.                                                           *)

\* Mutant of Precedes: the rows of a grant are locked in no order.
PrecedesUnordered(x, y) ==
    \/ x.act = "delete" /\ y.act \in {"insert", "update"}
    \/ x.act = "insert" /\ y.act = "update"

\* What comes first in a transaction: a sync deletes, inserts, then updates;
\* a grant locks its rows ORDER BY schema_id, field_name.
Precedes(x, y) ==
    \/ x.act = "delete" /\ y.act \in {"insert", "update"}
    \/ x.act = "insert" /\ y.act = "update"
    \/ x.act = "lock" /\ y.act = "lock" /\ x.on < y.on

\* The transaction of r has p left; where the statements leave the order
\* open, it turns to any of it.
Continue(r, p) ==
    /\ plan' = [plan EXCEPT ![r] = p]
    /\ \/ p = {} /\ aim' = [aim EXCEPT ![r] = Nil]
       \/ \E x \in p :
             /\ \A y \in p : ~Precedes(y, x)
             /\ aim' = [aim EXCEPT ![r] = x]

\* The row that r read for the field is still there.
SameRow(r, k) == rows[k] # Nil /\ copy[r][k] # Nil /\ rows[k].id = copy[r][k].id

\* Another transaction holds the row.
Locked(r, k) == \E q \in Requests \ {r} : k \in locks[q]

\* The fields a sync names, and those of its schema.
Sent(c)          == {k \in Keys : SchemaOf[k] = c.schema /\ c.classes[k] # Nil}
SchemaFields(c)  == {k \in Keys : SchemaOf[k] = c.schema}

\* Whether k will be there is open until q commits: q inserted or deleted it.
Undecided(q, k) ==
    \/ k \in inserted[q]
    \/ k \in locks[q] /\ call[q].op = "sync" /\ k \notin Sent(call[q])

\* The transaction of r waits for the one of q.
WaitsFor(r, q) ==
    /\ r # q
    /\ aim[r] # Nil
    /\ \/ /\ aim[r].act \in {"delete", "update", "lock"}
          /\ SameRow(r, aim[r].on)
          /\ aim[r].on \in locks[q]
       \/ /\ aim[r].act = "insert"
          /\ Undecided(q, aim[r].on)

Waits(r) == \E q \in Requests : WaitsFor(r, q)

NoReply == [r \in Requests |-> [answer |-> Nil, flags |-> {}]]

\* The request has read the rows found and goes on with plan p.
Begin(r, c, found, p, t) ==
    /\ call' = [call EXCEPT ![r] = c]
    /\ copy' = [copy EXCEPT ![r] = found]
    /\ stamp' = [stamp EXCEPT ![r] = t]
    /\ Continue(r, p)
    /\ reply' = NoReply
    /\ UNCHANGED <<locks, inserted, verdicts>>

\* Mutant of Answer: the transaction is left open.
AnswerUnreleased(r, a, f) ==
    /\ call' = [call EXCEPT ![r] = Nil]
    /\ copy' = [copy EXCEPT ![r] = [k \in Keys |-> Nil]]
    /\ plan' = [plan EXCEPT ![r] = {}]
    /\ aim' = [aim EXCEPT ![r] = Nil]
    /\ stamp' = [stamp EXCEPT ![r] = 0]
    /\ verdicts' = [verdicts EXCEPT ![r] = {}]
    /\ reply' = [NoReply EXCEPT ![r] = [answer |-> a, flags |-> f]]
    /\ UNCHANGED <<locks, inserted>>

\* The request is answered and its transaction is over, with all its locks.
Answer(r, a, f) ==
    /\ call' = [call EXCEPT ![r] = Nil]
    /\ copy' = [copy EXCEPT ![r] = [k \in Keys |-> Nil]]
    /\ plan' = [plan EXCEPT ![r] = {}]
    /\ aim' = [aim EXCEPT ![r] = Nil]
    /\ locks' = [locks EXCEPT ![r] = {}]
    /\ inserted' = [inserted EXCEPT ![r] = {}]
    /\ stamp' = [stamp EXCEPT ![r] = 0]
    /\ verdicts' = [verdicts EXCEPT ![r] = {}]
    /\ reply' = [NoReply EXCEPT ![r] = [answer |-> a, flags |-> f]]

\* The request is answered before it has touched anything.
AnswerAtOnce(r, a) ==
    /\ reply' = [NoReply EXCEPT ![r] = [answer |-> a, flags |-> {}]]
    /\ UNCHANGED memory

-----------------------------------------------------------------------------
(* POST /policy/metadata: the sync of one schema.                          *)

\* Mutant of KnownClass: the check is made by nobody.
AnyClass(class) == TRUE

\* checkPolicyClass
KnownClass(class) == class \in Classes

RowsOf(ks) == [k \in Keys |-> IF k \in ks THEN rows[k] ELSE Nil]

Existing(ks) == {k \in ks : rows[k] # Nil}

SyncPlan(c) ==
    LET there == Existing(SchemaFields(c)) IN
    [act: {"delete"}, on: there \ Sent(c)]
        \cup [act: {"insert"}, on: Sent(c) \ there]
        \cup [act: {"update"}, on: there \cap Sent(c)]

\* CreatePolicyMetadata up to its query, which locks nothing.
SyncMetadata(r, c) ==
    /\ call[r] = Nil
    /\ c.op = "sync"
    /\ \/ /\ \E k \in Sent(c) : ~KnownClass(c.classes[k])
          /\ AnswerAtOnce(r, "unknown_class")
       \/ /\ \A k \in Sent(c) : KnownClass(c.classes[k])
          /\ Begin(r, c, RowsOf(SchemaFields(c)), SyncPlan(c), 0)
    /\ UNCHANGED <<now, rows, defined>>

\* A row to delete or update is locked; one that is gone meanwhile is passed
\* over without an error.
TouchRow(r) ==
    /\ aim[r] # Nil
    /\ aim[r].act \in {"delete", "update"}
    /\ ~Waits(r)
    /\ IF SameRow(r, aim[r].on)
       THEN locks' = [locks EXCEPT ![r] = @ \cup {aim[r].on}]
       ELSE UNCHANGED locks
    /\ Continue(r, plan[r] \ {aim[r]})
    /\ reply' = NoReply
    /\ UNCHANGED <<now, rows, defined, call, copy, inserted, stamp, verdicts>>

\* The unique index lets a new row in, or fails the whole transaction.
InsertRow(r) ==
    /\ aim[r] # Nil
    /\ aim[r].act = "insert"
    /\ ~Waits(r)
    /\ \/ /\ rows[aim[r].on] # Nil
          /\ Answer(r, "error", {})
       \/ /\ rows[aim[r].on] = Nil
          /\ defined[aim[r].on] < MaxRows
          /\ inserted' = [inserted EXCEPT ![r] = @ \cup {aim[r].on}]
          /\ Continue(r, plan[r] \ {aim[r]})
          /\ reply' = NoReply
          /\ UNCHANGED <<call, copy, locks, stamp, verdicts>>
    /\ UNCHANGED <<now, rows, defined>>

\* Mutant of UpdatedRow: the row is saved as it was read.
SavedRow(r, k) == [copy[r][k] EXCEPT !.class = call[r].classes[k]]

\* The update writes metadata columns only, on what the row holds by now.
UpdatedRow(r, k) == [rows[k] EXCEPT !.class = call[r].classes[k]]

NewRow(k, class) == [id |-> defined[k] + 1, class |-> class, allow |-> NoEntries]

CommitSync(r) ==
    /\ call[r] # Nil
    /\ call[r].op = "sync"
    /\ plan[r] = {}
    /\ rows' = [k \in Keys |->
                   IF k \in inserted[r] THEN NewRow(k, call[r].classes[k])
                   ELSE IF k \in locks[r]
                   THEN IF k \in Sent(call[r]) THEN UpdatedRow(r, k) ELSE Nil
                   ELSE rows[k]]
    /\ defined' = [k \in Keys |-> IF k \in inserted[r] THEN defined[k] + 1 ELSE defined[k]]
    /\ Answer(r, "ok", {})
    /\ UNCHANGED now

-----------------------------------------------------------------------------
(* POST /policy/update-allowlist: a grant to one application.              *)

\* UpdateAllowList up to the start of its SELECT ... FOR UPDATE.
UpdateAllowList(r, c) ==
    /\ call[r] = Nil
    /\ c.op = "grant"
    /\ \/ c.keys = {} /\ AnswerAtOnce(r, "ok")
       \/ c.keys # {} /\ c.duration \notin Durations /\ AnswerAtOnce(r, "error")
       \/ /\ c.keys # {}
          /\ c.duration \in Durations
          /\ \E t \in GrantTimes[c.duration] :
                Begin(r, c, RowsOf(c.keys), [act: {"lock"}, on: Existing(c.keys)], now + t)
    /\ UNCHANGED <<now, rows, defined>>

\* The SELECT gets the lock of its next row and reads it again.
LockForGrant(r) ==
    /\ aim[r] # Nil
    /\ aim[r].act = "lock"
    /\ ~Waits(r)
    /\ LET k == aim[r].on IN
       IF SameRow(r, k)
       THEN /\ locks' = [locks EXCEPT ![r] = @ \cup {k}]
            /\ copy' = [copy EXCEPT ![r][k] = rows[k]]
       ELSE /\ copy' = [copy EXCEPT ![r][k] = Nil]
            /\ UNCHANGED locks
    /\ Continue(r, plan[r] \ {aim[r]})
    /\ reply' = NoReply
    /\ UNCHANGED <<now, rows, defined, call, inserted, stamp, verdicts>>

\* The fields the grant names and the SELECT did not return.
MissingRows(r) == {k \in call[r].keys : copy[r][k] = Nil}

\* The list that was read, with the entry.
GrantedList(r, k) == [copy[r][k].allow EXCEPT ![call[r].app] = stamp[r]]

\* Mutant of CommitGrant: fields without metadata are left out silently.
CommitPartOfGrant(r) ==
    /\ call[r] # Nil
    /\ call[r].op = "grant"
    /\ plan[r] = {}
    /\ rows' = [k \in Keys |->
                   IF k \in call[r].keys \ MissingRows(r)
                   THEN [rows[k] EXCEPT !.allow = GrantedList(r, k)]
                   ELSE rows[k]]
    /\ Answer(r, "ok", {})
    /\ UNCHANGED <<now, defined>>

\* The entry is written into every row, or into none.
CommitGrant(r) ==
    /\ call[r] # Nil
    /\ call[r].op = "grant"
    /\ plan[r] = {}
    /\ \/ /\ MissingRows(r) # {}
          /\ Answer(r, "error", {})
          /\ UNCHANGED rows
       \/ /\ MissingRows(r) = {}
          /\ rows' = [k \in Keys |->
                         IF k \in call[r].keys
                         THEN [rows[k] EXCEPT !.allow = GrantedList(r, k)]
                         ELSE rows[k]]
          /\ Answer(r, "ok", {})
    /\ UNCHANGED <<now, defined>>

-----------------------------------------------------------------------------
(* The requests about one record.                                          *)

\* The record of the request exists.
Found(c) == rows[c.key] # Nil /\ rows[c.key].id = c.id

\* RevokeAllowListEntry: the row is locked and read.
RevokeAllowListEntry(r, c) ==
    /\ call[r] = Nil
    /\ c.op = "revoke"
    /\ \/ /\ ~Found(c)
          /\ AnswerAtOnce(r, "not_found")
       \/ /\ Found(c)
          /\ ~Locked(r, c.key)
          /\ rows[c.key].allow[c.app] = Nil
          /\ AnswerAtOnce(r, "not_found")
       \/ /\ Found(c)
          /\ ~Locked(r, c.key)
          /\ rows[c.key].allow[c.app] # Nil
          /\ call' = [call EXCEPT ![r] = c]
          /\ copy' = [copy EXCEPT ![r] = RowsOf({c.key})]
          /\ locks' = [locks EXCEPT ![r] = {c.key}]
          /\ reply' = NoReply
          /\ UNCHANGED <<plan, aim, inserted, stamp, verdicts>>
    /\ UNCHANGED <<now, rows, defined>>

\* The rest of it: the list that was read is written without the entry.
CommitRevoke(r) ==
    /\ call[r] # Nil
    /\ call[r].op = "revoke"
    /\ rows' = [rows EXCEPT ![call[r].key].allow =
                   [copy[r][call[r].key].allow EXCEPT ![call[r].app] = Nil]]
    /\ Answer(r, "ok", {})
    /\ UNCHANGED <<now, defined>>

\* PatchPolicyMetadata up to its query, which is in no transaction.
PatchPolicyMetadata(r, c) ==
    /\ call[r] = Nil
    /\ c.op = "patch"
    /\ \/ ~Found(c) /\ AnswerAtOnce(r, "not_found")
       \/ Found(c) /\ ~KnownClass(c.class) /\ AnswerAtOnce(r, "unknown_class")
       \/ Found(c) /\ KnownClass(c.class) /\ Begin(r, c, RowsOf({c.key}), {}, 0)
    /\ UNCHANGED <<now, rows, defined>>

\* The rest of it: UPDATE ... WHERE id; that no row has the id any more is
\* not noticed.
WritePatch(r) ==
    /\ call[r] # Nil
    /\ call[r].op = "patch"
    /\ \/ /\ Found(call[r])
          /\ ~Locked(r, call[r].key)
          /\ rows' = [rows EXCEPT ![call[r].key].class = call[r].class]
       \/ ~Found(call[r]) /\ UNCHANGED rows
    /\ Answer(r, "ok", {})
    /\ UNCHANGED <<now, defined>>

\* DeletePolicyMetadata
DeletePolicyMetadata(r, c) ==
    /\ call[r] = Nil
    /\ c.op = "delete"
    /\ \/ /\ ~Found(c)
          /\ AnswerAtOnce(r, "not_found")
          /\ UNCHANGED rows
       \/ /\ Found(c)
          /\ ~Locked(r, c.key)
          /\ rows' = [rows EXCEPT ![c.key] = Nil]
          /\ AnswerAtOnce(r, "ok")
    /\ UNCHANGED <<now, defined>>

-----------------------------------------------------------------------------
(* POST /policy/decide.                                                    *)

\* GetPolicyDecision up to its one query.
GetPolicyDecision(r, c) ==
    /\ call[r] = Nil
    /\ c.op = "decide"
    /\ Begin(r, c, RowsOf(c.keys), [act: {"decide"}, on: c.keys], now)
    /\ UNCHANGED <<now, rows, defined>>

\* The next field is evaluated at the time the clock shows then; an
\* evaluation that fails denies it.  A field without metadata fails them all.
DecideField(r) ==
    /\ aim[r] # Nil
    /\ aim[r].act = "decide"
    /\ LET k == aim[r].on IN
       \/ /\ copy[r][k] = Nil
          /\ Answer(r, "error", {})
       \/ /\ copy[r][k] # Nil
          /\ \E o \in {Decide(copy[r][k], call[r].app, now), "deny"} :
                verdicts' = [verdicts EXCEPT ![r] = @ \cup {o}]
          /\ Continue(r, plan[r] \ {aim[r]})
          /\ reply' = NoReply
          /\ UNCHANGED <<call, copy, locks, inserted, stamp>>
    /\ UNCHANGED <<now, rows, defined>>

AnswerDecision(r) ==
    /\ call[r] # Nil
    /\ call[r].op = "decide"
    /\ plan[r] = {}
    /\ Answer(r, "decided", DecisionFlags(verdicts[r]))
    /\ UNCHANGED <<now, rows, defined>>

-----------------------------------------------------------------------------
(* The database and the clock.                                             *)

\* A statement fails and the transaction is rolled back.
FailStatement(r) ==
    /\ call[r] # Nil
    /\ call[r].op # "decide"
    /\ Answer(r, "error", {})
    /\ UNCHANGED <<now, rows, defined>>

\* The transactions of S wait for each other.
Deadlocked(S) ==
    /\ S # {}
    /\ \A r \in S : \E q \in S : WaitsFor(r, q)

\* PostgreSQL fails a statement of one transaction in a deadlock.
BreakDeadlock(r) ==
    /\ \E S \in SUBSET Requests :
          /\ r \in S
          /\ Deadlocked(S)
          /\ \A q \in S : \E p \in S : WaitsFor(p, q)
    /\ Answer(r, "error", {})
    /\ UNCHANGED <<now, rows, defined>>

Tick ==
    /\ now < MaxTime
    /\ now' = now + 1
    /\ reply' = NoReply
    /\ UNCHANGED <<rows, defined, memory>>

-----------------------------------------------------------------------------
Init ==
    /\ now = 0
    /\ rows = [k \in Keys |-> Nil]
    /\ defined = [k \in Keys |-> 0]
    /\ call = [r \in Requests |-> Nil]
    /\ copy = [r \in Requests |-> [k \in Keys |-> Nil]]
    /\ plan = [r \in Requests |-> {}]
    /\ aim = [r \in Requests |-> Nil]
    /\ locks = [r \in Requests |-> {}]
    /\ inserted = [r \in Requests |-> {}]
    /\ stamp = [r \in Requests |-> 0]
    /\ verdicts = [r \in Requests |-> {}]
    /\ reply = NoReply

Send(r, c) ==
    \/ SyncMetadata(r, c)
    \/ UpdateAllowList(r, c)
    \/ RevokeAllowListEntry(r, c)
    \/ PatchPolicyMetadata(r, c)
    \/ DeletePolicyMetadata(r, c)
    \/ GetPolicyDecision(r, c)

Proceed(r) ==
    \/ TouchRow(r)
    \/ InsertRow(r)
    \/ CommitSync(r)
    \/ LockForGrant(r)
    \/ CommitGrant(r)
    \/ CommitRevoke(r)
    \/ WritePatch(r)
    \/ DecideField(r)
    \/ AnswerDecision(r)

Next ==
    \/ \E r \in Requests : \/ \E c \in Calls : Send(r, c)
                           \/ Proceed(r)
                           \/ FailStatement(r)
                           \/ BreakDeadlock(r)
    \/ Tick

Spec == Init /\ [][Next]_vars

\* Goroutines are scheduled, a lock goes to those who wait for it in their
\* order, and PostgreSQL looks for deadlocks.
FairSpec ==
    Spec /\ \A r \in Requests : SF_vars(Proceed(r)) /\ WF_vars(BreakDeadlock(r))

-----------------------------------------------------------------------------
(* Properties.                                                             *)

\* A 2xx answer is true when it is given: after a grant every field it names
\* has the application's entry with the new expiry, and after a revocation
\* the field has none.
SuccessMeansStored ==
    [][\A r \in Requests :
          call[r] # Nil /\ reply'[r].answer = "ok" =>
             /\ call[r].op = "grant" =>
                   \A k \in call[r].keys :
                      rows'[k] # Nil /\ rows'[k].allow[call[r].app] = stamp[r]
             /\ call[r].op = "revoke" =>
                   /\ rows'[call[r].key] # Nil
                   /\ rows'[call[r].key].id = call[r].id
                   /\ rows'[call[r].key].allow[call[r].app] = Nil]_vars

\* Grants, revocations and patches never wait for each other in a circle:
\* every deadlock that PostgreSQL has to break involves a sync.
DeadlockNeedsSync ==
    \A S \in SUBSET Requests :
        Deadlocked(S) => \E r \in S : call[r].op = "sync"

\* An application is let through without the owner's consent only if every
\* field it asked for is of the class "allowlist" and granted to it, by a
\* grant that had not expired when the request was read.
LetThroughOnlyWhenGranted ==
    [][\A r \in Requests :
          call[r] # Nil /\ call[r].op = "decide" /\ reply'[r].flags = {"authorized"} =>
             \A k \in call[r].keys :
                /\ copy[r][k] # Nil
                /\ copy[r][k].class = "allowlist"
                /\ copy[r][k].allow[call[r].app] # Nil
                /\ stamp[r] <= copy[r][k].allow[call[r].app]]_vars

\* Row locks, waiting inserts and deadlocks never keep a request for good,
\* unless it meets the bound on rows.
OutOfRows(r) == aim[r] # Nil /\ aim[r].act = "insert" /\ defined[aim[r].on] = MaxRows

EveryRequestAnswered ==
    \A r \in Requests : (call[r] # Nil) ~> (call[r] = Nil \/ OutOfRows(r))

\* The grants that the table holds behave as AllowLists: no statement of a
\* stale copy loses one, and none reaches only a part of its fields.
Lists == [k \in Keys |-> IF rows[k] = Nil THEN Nil ELSE rows[k].allow]

Expiries == {t + d : t \in 0..MaxTime, d \in UNION {GrantTimes[g] : g \in Durations}}

Grants == INSTANCE AllowLists WITH lists <- Lists

ImplementsAllowLists == Grants!Spec

-----------------------------------------------------------------------------
(* What the documentation says and the code does not do.                   *)

\* POLICY_MODEL.md:20: a sync "upserts the records you send and deletes the
\* schema's records that you omit": when it is answered, the schema has the
\* fields of its records and no others.
SyncStoresItsRecords ==
    [][\A r \in Requests :
          call[r] # Nil /\ call[r].op = "sync" /\ reply'[r].answer = "ok" =>
             \A k \in SchemaFields(call[r]) : (rows'[k] # Nil) = (k \in Sent(call[r]))]_vars
=============================================================================
