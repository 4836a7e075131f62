--------------------- MODULE PolicyDecisionPointProofs ----------------------
(***************************************************************************)
(* Theorems about PolicyDecisionPoint for all fields, schemas,             *)
(* applications, grant durations and sets of calls, any number of          *)
(* concurrent requests and any bound on rows and time.                     *)
(***************************************************************************)
EXTENDS PolicyDecisionPoint, TLAPS, WellFoundedInduction

(***************************************************************************)
(* The inductive invariant.  First what each kind of request remembers and *)
(* holds, seen from the request alone.                                     *)
(***************************************************************************)
Doing(r, op) == call[r] # Nil /\ call[r].op = op

IdleOK(r) ==
    call[r] = Nil =>
        plan[r] = {} /\ locks[r] = {} /\ inserted[r] = {} /\ verdicts[r] = {}

\* A transaction turns to something that nothing left in its plan precedes.
AimOK(r) ==
    IF plan[r] = {} THEN aim[r] = Nil
    ELSE /\ aim[r] \in plan[r]
         /\ \A y \in plan[r] : ~Precedes(y, aim[r])

SyncOK(r) ==
    Doing(r, "sync") =>
        /\ \A k \in Sent(call[r]) : call[r].classes[k] \in Classes
        /\ \A x \in plan[r] : x.act \in {"delete", "insert", "update"}
        /\ \A x \in plan[r] : x.act = "insert" => x.on \in Sent(call[r])
        /\ inserted[r] \subseteq Sent(call[r])

\* What a grant has read is locked or about to be, in the order of the
\* fields; a row it has locked is as it has read it.
GrantOK(r) ==
    Doing(r, "grant") =>
        /\ inserted[r] = {}
        /\ stamp[r] \in Expiries
        /\ \A x \in plan[r] : x.act = "lock" /\ x.on \in call[r].keys
        /\ \A k \in call[r].keys :
              copy[r][k] = Nil \/ k \in locks[r] \/ \E x \in plan[r] : x.on = k
        /\ \A j \in locks[r] : \A x \in plan[r] : j < x.on
        /\ \A k \in locks[r] : copy[r][k] = rows[k]

RevokeOK(r) ==
    Doing(r, "revoke") =>
        /\ plan[r] = {} /\ inserted[r] = {}
        /\ locks[r] = {call[r].key}
        /\ copy[r][call[r].key] = rows[call[r].key]
        /\ rows[call[r].key].id = call[r].id
        /\ rows[call[r].key].allow[call[r].app] # Nil

PatchOK(r) ==
    Doing(r, "patch") =>
        /\ plan[r] = {} /\ locks[r] = {} /\ inserted[r] = {}
        /\ call[r].class \in Classes

\* The outcome of a field is among those seen, or its evaluation failed.
Evaluated(r, k) ==
    /\ copy[r][k] # Nil
    /\ \/ "deny" \in verdicts[r]
       \/ \E t \in Nat : stamp[r] <= t /\ Decide(copy[r][k], call[r].app, t) \in verdicts[r]

DecideOK(r) ==
    Doing(r, "decide") =>
        /\ locks[r] = {} /\ inserted[r] = {}
        /\ stamp[r] <= now
        /\ \A x \in plan[r] : x.act = "decide" /\ x.on \in call[r].keys
        /\ \A k \in call[r].keys : Evaluated(r, k) \/ \E x \in plan[r] : x.on = k

\* A delete is answered at once.
DeleteOK(r) == ~Doing(r, "delete")

\* What is locked is there; what is inserted is not, and its id is free.
HeldOK(r) ==
    /\ \A k \in locks[r] : rows[k] # Nil
    /\ \A k \in inserted[r] : rows[k] = Nil /\ defined[k] < MaxRows

RequestOK(r) ==
    /\ IdleOK(r) /\ AimOK(r) /\ SyncOK(r) /\ GrantOK(r) /\ RevokeOK(r)
    /\ PatchOK(r) /\ DecideOK(r) /\ DeleteOK(r) /\ HeldOK(r)

\* No two transactions hold the same row or insert the same field.
Exclusive ==
    \A p, q \in Requests :
        p # q => locks[p] \cap locks[q] = {} /\ inserted[p] \cap inserted[q] = {}

Inv ==
    /\ TypeOK
    /\ now <= MaxTime
    /\ \A r \in Requests : RequestOK(r)
    /\ Exclusive

\* An empty table and idle requests.
LEMMA InitInv == Init => Inv
<1> SUFFICES ASSUME Init PROVE Inv
  OBVIOUS
<1> USE ConstantsAssumption DEF Init
<1>1. TypeOK
  BY DEF TypeOK, NoReply, Reply, ConstantsAssumption
<1>2. now <= MaxTime
  BY DEF ConstantsAssumption
<1>3. Exclusive
  BY DEF Exclusive
<1>4. ASSUME NEW r \in Requests PROVE RequestOK(r)
  BY DEF RequestOK, IdleOK, AimOK, SyncOK, GrantOK, RevokeOK, PatchOK, DecideOK,
         DeleteOK, HeldOK, Doing
<1> QED
  BY <1>1, <1>2, <1>3, <1>4 DEF Inv

(***************************************************************************)
(* What a step of r leaves to the other requests: their memory, and the    *)
(* rows they hold.                                                         *)
(***************************************************************************)
MemoryKept(q) ==
    /\ call'[q] = call[q] /\ copy'[q] = copy[q] /\ plan'[q] = plan[q]
    /\ aim'[q] = aim[q] /\ locks'[q] = locks[q] /\ inserted'[q] = inserted[q]
    /\ stamp'[q] = stamp[q] /\ verdicts'[q] = verdicts[q]

RowsKeptFor(q) ==
    \A k \in Keys : k \in locks[q] \/ k \in inserted[q] =>
        rows'[k] = rows[k] /\ defined'[k] = defined[k]

LEMMA OthersOK ==
  ASSUME Inv, NEW q \in Requests, MemoryKept(q), RowsKeptFor(q), now' \in Nat, now <= now'
  PROVE  RequestOK(q)'
<1> USE DEF Inv, MemoryKept
<1>0. RequestOK(q)
  OBVIOUS
<1>1. IdleOK(q)' /\ AimOK(q)' /\ SyncOK(q)' /\ PatchOK(q)' /\ DeleteOK(q)'
  BY <1>0 DEF RequestOK, IdleOK, AimOK, SyncOK, PatchOK, DeleteOK, Doing
<1>2. GrantOK(q)'
  BY <1>0 DEF RequestOK, GrantOK, Doing, RowsKeptFor, TypeOK
<1>3. RevokeOK(q)'
  <2> SUFFICES ASSUME Doing(q, "revoke") PROVE RevokeOK(q)'
    BY DEF RevokeOK, Doing
  <2>1. RevokeOK(q)
    BY <1>0 DEF RequestOK
  <2>2. call[q].key \in locks[q] /\ call[q].key \in Keys
    BY <2>1 DEF RevokeOK, TypeOK
  <2>3. rows'[call[q].key] = rows[call[q].key]
    BY <2>2 DEF RowsKeptFor
  <2> QED
    BY <2>1, <2>3 DEF RevokeOK, Doing
<1>4. DecideOK(q)'
  <2>1. now \in Nat /\ stamp[q] \in Nat
    BY DEF TypeOK
  <2> QED
    BY <1>0, <2>1 DEF RequestOK, DecideOK, Doing, Evaluated
<1>5. HeldOK(q)'
  BY <1>0 DEF RequestOK, HeldOK, RowsKeptFor, TypeOK
<1> QED
  BY <1>1, <1>2, <1>3, <1>4, <1>5 DEF RequestOK

\* The step of a transaction leaves it with something that comes first, if
\* anything is left.
LEMMA ContinueAims ==
  ASSUME TypeOK, NEW r \in Requests, NEW p \in SUBSET Item, Continue(r, p)
  PROVE  /\ plan' \in [Requests -> SUBSET Item]
         /\ aim' \in [Requests -> Item \cup {Nil}]
         /\ plan'[r] = p
         /\ AimOK(r)'
         /\ \A q \in Requests \ {r} : plan'[q] = plan[q] /\ aim'[q] = aim[q]
<1>1. plan' = [plan EXCEPT ![r] = p] /\ plan'[r] = p
  BY DEF Continue, TypeOK
<1>2. CASE p = {}
  <2>1. ~\E x \in p : TRUE
    BY <1>2
  <2>2. aim' = [aim EXCEPT ![r] = Nil]
    BY <1>2, <2>1 DEF Continue
  <2> QED
    BY <1>1, <1>2, <2>2 DEF TypeOK, AimOK
<1>3. CASE p # {}
  <2>1. PICK x \in p : /\ \A y \in p : ~Precedes(y, x)
                       /\ aim' = [aim EXCEPT ![r] = x]
    BY <1>3 DEF Continue
  <2>2. aim'[r] = x
    BY <2>1 DEF TypeOK
  <2> QED
    BY <1>1, <1>3, <2>1, <2>2 DEF TypeOK, AimOK
<1> QED
  BY <1>2, <1>3

\* A request's operation tells which kind of request it is.
LEMMA KindOfCall ==
  ASSUME NEW c \in Call
  PROVE  /\ c.op = "sync"   => c \in SyncCall
         /\ c.op = "grant"  => c \in GrantCall
         /\ c.op = "revoke" => c \in RevokeCall
         /\ c.op = "patch"  => c \in PatchCall
         /\ c.op = "delete" => c \in DeleteCall
         /\ c.op = "decide" => c \in DecideCall
BY DEF Call, SyncCall, GrantCall, RevokeCall, PatchCall, DeleteCall, DecideCall

(***************************************************************************)
(* The three ways in which a step ends: the request has begun, has been    *)
(* answered, or was answered at once.  What the table may become is left   *)
(* to the actions.                                                         *)
(***************************************************************************)
TableOK ==
    /\ rows' \in [Keys -> Row \cup {Nil}]
    /\ defined' \in [Keys -> 0..MaxRows]
    /\ now' = now

LEMMA BeginInv ==
  ASSUME Inv, NEW r \in Requests, call[r] = Nil, NEW c \in Call, c.op # "delete",
         NEW found \in [Keys -> Row \cup {Nil}], NEW p \in SUBSET Item, NEW t \in Nat,
         Begin(r, c, found, p, t), UNCHANGED <<now, rows, defined>>,
         (SyncOK(r) /\ GrantOK(r) /\ RevokeOK(r) /\ PatchOK(r) /\ DecideOK(r))'
  PROVE  Inv'
<1> USE ConstantsAssumption DEF Inv, Begin
<1>1. /\ plan' \in [Requests -> SUBSET Item]
      /\ aim' \in [Requests -> Item \cup {Nil}]
      /\ AimOK(r)'
      /\ \A q \in Requests \ {r} : plan'[q] = plan[q] /\ aim'[q] = aim[q]
  BY ContinueAims
<1>2. TypeOK'
  BY <1>1 DEF TypeOK, NoReply, Reply
<1>3. Exclusive' /\ now' <= MaxTime
  BY DEF Exclusive
<1>4. RequestOK(r)'
  <2>1. call'[r] = c /\ c # Nil
    BY DEF TypeOK, ConstantsAssumption
  <2>2. IdleOK(r)' /\ DeleteOK(r)'
    BY <2>1 DEF IdleOK, DeleteOK, Doing
  <2>3. HeldOK(r)'
    BY DEF RequestOK, HeldOK
  <2> QED
    BY <1>1, <2>2, <2>3 DEF RequestOK
<1>5. ASSUME NEW q \in Requests \ {r} PROVE RequestOK(q)'
  <2>1. MemoryKept(q)
    BY <1>1 DEF MemoryKept, TypeOK
  <2>2. RowsKeptFor(q) /\ now' \in Nat /\ now <= now'
    BY DEF RowsKeptFor, TypeOK
  <2> QED
    BY <2>1, <2>2, OthersOK
<1> QED
  BY <1>2, <1>3, <1>4, <1>5

LEMMA AnswerInv ==
  ASSUME Inv, NEW r \in Requests, NEW a \in Answers, NEW f \in SUBSET Flags,
         Answer(r, a, f), TableOK, \A q \in Requests \ {r} : RowsKeptFor(q)
  PROVE  Inv'
<1> USE DEF Inv, Answer, TableOK
<1>1. TypeOK'
  BY DEF TypeOK, NoReply, Reply
<1>2. Exclusive' /\ now' <= MaxTime
  BY DEF Exclusive, TypeOK
<1>3. RequestOK(r)'
  BY DEF RequestOK, IdleOK, AimOK, SyncOK, GrantOK, RevokeOK, PatchOK, DecideOK,
         DeleteOK, HeldOK, Doing, TypeOK
<1>4. ASSUME NEW q \in Requests \ {r} PROVE RequestOK(q)'
  <2>1. MemoryKept(q)
    BY DEF MemoryKept, TypeOK
  <2>2. now' \in Nat /\ now <= now'
    BY DEF TypeOK
  <2> QED
    BY <2>1, <2>2, OthersOK
<1> QED
  BY <1>1, <1>2, <1>3, <1>4

LEMMA AnswerAtOnceInv ==
  ASSUME Inv, NEW r \in Requests, NEW a \in Answers, AnswerAtOnce(r, a),
         TableOK, \A q \in Requests : RowsKeptFor(q)
  PROVE  Inv'
<1> USE DEF Inv, AnswerAtOnce, TableOK, memory
<1>1. TypeOK'
  BY DEF TypeOK, NoReply, Reply
<1>2. Exclusive' /\ now' <= MaxTime
  BY DEF Exclusive
<1>3. ASSUME NEW q \in Requests PROVE RequestOK(q)'
  <2>1. MemoryKept(q)
    BY DEF MemoryKept
  <2>2. now' \in Nat /\ now <= now'
    BY DEF TypeOK
  <2> QED
    BY <1>3, <2>1, <2>2, OthersOK
<1> QED
  BY <1>1, <1>2, <1>3

\* A step inside a transaction: it may lock rows that nobody has locked,
\* insert fields that nobody else inserts, and read its rows again.
LEMMA ProgressInv ==
  ASSUME Inv, NEW r \in Requests, NEW p \in SUBSET Item, Continue(r, p),
         UNCHANGED <<now, rows, defined, call, stamp>>,
         copy' \in [Requests -> [Keys -> Row \cup {Nil}]],
         locks' \in [Requests -> SUBSET Keys],
         inserted' \in [Requests -> SUBSET Keys],
         verdicts' \in [Requests -> SUBSET Outcomes],
         reply' = NoReply,
         \A q \in Requests \ {r} :
            /\ copy'[q] = copy[q] /\ locks'[q] = locks[q]
            /\ inserted'[q] = inserted[q] /\ verdicts'[q] = verdicts[q]
            /\ locks'[r] \cap locks[q] = {}
            /\ inserted'[r] \cap inserted[q] = {},
         (SyncOK(r) /\ GrantOK(r) /\ RevokeOK(r) /\ PatchOK(r) /\ DecideOK(r))',
         HeldOK(r)', call[r] # Nil
  PROVE  Inv'
<1> USE ConstantsAssumption DEF Inv
<1>1. /\ plan' \in [Requests -> SUBSET Item]
      /\ aim' \in [Requests -> Item \cup {Nil}]
      /\ AimOK(r)'
      /\ \A q \in Requests \ {r} : plan'[q] = plan[q] /\ aim'[q] = aim[q]
  BY ContinueAims
<1>2. TypeOK'
  BY <1>1 DEF TypeOK, NoReply, Reply
<1>3. Exclusive' /\ now' <= MaxTime
  BY DEF Exclusive
<1>4. RequestOK(r)'
  BY <1>1 DEF RequestOK, IdleOK, DeleteOK, Doing
<1>5. ASSUME NEW q \in Requests \ {r} PROVE RequestOK(q)'
  <2>1. MemoryKept(q)
    BY <1>1 DEF MemoryKept
  <2>2. RowsKeptFor(q) /\ now' \in Nat /\ now <= now'
    BY DEF RowsKeptFor, TypeOK
  <2> QED
    BY <2>1, <2>2, OthersOK
<1> QED
  BY <1>2, <1>3, <1>4, <1>5

(***************************************************************************)
(* Each action preserves the invariant.  First the requests that arrive.   *)
(***************************************************************************)
LEMMA RowsOfType ==
  ASSUME TypeOK, NEW ks \in SUBSET Keys
  PROVE  /\ RowsOf(ks) \in [Keys -> Row \cup {Nil}]
         /\ \A k \in ks : RowsOf(ks)[k] = rows[k]
BY DEF TypeOK, RowsOf

LEMMA SyncMetadataInv ==
  ASSUME Inv, NEW r \in Requests, NEW c \in Call, SyncMetadata(r, c)
  PROVE  Inv'
<1> USE DEF SyncMetadata
<1>1. CASE AnswerAtOnce(r, "unknown_class")
  <2>1. TableOK /\ \A q \in Requests : RowsKeptFor(q)
    BY DEF TableOK, RowsKeptFor, Inv, TypeOK
  <2>2. "unknown_class" \in Answers
    BY DEF Answers
  <2> QED
    BY <1>1, <2>1, <2>2, AnswerAtOnceInv
<1>2. CASE /\ \A k \in Sent(c) : KnownClass(c.classes[k])
           /\ Begin(r, c, RowsOf(SchemaFields(c)), SyncPlan(c), 0)
  <2>1. SchemaFields(c) \in SUBSET Keys /\ Sent(c) \in SUBSET Keys
    BY DEF SchemaFields, Sent
  <2>2. SyncPlan(c) \in SUBSET Item
    BY <2>1 DEF SyncPlan, Item, Acts, Existing
  <2>3. RowsOf(SchemaFields(c)) \in [Keys -> Row \cup {Nil}]
    BY <2>1, RowsOfType DEF Inv
  <2>4. call'[r] = c /\ plan'[r] = SyncPlan(c)
    BY <1>2, <2>2, ContinueAims DEF Begin, Inv, TypeOK
  <2>5. inserted'[r] = {}
    BY <1>2 DEF Begin, Inv, RequestOK, IdleOK
  <2>6. SyncOK(r)'
    <3>1. \A x \in SyncPlan(c) : /\ x.act \in {"delete", "insert", "update"}
                                 /\ x.act = "insert" => x.on \in Sent(c)
      BY DEF SyncPlan
    <3> QED
      BY <1>2, <2>4, <2>5, <3>1 DEF SyncOK, Doing, KnownClass, Sent
  <2>7. (GrantOK(r) /\ RevokeOK(r) /\ PatchOK(r) /\ DecideOK(r))'
    BY <2>4 DEF GrantOK, RevokeOK, PatchOK, DecideOK, Doing
  <2> QED
    BY <1>2, <2>2, <2>3, <2>6, <2>7, BeginInv
<1> QED
  BY <1>1, <1>2

LEMMA UpdateAllowListInv ==
  ASSUME Inv, NEW r \in Requests, NEW c \in Call, UpdateAllowList(r, c)
  PROVE  Inv'
<1> USE DEF UpdateAllowList
<1>1. CASE \E a \in {"ok", "error"} : AnswerAtOnce(r, a)
  <2>1. TableOK /\ \A q \in Requests : RowsKeptFor(q)
    BY DEF TableOK, RowsKeptFor, Inv, TypeOK
  <2>2. {"ok", "error"} \subseteq Answers
    BY DEF Answers
  <2> QED
    BY <1>1, <2>1, <2>2, AnswerAtOnceInv
<1>2. ASSUME c.duration \in Durations, NEW t \in GrantTimes[c.duration],
             Begin(r, c, RowsOf(c.keys), [act: {"lock"}, on: Existing(c.keys)], now + t)
      PROVE  Inv'
  <2> DEFINE p == [act: {"lock"}, on: Existing(c.keys)]
  <2>1. c \in GrantCall
    BY KindOfCall
  <2>2. c.keys \in SUBSET Keys
    BY <2>1 DEF GrantCall
  <2>3. p \in SUBSET Item
    BY <2>2 DEF Item, Acts, Existing
  <2>4. RowsOf(c.keys) \in [Keys -> Row \cup {Nil}]
    BY <2>2, RowsOfType DEF Inv
  <2>5. now \in 0..MaxTime /\ t \in Nat
    BY <1>2, ConstantsAssumption DEF Inv, TypeOK, ConstantsAssumption
  <2>6. now + t \in Nat /\ now + t \in Expiries
    BY <1>2, <2>5 DEF Expiries
  <2>7. call'[r] = c /\ plan'[r] = p /\ copy'[r] = RowsOf(c.keys) /\ stamp'[r] = now + t
    BY <1>2, <2>3, ContinueAims DEF Begin, Inv, TypeOK
  <2>8. inserted'[r] = {} /\ locks'[r] = {}
    BY <1>2 DEF Begin, Inv, RequestOK, IdleOK
  <2>9. GrantOK(r)'
    <3>1. \A k \in c.keys : RowsOf(c.keys)[k] = Nil \/ \E x \in p : x.on = k
      <4> SUFFICES ASSUME NEW k \in c.keys, rows[k] # Nil
                   PROVE  [act |-> "lock", on |-> k] \in p
        BY <2>2, RowsOfType DEF Inv
      <4> QED
        BY DEF Existing
    <3>2. \A x \in p : x.act = "lock" /\ x.on \in c.keys
      BY DEF Existing
    <3> HIDE DEF p
    <3> QED
      BY <2>6, <2>7, <2>8, <3>1, <3>2 DEF GrantOK, Doing, Expiries
  <2>10. (SyncOK(r) /\ RevokeOK(r) /\ PatchOK(r) /\ DecideOK(r))'
    BY <2>7 DEF SyncOK, RevokeOK, PatchOK, DecideOK, Doing
  <2> HIDE DEF p
  <2> QED
    BY <1>2, <2>3, <2>4, <2>6, <2>9, <2>10, BeginInv DEF p
<1> QED
  BY <1>1, <1>2

LEMMA RevokeAllowListEntryInv ==
  ASSUME Inv, NEW r \in Requests, NEW c \in Call, RevokeAllowListEntry(r, c)
  PROVE  Inv'
<1> USE DEF RevokeAllowListEntry
<1>1. CASE AnswerAtOnce(r, "not_found")
  <2>1. TableOK /\ \A q \in Requests : RowsKeptFor(q)
    BY DEF TableOK, RowsKeptFor, Inv, TypeOK
  <2>2. "not_found" \in Answers
    BY DEF Answers
  <2> QED
    BY <1>1, <2>1, <2>2, AnswerAtOnceInv
<1>2. CASE ~AnswerAtOnce(r, "not_found")
  <2>0. /\ Found(c) /\ ~Locked(r, c.key) /\ rows[c.key].allow[c.app] # Nil
        /\ call' = [call EXCEPT ![r] = c]
        /\ copy' = [copy EXCEPT ![r] = RowsOf({c.key})]
        /\ locks' = [locks EXCEPT ![r] = {c.key}]
        /\ reply' = NoReply
        /\ UNCHANGED <<plan, aim, inserted, stamp, verdicts, now, rows, defined>>
    BY <1>2
  <2>1. c \in RevokeCall /\ c.key \in Keys
    BY KindOfCall DEF RevokeCall
  <2>2. RowsOf({c.key}) \in [Keys -> Row \cup {Nil}] /\ RowsOf({c.key})[c.key] = rows[c.key]
    BY <2>1 DEF RowsOf, Inv, TypeOK
  <2>3. TypeOK'
    BY <2>0, <2>1, <2>2 DEF Inv, TypeOK, NoReply, Reply
  <2>4. \A q \in Requests \ {r} : MemoryKept(q) /\ RowsKeptFor(q)
    BY <2>0 DEF MemoryKept, RowsKeptFor, Inv, TypeOK
  <2>5. Exclusive' /\ now' <= MaxTime
    BY <2>0 DEF Exclusive, Inv, TypeOK, Locked
  <2>6. RequestOK(r)'
    <3>1. /\ call'[r] = c /\ copy'[r] = RowsOf({c.key}) /\ locks'[r] = {c.key}
          /\ plan'[r] = {} /\ inserted'[r] = {} /\ aim'[r] = Nil
      BY <2>0 DEF Inv, TypeOK, RequestOK, IdleOK, AimOK
    <3>2. c # Nil
      BY ConstantsAssumption DEF ConstantsAssumption
    <3>3. (IdleOK(r) /\ AimOK(r) /\ SyncOK(r) /\ GrantOK(r) /\ PatchOK(r)
             /\ DecideOK(r) /\ DeleteOK(r))'
      BY <3>1, <3>2 DEF IdleOK, AimOK, SyncOK, GrantOK, PatchOK, DecideOK, DeleteOK, Doing
    <3>4. RevokeOK(r)' /\ HeldOK(r)'
      BY <2>0, <2>2, <3>1 DEF RevokeOK, HeldOK, Doing, Found
    <3> QED
      BY <3>3, <3>4 DEF RequestOK
  <2>7. \A q \in Requests \ {r} : RequestOK(q)'
    BY <2>0, <2>4, OthersOK DEF Inv, TypeOK
  <2> QED
    BY <2>3, <2>5, <2>6, <2>7 DEF Inv
<1> QED
  BY <1>1, <1>2

LEMMA PatchPolicyMetadataInv ==
  ASSUME Inv, NEW r \in Requests, NEW c \in Call, PatchPolicyMetadata(r, c)
  PROVE  Inv'
<1> USE DEF PatchPolicyMetadata
<1>1. CASE \E a \in {"not_found", "unknown_class"} : AnswerAtOnce(r, a)
  <2>1. TableOK /\ \A q \in Requests : RowsKeptFor(q)
    BY DEF TableOK, RowsKeptFor, Inv, TypeOK
  <2>2. {"not_found", "unknown_class"} \subseteq Answers
    BY DEF Answers
  <2> QED
    BY <1>1, <2>1, <2>2, AnswerAtOnceInv
<1>2. CASE KnownClass(c.class) /\ Begin(r, c, RowsOf({c.key}), {}, 0)
  <2>1. c \in PatchCall /\ {c.key} \in SUBSET Keys
    BY KindOfCall DEF PatchCall
  <2>2. RowsOf({c.key}) \in [Keys -> Row \cup {Nil}]
    BY <2>1, RowsOfType DEF Inv
  <2>3. call'[r] = c /\ plan'[r] = {}
    BY <1>2, ContinueAims DEF Begin, Inv, TypeOK
  <2>4. inserted'[r] = {} /\ locks'[r] = {}
    BY <1>2 DEF Begin, Inv, RequestOK, IdleOK
  <2>5. (SyncOK(r) /\ GrantOK(r) /\ RevokeOK(r) /\ PatchOK(r) /\ DecideOK(r))'
    BY <1>2, <2>3, <2>4 DEF SyncOK, GrantOK, RevokeOK, PatchOK, DecideOK, Doing, KnownClass
  <2> QED
    BY <1>2, <2>2, <2>5, BeginInv
<1> QED
  BY <1>1, <1>2

LEMMA DeletePolicyMetadataInv ==
  ASSUME Inv, NEW r \in Requests, NEW c \in Call, DeletePolicyMetadata(r, c)
  PROVE  Inv'
<1> USE DEF DeletePolicyMetadata
<1>0. {"not_found", "ok"} \subseteq Answers
  BY DEF Answers
<1>1. CASE AnswerAtOnce(r, "not_found") /\ UNCHANGED rows
  <2>1. TableOK /\ \A q \in Requests : RowsKeptFor(q)
    BY <1>1 DEF TableOK, RowsKeptFor, Inv, TypeOK
  <2> QED
    BY <1>0, <1>1, <2>1, AnswerAtOnceInv
<1>2. CASE /\ Found(c) /\ ~Locked(r, c.key)
           /\ rows' = [rows EXCEPT ![c.key] = Nil]
           /\ AnswerAtOnce(r, "ok")
  <2>1. c.key \in Keys
    BY KindOfCall DEF DeleteCall
  <2>2. TableOK
    BY <1>2, <2>1 DEF TableOK, Inv, TypeOK
  <2>3. \A q \in Requests : c.key \notin locks[q] /\ c.key \notin inserted[q]
    BY <1>2 DEF Locked, Found, Inv, RequestOK, IdleOK, HeldOK
  <2>4. \A q \in Requests : RowsKeptFor(q)
    BY <1>2, <2>1, <2>3 DEF RowsKeptFor, Inv, TypeOK
  <2> QED
    BY <1>0, <1>2, <2>2, <2>4, AnswerAtOnceInv
<1> QED
  BY <1>1, <1>2

LEMMA GetPolicyDecisionInv ==
  ASSUME Inv, NEW r \in Requests, NEW c \in Call, GetPolicyDecision(r, c)
  PROVE  Inv'
<1> USE DEF GetPolicyDecision
<1> DEFINE p == [act: {"decide"}, on: c.keys]
<1>1. c \in DecideCall /\ c.keys \in SUBSET Keys
  BY KindOfCall DEF DecideCall
<1>2. p \in SUBSET Item /\ now \in Nat
  BY <1>1 DEF Item, Acts, Inv, TypeOK
<1>3. RowsOf(c.keys) \in [Keys -> Row \cup {Nil}]
  BY <1>1, RowsOfType DEF Inv
<1>4. call'[r] = c /\ plan'[r] = p /\ stamp'[r] = now
  BY <1>2, ContinueAims DEF Begin, Inv, TypeOK
<1>5. inserted'[r] = {} /\ locks'[r] = {}
  BY DEF Begin, Inv, RequestOK, IdleOK
<1>6. DecideOK(r)'
  <2>1. \A k \in c.keys : \E x \in p : x.on = k
    <3> SUFFICES ASSUME NEW k \in c.keys PROVE [act |-> "decide", on |-> k] \in p
      OBVIOUS
    <3> QED
      OBVIOUS
  <2>2. \A x \in p : x.act = "decide" /\ x.on \in c.keys
    OBVIOUS
  <2> HIDE DEF p
  <2> QED
    BY <1>2, <1>4, <1>5, <2>1, <2>2 DEF DecideOK, Doing
<1>7. (SyncOK(r) /\ GrantOK(r) /\ RevokeOK(r) /\ PatchOK(r))'
  BY <1>4 DEF SyncOK, GrantOK, RevokeOK, PatchOK, Doing
<1> QED
  BY <1>2, <1>3, <1>6, <1>7, BeginInv

(***************************************************************************)
(* Then the steps of a transaction.                                        *)
(***************************************************************************)

\* What a request turns to tells what it is doing.
LEMMA DoingByAim ==
  ASSUME Inv, NEW r \in Requests, aim[r] # Nil
  PROVE  /\ call[r] # Nil /\ call[r] \in Call
         /\ aim[r] \in plan[r] /\ aim[r] \in Item /\ aim[r].on \in Keys
         /\ plan[r] \ {aim[r]} \in SUBSET Item
         /\ aim[r].act \in {"delete", "insert", "update"} => call[r].op = "sync"
         /\ aim[r].act = "lock" => call[r].op = "grant"
         /\ aim[r].act = "decide" => call[r].op = "decide"
<1> USE DEF Inv
<1>1. RequestOK(r)
  OBVIOUS
<1>2. aim[r] \in plan[r]
  BY <1>1 DEF RequestOK, AimOK
<1>3. call[r] # Nil /\ call[r] \in Call
  BY <1>1, <1>2 DEF RequestOK, IdleOK, TypeOK
<1>4. aim[r] \in Item /\ plan[r] \ {aim[r]} \in SUBSET Item
  BY <1>2 DEF TypeOK
<1>5. aim[r].on \in Keys /\ aim[r].act \in Acts
  BY <1>4 DEF Item
<1>6. call[r].op \in {"sync", "grant", "revoke", "patch", "delete", "decide"}
  BY <1>3 DEF Call, SyncCall, GrantCall, RevokeCall, PatchCall, DeleteCall, DecideCall
<1>7. call[r].op # "delete" /\ call[r].op # "revoke" /\ call[r].op # "patch"
  BY <1>1, <1>2, <1>3 DEF RequestOK, DeleteOK, RevokeOK, PatchOK, Doing
<1>8. call[r].op = "sync" => aim[r].act \in {"delete", "insert", "update"}
  BY <1>1, <1>2, <1>3 DEF RequestOK, SyncOK, Doing
<1>9. call[r].op = "grant" => aim[r].act = "lock"
  BY <1>1, <1>2, <1>3 DEF RequestOK, GrantOK, Doing
<1>10. call[r].op = "decide" => aim[r].act = "decide"
  BY <1>1, <1>2, <1>3 DEF RequestOK, DecideOK, Doing
<1> QED
  BY <1>2, <1>3, <1>4, <1>5, <1>6, <1>7, <1>8, <1>9, <1>10

\* A row that a statement does not wait for is locked by nobody else.
LEMMA FreeRow ==
  ASSUME Inv, NEW r \in Requests, aim[r] # Nil, ~Waits(r),
         aim[r].act \in {"delete", "update", "lock"}, SameRow(r, aim[r].on)
  PROVE  \A q \in Requests \ {r} : aim[r].on \notin locks[q]
BY DEF Waits, WaitsFor

LEMMA TouchRowInv ==
  ASSUME Inv, NEW r \in Requests, TouchRow(r)
  PROVE  Inv'
<1> USE DEF TouchRow
<1> DEFINE k == aim[r].on
           p == plan[r] \ {aim[r]}
<1>1. /\ call[r] # Nil /\ call[r].op = "sync" /\ k \in Keys
      /\ p \in SUBSET Item /\ p \subseteq plan[r]
  BY DoingByAim
<1>2. /\ locks' \in [Requests -> SUBSET Keys]
      /\ \A q \in Requests \ {r} : locks'[q] = locks[q]
      /\ \A j \in locks'[r] : j \in locks[r] \/ (j = k /\ SameRow(r, k))
  <2>1. locks \in [Requests -> SUBSET Keys] /\ k \in Keys
    BY <1>1 DEF Inv, TypeOK
  <2>2. \/ SameRow(r, k) /\ locks' = [locks EXCEPT ![r] = @ \cup {k}]
        \/ locks' = locks
    OBVIOUS
  <2> HIDE DEF k
  <2>3. CASE SameRow(r, k) /\ locks' = [locks EXCEPT ![r] = @ \cup {k}]
    BY <2>1, <2>3
  <2>4. CASE locks' = locks
    BY <2>1, <2>4
  <2> QED
    BY <2>2, <2>3, <2>4
<1>3. \A q \in Requests \ {r} : locks'[r] \cap locks'[q] = {}
  BY <1>2, FreeRow DEF Inv, Exclusive
<1>4. plan'[r] = p
  BY <1>1, ContinueAims DEF Inv
<1>5. SyncOK(r)'
  BY <1>1, <1>4 DEF SyncOK, Doing, Inv, RequestOK
<1>6. (GrantOK(r) /\ RevokeOK(r) /\ PatchOK(r) /\ DecideOK(r))'
  BY <1>1 DEF GrantOK, RevokeOK, PatchOK, DecideOK, Doing
<1>7. HeldOK(r)'
  BY <1>2 DEF HeldOK, Inv, RequestOK, SameRow
<1>8. /\ Continue(r, p)
      /\ UNCHANGED <<now, rows, defined, call, stamp>>
      /\ copy' \in [Requests -> [Keys -> Row \cup {Nil}]]
      /\ inserted' \in [Requests -> SUBSET Keys]
      /\ verdicts' \in [Requests -> SUBSET Outcomes]
      /\ reply' = NoReply
  BY <1>1 DEF Inv, TypeOK
<1>9. \A q \in Requests \ {r} :
         /\ copy'[q] = copy[q] /\ locks'[q] = locks[q]
         /\ inserted'[q] = inserted[q] /\ verdicts'[q] = verdicts[q]
         /\ locks'[r] \cap locks[q] = {}
         /\ inserted'[r] \cap inserted[q] = {}
  BY <1>2, <1>3 DEF Inv, Exclusive
<1> HIDE DEF p
<1> QED
  BY <1>1, <1>2, <1>5, <1>6, <1>7, <1>8, <1>9, ProgressInv

LEMMA InsertRowInv ==
  ASSUME Inv, NEW r \in Requests, InsertRow(r)
  PROVE  Inv'
<1> USE DEF InsertRow
<1> DEFINE k == aim[r].on
           p == plan[r] \ {aim[r]}
<1>1. /\ call[r] # Nil /\ call[r].op = "sync" /\ k \in Keys
      /\ p \in SUBSET Item /\ p \subseteq plan[r] /\ aim[r] \in plan[r]
  BY DoingByAim
<1>2. CASE Answer(r, "error", {})
  <2>1. TableOK /\ \A q \in Requests : RowsKeptFor(q)
    BY DEF TableOK, RowsKeptFor, Inv, TypeOK
  <2>2. "error" \in Answers /\ {} \in SUBSET Flags
    BY DEF Answers
  <2> QED
    BY <1>2, <2>1, <2>2, AnswerInv
<1>3. CASE ~Answer(r, "error", {})
  <2>0. /\ rows[k] = Nil /\ defined[k] < MaxRows
        /\ inserted' = [inserted EXCEPT ![r] = @ \cup {k}]
        /\ Continue(r, p)
        /\ reply' = NoReply
        /\ UNCHANGED <<call, copy, locks, stamp, verdicts, now, rows, defined>>
    BY <1>3
  <2>1. /\ inserted' \in [Requests -> SUBSET Keys]
        /\ \A q \in Requests \ {r} : inserted'[q] = inserted[q]
        /\ inserted'[r] = inserted[r] \cup {k}
    BY <1>1, <2>0 DEF Inv, TypeOK
  <2>2. \A q \in Requests \ {r} : k \notin inserted[q]
    BY DEF Waits, WaitsFor, Undecided
  <2>3. \A q \in Requests \ {r} : inserted'[r] \cap inserted[q] = {}
    BY <2>1, <2>2 DEF Inv, Exclusive
  <2>4. plan'[r] = p
    BY <1>1, <2>0, ContinueAims DEF Inv
  <2>5. SyncOK(r)'
    BY <1>1, <2>0, <2>1, <2>4 DEF SyncOK, Doing, Inv, RequestOK
  <2>6. (GrantOK(r) /\ RevokeOK(r) /\ PatchOK(r) /\ DecideOK(r))'
    BY <1>1, <2>0 DEF GrantOK, RevokeOK, PatchOK, DecideOK, Doing
  <2>7. HeldOK(r)'
    BY <2>0, <2>1 DEF HeldOK, Inv, RequestOK
  <2> HIDE DEF p
  <2> QED
    BY <1>1, <2>0, <2>1, <2>3, <2>5, <2>6, <2>7, ProgressInv DEF Inv, TypeOK, Exclusive
<1> QED
  BY <1>2, <1>3

\* The rows that a transaction holds are held by nobody else.
LEMMA HeldAlone ==
  ASSUME Inv, NEW r \in Requests, NEW q \in Requests \ {r}, NEW k \in Keys,
         k \in locks[r] \/ k \in inserted[r]
  PROVE  k \notin locks[q] /\ k \notin inserted[q]
<1>1. RequestOK(r) /\ RequestOK(q)
  BY DEF Inv
<1> QED
  BY <1>1 DEF Inv, RequestOK, HeldOK, Exclusive

LEMMA CommitSyncInv ==
  ASSUME Inv, NEW r \in Requests, CommitSync(r)
  PROVE  Inv'
<1> USE DEF CommitSync
<1>1. call[r] \in SyncCall /\ RequestOK(r)
  BY KindOfCall DEF Inv, TypeOK
<1>2. \A k \in Sent(call[r]) : call[r].classes[k] \in Classes
  BY <1>1 DEF RequestOK, SyncOK, Doing
<1>3. \A k \in Keys : /\ k \in inserted[r] => defined[k] + 1 \in Ids /\ k \in Sent(call[r])
                      /\ k \in locks[r] => rows[k] \in Row
  <2> TAKE k \in Keys
  <2>1. defined[k] \in 0..MaxRows /\ MaxRows \in Nat /\ rows[k] \in Row \cup {Nil}
    BY ConstantsAssumption DEF Inv, TypeOK, ConstantsAssumption
  <2>2. k \in inserted[r] => defined[k] < MaxRows /\ k \in Sent(call[r])
    BY <1>1 DEF RequestOK, HeldOK, SyncOK, Doing
  <2> QED
    BY <1>1, <2>1, <2>2 DEF RequestOK, HeldOK, Ids
<1>4. rows' \in [Keys -> Row \cup {Nil}]
  <2> SUFFICES ASSUME NEW k \in Keys PROVE rows'[k] \in Row \cup {Nil}
    OBVIOUS
  <2>1. NoEntries \in AllowList
    BY DEF NoEntries, AllowList
  <2>2. CASE k \in inserted[r]
    BY <1>2, <1>3, <2>1, <2>2 DEF NewRow, Row
  <2>3. CASE k \notin inserted[r] /\ k \in locks[r]
    BY <1>2, <1>3, <2>3 DEF UpdatedRow, Row
  <2>4. CASE k \notin inserted[r] /\ k \notin locks[r]
    BY <2>4 DEF Inv, TypeOK
  <2> QED
    BY <2>2, <2>3, <2>4
<1>5. TableOK
  BY <1>3, <1>4 DEF TableOK, Inv, TypeOK, Ids
<1>6. \A q \in Requests \ {r} : RowsKeptFor(q)
  BY HeldAlone DEF RowsKeptFor
<1>7. "ok" \in Answers /\ {} \in SUBSET Flags
  BY DEF Answers
<1> QED
  BY <1>5, <1>6, <1>7, AnswerInv

LEMMA LockForGrantInv ==
  ASSUME Inv, NEW r \in Requests, LockForGrant(r)
  PROVE  Inv'
<1> USE DEF LockForGrant
<1> DEFINE k == aim[r].on
           p == plan[r] \ {aim[r]}
<1>1. /\ call[r] # Nil /\ call[r].op = "grant" /\ k \in Keys
      /\ p \in SUBSET Item /\ aim[r] \in plan[r] /\ RequestOK(r)
  BY DoingByAim DEF Inv
<1>2. /\ locks' \in [Requests -> SUBSET Keys]
      /\ copy' \in [Requests -> [Keys -> Row \cup {Nil}]]
      /\ \A q \in Requests \ {r} : locks'[q] = locks[q] /\ copy'[q] = copy[q]
      /\ \A j \in Keys : j # k => copy'[r][j] = copy[r][j]
      /\ \/ SameRow(r, k) /\ locks'[r] = locks[r] \cup {k} /\ copy'[r][k] = rows[k]
         \/ locks'[r] = locks[r] /\ copy'[r][k] = Nil
  <2>1. /\ \/ /\ SameRow(r, k)
              /\ locks' = [locks EXCEPT ![r] = @ \cup {k}]
              /\ copy' = [copy EXCEPT ![r][k] = rows[k]]
           \/ /\ locks' = locks
              /\ copy' = [copy EXCEPT ![r][k] = Nil]
    OBVIOUS
  <2>2. /\ rows[k] \in Row \cup {Nil} /\ k \in Keys
        /\ copy \in [Requests -> [Keys -> Row \cup {Nil}]]
        /\ locks \in [Requests -> SUBSET Keys]
    BY <1>1 DEF Inv, TypeOK
  <2> HIDE DEF k
  <2>3. CASE /\ SameRow(r, k)
             /\ locks' = [locks EXCEPT ![r] = @ \cup {k}]
             /\ copy' = [copy EXCEPT ![r][k] = rows[k]]
    BY <2>2, <2>3
  <2>4. CASE locks' = locks /\ copy' = [copy EXCEPT ![r][k] = Nil]
    BY <2>2, <2>4
  <2> QED
    BY <2>1, <2>3, <2>4
<1>3. \A q \in Requests \ {r} : locks'[r] \cap locks[q] = {}
  BY <1>2, FreeRow DEF Inv, Exclusive
<1>4. plan'[r] = p
  BY <1>1, ContinueAims DEF Inv
<1>5. GrantOK(r)'
  <2>1. GrantOK(r) /\ Doing(r, "grant")
    BY <1>1 DEF RequestOK, Doing
  <2>2. \A x \in p : k < x.on
    <3> SUFFICES ASSUME NEW x \in p PROVE k < x.on
      OBVIOUS
    <3>1. x.act = "lock" /\ aim[r].act = "lock" /\ x # aim[r] /\ x \in Item /\ aim[r] \in Item
      BY <1>1, <2>1 DEF GrantOK, Inv, TypeOK
    <3>2. x.on # k
      BY <3>1 DEF Item
    <3>3. ~(x.on < k)
      BY <1>1, <3>1 DEF RequestOK, AimOK, Precedes
    <3>4. x.on \in Nat /\ k \in Nat
      BY <1>1, <3>1 DEF Item, Keys
    <3> QED
      BY <3>2, <3>3, <3>4
  <2>3. k \notin locks[r]
    <3> SUFFICES ASSUME k \in locks[r] PROVE FALSE
      OBVIOUS
    <3>1. k < k /\ k \in Nat
      BY <1>1, <2>1 DEF GrantOK, Keys
    <3> QED
      BY <3>1
  <2>4. \A j \in locks'[r] : \A x \in p : j < x.on
    BY <1>2, <2>1, <2>2 DEF GrantOK
  <2>5. \A j \in locks'[r] : copy'[r][j] = rows[j]
    BY <1>1, <1>2, <2>1, <2>3 DEF GrantOK, Inv, TypeOK
  <2>6. \A j \in call[r].keys :
           copy'[r][j] = Nil \/ j \in locks'[r] \/ \E x \in p : x.on = j
    <3> SUFFICES ASSUME NEW j \in call[r].keys, j # k,
                        copy'[r][j] # Nil, j \notin locks'[r]
                 PROVE  \E x \in p : x.on = j
      BY <1>2
    <3>1. j \in Keys
      BY <1>1, KindOfCall DEF GrantCall, Inv, TypeOK
    <3>2. copy[r][j] # Nil /\ j \notin locks[r]
      BY <1>2, <3>1
    <3>3. PICK x \in plan[r] : x.on = j
      BY <2>1, <3>2 DEF GrantOK
    <3> QED
      BY <3>3
  <2> HIDE DEF p
  <2> QED
    BY <1>4, <2>1, <2>4, <2>5, <2>6 DEF GrantOK, Doing, Expiries, p
<1>6. (SyncOK(r) /\ RevokeOK(r) /\ PatchOK(r) /\ DecideOK(r))'
  BY <1>1 DEF SyncOK, RevokeOK, PatchOK, DecideOK, Doing
<1>7. HeldOK(r)'
  BY <1>1, <1>2 DEF HeldOK, RequestOK, SameRow
<1>8. /\ Continue(r, p)
      /\ UNCHANGED <<now, rows, defined, call, stamp>>
      /\ copy' \in [Requests -> [Keys -> Row \cup {Nil}]]
      /\ inserted' \in [Requests -> SUBSET Keys]
      /\ verdicts' \in [Requests -> SUBSET Outcomes]
      /\ reply' = NoReply
  BY <1>1, <1>2 DEF Inv, TypeOK
<1>9. \A q \in Requests \ {r} :
         /\ copy'[q] = copy[q] /\ locks'[q] = locks[q]
         /\ inserted'[q] = inserted[q] /\ verdicts'[q] = verdicts[q]
         /\ locks'[r] \cap locks[q] = {}
         /\ inserted'[r] \cap inserted[q] = {}
  BY <1>2, <1>3 DEF Inv, Exclusive
<1> HIDE DEF p
<1> QED
  BY <1>1, <1>2, <1>5, <1>6, <1>7, <1>8, <1>9, ProgressInv

\* A grant that finds all its rows holds them all, as it has read them.
LEMMA GrantHoldsItsRows ==
  ASSUME Inv, NEW r \in Requests, call[r] # Nil, call[r].op = "grant",
         plan[r] = {}, MissingRows(r) = {}
  PROVE  /\ call[r] \in GrantCall /\ call[r].keys \in SUBSET Keys /\ call[r].app \in Apps
         /\ call[r].keys \subseteq locks[r]
         /\ \A k \in call[r].keys : rows[k] \in Row /\ copy[r][k] = rows[k]
<1>1. call[r] \in GrantCall /\ RequestOK(r)
  BY KindOfCall DEF Inv, TypeOK
<1>2. call[r].keys \in SUBSET Keys /\ call[r].app \in Apps
  BY <1>1 DEF GrantCall
<1>3. GrantOK(r) /\ Doing(r, "grant") /\ HeldOK(r)
  BY <1>1 DEF RequestOK, Doing
<1>4. \A k \in call[r].keys : k \in locks[r]
  BY <1>3 DEF GrantOK, MissingRows
<1>5. \A k \in call[r].keys : rows[k] \in Row
  BY <1>2, <1>3, <1>4 DEF HeldOK, Inv, TypeOK
<1> QED
  BY <1>1, <1>2, <1>3, <1>4, <1>5 DEF GrantOK

LEMMA GrantedListType ==
  ASSUME Inv, NEW r \in Requests, call[r] # Nil, call[r].op = "grant",
         plan[r] = {}, MissingRows(r) = {}, NEW k \in call[r].keys
  PROVE  /\ GrantedList(r, k) \in AllowList
         /\ GrantedList(r, k) = [rows[k].allow EXCEPT ![call[r].app] = stamp[r]]
         /\ [rows[k] EXCEPT !.allow = GrantedList(r, k)] \in Row
         /\ [rows[k] EXCEPT !.allow = GrantedList(r, k)].allow = GrantedList(r, k)
<1>1. rows[k] \in Row /\ copy[r][k] = rows[k] /\ call[r].app \in Apps
  BY GrantHoldsItsRows
<1>2. stamp[r] \in Nat /\ rows[k].allow \in AllowList
  BY <1>1 DEF Inv, TypeOK, Row
<1>3. GrantedList(r, k) = [rows[k].allow EXCEPT ![call[r].app] = stamp[r]]
  BY <1>1 DEF GrantedList
<1>4. GrantedList(r, k) \in AllowList
  BY <1>1, <1>2, <1>3 DEF AllowList
<1> QED
  BY <1>1, <1>3, <1>4 DEF Row

LEMMA CommitGrantInv ==
  ASSUME Inv, NEW r \in Requests, CommitGrant(r)
  PROVE  Inv'
<1> USE DEF CommitGrant
<1>0. {"ok", "error"} \subseteq Answers /\ {} \in SUBSET Flags
  BY DEF Answers
<1>1. CASE MissingRows(r) # {}
  <2>1. Answer(r, "error", {}) /\ UNCHANGED <<now, rows, defined>>
    BY <1>1
  <2>2. TableOK /\ \A q \in Requests : RowsKeptFor(q)
    BY <2>1 DEF TableOK, RowsKeptFor, Inv, TypeOK
  <2> QED
    BY <1>0, <2>1, <2>2, AnswerInv
<1>2. CASE MissingRows(r) = {}
  <2>1. /\ rows' = [k \in Keys |->
                       IF k \in call[r].keys
                       THEN [rows[k] EXCEPT !.allow = GrantedList(r, k)]
                       ELSE rows[k]]
        /\ Answer(r, "ok", {})
        /\ UNCHANGED <<now, defined>>
    BY <1>2
  <2>2. rows' \in [Keys -> Row \cup {Nil}]
    <3> SUFFICES ASSUME NEW k \in Keys PROVE rows'[k] \in Row \cup {Nil}
      BY <2>1
    <3>1. CASE k \in call[r].keys
      BY <1>2, <2>1, <3>1, GrantedListType
    <3>2. CASE k \notin call[r].keys
      BY <2>1, <3>2 DEF Inv, TypeOK
    <3> QED
      BY <3>1, <3>2
  <2>3. TableOK
    BY <2>1, <2>2 DEF TableOK, Inv, TypeOK
  <2>4. ASSUME NEW q \in Requests \ {r} PROVE RowsKeptFor(q)
    <3>1. call[r].keys \subseteq locks[r]
      BY <1>2, GrantHoldsItsRows
    <3> QED
      BY <2>1, <3>1, HeldAlone DEF RowsKeptFor
  <2> QED
    BY <1>0, <2>1, <2>3, <2>4, AnswerInv
<1> QED
  BY <1>1, <1>2

\* What CommitRevoke writes: the row as it is, without the entry.
LEMMA RevokedRow ==
  ASSUME Inv, NEW r \in Requests, CommitRevoke(r)
  PROVE  /\ call[r] \in RevokeCall /\ call[r].key \in Keys /\ call[r].app \in Apps
         /\ locks[r] = {call[r].key}
         /\ rows[call[r].key] \in Row /\ rows[call[r].key].id = call[r].id
         /\ rows[call[r].key].allow[call[r].app] # Nil
         /\ rows' \in [Keys -> Row \cup {Nil}]
         /\ \A k \in Keys : k # call[r].key => rows'[k] = rows[k]
         /\ rows'[call[r].key] # Nil
         /\ rows'[call[r].key].id = call[r].id
         /\ rows'[call[r].key].allow = [rows[call[r].key].allow EXCEPT ![call[r].app] = Nil]
<1>1. call[r] # Nil /\ call[r].op = "revoke" /\ call[r] \in Call
  BY DEF CommitRevoke, Inv, TypeOK
<1>2. call[r] \in RevokeCall /\ RequestOK(r)
  BY <1>1, KindOfCall DEF Inv
<1> DEFINE k == call[r].key
           app == call[r].app
           list == [rows[k].allow EXCEPT ![app] = Nil]
<1>3. k \in Keys /\ app \in Apps
  BY <1>2 DEF RevokeCall
<1>4. /\ locks[r] = {k} /\ copy[r][k] = rows[k]
      /\ rows[k].id = call[r].id /\ rows[k].allow[app] # Nil
  BY <1>1, <1>2 DEF RequestOK, RevokeOK, Doing
<1>5. rows[k] \in Row
  BY <1>2, <1>3, <1>4 DEF RequestOK, HeldOK, Inv, TypeOK
<1>6. list \in AllowList
  BY <1>3, <1>5 DEF Row, AllowList
<1>7. rows' = [rows EXCEPT ![k].allow = list]
  BY <1>4 DEF CommitRevoke
<1>8. rows \in [Keys -> Row \cup {Nil}] /\ Nil \notin Row
  BY ConstantsAssumption DEF Inv, TypeOK, ConstantsAssumption
<1> HIDE DEF list
<1> DEFINE new == [rows[k] EXCEPT !.allow = list]
<1>9. new \in Row /\ new.allow = list /\ new.id = rows[k].id
  BY <1>5, <1>6 DEF Row
<1>10. rows' = [rows EXCEPT ![k] = new]
  BY <1>7
<1> HIDE DEF new
<1>11. /\ rows' \in [Keys -> Row \cup {Nil}]
       /\ \A j \in Keys : j # k => rows'[j] = rows[j]
       /\ rows'[k] = new
  BY <1>3, <1>8, <1>9, <1>10
<1> QED
  BY <1>2, <1>3, <1>4, <1>5, <1>8, <1>9, <1>11 DEF list

LEMMA CommitRevokeInv ==
  ASSUME Inv, NEW r \in Requests, CommitRevoke(r)
  PROVE  Inv'
<1>1. TableOK
  BY RevokedRow DEF CommitRevoke, TableOK, Inv, TypeOK
<1>2. ASSUME NEW q \in Requests \ {r} PROVE RowsKeptFor(q)
  <2>1. call[r].key \in Keys /\ call[r].key \in locks[r]
    BY RevokedRow
  <2>2. call[r].key \notin locks[q] /\ call[r].key \notin inserted[q]
    BY <2>1, HeldAlone
  <2> QED
    BY <2>2, RevokedRow DEF RowsKeptFor, CommitRevoke
<1>3. "ok" \in Answers /\ {} \in SUBSET Flags
  BY DEF Answers
<1> QED
  BY <1>1, <1>2, <1>3, AnswerInv DEF CommitRevoke

LEMMA WritePatchInv ==
  ASSUME Inv, NEW r \in Requests, WritePatch(r)
  PROVE  Inv'
<1> USE DEF WritePatch
<1> DEFINE k == call[r].key
<1>0. "ok" \in Answers /\ {} \in SUBSET Flags
  BY DEF Answers
<1>1. CASE UNCHANGED rows
  <2>1. TableOK /\ \A q \in Requests : RowsKeptFor(q)
    BY <1>1 DEF TableOK, RowsKeptFor, Inv, TypeOK
  <2> QED
    BY <1>0, <2>1, AnswerInv
<1>2. CASE /\ Found(call[r]) /\ ~Locked(r, k)
           /\ rows' = [rows EXCEPT ![k].class = call[r].class]
  <2>1. call[r] \in PatchCall /\ RequestOK(r)
    BY KindOfCall DEF Inv, TypeOK
  <2>2. k \in Keys /\ call[r].class \in Classes
    BY <2>1 DEF PatchCall, RequestOK, PatchOK, Doing
  <2>3. rows[k] \in Row /\ rows \in [Keys -> Row \cup {Nil}]
    BY <1>2, <2>2 DEF Found, Inv, TypeOK
  <2>4. TableOK
    BY <1>2, <2>2, <2>3 DEF TableOK, Row, Inv, TypeOK
  <2>5. ASSUME NEW q \in Requests \ {r} PROVE RowsKeptFor(q)
    <3>1. k \notin locks[q]
      BY <1>2 DEF Locked
    <3>2. k \notin inserted[q]
      BY <1>2 DEF Found, Inv, RequestOK, HeldOK
    <3> QED
      BY <1>2, <2>3, <3>1, <3>2 DEF RowsKeptFor
  <2> QED
    BY <1>0, <2>4, <2>5, AnswerInv
<1> QED
  BY <1>1, <1>2

LEMMA DecideFieldInv ==
  ASSUME Inv, NEW r \in Requests, DecideField(r)
  PROVE  Inv'
<1> USE DEF DecideField
<1> DEFINE k == aim[r].on
           p == plan[r] \ {aim[r]}
<1>1. /\ call[r] # Nil /\ call[r] \in DecideCall /\ call[r].op = "decide" /\ k \in Keys
      /\ p \in SUBSET Item /\ aim[r] \in plan[r] /\ RequestOK(r)
  BY DoingByAim, KindOfCall DEF Inv
<1>2. CASE Answer(r, "error", {})
  <2>1. TableOK /\ \A q \in Requests : RowsKeptFor(q)
    BY DEF TableOK, RowsKeptFor, Inv, TypeOK
  <2>2. "error" \in Answers /\ {} \in SUBSET Flags
    BY DEF Answers
  <2> QED
    BY <1>2, <2>1, <2>2, AnswerInv
<1>3. ASSUME copy[r][k] # Nil,
             NEW o \in {Decide(copy[r][k], call[r].app, now), "deny"},
             verdicts' = [verdicts EXCEPT ![r] = @ \cup {o}],
             Continue(r, p), reply' = NoReply,
             UNCHANGED <<call, copy, locks, stamp, inserted, now, rows, defined>>
      PROVE  Inv'
  <2>1. o \in Outcomes
    BY <1>3 DEF Decide, Outcomes
  <2>2. /\ verdicts' \in [Requests -> SUBSET Outcomes]
        /\ verdicts'[r] = verdicts[r] \cup {o}
        /\ \A q \in Requests \ {r} : verdicts'[q] = verdicts[q]
    BY <1>3, <2>1 DEF Inv, TypeOK
  <2>3. plan'[r] = p
    BY <1>1, <1>3, ContinueAims DEF Inv
  <2>4. DecideOK(r)'
    <3>1. DecideOK(r) /\ Doing(r, "decide") /\ now \in Nat
      BY <1>1 DEF RequestOK, Doing, Inv, TypeOK
    <3>2. \A j \in call[r].keys : Evaluated(r, j) => Evaluated(r, j)'
      BY <1>3, <2>2 DEF Evaluated
    <3>0. PICK f \in Keys : f = k
      BY <1>1
    <3>3. Evaluated(r, f)'
      <4>1. copy'[r][f] # Nil /\ call'[r] = call[r] /\ stamp'[r] = stamp[r] /\ copy'[r][f] = copy[r][f]
        BY <1>3, <3>0
      <4>2. stamp[r] <= now
        BY <3>1 DEF DecideOK
      <4>3. CASE o = "deny"
        BY <2>2, <4>1, <4>3 DEF Evaluated
      <4>4. CASE o = Decide(copy[r][f], call[r].app, now)
        <5>1. Decide(copy[r][f], call[r].app, now) \in verdicts'[r]
          BY <2>2, <4>4
        <5>2. Decide(copy'[r][f], call'[r].app, now) \in verdicts'[r]
          BY <4>1, <5>1
        <5> QED
          BY <3>1, <4>1, <4>2, <5>2 DEF Evaluated
      <4> QED
        BY <1>3, <3>0, <4>3, <4>4
    <3>4. \A j \in call[r].keys : Evaluated(r, j)' \/ \E x \in p : x.on = j
      <4> SUFFICES ASSUME NEW j \in call[r].keys, ~Evaluated(r, j)', j # f
                   PROVE  \E x \in p : x.on = j
        BY <3>3
      <4>1. PICK x \in plan[r] : x.on = j
        BY <3>1, <3>2 DEF DecideOK
      <4> QED
        BY <3>0, <4>1
    <3>5. \A x \in p : x.act = "decide" /\ x.on \in call[r].keys
      BY <3>1 DEF DecideOK
    <3> HIDE DEF p
    <3> QED
      BY <1>3, <2>3, <3>1, <3>4, <3>5 DEF DecideOK, Doing
  <2>5. (SyncOK(r) /\ GrantOK(r) /\ RevokeOK(r) /\ PatchOK(r))'
    BY <1>1, <1>3 DEF SyncOK, GrantOK, RevokeOK, PatchOK, Doing
  <2>6. HeldOK(r)'
    BY <1>1, <1>3 DEF HeldOK, RequestOK
  <2>7. \A q \in Requests \ {r} :
           /\ copy'[q] = copy[q] /\ locks'[q] = locks[q]
           /\ inserted'[q] = inserted[q] /\ verdicts'[q] = verdicts[q]
           /\ locks'[r] \cap locks[q] = {}
           /\ inserted'[r] \cap inserted[q] = {}
    BY <1>3, <2>2 DEF Inv, Exclusive
  <2>8. /\ copy' \in [Requests -> [Keys -> Row \cup {Nil}]]
        /\ locks' \in [Requests -> SUBSET Keys]
        /\ inserted' \in [Requests -> SUBSET Keys]
    BY <1>3 DEF Inv, TypeOK
  <2> HIDE DEF p
  <2> QED
    BY <1>1, <1>3, <2>2, <2>4, <2>5, <2>6, <2>7, <2>8, ProgressInv
<1> QED
  BY <1>2, <1>3

\* The steps that answer and leave the table alone.
LEMMA AnswerOnlyInv ==
  ASSUME Inv, NEW r \in Requests,
         AnswerDecision(r) \/ FailStatement(r) \/ BreakDeadlock(r)
  PROVE  Inv'
<1>1. {"error", "decided"} \subseteq Answers /\ {} \in SUBSET Flags
      /\ DecisionFlags(verdicts[r]) \in SUBSET Flags
  BY DEF Answers, DecisionFlags
<1>2. /\ UNCHANGED <<now, rows, defined>>
      /\ \E a \in Answers, f \in SUBSET Flags : Answer(r, a, f)
  BY <1>1 DEF AnswerDecision, FailStatement, BreakDeadlock
<1>3. TableOK /\ \A q \in Requests : RowsKeptFor(q)
  BY <1>2 DEF TableOK, RowsKeptFor, Inv, TypeOK
<1> QED
  BY <1>2, <1>3, AnswerInv

LEMMA TickInv ==
  ASSUME Inv, Tick
  PROVE  Inv'
<1> USE DEF Tick, memory, Inv
<1>1. now \in Nat /\ now' \in Nat /\ now <= now' /\ now' <= MaxTime
  BY ConstantsAssumption DEF TypeOK, ConstantsAssumption
<1>2. TypeOK' /\ Exclusive'
  BY <1>1, ConstantsAssumption DEF TypeOK, Exclusive, NoReply, Reply
<1>3. ASSUME NEW q \in Requests PROVE RequestOK(q)'
  <2>1. MemoryKept(q) /\ RowsKeptFor(q)
    BY DEF MemoryKept, RowsKeptFor
  <2> QED
    BY <1>1, <2>1, OthersOK
<1> QED
  BY <1>1, <1>2, <1>3

LEMMA StepInv == Inv /\ [Next]_vars => Inv'
<1> SUFFICES ASSUME Inv, [Next]_vars PROVE Inv'
  OBVIOUS
<1>1. ASSUME NEW r \in Requests, NEW c \in Calls, Send(r, c) PROVE Inv'
  <2>1. c \in Call
    BY ConstantsAssumption DEF ConstantsAssumption
  <2> QED
    BY <1>1, <2>1, SyncMetadataInv, UpdateAllowListInv, RevokeAllowListEntryInv,
       PatchPolicyMetadataInv, DeletePolicyMetadataInv, GetPolicyDecisionInv DEF Send
<1>2. ASSUME NEW r \in Requests, Proceed(r) PROVE Inv'
  BY <1>2, TouchRowInv, InsertRowInv, CommitSyncInv, LockForGrantInv, CommitGrantInv,
     CommitRevokeInv, WritePatchInv, DecideFieldInv, AnswerOnlyInv DEF Proceed
<1>3. ASSUME NEW r \in Requests, FailStatement(r) \/ BreakDeadlock(r) PROVE Inv'
  BY <1>3, AnswerOnlyInv
<1>4. CASE UNCHANGED vars
  <2>1. TypeOK' /\ Exclusive' /\ now' <= MaxTime
    BY <1>4 DEF vars, Inv, TypeOK, Exclusive
  <2>2. ASSUME NEW q \in Requests PROVE RequestOK(q)'
    <3>1. MemoryKept(q) /\ RowsKeptFor(q) /\ now' \in Nat /\ now <= now'
      BY <1>4 DEF vars, MemoryKept, RowsKeptFor, Inv, TypeOK
    <3> QED
      BY <3>1, OthersOK
  <2> QED
    BY <2>1, <2>2 DEF Inv
<1> QED
  BY <1>1, <1>2, <1>3, <1>4, TickInv DEF Next

THEOREM Invariance == Spec => []Inv
<1> QED
  BY InitInv, StepInv, PTL DEF Spec

\* Every reachable state is well typed; in particular no row ever has a
\* policy class that the engine has not loaded (checkPolicyClass).
THEOREM TypeCorrect == Spec => []TypeOK
<1>1. Inv => TypeOK
  BY DEF Inv
<1> QED
  BY <1>1, Invariance, PTL

----------------------------------------------------------------------------
(***************************************************************************)
(* What the inductive invariant of PolicyDecisionPointProofs gives: the    *)
(* properties of PolicyDecisionPoint that are not liveness, for every      *)
(* value of the constants.                                                 *)
(***************************************************************************)

(***************************************************************************)
(* Deadlocks.  Two grants lock their rows in the order of the fields, so   *)
(* in a circle of grants each waits for a larger field than the last.      *)
(***************************************************************************)

\* A set of naturals up to a bound that is not empty has a largest element.
LEMMA Largest ==
  ASSUME NEW n \in Nat, NEW S \in SUBSET (1..n), S # {}
  PROVE  \E x \in S : \A y \in S : y <= x
<1> DEFINE T == {n - x : x \in S}
<1>1. T \subseteq Nat /\ T # {}
  <2>1. \A x \in S : n - x \in Nat
    OBVIOUS
  <2> QED
    BY <2>1
<1> DEFINE R == OpToRel(<, Nat)
<1>2. IsWellFoundedOn(R, Nat)
  BY NatLessThanWellFounded
<1>3. \A a, b \in Nat : a < b => <<a, b>> \in R
  BY DEF OpToRel
<1> HIDE DEF T, R
<1>4. PICK t \in T : \A u \in T : ~(<<u, t>> \in R)
  BY <1>1, <1>2, WFMin
<1>5. PICK x \in S : t = n - x
  BY DEF T
<1>6. ASSUME NEW y \in S PROVE y <= x
  <2>1. n - y \in T /\ n - y \in Nat /\ t \in Nat
    BY <1>1 DEF T
  <2>2. ~(n - y < t)
    BY <1>3, <1>4, <2>1
  <2>3. x \in Nat /\ y \in Nat
    OBVIOUS
  <2> QED
    BY <1>5, <2>2, <2>3
<1> QED
  BY <1>6

\* A request that waits and is no sync is a grant, and it waits for a field
\* beyond all those it has locked.
LEMMA GrantWaits ==
  ASSUME Inv, NEW r \in Requests, NEW q \in Requests, WaitsFor(r, q), call[r].op # "sync"
  PROVE  /\ Doing(r, "grant")
         /\ aim[r].on \in Keys /\ aim[r].on \in locks[q]
         /\ \A j \in locks[r] : j < aim[r].on
<1>1. aim[r] # Nil
  BY DEF WaitsFor
<1>2. /\ call[r] # Nil /\ aim[r] \in plan[r] /\ aim[r].on \in Keys
      /\ aim[r].act \in {"delete", "insert", "update"} => call[r].op = "sync"
      /\ aim[r].act = "lock" => call[r].op = "grant"
  BY <1>1, DoingByAim
<1>3. aim[r].act = "lock" /\ aim[r].on \in locks[q]
  BY <1>2 DEF WaitsFor
<1>4. Doing(r, "grant")
  BY <1>2, <1>3 DEF Doing
<1>5. \A j \in locks[r] : j < aim[r].on
  BY <1>2, <1>4 DEF Inv, RequestOK, GrantOK
<1> QED
  BY <1>2, <1>3, <1>4, <1>5

LEMMA NoCircleOfGrants == Inv => DeadlockNeedsSync
<1> SUFFICES ASSUME Inv, NEW S \in SUBSET Requests, Deadlocked(S),
                    \A r \in S : call[r].op # "sync"
             PROVE  FALSE
  BY DEF DeadlockNeedsSync
<1> DEFINE A == {aim[r].on : r \in S}
<1>1. \A r \in S : \E q \in S : WaitsFor(r, q)
  BY DEF Deadlocked
<1>2. \A r \in S : aim[r].on \in Keys
  BY <1>1, GrantWaits
<1>3. A \in SUBSET (1..Fields) /\ A # {}
  BY <1>2 DEF Keys, Deadlocked
<1>4. Fields \in Nat
  BY ConstantsAssumption DEF ConstantsAssumption
<1>5. \A r \in S : aim[r].on \in A
  OBVIOUS
<1>6. \A a \in A : \E r \in S : a = aim[r].on
  OBVIOUS
<1> HIDE DEF A
<1>7. PICK a \in A : \A b \in A : b <= a
  BY <1>3, <1>4, Largest
<1>8. PICK r \in S : a = aim[r].on
  BY <1>6
<1>9. PICK q \in S : WaitsFor(r, q)
  BY <1>1
<1>10. a \in locks[q]
  BY <1>8, <1>9, GrantWaits
<1>11. a < aim[q].on
  BY <1>1, <1>10, GrantWaits
<1>12. aim[q].on <= a
  BY <1>5, <1>7
<1>13. a \in Nat /\ aim[q].on \in Nat
  BY <1>2, <1>8 DEF Keys
<1> QED
  BY <1>11, <1>12, <1>13

\* UpdateAllowList orders its row locks by schema and field, and the other
\* requests about allow-lists hold one row: without a sync among them they
\* never deadlock, however many there are.
THEOREM GrantsNeverDeadlock == Spec => []DeadlockNeedsSync
<1> QED
  BY NoCircleOfGrants, Invariance, PTL

(***************************************************************************)
(* Answers.                                                                *)
(***************************************************************************)

\* An answer is given only by Answer: the other steps of a request in flight
\* leave its reply empty.
LEMMA NoAnswer ==
  ASSUME NEW r \in Requests, reply' = NoReply
  PROVE  reply'[r].answer = Nil /\ reply'[r].flags = {}
BY DEF NoReply

\* What r is told, when r answers; and when another request is answered.
LEMMA AnswerGiven ==
  ASSUME NEW r \in Requests, NEW q \in Requests, NEW a, NEW f,
         reply' = [NoReply EXCEPT ![q] = [answer |-> a, flags |-> f]]
  PROVE  /\ q = r => reply'[r].answer = a /\ reply'[r].flags = f
         /\ q # r => reply'[r].answer = Nil /\ reply'[r].flags = {}
BY DEF NoReply

\* Who is told "ok" while a grant or a revocation is in flight has committed it.
LEMMA OkIsCommitted ==
  ASSUME Inv, Next, NEW r \in Requests, call[r] # Nil, reply'[r].answer = "ok"
  PROVE  /\ call[r].op = "grant" => CommitGrant(r) /\ MissingRows(r) = {}
         /\ call[r].op = "revoke" => CommitRevoke(r)
<1> USE DEF Answer
<1>0. Nil # "ok"
  BY ConstantsAssumption DEF ConstantsAssumption, Answers
<1>1. ~Tick
  BY <1>0, NoAnswer DEF Tick
<1>2. ASSUME NEW q \in Requests, NEW c \in Calls, Send(q, c) PROVE FALSE
  <2>1. call[q] = Nil
    BY <1>2 DEF Send, SyncMetadata, UpdateAllowList, RevokeAllowListEntry,
       PatchPolicyMetadata, DeletePolicyMetadata, GetPolicyDecision
  <2>2. q # r
    BY <2>1
  <2>3. \/ reply' = NoReply
        \/ \E a \in Answers : reply' = [NoReply EXCEPT ![q] = [answer |-> a, flags |-> {}]]
    BY <1>2 DEF Send, SyncMetadata, UpdateAllowList, RevokeAllowListEntry,
       PatchPolicyMetadata, DeletePolicyMetadata, GetPolicyDecision, AnswerAtOnce,
       Begin, Answers
  <2> QED
    BY <1>0, <2>2, <2>3, NoAnswer, AnswerGiven
<1>3. ASSUME NEW q \in Requests, Proceed(q) \/ FailStatement(q) \/ BreakDeadlock(q)
      PROVE  q = r
  <2>1. \/ reply' = NoReply
        \/ \E a \in Answers, f \in SUBSET Flags :
              reply' = [NoReply EXCEPT ![q] = [answer |-> a, flags |-> f]]
    BY <1>3 DEF Proceed, TouchRow, InsertRow, CommitSync, LockForGrant, CommitGrant,
       CommitRevoke, WritePatch, DecideField, AnswerDecision, FailStatement,
       BreakDeadlock, Answers, Flags, DecisionFlags
  <2> QED
    BY <1>0, <2>1, NoAnswer, AnswerGiven
<1>4. Proceed(r) \/ FailStatement(r) \/ BreakDeadlock(r)
  BY <1>1, <1>2, <1>3 DEF Next
<1>5. reply' # NoReply /\ reply' # [NoReply EXCEPT ![r] = [answer |-> "error", flags |-> {}]]
  <2>1. "error" # "ok"
    OBVIOUS
  <2> QED
    BY <1>0, <2>1, NoAnswer, AnswerGiven
<1>6. Proceed(r)
  BY <1>4, <1>5 DEF FailStatement, BreakDeadlock
<1>7. ~TouchRow(r) /\ ~InsertRow(r) /\ ~LockForGrant(r) /\ ~DecideField(r)
  BY <1>5 DEF TouchRow, InsertRow, LockForGrant, DecideField
<1>8. CommitSync(r) \/ CommitGrant(r) \/ CommitRevoke(r) \/ WritePatch(r) \/ AnswerDecision(r)
  BY <1>6, <1>7 DEF Proceed
<1>9. CommitGrant(r) => MissingRows(r) = {}
  BY <1>5 DEF CommitGrant
<1>10. /\ CommitSync(r) => call[r].op = "sync"
       /\ CommitRevoke(r) => call[r].op = "revoke"
       /\ CommitGrant(r) => call[r].op = "grant"
       /\ WritePatch(r) => call[r].op = "patch"
       /\ AnswerDecision(r) => call[r].op = "decide"
  BY DEF CommitSync, CommitGrant, CommitRevoke, WritePatch, AnswerDecision
<1> QED
  BY <1>8, <1>9, <1>10

\* After UpdateAllowList has answered 200 every field it names has the entry,
\* and after RevokeAllowListEntry has answered 204 the field has none, under
\* any interleaving with syncs, deletions, patches and other grants.
THEOREM AnswersAreTrue == Spec => SuccessMeansStored
<1>1. ASSUME Inv, [Next]_vars, NEW r \in Requests, call[r] # Nil, reply'[r].answer = "ok",
             ~UNCHANGED vars
      PROVE  /\ call[r].op = "grant" =>
                   \A k \in call[r].keys :
                      rows'[k] # Nil /\ rows'[k].allow[call[r].app] = stamp[r]
             /\ call[r].op = "revoke" =>
                   /\ rows'[call[r].key] # Nil
                   /\ rows'[call[r].key].id = call[r].id
                   /\ rows'[call[r].key].allow[call[r].app] = Nil
  <2>0. Nil \notin Row
    BY ConstantsAssumption DEF ConstantsAssumption
  <2>1. ASSUME call[r].op = "grant", NEW k \in call[r].keys
        PROVE  rows'[k] # Nil /\ rows'[k].allow[call[r].app] = stamp[r]
    <3>1. CommitGrant(r) /\ MissingRows(r) = {}
      BY <1>1, <2>1, OkIsCommitted
    <3>2. plan[r] = {} /\ rows' = [j \in Keys |-> IF j \in call[r].keys
                                     THEN [rows[j] EXCEPT !.allow = GrantedList(r, j)]
                                     ELSE rows[j]]
      BY <3>1 DEF CommitGrant
    <3>3. /\ k \in Keys /\ call[r].app \in Apps /\ rows[k] \in Row
      BY <1>1, <2>1, <3>1, <3>2, GrantHoldsItsRows
    <3>4. /\ GrantedList(r, k) = [rows[k].allow EXCEPT ![call[r].app] = stamp[r]]
          /\ [rows[k] EXCEPT !.allow = GrantedList(r, k)] \in Row
          /\ [rows[k] EXCEPT !.allow = GrantedList(r, k)].allow = GrantedList(r, k)
      BY <1>1, <2>1, <3>1, <3>2, GrantedListType
    <3>5. GrantedList(r, k)[call[r].app] = stamp[r]
      BY <3>3, <3>4 DEF Row, AllowList
    <3>6. rows'[k] = [rows[k] EXCEPT !.allow = GrantedList(r, k)]
      BY <2>1, <3>2, <3>3
    <3> QED
      BY <2>0, <3>4, <3>5, <3>6
  <2>2. ASSUME call[r].op = "revoke"
        PROVE  /\ rows'[call[r].key] # Nil
               /\ rows'[call[r].key].id = call[r].id
               /\ rows'[call[r].key].allow[call[r].app] = Nil
    <3>1. CommitRevoke(r)
      BY <1>1, <2>2, OkIsCommitted
    <3>2. /\ rows[call[r].key].allow \in AllowList /\ call[r].app \in Apps
          /\ rows'[call[r].key] # Nil
          /\ rows'[call[r].key].id = call[r].id
          /\ rows'[call[r].key].allow = [rows[call[r].key].allow EXCEPT ![call[r].app] = Nil]
      BY <1>1, <3>1, RevokedRow DEF Row
    <3> QED
      BY <3>2 DEF AllowList
  <2> QED
    BY <2>1, <2>2
<1>2. Inv /\ [Next]_vars =>
        [\A r \in Requests :
          call[r] # Nil /\ reply'[r].answer = "ok" =>
             /\ call[r].op = "grant" =>
                   \A k \in call[r].keys :
                      rows'[k] # Nil /\ rows'[k].allow[call[r].app] = stamp[r]
             /\ call[r].op = "revoke" =>
                   /\ rows'[call[r].key] # Nil
                   /\ rows'[call[r].key].id = call[r].id
                   /\ rows'[call[r].key].allow[call[r].app] = Nil]_vars
  BY <1>1
<1> QED
  BY <1>2, Invariance, PTL DEF Spec, SuccessMeansStored

\* Flags are given to a decision only, when all its fields are evaluated.
LEMMA OnlyDecisionsHaveFlags ==
  ASSUME Inv, Next, NEW r \in Requests, call[r] # Nil, call[r].op = "decide",
         reply'[r].flags # {}
  PROVE  AnswerDecision(r)
<1> USE DEF Answer
<1>1. ~Tick
  BY NoAnswer DEF Tick
<1>2. ASSUME NEW q \in Requests, NEW c \in Calls, Send(q, c) PROVE FALSE
  <2>1. \/ reply' = NoReply
        \/ \E a \in Answers : reply' = [NoReply EXCEPT ![q] = [answer |-> a, flags |-> {}]]
    BY <1>2 DEF Send, SyncMetadata, UpdateAllowList, RevokeAllowListEntry,
       PatchPolicyMetadata, DeletePolicyMetadata, GetPolicyDecision, AnswerAtOnce,
       Begin, Answers
  <2> QED
    BY <2>1, NoAnswer, AnswerGiven
<1>3. ASSUME NEW q \in Requests, Proceed(q) \/ FailStatement(q) \/ BreakDeadlock(q)
      PROVE  q = r /\ AnswerDecision(q)
  <2>1. ASSUME ~AnswerDecision(q) PROVE FALSE
    <3>1. \/ reply' = NoReply
          \/ \E a \in Answers : reply' = [NoReply EXCEPT ![q] = [answer |-> a, flags |-> {}]]
      BY <1>3, <2>1 DEF Proceed, TouchRow, InsertRow, CommitSync, LockForGrant, CommitGrant,
         CommitRevoke, WritePatch, DecideField, FailStatement, BreakDeadlock, Answers
    <3> QED
      BY <3>1, NoAnswer, AnswerGiven
  <2>2. ASSUME q # r PROVE FALSE
    <3>1. reply' = [NoReply EXCEPT ![q] = [answer |-> "decided",
                                           flags |-> DecisionFlags(verdicts[q])]]
      BY <2>1 DEF AnswerDecision
    <3> QED
      BY <2>2, <3>1, AnswerGiven
  <2> QED
    BY <2>1, <2>2
<1> QED
  BY <1>1, <1>2, <1>3 DEF Next

\* The decision is "allow" only for a field of class "allowlist" with an
\* entry that has not expired.
LEMMA AllowMeans ==
  ASSUME NEW row, NEW app, NEW t, Decide(row, app, t) \notin {"deny", "expired", "consent_required"}
  PROVE  row.class = "allowlist" /\ row.allow[app] # Nil /\ t <= row.allow[app]
BY DEF Decide

\* An application is let through without consent only by fields of class
\* "allowlist", each with an entry of its own that was good when the
\* request was read (GetPolicyDecision and the Rego classes).
THEOREM LetThroughByGrant == Spec => LetThroughOnlyWhenGranted
<1>1. ASSUME Inv, [Next]_vars, NEW r \in Requests, call[r] # Nil, call[r].op = "decide",
             reply'[r].flags = {"authorized"}, ~UNCHANGED vars, NEW k \in call[r].keys
      PROVE  /\ copy[r][k] # Nil
             /\ copy[r][k].class = "allowlist"
             /\ copy[r][k].allow[call[r].app] # Nil
             /\ stamp[r] <= copy[r][k].allow[call[r].app]
  <2>0. Next /\ reply'[r].flags # {}
    BY <1>1
  <2>1. AnswerDecision(r)
    BY <1>1, <2>0, OnlyDecisionsHaveFlags
  <2>2. DecisionFlags(verdicts[r]) = {"authorized"} /\ plan[r] = {}
    <3>1. /\ reply' = [NoReply EXCEPT ![r] = [answer |-> "decided",
                                              flags |-> DecisionFlags(verdicts[r])]]
          /\ plan[r] = {}
      BY <2>1 DEF AnswerDecision, Answer
    <3>2. reply'[r].flags = DecisionFlags(verdicts[r])
      BY <3>1 DEF NoReply
    <3> QED
      BY <1>1, <3>1, <3>2
  <2>3. verdicts[r] \cap {"deny", "expired", "consent_required"} = {}
    BY <2>2 DEF DecisionFlags, Flags
  <2>4. Evaluated(r, k)
    BY <1>1, <2>2 DEF Inv, RequestOK, DecideOK, Doing
  <2>5. PICK t \in Nat : stamp[r] <= t /\ Decide(copy[r][k], call[r].app, t) \in verdicts[r]
    BY <2>3, <2>4 DEF Evaluated
  <2>6. /\ copy[r][k].class = "allowlist" /\ copy[r][k].allow[call[r].app] # Nil
        /\ t <= copy[r][k].allow[call[r].app]
    BY <2>3, <2>5, AllowMeans
  <2>7. copy[r][k] \in Row /\ call[r].app \in Apps /\ stamp[r] \in Nat
    BY <1>1, <2>4, KindOfCall DEF Evaluated, DecideCall, Inv, TypeOK
  <2>8. copy[r][k].allow[call[r].app] \in Nat
    BY <2>6, <2>7 DEF Row, AllowList
  <2> QED
    BY <2>4, <2>5, <2>6, <2>7, <2>8 DEF Evaluated
<1>2. Inv /\ [Next]_vars =>
        [\A r \in Requests :
          call[r] # Nil /\ call[r].op = "decide" /\ reply'[r].flags = {"authorized"} =>
             \A k \in call[r].keys :
                /\ copy[r][k] # Nil
                /\ copy[r][k].class = "allowlist"
                /\ copy[r][k].allow[call[r].app] # Nil
                /\ stamp[r] <= copy[r][k].allow[call[r].app]]_vars
  BY <1>1
<1> QED
  BY <1>2, Invariance, PTL DEF Spec, LetThroughOnlyWhenGranted

----------------------------------------------------------------------------
(***************************************************************************)
(* The table implements AllowLists: a commit is a grant, a revocation or a *)
(* redefinition of the ledger, and every other step shows nothing there.   *)
(***************************************************************************)

\* The ledger's view of a field.
LEMMA ListOf ==
  ASSUME Inv, NEW k \in Keys
  PROVE  /\ rows[k] = Nil => Lists[k] = Nil
         /\ rows[k] # Nil => Lists[k] = rows[k].allow /\ Lists[k] # Nil
<1>1. rows[k] # Nil => rows[k].allow \in AllowList
  BY DEF Inv, TypeOK, Row
<1>2. Nil \notin AllowList
  BY ConstantsAssumption DEF ConstantsAssumption
<1> QED
  BY <1>1, <1>2 DEF Lists

\* Only five actions write to the table.
LEMMA TableWriters ==
  ASSUME [Next]_vars
  PROVE  \/ rows' = rows
         \/ \E r \in Requests : CommitSync(r)
         \/ \E r \in Requests : CommitGrant(r) /\ MissingRows(r) = {}
         \/ \E r \in Requests : CommitRevoke(r)
         \/ \E r \in Requests : WritePatch(r) /\ rows' # rows
         \/ \E r \in Requests, c \in Calls : DeletePolicyMetadata(r, c) /\ rows' # rows
<1>1. CASE UNCHANGED vars \/ Tick
  BY <1>1 DEF vars, Tick
<1>2. CASE \E r \in Requests, c \in Calls : Send(r, c)
  BY <1>2 DEF Send, SyncMetadata, UpdateAllowList, RevokeAllowListEntry,
     PatchPolicyMetadata, GetPolicyDecision
<1>3. CASE \E r \in Requests : Proceed(r) \/ FailStatement(r) \/ BreakDeadlock(r)
  BY <1>3 DEF Proceed, TouchRow, InsertRow, LockForGrant, CommitGrant, DecideField,
     AnswerDecision, FailStatement, BreakDeadlock
<1> QED
  BY <1>1, <1>2, <1>3 DEF Next

\* A sync redefines the fields it inserted and those it deleted.
LEMMA SyncRedefines ==
  ASSUME Inv, NEW r \in Requests, CommitSync(r)
  PROVE  Grants!Next
<1> DEFINE added   == inserted[r]
           removed == locks[r] \ Sent(call[r])
<1>1. added \in SUBSET Keys /\ removed \in SUBSET Keys
  BY DEF Inv, TypeOK
<1>2. /\ \A k \in added : rows[k] = Nil
      /\ \A k \in locks[r] : rows[k] # Nil
  BY DEF Inv, RequestOK, HeldOK
<1>3. added \cap Grants!Known = {}
  BY <1>1, <1>2, ListOf DEF Grants!Known
<1>4. ASSUME NEW k \in Keys
      PROVE  Lists'[k] = IF k \in added THEN Grants!Empty
                         ELSE IF k \in removed THEN Nil
                         ELSE Lists[k]
  <2>1. Nil \notin Row
    BY ConstantsAssumption DEF ConstantsAssumption
  <2>2. /\ call[r] \in SyncCall
        /\ \A j \in Sent(call[r]) : call[r].classes[j] \in Classes
    BY KindOfCall DEF CommitSync, Inv, TypeOK, RequestOK, SyncOK, Doing
  <2>3. CASE k \in added
    <3>1. rows'[k] = NewRow(k, call[r].classes[k])
      BY <2>3 DEF CommitSync
    <3>2. /\ k \in Sent(call[r]) /\ defined[k] < MaxRows
          /\ defined[k] \in 0..MaxRows /\ MaxRows \in Nat
      BY <2>3, ConstantsAssumption
         DEF CommitSync, Inv, TypeOK, RequestOK, SyncOK, HeldOK, Doing, ConstantsAssumption
    <3>3. defined[k] + 1 \in Ids /\ NoEntries \in AllowList
      BY <3>2 DEF Ids, NoEntries, AllowList
    <3>4. NewRow(k, call[r].classes[k]) \in Row
      BY <2>2, <3>2, <3>3 DEF NewRow, Row
    <3>5. rows'[k] # Nil /\ rows'[k].allow = NoEntries
      BY <2>1, <3>1, <3>4 DEF NewRow
    <3> QED
      BY <2>3, <3>5 DEF Lists, NoEntries, Grants!Empty
  <2>4. CASE k \notin added /\ k \in locks[r] /\ k \notin Sent(call[r])
    BY <2>4 DEF CommitSync, Lists
  <2>5. CASE k \notin added /\ k \in locks[r] /\ k \in Sent(call[r])
    <3>1. rows'[k] = [rows[k] EXCEPT !.class = call[r].classes[k]]
      BY <2>5 DEF CommitSync, UpdatedRow
    <3>2. rows[k] \in Row
      BY <1>2, <2>5 DEF Inv, TypeOK
    <3>3. rows'[k] \in Row /\ rows'[k].allow = rows[k].allow
      BY <2>2, <2>5, <3>1, <3>2 DEF Row
    <3> QED
      BY <1>2, <2>1, <2>5, <3>3 DEF Lists
  <2>6. CASE k \notin added /\ k \notin locks[r]
    BY <2>6 DEF CommitSync, Lists
  <2> QED
    BY <2>3, <2>4, <2>5, <2>6
<1>5. Lists' = [k \in Keys |-> IF k \in added THEN Grants!Empty
                               ELSE IF k \in removed THEN Nil
                               ELSE Lists[k]]
  BY <1>4 DEF Lists
<1>6. Grants!Redefine(added, removed)
  BY <1>3, <1>5 DEF Grants!Redefine
<1> HIDE DEF added, removed
<1> QED
  BY <1>1, <1>6 DEF Grants!Next

\* A grant that finds all its fields reaches all of them in one step.
LEMMA GrantGrants ==
  ASSUME Inv, NEW r \in Requests, CommitGrant(r), MissingRows(r) = {}
  PROVE  Grants!Next
<1>1. /\ call[r] # Nil /\ call[r].op = "grant" /\ plan[r] = {}
      /\ rows' = [k \in Keys |->
                     IF k \in call[r].keys
                     THEN [rows[k] EXCEPT !.allow = GrantedList(r, k)]
                     ELSE rows[k]]
  BY DEF CommitGrant
<1>2. /\ call[r].keys \in SUBSET Keys /\ call[r].app \in Apps
      /\ \A k \in call[r].keys : rows[k] \in Row
  BY <1>1, GrantHoldsItsRows
<1>3. stamp[r] \in Expiries
  BY <1>1 DEF Inv, RequestOK, GrantOK, Doing
<1>4. Nil \notin Row
  BY ConstantsAssumption DEF ConstantsAssumption
<1>5. call[r].keys \subseteq Grants!Known
  BY <1>2, <1>4, ListOf DEF Grants!Known
<1>6. ASSUME NEW k \in Keys
      PROVE  Lists'[k] = IF k \in call[r].keys
                         THEN [Lists[k] EXCEPT ![call[r].app] = stamp[r]]
                         ELSE Lists[k]
  <2>1. CASE k \in call[r].keys
    <3>1. rows'[k] = [rows[k] EXCEPT !.allow = GrantedList(r, k)]
      BY <1>1, <2>1
    <3>2. rows'[k] # Nil /\ rows'[k].allow = [rows[k].allow EXCEPT ![call[r].app] = stamp[r]]
      BY <1>1, <1>4, <2>1, <3>1, GrantedListType
    <3>3. Lists'[k] = rows'[k].allow
      BY <3>2 DEF Lists
    <3>4. Lists[k] = rows[k].allow
      BY <1>2, <1>4, <2>1, ListOf
    <3> QED
      BY <2>1, <3>2, <3>3, <3>4
  <2>2. CASE k \notin call[r].keys
    BY <1>1, <2>2 DEF Lists
  <2> QED
    BY <2>1, <2>2
<1>7. Lists' = [k \in Keys |-> IF k \in call[r].keys
                               THEN [Lists[k] EXCEPT ![call[r].app] = stamp[r]]
                               ELSE Lists[k]]
  BY <1>6 DEF Lists
<1>8. Grants!Grant(call[r].app, call[r].keys, stamp[r])
  BY <1>5, <1>7 DEF Grants!Grant
<1> QED
  BY <1>2, <1>3, <1>8 DEF Grants!Next

LEMMA RevokeRevokes ==
  ASSUME Inv, NEW r \in Requests, CommitRevoke(r)
  PROVE  Grants!Next
<1> DEFINE key == call[r].key
           app == call[r].app
<1>1. /\ key \in Keys /\ app \in Apps
      /\ rows[key] \in Row /\ rows[key].allow[app] # Nil
      /\ \A k \in Keys : k # key => rows'[k] = rows[k]
      /\ rows'[key] # Nil
      /\ rows'[key].allow = [rows[key].allow EXCEPT ![app] = Nil]
  BY RevokedRow
<1>2. rows[key] # Nil
  BY <1>1, ConstantsAssumption DEF ConstantsAssumption
<1>3. Lists[key] = rows[key].allow /\ Lists[key] # Nil
  BY <1>1, <1>2, ListOf
<1>4. ASSUME NEW k \in Keys
      PROVE  Lists'[k] = IF k = key THEN [Lists[key] EXCEPT ![app] = Nil] ELSE Lists[k]
  BY <1>1, <1>3 DEF Lists
<1>5. Lists' = [Lists EXCEPT ![key] = [Lists[key] EXCEPT ![app] = Nil]]
  BY <1>4 DEF Lists
<1>6. Grants!Revoke(app, key)
  BY <1>1, <1>3, <1>5 DEF Grants!Revoke, Grants!Known
<1> HIDE DEF key, app
<1> QED
  BY <1>1, <1>6 DEF Grants!Next

\* A patch changes the class of a row and leaves its list.
LEMMA PatchKeepsLists ==
  ASSUME Inv, NEW r \in Requests, WritePatch(r), rows' # rows
  PROVE  Lists' = Lists
<1>1. /\ call[r] # Nil /\ call[r].op = "patch" /\ Found(call[r])
      /\ rows' = [rows EXCEPT ![call[r].key].class = call[r].class]
  BY DEF WritePatch
<1>2. call[r].key \in Keys /\ call[r].class \in Classes
  BY <1>1, KindOfCall DEF PatchCall, Inv, TypeOK, RequestOK, PatchOK, Doing
<1>3. rows[call[r].key] \in Row
  BY <1>1, <1>2 DEF Found, Inv, TypeOK
<1> DEFINE new == [rows[call[r].key] EXCEPT !.class = call[r].class]
<1>4. new \in Row /\ new.allow = rows[call[r].key].allow
  BY <1>2, <1>3 DEF Row
<1>5. rows' = [rows EXCEPT ![call[r].key] = new]
  BY <1>1
<1>6. Nil \notin Row
  BY ConstantsAssumption DEF ConstantsAssumption
<1> HIDE DEF new
<1>7. ASSUME NEW k \in Keys PROVE Lists'[k] = Lists[k]
  BY <1>2, <1>3, <1>4, <1>5, <1>6 DEF Lists, Inv, TypeOK
<1> QED
  BY <1>7 DEF Lists

LEMMA DeleteRedefines ==
  ASSUME Inv, NEW r \in Requests, NEW c \in Calls, DeletePolicyMetadata(r, c), rows' # rows
  PROVE  Grants!Next
<1>1. c.op = "delete" /\ rows' = [rows EXCEPT ![c.key] = Nil]
  BY DEF DeletePolicyMetadata
<1>2. c.key \in Keys
  BY <1>1, KindOfCall, ConstantsAssumption DEF DeleteCall, ConstantsAssumption
<1> DEFINE removed == {c.key}
<1>3. ASSUME NEW k \in Keys PROVE Lists'[k] = IF k \in removed THEN Nil ELSE Lists[k]
  BY <1>1, <1>2 DEF Lists, Inv, TypeOK
<1>4. Lists' = [k \in Keys |-> IF k \in {} THEN Grants!Empty
                               ELSE IF k \in removed THEN Nil
                               ELSE Lists[k]]
  BY <1>3 DEF Lists
<1>5. Grants!Redefine({}, removed)
  BY <1>4 DEF Grants!Redefine
<1>6. {} \in SUBSET Keys /\ removed \in SUBSET Keys
  BY <1>2
<1> HIDE DEF removed
<1> QED
  BY <1>5, <1>6 DEF Grants!Next

\* No statement of any request loses an entry that it was not asked to
\* remove, grants a part of its fields, or grants without a grant.
THEOREM Refinement == Spec => ImplementsAllowLists
<1>1. Init => Grants!Init
  BY DEF Init, Grants!Init, Lists
<1>2. Inv /\ [Next]_vars => [Grants!Next]_(Grants!vars)
  <2> SUFFICES ASSUME Inv, [Next]_vars
               PROVE  Grants!Next \/ Grants!vars' = Grants!vars
    OBVIOUS
  <2>1. CASE rows' = rows
    BY <2>1 DEF Grants!vars, Lists
  <2>2. CASE \E r \in Requests : WritePatch(r) /\ rows' # rows
    BY <2>2, PatchKeepsLists DEF Grants!vars
  <2> QED
    BY <2>1, <2>2, TableWriters, SyncRedefines, GrantGrants, RevokeRevokes, DeleteRedefines
<1> QED
  BY <1>1, <1>2, Invariance, PTL DEF Spec, ImplementsAllowLists, Grants!Spec
=============================================================================
