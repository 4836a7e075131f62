------------------------ MODULE ConsentEngineProofs -------------------------
(***************************************************************************)
(* Type correctness of ConsentEngine for all owners, callers, applications, *)
(* field lists, timeouts and durations, any number of concurrent requests  *)
(* and any bound on records and time.                                      *)
(***************************************************************************)
EXTENDS ConsentEngine, TLAPS

(***************************************************************************)
(* What a request in flight remembers.  TypeOK alone is not inductive: it  *)
(* needs that a request at a given step has the call, the copy or the      *)
(* draft that step uses.                                                   *)
(***************************************************************************)
MemoryOK ==
    \A r \in Requests :
        /\ pc[r] = "loaded" => call[r] \in CreateCall \cup GetCall
        /\ pc[r] \in {"build", "replace", "revoke"} => call[r] \in CreateCall
        /\ pc[r] \in {"portal", "reload", "reloaded"} =>
             call[r] \in PortalCall /\ copy[r].id = call[r].id
        /\ pc[r] \in {"loaded", "replace", "revoke", "commit",
                      "portal", "reload", "reloaded"} => copy[r] # Nil
        /\ pc[r] \in {"insert", "commit"} => draft[r] # Nil

\* A row is stored under its own id, and what was read once never disappears.
RowsOK ==
    /\ \A i \in ConsentIDs : consents[i] # Nil => consents[i].id = i
    /\ \A r \in Requests : copy[r] # Nil => consents[copy[r].id] # Nil

BaseInv == TypeOK /\ MemoryOK /\ RowsOK

\* An empty table and idle requests.
LEMMA InitBase == Init => BaseInv
<1> SUFFICES ASSUME Init PROVE BaseInv
  OBVIOUS
<1> USE ConstantsAssumption DEF Init
<1>1. TypeOK
  BY DEF TypeOK, ConsentIDs, NoReply, Step, Actions
<1>2. MemoryOK
  BY DEF MemoryOK
<1>3. RowsOK
  BY DEF RowsOK
<1> QED
  BY <1>1, <1>2, <1>3 DEF BaseInv

\* Writing another status into a record leaves a record with the same id.
LEMMA WithStatusType ==
  ASSUME NEW row \in ConsentRecord, NEW s \in Status
  PROVE  WithStatus(row, s) \in ConsentRecord /\ WithStatus(row, s).id = row.id
BY DEF ConsentRecord, WithStatus

\* buildConsentRecord makes a record of the table under the id it stamped.
LEMMA BuildType ==
  ASSUME TypeOK, NEW c \in CreateCall, NEW i \in ConsentIDs
  PROVE  /\ BuildConsentRecord(c, i) \in ConsentRecord
         /\ BuildConsentRecord(c, i).id = i
<1>1. now + c.timeout \in Deadline
  <2>1. now \in Nat
    BY DEF TypeOK
  <2>2. c.timeout \in PendingTimeouts
    BY DEF CreateCall
  <2>3. PendingTimeouts \subseteq Nat
    BY ConstantsAssumption DEF ConstantsAssumption
  <2>4. c.timeout \in Nat
    BY <2>2, <2>3
  <2>5. \A m, n \in Nat : m + n \in Nat
    OBVIOUS
  <2>6. now + c.timeout \in Nat
    BY <2>1, <2>4, <2>5
  <2> QED
    BY <2>6 DEF Deadline
<1>2. /\ c.owner \in Owners /\ c.app \in Apps
      /\ c.fields \in FieldLists /\ c.duration \in GrantDurations
  BY DEF CreateCall
<1>3. "pending" \in Status /\ Nil \in Deadline
  BY DEF Status, ActiveStatus, Deadline
<1> QED
  BY <1>1, <1>2, <1>3 DEF BuildConsentRecord, ConsentRecord

(***************************************************************************)
(* Each action preserves BaseInv.  A request that arrives:                 *)
(***************************************************************************)
LEMMA LoadBase ==
  ASSUME BaseInv, NEW r \in Requests, NEW c \in Call, NEW i \in ConsentIDs, NEW s \in Step,
         consents[i] # Nil, Load(r, c, consents[i], s),
         \/ s = "loaded" /\ c \in CreateCall \cup GetCall
         \/ s = "portal" /\ c \in PortalCall /\ c.id = i,
         UNCHANGED <<now, consents, built, wins>>
  PROVE  BaseInv'
<1> USE ConstantsAssumption DEF BaseInv, Load
<1>1. TypeOK'
  BY DEF TypeOK, NoReply, Step
<1>2. MemoryOK'
  BY DEF MemoryOK, TypeOK, RowsOK
<1>3. RowsOK'
  BY DEF RowsOK, TypeOK
<1> QED
  BY <1>1, <1>2, <1>3

\* A request that found no row, or somebody else's, is answered.
LEMMA AnswerAtOnceBase ==
  ASSUME BaseInv, NEW r \in Requests, NEW a \in Answers, AnswerAtOnce(r, a),
         UNCHANGED <<now, consents, built, wins>>
  PROVE  BaseInv'
<1> USE DEF BaseInv, AnswerAtOnce
<1>1. TypeOK'
  BY DEF TypeOK, NoReply
<1>2. MemoryOK' /\ RowsOK'
  BY DEF MemoryOK, RowsOK
<1> QED
  BY <1>1, <1>2

(***************************************************************************)
(* The four ways to go on, with the table left alone or changed row by     *)
(* row.  RowsKept is what the rest of the proof needs of the table.        *)
(***************************************************************************)
RowsKept ==
    /\ consents' \in [ConsentIDs -> ConsentRecord \cup {Nil}]
    /\ \A i \in ConsentIDs : consents[i] # Nil => consents'[i] # Nil
    /\ \A i \in ConsentIDs : consents'[i] # Nil => consents'[i].id = i

\* A request in flight is answered, perhaps with a change of the table.
LEMMA AnswerBase ==
  ASSUME BaseInv, NEW r \in Requests, NEW a \in Answers, Answer(r, a), RowsKept,
         built' = built, now' = now, wins' \in [ConsentIDs -> [Actions -> Nat]]
  PROVE  BaseInv'
<1> USE ConstantsAssumption DEF BaseInv, Answer, RowsKept
<1>1. TypeOK'
  BY DEF TypeOK, NoReply, Step
<1>2. MemoryOK'
  BY DEF MemoryOK, TypeOK
<1>3. RowsOK'
  BY DEF RowsOK, TypeOK, ConsentRecord
<1> QED
  BY <1>1, <1>2, <1>3

\* A request goes on with a row in hand, or with none to build its own.
LEMMA GotoBase ==
  ASSUME BaseInv, NEW r \in Requests, NEW s \in Step, NEW row \in ConsentRecord \cup {Nil},
         Goto(r, s, row), RowsKept, UNCHANGED <<now, built, wins>>,
         row # Nil => consents'[row.id] # Nil,
         \/ s = "build" /\ call[r] \in CreateCall
         \/ s \in {"replace", "revoke"} /\ call[r] \in CreateCall /\ row # Nil
         \/ s \in {"reload", "reloaded"} /\ call[r] \in PortalCall /\ row # Nil
                                         /\ row.id = call[r].id
  PROVE  BaseInv'
<1> USE ConstantsAssumption DEF BaseInv, Goto, RowsKept
<1>1. TypeOK'
  BY DEF TypeOK, NoReply, Step
<1>2. MemoryOK'
  BY DEF MemoryOK, TypeOK
<1>3. RowsOK'
  BY DEF RowsOK, TypeOK, ConsentRecord
<1> QED
  BY <1>1, <1>2, <1>3

\* buildConsentRecord, in createConsentRecord or inside the transaction.
LEMMA BuildBase ==
  ASSUME BaseInv, NEW r \in Requests, NEW s \in {"insert", "commit"}, Build(r, s), UNCHANGED <<now, consents, wins>>,
         call[r] \in CreateCall,
         s = "commit" => copy[r] # Nil
  PROVE  BaseInv'
<1> USE ConstantsAssumption DEF BaseInv, Build
<1>1. built + 1 \in ConsentIDs
  BY DEF TypeOK, ConsentIDs
<1>2. BuildConsentRecord(call[r], built + 1) \in ConsentRecord
  BY <1>1, BuildType
<1>3. TypeOK'
  BY <1>1, <1>2 DEF TypeOK, NoReply, Step, ConsentIDs
<1>4. MemoryOK'
  BY <1>2 DEF MemoryOK, TypeOK
<1>5. RowsOK'
  BY DEF RowsOK, TypeOK
<1> QED
  BY <1>3, <1>4, <1>5

\* A Save of a record whose row exists, under another status.
LEMMA SaveKeepsRows ==
  ASSUME BaseInv, NEW row \in ConsentRecord, consents[row.id] # Nil, NEW s \in Status,
         consents' = [consents EXCEPT ![row.id] = WithStatus(row, s)]
  PROVE  RowsKept
<1>1. WithStatus(row, s) \in ConsentRecord /\ WithStatus(row, s).id = row.id
  BY WithStatusType
<1> QED
  BY <1>1, ConstantsAssumption DEF BaseInv, TypeOK, RowsOK, RowsKept, ConsentRecord

\* The table is left alone.
LEMMA SameRows ==
  ASSUME BaseInv, consents' = consents
  PROVE  RowsKept
BY DEF BaseInv, TypeOK, RowsOK, RowsKept

(***************************************************************************)
(* The actions.                                                            *)
(***************************************************************************)
LEMMA ArriveBase ==
  ASSUME BaseInv, NEW r \in Requests, Arrive(r)
  PROVE  BaseInv'
<1>1. ASSUME NEW o \in Owners, NEW a \in Apps, GetConsent(r, o, a)
      PROVE  BaseInv'
  <2>1. CASE AnswerAtOnce(r, "not_found") /\ UNCHANGED <<now, consents, built, wins>>
    BY <2>1, AnswerAtOnceBase DEF Answers
  <2>2. CASE /\ \E i \in RowsOf(o, a) :
                   Load(r, [op |-> "get", owner |-> o, app |-> a], consents[i], "loaded")
             /\ UNCHANGED <<now, consents, built, wins>>
    <3>1. [op |-> "get", owner |-> o, app |-> a] \in GetCall
      BY DEF GetCall
    <3> QED
      BY <2>2, <3>1, LoadBase DEF RowsOf, Call, Step
  <2> QED
    BY <1>1, <2>1, <2>2 DEF GetConsent
<1>2. ASSUME NEW c \in CreateCall, CreateConsent(r, c)
      PROVE  BaseInv'
  <2>1. CASE Load(r, c, Nil, "build") /\ UNCHANGED <<now, consents, built, wins>>
    <3> USE <1>2, <2>1, ConstantsAssumption DEF BaseInv, Load
    <3>1. TypeOK'
      BY DEF TypeOK, NoReply, Step, Call
    <3>2. MemoryOK'
      BY DEF MemoryOK, TypeOK
    <3>3. RowsOK'
      BY DEF RowsOK, TypeOK
    <3> QED
      BY <3>1, <3>2, <3>3
  <2>2. CASE /\ \E i \in RowsOf(c.owner, c.app) : Load(r, c, consents[i], "loaded")
             /\ UNCHANGED <<now, consents, built, wins>>
    BY <2>2, LoadBase DEF RowsOf, Call, Step
  <2> QED
    BY <1>2, <2>1, <2>2 DEF CreateConsent
<1>3. ASSUME NEW op \in PortalOps, NEW i \in ConsentIDs, NEW c \in Callers,
             PortalRequest(r, op, i, c)
      PROVE  BaseInv'
  <2> DEFINE k == [op |-> op, id |-> i, caller |-> c]
  <2>1. CASE \/ AnswerAtOnce(r, "not_found") /\ UNCHANGED <<now, consents, built, wins>>
             \/ AnswerAtOnce(r, "denied") /\ UNCHANGED <<now, consents, built, wins>>
    BY <2>1, AnswerAtOnceBase DEF Answers
  <2>2. CASE /\ consents[i] # Nil
             /\ Load(r, k, consents[i], "portal")
             /\ UNCHANGED <<now, consents, built, wins>>
    <3>1. k \in PortalCall /\ k.id = i
      BY ConstantsAssumption DEF ConstantsAssumption, PortalCall
    <3>2. k \in Call /\ "portal" \in Step
      BY <3>1 DEF Call, Step
    <3> HIDE DEF k
    <3> QED
      BY <2>2, <3>1, <3>2, LoadBase
  <2> QED
    BY <1>3, <2>1, <2>2 DEF PortalRequest
<1> QED
  BY <1>1, <1>2, <1>3 DEF Arrive

\* AnswerBase for an answer that decides nothing.
LEMMA AnswerSaved ==
  ASSUME BaseInv, NEW r \in Requests, NEW a \in Answers, Answer(r, a), RowsKept,
         UNCHANGED <<now, built, wins>>
  PROVE  BaseInv'
<1>1. wins' \in [ConsentIDs -> [Actions -> Nat]]
  BY DEF BaseInv, TypeOK
<1> QED
  BY <1>1, AnswerBase

\* A cancelled request.
LEMMA AbortBase ==
  ASSUME BaseInv, NEW r \in Requests, Abort(r)
  PROVE  BaseInv'
BY SameRows, AnswerSaved DEF Abort, Answers

\* What follows the query of GetConsentInternalView.
LEMMA GetOrCreateBase ==
  ASSUME BaseInv, NEW r \in Requests, SaveExpired(r) \/ UseLoaded(r)
  PROVE  BaseInv'
<1>1. CASE SaveExpired(r)
  <2>1. /\ copy[r] \in ConsentRecord
        /\ consents[copy[r].id] # Nil
        /\ call[r] \in CreateCall \cup GetCall
    BY <1>1 DEF SaveExpired, BaseInv, TypeOK, MemoryOK, RowsOK
  <2>2. RowsKept
    BY <1>1, <2>1, SaveKeepsRows DEF SaveExpired, Status, TerminalStatus
  <2>3. CASE Answer(r, "expired")
    BY <1>1, <2>2, <2>3, AnswerSaved DEF SaveExpired, Answers, Status, TerminalStatus
  <2>4. CASE call[r].op = "create" /\ Goto(r, "build", Nil)
    <3>1. call[r] \in CreateCall
      BY <2>1, <2>4 DEF GetCall
    <3> QED
      BY <1>1, <2>2, <2>4, <3>1, GotoBase DEF SaveExpired, Step
  <2> QED
    BY <1>1, <2>3, <2>4 DEF SaveExpired
<1>2. CASE UseLoaded(r)
  <2>1. /\ copy[r] \in ConsentRecord
        /\ copy[r] # Nil /\ consents[copy[r].id] # Nil
        /\ call[r] \in CreateCall \cup GetCall
    BY <1>2 DEF UseLoaded, BaseInv, TypeOK, MemoryOK, RowsOK
  <2>2. RowsKept /\ UNCHANGED <<now, consents, built, wins>>
    BY <1>2, SameRows DEF UseLoaded
  <2>3. CASE Answer(r, copy[r].status)
    <3>1. copy[r].status \in Answers
      BY <2>1 DEF ConsentRecord, Answers
    <3> QED
      BY <2>2, <2>3, <3>1, AnswerSaved
  <2>4. CASE call[r].op = "create" /\ (Goto(r, "replace", copy[r]) \/ Goto(r, "build", Nil))
    <3>1. call[r] \in CreateCall
      BY <2>1, <2>4 DEF GetCall
    <3>2. consents'[copy[r].id] # Nil
      BY <2>1, <2>2
    <3> QED
      BY <2>1, <2>2, <2>4, <3>1, <3>2, GotoBase DEF Step
  <2> QED
    BY <1>2, <2>3, <2>4 DEF UseLoaded
<1> QED
  BY <1>1, <1>2

\* The two halves of createConsentRecord.
LEMMA InsertBase ==
  ASSUME BaseInv, NEW r \in Requests, BuildConsent(r) \/ InsertConsent(r)
  PROVE  BaseInv'
<1>1. CASE BuildConsent(r)
  <2>1. call[r] \in CreateCall
    BY <1>1 DEF BuildConsent, BaseInv, MemoryOK
  <2> QED
    <3>1. Build(r, "insert") /\ UNCHANGED <<now, consents, wins>>
      BY <1>1 DEF BuildConsent
    <3> QED
      BY <2>1, <3>1, BuildBase
<1>2. CASE InsertConsent(r)
  <2>1. draft[r] \in ConsentRecord
    BY <1>2 DEF InsertConsent, BaseInv, TypeOK, MemoryOK
  <2>2. CASE /\ consents' = [consents EXCEPT ![draft[r].id] = draft[r]]
             /\ Answer(r, "pending")
    <3>1. RowsKept
      BY <2>1, <2>2, ConstantsAssumption
         DEF BaseInv, TypeOK, RowsOK, RowsKept, ConsentRecord, ConstantsAssumption
    <3> QED
      BY <1>2, <2>2, <3>1, AnswerSaved DEF InsertConsent, Answers, Status, ActiveStatus
  <2>3. CASE Answer(r, "error") /\ UNCHANGED consents
    BY <1>2, <2>3, SameRows, AnswerSaved DEF InsertConsent, Answers
  <2> QED
    BY <1>2, <2>2, <2>3 DEF InsertConsent
<1> QED
  BY <1>1, <1>2

\* The three statements of revokeAndCreateConsent.
LEMMA ReplaceBase ==
  ASSUME BaseInv, NEW r \in Requests,
         BeginReplace(r) \/ RevokeExisting(r) \/ CommitReplace(r)
  PROVE  BaseInv'
<1>1. CASE BeginReplace(r)
  <2>1. /\ copy[r] \in ConsentRecord
        /\ consents[copy[r].id] # Nil
        /\ call[r] \in CreateCall
    BY <1>1 DEF BeginReplace, BaseInv, TypeOK, MemoryOK, RowsOK
  <2> DEFINE row == consents[copy[r].id]
  <2>2. row \in ConsentRecord /\ row # Nil /\ row.id = copy[r].id
    <3>1. copy[r].id \in ConsentIDs
      BY <2>1 DEF ConsentRecord
    <3> QED
      BY <2>1, <3>1 DEF BaseInv, TypeOK, RowsOK
  <2>3. RowsKept /\ UNCHANGED <<now, consents, built, wins>>
    BY <1>1, SameRows DEF BeginReplace
  <2>4. CASE Goto(r, "revoke", row)
    <3>1. consents'[row.id] # Nil
      BY <2>1, <2>2, <2>3
    <3> HIDE DEF row
    <3> QED
      BY <2>1, <2>2, <2>3, <2>4, <3>1, GotoBase DEF Step
  <2>5. CASE Answer(r, "error")
    BY <2>3, <2>5, AnswerSaved DEF Answers
  <2> QED
    BY <1>1, <2>4, <2>5 DEF BeginReplace
<1>2. CASE RevokeExisting(r)
  <2>1. call[r] \in CreateCall /\ copy[r] # Nil
    BY <1>2 DEF RevokeExisting, BaseInv, MemoryOK
  <2> QED
    BY <1>2, <2>1, BuildBase DEF RevokeExisting
<1>3. CASE CommitReplace(r)
  <2> DEFINE revoked == [consents EXCEPT ![copy[r].id] = WithStatus(copy[r], "revoked")]
  <2>1. /\ copy[r] \in ConsentRecord
        /\ draft[r] \in ConsentRecord
        /\ consents[copy[r].id] # Nil
    BY <1>3 DEF CommitReplace, BaseInv, TypeOK, MemoryOK, RowsOK
  <2>2. CASE /\ consents' = [revoked EXCEPT ![draft[r].id] = draft[r]]
             /\ Answer(r, "pending")
    <3>1. /\ WithStatus(copy[r], "revoked") \in ConsentRecord
          /\ WithStatus(copy[r], "revoked").id = copy[r].id
      BY <2>1, WithStatusType DEF Status, TerminalStatus
    <3>2. /\ revoked \in [ConsentIDs -> ConsentRecord \cup {Nil}]
          /\ \A i \in ConsentIDs : consents[i] # Nil => revoked[i] # Nil
          /\ \A i \in ConsentIDs : revoked[i] # Nil => revoked[i].id = i
      BY <2>1, <3>1, ConstantsAssumption
         DEF BaseInv, TypeOK, RowsOK, ConsentRecord, ConstantsAssumption
    <3>3. RowsKept
      <4> HIDE DEF revoked
      <4> QED
        BY <2>1, <2>2, <3>2, ConstantsAssumption
           DEF RowsKept, ConsentRecord, ConstantsAssumption
    <3> QED
      BY <1>3, <2>2, <3>3, AnswerSaved DEF CommitReplace, Answers, Status, ActiveStatus
  <2>3. CASE Answer(r, "error") /\ UNCHANGED consents
    BY <1>3, <2>3, SameRows, AnswerSaved DEF CommitReplace, Answers
  <2> QED
    BY <1>3, <2>2, <2>3 DEF CommitReplace
<1> QED
  BY <1>1, <1>2, <1>3

\* The portal's reads, its lazy expiry and its refusals.
LEMMA PortalBase ==
  ASSUME BaseInv, NEW r \in Requests,
         PersistExpiry(r) \/ ViewConsent(r) \/ Reload(r) \/ RefuseAction(r)
  PROVE  BaseInv'
<1>1. /\ copy[r] \in ConsentRecord /\ consents[copy[r].id] # Nil
      /\ call[r] \in PortalCall /\ copy[r].id = call[r].id
  BY DEF PersistExpiry, ViewConsent, Reload, RefuseAction, BaseInv, TypeOK, MemoryOK, RowsOK
<1>2. copy[r].id \in ConsentIDs /\ copy[r].status \in Answers
  BY <1>1 DEF ConsentRecord, Answers
<1> DEFINE row == consents[copy[r].id]
<1>3. row \in ConsentRecord /\ row.id = copy[r].id /\ row.status \in Answers
  BY <1>1, <1>2 DEF BaseInv, TypeOK, RowsOK, ConsentRecord, Answers
<1>4. CASE PersistExpiry(r)
  <2>1. CASE /\ consents' = [consents EXCEPT ![copy[r].id] = WithStatus(row, "expired")]
             /\ Answer(r, IF call[r].op = "view" THEN "expired" ELSE "conflict")
    <3>1. consents' = [consents EXCEPT ![row.id] = WithStatus(row, "expired")]
      BY <1>3, <2>1
    <3>2. consents[row.id] # Nil /\ "expired" \in Status
      BY <1>1, <1>3 DEF Status, TerminalStatus
    <3>3. RowsKept
      <4> HIDE DEF row
      <4> QED
        BY <1>3, <3>1, <3>2, SaveKeepsRows
    <3> QED
      BY <1>4, <2>1, <3>3, AnswerSaved DEF PersistExpiry, Answers, Status, TerminalStatus
  <2>2. CASE Goto(r, "reload", copy[r]) /\ UNCHANGED consents
    <3>1. RowsKept /\ consents'[copy[r].id] # Nil /\ copy[r] # Nil
      BY <1>1, <2>2, SameRows, ConstantsAssumption DEF ConstantsAssumption
    <3> QED
      BY <1>1, <1>4, <2>2, <3>1, GotoBase DEF PersistExpiry, Step
  <2> QED
    BY <1>4, <2>1, <2>2 DEF PersistExpiry
<1>5. CASE ViewConsent(r) \/ RefuseAction(r)
  <2>1. RowsKept /\ UNCHANGED <<now, built, wins>>
    BY <1>5, SameRows DEF ViewConsent, RefuseAction
  <2>2. Answer(r, copy[r].status) \/ Answer(r, "conflict")
    BY <1>5 DEF ViewConsent, RefuseAction
  <2>3. "conflict" \in Answers
    BY DEF Answers
  <2> QED
    BY <1>2, <2>1, <2>2, <2>3, AnswerSaved
<1>6. CASE Reload(r)
  <2>1. RowsKept /\ UNCHANGED <<now, consents, built, wins>>
    BY <1>6, SameRows DEF Reload
  <2>2. CASE Answer(r, row.status) \/ Answer(r, "conflict")
    <3>1. "conflict" \in Answers
      BY DEF Answers
    <3> QED
      BY <1>3, <2>1, <2>2, <3>1, AnswerSaved
  <2>3. CASE Goto(r, "reloaded", row)
    <3>1. row # Nil /\ consents'[row.id] # Nil
      BY <1>1, <1>3, <2>1
    <3> HIDE DEF row
    <3> QED
      BY <1>1, <1>3, <2>1, <2>3, <3>1, GotoBase DEF Step
  <2> QED
    BY <1>6, <2>2, <2>3 DEF Reload
<1> QED
  BY <1>4, <1>5, <1>6

\* The columns of a decision make a record of the table again.
LEMMA DecidedType ==
  ASSUME NEW row \in ConsentRecord, NEW a \in Actions, NEW t \in Nat
  PROVE  Decided(row, a, t) \in ConsentRecord /\ Decided(row, a, t).id = row.id
<1>1. t + row.duration \in Deadline
  <2>1. row.duration \in Nat
    BY ConstantsAssumption DEF ConsentRecord, ConstantsAssumption
  <2>2. \A m, n \in Nat : m + n \in Nat
    OBVIOUS
  <2> QED
    BY <2>1, <2>2 DEF Deadline
<1>2. Nil \in Deadline /\ {"approved", "rejected", "revoked"} \subseteq Status
  BY DEF Deadline, Status, ActiveStatus, TerminalStatus
<1>3. CASE a = "approve"
  BY <1>1, <1>2, <1>3 DEF Decided, ConsentRecord
<1>4. CASE a = "reject"
  BY <1>2, <1>4 DEF Decided, ConsentRecord
<1>5. CASE a = "revoke"
  BY <1>2, <1>5 DEF Decided, ConsentRecord
<1> QED
  BY <1>3, <1>4, <1>5 DEF Actions

\* The time of a decision is between the load and the update.
LEMMA DecisionTimesType ==
  ASSUME BaseInv, NEW r \in Requests
  PROVE  DecisionTimes(r) \subseteq Nat
<1>1. now \in Nat /\ readAt[r] \in Nat
  BY DEF BaseInv, TypeOK
<1>2. readAt[r]..now \subseteq Nat
  BY <1>1
<1> QED
  BY <1>1, <1>2 DEF DecisionTimes

\* The conditional UPDATE of UpdateConsentStatusByPortalAction.
LEMMA DecideBase ==
  ASSUME BaseInv, NEW r \in Requests, DecideConsent(r)
  PROVE  BaseInv'
<1>1. call[r] \in PortalCall /\ call[r].op \in Actions
  BY DEF DecideConsent, BaseInv, MemoryOK
<1>2. PICK t \in DecisionTimes(r) :
         \/ /\ consents[call[r].id] # Nil
            /\ consents' = [consents EXCEPT ![call[r].id] =
                              Decided(consents[call[r].id], call[r].op, t)]
            /\ wins' = [wins EXCEPT ![call[r].id][call[r].op] = @ + 1]
            /\ Answer(r, "ok")
         \/ Answer(r, "conflict") /\ UNCHANGED <<consents, wins>>
  BY DEF DecideConsent, WhereIdAndStatus
<1>3. now' = now /\ built' = built
  BY DEF DecideConsent
<1>4. "ok" \in Answers /\ "conflict" \in Answers
  BY DEF Answers
<1>5. CASE Answer(r, "conflict") /\ UNCHANGED <<consents, wins>>
  BY <1>3, <1>4, <1>5, SameRows, AnswerSaved
<1>6. CASE /\ consents[call[r].id] # Nil
           /\ consents' = [consents EXCEPT ![call[r].id] =
                             Decided(consents[call[r].id], call[r].op, t)]
           /\ wins' = [wins EXCEPT ![call[r].id][call[r].op] = @ + 1]
           /\ Answer(r, "ok")
  <2> DEFINE i == call[r].id
             row == Decided(consents[i], call[r].op, t)
  <2>1. i \in ConsentIDs
    BY <1>1 DEF PortalCall
  <2>2. consents[i] \in ConsentRecord /\ consents[i].id = i
    BY <1>6, <2>1 DEF BaseInv, TypeOK, RowsOK
  <2>3. t \in Nat
    BY <1>2, DecisionTimesType
  <2>4. row \in ConsentRecord /\ row.id = i
    BY <1>1, <2>2, <2>3, DecidedType
  <2>5. wins' \in [ConsentIDs -> [Actions -> Nat]]
    BY <1>1, <1>6, <2>1 DEF BaseInv, TypeOK
  <2>6. RowsKept
    <3>1. consents' = [consents EXCEPT ![i] = row]
      BY <1>6
    <3> HIDE DEF i, row
    <3> QED
      BY <2>1, <2>4, <3>1, ConstantsAssumption
         DEF BaseInv, TypeOK, RowsOK, RowsKept, ConstantsAssumption
  <2> QED
    BY <1>3, <1>4, <1>6, <2>5, <2>6, AnswerBase
<1> QED
  BY <1>2, <1>5, <1>6

\* expireStaleConsentsByOwner.
LEMMA ListBase ==
  ASSUME BaseInv, NEW o \in Owners, NEW t \in 0..now, ListConsents(o, t)
  PROVE  BaseInv'
<1>1. PICK stale \in SUBSET {i \in ConsentIDs : consents[i] # Nil} :
         consents' = [i \in ConsentIDs |->
                        IF i \in stale THEN WithStatus(consents[i], "expired")
                                       ELSE consents[i]]
  <2> DEFINE S == {i \in ConsentIDs :
                     consents[i] # Nil /\ consents[i].owner = o /\ Stale(consents[i], t)}
  <2>1. S \in SUBSET {i \in ConsentIDs : consents[i] # Nil}
    OBVIOUS
  <2>2. consents' = [i \in ConsentIDs |->
                       IF i \in S THEN WithStatus(consents[i], "expired") ELSE consents[i]]
    BY DEF ListConsents
  <2> QED
    BY <2>1, <2>2
<1>2. \A i \in stale : /\ consents[i] \in ConsentRecord /\ consents[i].id = i
                       /\ i \in ConsentIDs
  BY <1>1 DEF BaseInv, TypeOK, RowsOK
<1>3. \A i \in stale : /\ WithStatus(consents[i], "expired") \in ConsentRecord
                       /\ WithStatus(consents[i], "expired").id = i
  BY <1>2, WithStatusType DEF Status, TerminalStatus
<1>4. RowsKept
  <2>1. ASSUME NEW i \in ConsentIDs
        PROVE  /\ consents'[i] \in ConsentRecord \cup {Nil}
               /\ consents[i] # Nil => consents'[i] # Nil
               /\ consents'[i] # Nil => consents'[i].id = i
    <3>1. CASE i \in stale
      <4>1. consents'[i] = WithStatus(consents[i], "expired")
        BY <1>1, <3>1
      <4>2. consents'[i] \in ConsentRecord /\ consents'[i].id = i
        BY <1>3, <3>1, <4>1
      <4> QED
        BY <4>2, ConstantsAssumption DEF ConstantsAssumption
    <3>2. CASE i \notin stale
      BY <1>1, <3>2 DEF BaseInv, TypeOK, RowsOK
    <3> QED
      BY <3>1, <3>2
  <2>2. consents' = [i \in ConsentIDs |-> consents'[i]]
    BY <1>1
  <2>3. consents' \in [ConsentIDs -> ConsentRecord \cup {Nil}]
    BY <2>1, <2>2
  <2> QED
    BY <2>1, <2>3 DEF RowsKept
<1>5. TypeOK'
  BY <1>4 DEF ListConsents, NoReply, BaseInv, TypeOK, RowsKept
<1>6. MemoryOK'
  BY DEF ListConsents, BaseInv, MemoryOK
<1>7. RowsOK'
  BY <1>4 DEF ListConsents, BaseInv, TypeOK, RowsOK, RowsKept, ConsentRecord
<1> QED
  BY <1>5, <1>6, <1>7 DEF BaseInv

\* Time passes.
LEMMA TickBase ==
  ASSUME BaseInv, Tick
  PROVE  BaseInv'
<1>1. now' \in Nat
  BY DEF Tick, BaseInv, TypeOK
<1>2. TypeOK'
  BY <1>1 DEF Tick, NoReply, BaseInv, TypeOK
<1>3. MemoryOK' /\ RowsOK'
  BY DEF Tick, BaseInv, MemoryOK, RowsOK
<1> QED
  BY <1>2, <1>3 DEF BaseInv

\* BaseInv is inductive.
LEMMA BaseStep == BaseInv /\ [Next]_vars => BaseInv'
<1> SUFFICES ASSUME BaseInv, [Next]_vars PROVE BaseInv'
  OBVIOUS
<1>1. ASSUME NEW r \in Requests, Proceed(r)
      PROVE  BaseInv'
  BY <1>1, GetOrCreateBase, InsertBase, ReplaceBase, PortalBase, DecideBase DEF Proceed
<1>2. CASE UNCHANGED vars
  <2>1. TypeOK'
    BY <1>2 DEF vars, BaseInv, TypeOK
  <2>2. MemoryOK' /\ RowsOK'
    BY <1>2 DEF vars, BaseInv, MemoryOK, RowsOK
  <2> QED
    BY <2>1, <2>2 DEF BaseInv
<1> QED
  BY <1>1, <1>2, ArriveBase, AbortBase, ListBase, TickBase DEF Next

\* Every request at a given step has the parameters, the copy and the draft
\* the code uses there, and no row of consent_records ever has another shape.
THEOREM TypeCorrect == Spec => []TypeOK
<1>1. BaseInv => TypeOK
  BY DEF BaseInv
<1> QED
  BY <1>1, InitBase, BaseStep, PTL DEF Spec
=============================================================================
